-------------------------- MODULE SchedulingProofs --------------------------
(***************************************************************************)
(* Theorems about how gwd, its scheduler and its Information manager share *)
(* the rounds and the slots, for every number of jobs, hosts, users, faults*)
(* and reloads.                                                            *)
(*                                                                         *)
(* The scheduler computes with positions of lists and the Information      *)
(* manager scans its pool recursively. The provers know no induction over  *)
(* an operator, so the first lemmas state it of a set of natural numbers.  *)
(***************************************************************************)
EXTENDS Scheduling, FiniteSetTheorems, SequenceTheorems, NaturalsInduction,
        WellFoundedInduction, TLAPS

-----------------------------------------------------------------------------
(* Numbers, sets and sequences.                                            *)

\* A set with 0 and the successors of its members holds every natural number.
LEMMA SetInduction ==
  ASSUME NEW S, 0 \in S, \A n \in Nat : n \in S => n + 1 \in S
  PROVE  Nat \subseteq S
<1> DEFINE Less == {p \in Nat \X Nat : p[1] < p[2]}
<1>1. SUFFICES ASSUME Nat \ S # {} PROVE FALSE
  OBVIOUS
<1>2. IsWellFoundedOn(Less, Nat)
  BY NatLessThanWellFounded DEF OpToRel
<1>3. PICK x \in Nat \ S : \A y \in Nat \ S : <<y, x>> \notin Less
  <2> HIDE DEF Less
  <2> QED BY <1>1, <1>2, WFMin
<1>4. x # 0
  BY <1>3
<1>5. x - 1 \in Nat /\ x - 1 < x
  BY <1>3, <1>4
<1>6. x - 1 \in S
  BY <1>3, <1>5
<1>7. (x - 1) + 1 \in S
  BY <1>5, <1>6
<1> QED
  BY <1>3, <1>7

\* A set of natural numbers has a smallest one.
LEMMA SmallestOf ==
  ASSUME NEW S, S \subseteq Nat, S # {}
  PROVE  \E i \in S : \A k \in S : i <= k
<1> DEFINE Less == {p \in Nat \X Nat : p[1] < p[2]}
<1>1. IsWellFoundedOn(Less, Nat)
  BY NatLessThanWellFounded DEF OpToRel
<1>2. PICK x \in S : \A y \in S : <<y, x>> \notin Less
  <2> HIDE DEF Less
  <2> QED BY <1>1, WFMin
<1>3. ASSUME NEW k \in S PROVE x <= k
  <2>1. k \in Nat /\ x \in Nat /\ <<k, x>> \notin Less
    BY <1>2
  <2> QED BY <2>1
<1> QED
  BY <1>3

\* A function into a finite set that keeps its arguments apart counts them.
LEMMA CountByMap ==
  ASSUME NEW S, NEW T, IsFiniteSet(T), NEW f \in [S -> T],
         \A x, y \in S : f[x] = f[y] => x = y
  PROVE  IsFiniteSet(S) /\ Cardinality(S) <= Cardinality(T)
<1>1. f \in Injection(S, T)
  BY DEF Injection, IsInjective
<1> QED
  BY <1>1, FS_Injection

\* The positions in the order of a set.
Ordered(f, S) ==
  /\ f \in [1..Cardinality(S) -> S]
  /\ \A i, k \in 1..Cardinality(S) : i < k => f[i] < f[k]

\* Positions can be put in their order.
LEMMA OrderExists ==
  ASSUME NEW n \in Nat, NEW S \in SUBSET (1..n)
  PROVE  \E f : Ordered(f, S)
<1> DEFINE P == {m \in Nat : \A T \in SUBSET (1..m) : \E f : Ordered(f, T)}
<1>1. 0 \in P
  <2>1. ASSUME NEW T \in SUBSET (1..0) PROVE \E f : Ordered(f, T)
    <3>0. T = {}
      OBVIOUS
    <3>1. T = {} /\ Cardinality(T) = 0
      BY <3>0, FS_EmptySet
    <3>2. Ordered([i \in 1..0 |-> i], T)
      BY <3>1 DEF Ordered
    <3> QED BY <3>2
  <2> QED BY <2>1
<1>2. ASSUME NEW m \in Nat, m \in P PROVE m + 1 \in P
  <2>1. ASSUME NEW T \in SUBSET (1..(m + 1)) PROVE \E f : Ordered(f, T)
    <3> DEFINE R == T \ {m + 1}
               c == Cardinality(R)
    <3>1. R \in SUBSET (1..m)
      OBVIOUS
    <3>2. IsFiniteSet(R) /\ c \in Nat
      <4>1. IsFiniteSet(1..m)
        BY FS_Interval
      <4>2. IsFiniteSet(R)
        <5> HIDE DEF R
        <5> QED BY <3>1, <4>1, FS_Subset
      <4> QED BY <4>2, FS_CardinalityType
    <3>3. PICK f : Ordered(f, R)
      BY <1>2, <3>1
    <3>4. CASE m + 1 \notin T
      <4>1. R = T
        BY <3>4
      <4> QED BY <4>1, <3>3
    <3>5. CASE m + 1 \in T
      <4>1. m + 1 \notin R /\ R \union {m + 1} = T
        BY <3>5
      <4>2. Cardinality(R \union {m + 1}) = c + 1
        BY <3>2, <4>1, FS_AddElement
      <4>3. Cardinality(T) = c + 1
        BY <4>1, <4>2
      <4> DEFINE g == [i \in 1..(c + 1) |-> IF i = c + 1 THEN m + 1 ELSE f[i]]
      <4>4. f \in [1..c -> R] /\ \A i, k \in 1..c : i < k => f[i] < f[k]
        BY <3>3 DEF Ordered
      <4> HIDE DEF c
      <4>5. \A i \in 1..(c + 1) : i # c + 1 => i \in 1..c /\ f[i] \in R /\ f[i] \in 1..m
        <5>1. ASSUME NEW i \in 1..(c + 1), i # c + 1
              PROVE  i \in 1..c /\ f[i] \in R /\ f[i] \in 1..m
          <6>1. i \in 1..c
            BY <3>2, <5>1
          <6>2. f[i] \in R
            BY <4>4, <6>1
          <6> HIDE DEF R
          <6> QED BY <3>1, <6>1, <6>2
        <5> QED BY <5>1
      <4>6. g \in [1..(c + 1) -> T]
        BY <4>5, <3>5
      <4>7. ASSUME NEW i \in 1..(c + 1), NEW k \in 1..(c + 1), i < k
            PROVE  g[i] < g[k]
        <5>1. i # c + 1 /\ f[i] \in 1..m /\ i \in 1..c
          BY <3>2, <4>5, <4>7
        <5>2. CASE k = c + 1
          BY <5>1, <5>2
        <5>3. CASE k # c + 1
          <6>1. k \in 1..c
            BY <5>3, <4>5
          <6> QED BY <5>1, <5>3, <6>1, <4>4, <4>7
        <5> QED BY <5>2, <5>3
      <4>8. Ordered(g, T)
        BY <4>3, <4>6, <4>7 DEF Ordered
      <4> QED BY <4>8
    <3> QED BY <3>4, <3>5
  <2>2. m + 1 \in Nat
    OBVIOUS
  <2> QED BY <2>1, <2>2
<1>3. Nat \subseteq P
  <2> HIDE DEF P
  <2> QED BY <1>1, <1>2, SetInduction
<1> QED
  BY <1>3

\* InOrder is such an order, and a sequence.
LEMMA InOrderIs ==
  ASSUME NEW n \in Nat, NEW S \in SUBSET (1..n)
  PROVE  /\ IsFiniteSet(S)
         /\ Cardinality(S) \in Nat
         /\ Ordered(InOrder(S), S)
         /\ InOrder(S) \in Seq(S)
         /\ Len(InOrder(S)) = Cardinality(S)
<1>1. IsFiniteSet(S) /\ Cardinality(S) \in Nat
  <2>1. IsFiniteSet(1..n)
    BY FS_Interval
  <2>2. IsFiniteSet(S)
    BY <2>1, FS_Subset
  <2> QED BY <2>2, FS_CardinalityType
<1>2. PICK f : Ordered(f, S)
  BY OrderExists
<1>3. Ordered(InOrder(S), S)
  BY <1>2 DEF Ordered, InOrder
<1>4. InOrder(S) \in [1..Cardinality(S) -> S]
  BY <1>3 DEF Ordered
<1> DEFINE c == Cardinality(S)
           g == InOrder(S)
<1>5. c \in Nat /\ g \in [1..c -> S]
  BY <1>1, <1>4
<1>6. g \in Seq(S) /\ Len(g) = c
  <2> HIDE DEF c, g
  <2> QED BY <1>5
<1> QED
  BY <1>1, <1>3, <1>6

IsSeq(s) == s \in Seq(ToSet(s))

\* A sequence is a function on its positions.
LEMMA SeqIs ==
  ASSUME NEW S, NEW s \in Seq(S)
  PROVE  /\ IsSeq(s) /\ Len(s) \in Nat /\ DOMAIN s = 1..Len(s)
         /\ \A i \in DOMAIN s : s[i] \in S
<1>1. Len(s) \in Nat /\ s \in [1..Len(s) -> S] /\ DOMAIN s = 1..Len(s)
  BY LenProperties
<1>2. \A i \in 1..Len(s) : s[i] \in ToSet(s)
  BY <1>1 DEF ToSet
<1>3. s \in [1..Len(s) -> ToSet(s)]
  BY <1>1, <1>2
<1> DEFINE n == Len(s)
<1>4. n \in Nat /\ s \in [1..n -> ToSet(s)]
  BY <1>1, <1>3
<1>5. s \in Seq(ToSet(s))
  <2> HIDE DEF n
  <2> QED BY <1>4
<1> QED
  BY <1>1, <1>5 DEF IsSeq

\* A function on the first n numbers is a sequence.
LEMMA FunctionIs ==
  ASSUME NEW n \in Nat, NEW s, DOMAIN s = 1..n, s = [i \in DOMAIN s |-> s[i]]
  PROVE  IsSeq(s) /\ Len(s) = n
<1>1. \A i \in 1..n : s[i] \in ToSet(s)
  BY DEF ToSet
<1>2. s \in [1..n -> ToSet(s)]
  BY <1>1
<1> QED
  BY <1>2 DEF IsSeq

\* The length and the entries of a concatenation.
LEMMA ConcatIs ==
  ASSUME NEW s, NEW t, IsSeq(s), IsSeq(t)
  PROVE  /\ IsSeq(s \o t)
         /\ Len(s) \in Nat /\ Len(t) \in Nat
         /\ DOMAIN s = 1..Len(s) /\ DOMAIN t = 1..Len(t)
         /\ DOMAIN (s \o t) = 1..(Len(s) + Len(t))
         /\ Len(s \o t) = Len(s) + Len(t)
         /\ \A i \in 1..Len(s) : (s \o t)[i] = s[i]
         /\ \A i \in 1..Len(t) : (s \o t)[Len(s) + i] = t[i]
<1> DEFINE S == ToSet(s) \union ToSet(t)
<1>1. s \in Seq(ToSet(s)) /\ t \in Seq(ToSet(t))
  BY DEF IsSeq
<1>2. s \in Seq(S) /\ t \in Seq(S)
  <2>1. ToSet(s) \subseteq S /\ ToSet(t) \subseteq S
    OBVIOUS
  <2> HIDE DEF S
  <2> QED BY <1>1, <2>1, SeqMonotonic
<1> HIDE DEF S
<1>3. s \o t \in Seq(S) /\ Len(s \o t) = Len(s) + Len(t)
  BY <1>2, ConcatProperties
<1>4. /\ Len(s) \in Nat /\ Len(t) \in Nat
      /\ DOMAIN s = 1..Len(s) /\ DOMAIN t = 1..Len(t)
      /\ DOMAIN (s \o t) = 1..Len(s \o t)
      /\ IsSeq(s \o t)
  BY <1>2, <1>3, SeqIs
<1>5. \A i \in 1..(Len(s) + Len(t)) :
        (s \o t)[i] = IF i <= Len(s) THEN s[i] ELSE t[i - Len(s)]
  BY <1>2, ConcatProperties
<1>6. \A i \in 1..Len(s) : (s \o t)[i] = s[i]
  BY <1>4, <1>5
<1>7. ASSUME NEW i \in 1..Len(t) PROVE (s \o t)[Len(s) + i] = t[i]
  <2>1. Len(s) + i \in 1..(Len(s) + Len(t)) /\ ~(Len(s) + i <= Len(s))
    BY <1>4
  <2>2. (Len(s) + i) - Len(s) = i
    BY <1>4
  <2> QED BY <1>5, <2>1, <2>2
<1> QED
  BY <1>3, <1>4, <1>6, <1>7

\* The length and the entries of a tail.
LEMMA TailIs ==
  ASSUME NEW s, IsSeq(s), s # <<>>
  PROVE  /\ IsSeq(Tail(s))
         /\ Len(s) \in Nat \ {0}
         /\ DOMAIN s = 1..Len(s)
         /\ Len(Tail(s)) = Len(s) - 1
         /\ DOMAIN Tail(s) = 1..(Len(s) - 1)
         /\ Head(s) = s[1]
         /\ \A i \in 1..(Len(s) - 1) : Tail(s)[i] = s[i + 1]
<1>1. s \in Seq(ToSet(s))
  BY DEF IsSeq
<1>2. Tail(s) \in Seq(ToSet(s)) /\ Len(Tail(s)) = Len(s) - 1
      /\ \A i \in 1..Len(Tail(s)) : Tail(s)[i] = s[i + 1]
  BY <1>1, HeadTailProperties
<1>3. IsSeq(Tail(s)) /\ DOMAIN Tail(s) = 1..Len(Tail(s)) /\ DOMAIN s = 1..Len(s)
  BY <1>1, <1>2, SeqIs
<1>4. Len(s) \in Nat \ {0} /\ Head(s) = s[1]
  BY <1>1
<1> QED
  BY <1>2, <1>3, <1>4

\* A sequence of one message.
LEMMA OneIs ==
  ASSUME NEW m
  PROVE  IsSeq(<<m>>) /\ Len(<<m>>) = 1 /\ DOMAIN <<m>> = 1..1 /\ <<m>>[1] = m
<1>1. <<m>> \in Seq({m}) /\ Len(<<m>>) = 1
  OBVIOUS
<1> QED
  BY <1>1, SeqIs

\* The empty sequence.
LEMMA EmptyIs == IsSeq(<<>>) /\ Len(<<>>) = 0 /\ DOMAIN <<>> = {}
<1>1. <<>> \in Seq({}) /\ Len(<<>>) = 0 /\ DOMAIN <<>> = {}
  OBVIOUS
<1> QED
  BY <1>1, SeqIs

\* A sequence without one of its entries is a sequence.
LEMMA RemoveIs ==
  ASSUME NEW s, IsSeq(s), NEW i \in DOMAIN s
  PROVE  IsSeq(RemoveAt(s, i))
<1> DEFINE S == ToSet(s)
<1>1. s \in Seq(S)
  BY DEF IsSeq
<1>2. Len(s) \in Nat /\ i \in 1..Len(s) /\ \A k \in 1..Len(s) : s[k] \in S
  BY <1>1, SeqIs
<1> HIDE DEF S
<1>3. SubSeq(s, 1, i - 1) \in Seq(S)
  BY <1>1, <1>2
<1>4. SubSeq(s, i + 1, Len(s)) \in Seq(S)
  BY <1>1, <1>2
<1>5. SubSeq(s, 1, i - 1) \o SubSeq(s, i + 1, Len(s)) \in Seq(S)
  BY <1>3, <1>4, ConcatProperties
<1> QED
  BY <1>5, SeqIs DEF RemoveAt

\* A set put into a sequence.
LEMMA SetToSeqIs ==
  ASSUME NEW S, IsFiniteSet(S)
  PROVE  /\ SetToSeq(S) \in Seq(S) /\ IsSeq(SetToSeq(S))
         /\ Len(SetToSeq(S)) = Cardinality(S)
         /\ IsInjective(SetToSeq(S))
<1> DEFINE c == Cardinality(S)
<1>1. c \in Nat /\ ExistsBijection(1..c, S)
  BY FS_CardinalityType
<1>2. PICK f \in [1..c -> S] : IsInjective(f)
  BY <1>1 DEF ExistsBijection, Bijection, Injection
<1>3. SetToSeq(S) \in [1..c -> S] /\ IsInjective(SetToSeq(S))
  BY <1>2 DEF SetToSeq
<1>4. SetToSeq(S) \in Seq(S) /\ Len(SetToSeq(S)) = c
  <2> HIDE DEF c
  <2> QED BY <1>1, <1>3
<1> QED
  BY <1>3, <1>4, SeqIs

-----------------------------------------------------------------------------
(* The sentences in a pipe.                                                *)

\* Sentences in whose number those of act do not count.
Plain(ms) == IsSeq(ms) /\ Held(ms, "SCHEDULE") = {}

\* Messages that are not act, appended, leave the places of act.
LEMMA HeldConcat ==
  ASSUME NEW q, NEW ms, NEW act, IsSeq(q), IsSeq(ms), Held(ms, act) = {}
  PROVE  Held(q \o ms, act) = Held(q, act)
<1>1. /\ Len(q) \in Nat /\ Len(ms) \in Nat
      /\ DOMAIN q = 1..Len(q) /\ DOMAIN ms = 1..Len(ms)
      /\ DOMAIN (q \o ms) = 1..(Len(q) + Len(ms))
      /\ \A i \in 1..Len(q) : (q \o ms)[i] = q[i]
      /\ \A i \in 1..Len(ms) : (q \o ms)[Len(q) + i] = ms[i]
  BY ConcatIs
<1>2. ASSUME NEW i \in 1..(Len(q) + Len(ms)), i \notin 1..Len(q)
      PROVE  (q \o ms)[i].act # act
  <2>1. i - Len(q) \in 1..Len(ms) /\ Len(q) + (i - Len(q)) = i
    BY <1>1, <1>2
  <2>2. (q \o ms)[i] = ms[i - Len(q)]
    BY <1>1, <2>1
  <2> QED
    BY <1>1, <2>1, <2>2 DEF Held
<1>3. 1..Len(q) \subseteq 1..(Len(q) + Len(ms))
  BY <1>1
<1> QED
  BY <1>1, <1>2, <1>3 DEF Held

\* One more sentence at the end.
LEMMA HeldLast ==
  ASSUME NEW q, NEW ms, NEW m, IsSeq(q), IsSeq(ms), Held(ms, m.act) = {},
         Held(q, m.act) = {}
  PROVE  Held(q \o (ms \o <<m>>), m.act) = {Len(q) + Len(ms) + 1}
<1> DEFINE r == ms \o <<m>>
<1>0. IsSeq(<<m>>) /\ Len(<<m>>) = 1 /\ <<m>>[1] = m
  BY OneIs
<1>1. /\ IsSeq(r) /\ Len(ms) \in Nat /\ Len(r) = Len(ms) + 1
      /\ \A i \in 1..Len(ms) : r[i] = ms[i]
      /\ DOMAIN ms = 1..Len(ms)
  BY <1>0, ConcatIs
<1>2. r[Len(ms) + 1] = m
  <2>1. 1 \in 1..Len(<<m>>)
    BY <1>0
  <2> QED BY <1>0, <2>1, ConcatIs
<1> HIDE DEF r
<1>3. /\ Len(q) \in Nat /\ DOMAIN q = 1..Len(q)
      /\ DOMAIN (q \o r) = 1..(Len(q) + Len(r))
      /\ \A i \in 1..Len(q) : (q \o r)[i] = q[i]
      /\ \A i \in 1..Len(r) : (q \o r)[Len(q) + i] = r[i]
  BY <1>1, ConcatIs
<1>4. ASSUME NEW i \in 1..Len(q) PROVE (q \o r)[i].act # m.act
  BY <1>3 DEF Held
<1>5. ASSUME NEW i \in 1..Len(ms) PROVE (q \o r)[Len(q) + i].act # m.act
  <2>1. i \in 1..Len(r)
    BY <1>1
  <2> QED BY <1>1, <1>3, <2>1 DEF Held
<1>6. (q \o r)[Len(q) + Len(ms) + 1] = m
  <2>1. Len(ms) + 1 \in 1..Len(r) /\ Len(q) + (Len(ms) + 1) = Len(q) + Len(ms) + 1
    BY <1>1, <1>3
  <2> QED BY <1>2, <1>3, <2>1
<1>7. ASSUME NEW i \in 1..(Len(q) + Len(r)), i # Len(q) + Len(ms) + 1
      PROVE  (q \o r)[i].act # m.act
  <2>1. CASE i \in 1..Len(q)
    BY <1>4, <2>1
  <2>2. CASE i \notin 1..Len(q)
    <3>1. i - Len(q) \in 1..Len(ms) /\ Len(q) + (i - Len(q)) = i
      BY <1>1, <1>3, <1>7, <2>2
    <3> QED BY <1>5, <3>1
  <2> QED BY <2>1, <2>2
<1>8. Len(q) + Len(ms) + 1 \in 1..(Len(q) + Len(r))
  BY <1>1, <1>3
<1>9. Held(q \o r, m.act) = {Len(q) + Len(ms) + 1}
  BY <1>3, <1>6, <1>7, <1>8 DEF Held
<1> QED
  BY <1>9 DEF r

\* Taking the first message moves the places of act down by one.
LEMMA HeldTail ==
  ASSUME NEW q, NEW act, IsSeq(q), q # <<>>
  PROVE  /\ \A i \in Held(Tail(q), act) : i + 1 \in Held(q, act) /\ i \in Nat \ {0}
         /\ \A i \in Held(q, act) : i # 1 => i - 1 \in Held(Tail(q), act)
<1>1. /\ Len(q) \in Nat \ {0} /\ DOMAIN q = 1..Len(q)
      /\ DOMAIN Tail(q) = 1..(Len(q) - 1)
      /\ \A i \in 1..(Len(q) - 1) : Tail(q)[i] = q[i + 1]
  BY TailIs
<1>2. ASSUME NEW i \in 1..(Len(q) - 1), Tail(q)[i].act = act
      PROVE  i + 1 \in 1..Len(q) /\ q[i + 1].act = act /\ i \in Nat \ {0}
  BY <1>1, <1>2
<1>3. ASSUME NEW i \in 1..Len(q), q[i].act = act, i # 1
      PROVE  i - 1 \in 1..(Len(q) - 1) /\ Tail(q)[i - 1].act = act
  <2>1. i - 1 \in 1..(Len(q) - 1) /\ (i - 1) + 1 = i
    BY <1>1, <1>3
  <2> QED BY <1>1, <1>3, <2>1
<1> QED
  BY <1>1, <1>2, <1>3 DEF Held

\* Messages none of which asks for a round.
LEMMA PlainConcat ==
  ASSUME NEW s, NEW t, Plain(s), Plain(t)
  PROVE  Plain(s \o t)
  BY HeldConcat, ConcatIs DEF Plain

\* The same for one message ...
LEMMA PlainOne ==
  ASSUME NEW m, m.act # "SCHEDULE"
  PROVE  Plain(<<m>>)
  BY OneIs DEF Plain, Held

\* ... for one that is sent on a condition ...
LEMMA PlainIf ==
  ASSUME NEW m, m.act # "SCHEDULE", NEW test
  PROVE  Plain(If(test, m))
<1>1. If(test, m) = <<m>> \/ If(test, m) = <<>>
  BY DEF If
<1> QED
  BY <1>1, PlainOne, EmptyIs DEF Plain, Held

\* ... for two ...
LEMMA PlainTwo ==
  ASSUME NEW m, NEW n, m.act # "SCHEDULE", n.act # "SCHEDULE"
  PROVE  Plain(<<m, n>>)
<1>1. <<m, n>> \in Seq({m, n}) /\ DOMAIN <<m, n>> = 1..2
      /\ <<m, n>>[1] = m /\ <<m, n>>[2] = n
  OBVIOUS
<1>2. \A i \in 1..2 : i = 1 \/ i = 2
  OBVIOUS
<1> QED
  BY <1>1, <1>2, SeqIs DEF Plain, Held

\* ... for three ...
LEMMA PlainThree ==
  ASSUME NEW m, NEW n, NEW o, m.act # "SCHEDULE", n.act # "SCHEDULE", o.act # "SCHEDULE"
  PROVE  Plain(<<m, n, o>>)
<1>1. <<m, n, o>> \in Seq({m, n, o}) /\ DOMAIN <<m, n, o>> = 1..3
      /\ <<m, n, o>>[1] = m /\ <<m, n, o>>[2] = n /\ <<m, n, o>>[3] = o
  OBVIOUS
<1>2. \A i \in 1..3 : i = 1 \/ i = 2 \/ i = 3
  OBVIOUS
<1> QED
  BY <1>1, <1>2, SeqIs DEF Plain, Held

\* ... and for four.
LEMMA PlainFour ==
  ASSUME NEW m, NEW n, NEW o, NEW p, m.act # "SCHEDULE", n.act # "SCHEDULE",
         o.act # "SCHEDULE", p.act # "SCHEDULE"
  PROVE  Plain(<<m, n, o, p>>)
<1>1. <<m, n, o, p>> \in Seq({m, n, o, p}) /\ DOMAIN <<m, n, o, p>> = 1..4
      /\ <<m, n, o, p>>[1] = m /\ <<m, n, o, p>>[2] = n /\ <<m, n, o, p>>[3] = o
      /\ <<m, n, o, p>>[4] = p
  OBVIOUS
<1>2. \A i \in 1..4 : i = 1 \/ i = 2 \/ i = 3 \/ i = 4
  OBVIOUS
<1> QED
  BY <1>1, <1>2, SeqIs DEF Plain, Held

\* Sentences made of the members of a sequence.
LEMMA PlainMap ==
  ASSUME NEW s, IsSeq(s), NEW ms, DOMAIN ms = DOMAIN s, ms = [i \in DOMAIN ms |-> ms[i]],
         \A i \in DOMAIN s : ms[i].act # "SCHEDULE"
  PROVE  Plain(ms)
<1>1. Len(s) \in Nat /\ DOMAIN s = 1..Len(s)
  BY SeqIs DEF IsSeq
<1> QED
  BY <1>1, FunctionIs DEF Plain, Held

-----------------------------------------------------------------------------
(* One round at a time.                                                    *)

Asked == Held(inq, "SCHEDULE")
Ended == Held(out, "SCHEDULE_END")

Pipes == IsSeq(inq) /\ IsSeq(out) /\ IsSeq(jobs) /\ IsSeq(pool)

\* A dead scheduler has nothing to read and no round.
DeadIsEmpty == ~alive => inq = <<>> /\ round = NoRound

\* A round is in one place: in a sweep, in the pipe to the scheduler, under way,
\* or in the pipe to gwd.
OnePlace ==
  /\ \A i, k \in Asked : i = k
  /\ \A i, k \in Ended : i = k
  /\ sweep => Asked = {}
  /\ sweep \/ Asked # {} => round = NoRound
  /\ sweep \/ Asked # {} \/ round # NoRound => Ended = {}

\* gwd knows: gw_dm.scheduling is set, and the scheduler is not being reloaded.
FlagSet ==
  /\ sweep \/ Asked # {} \/ round # NoRound \/ Ended # {} => scheduling /\ reload = "NO"
  /\ reload # "NO" => scheduling

RoundInv == Pipes /\ DeadIsEmpty /\ OnePlace /\ FlagSet

\* No reload begins between the setting of the flag and the SCHEDULE that follows.
CalmReload == reload = "NO" /\ reload' = "USERS" => ~sweep

\* gwd may have told the scheduler something, but not of a round.
Talks == inq' = inq \/ (alive /\ \E ms : Plain(ms) /\ inq' = inq \o ms)

\* Writing such messages to the scheduler asks for no round.
LEMMA WriteTalks ==
  ASSUME NEW ms, Plain(ms), Write(ms)
  PROVE  Talks
  BY DEF Write, Talks

USE DEF USER_ADD, USER_DEL, HOST_MONITOR, JOB_SCHEDULE, JOB_DEL, JOB_FAILED, JOB_SUCCESS

\* What the DM and the UM do outside the sweep.
LEMMA GwdTalks ==
  ASSUME Gwd, ~SweepBegins, ~SweepEnds
  PROVE  Talks /\ UNCHANGED <<scheduling, sweep, reload>>
<1>1. ASSUME NEW s \in Submissions, Lookup(s) PROVE Talks /\ UNCHANGED <<scheduling, sweep, reload>>
  <2>1. inq' = inq \/ \E u : Write(<<USER_ADD(u)>>)
    BY <1>1 DEF Lookup
  <2>2. \A u : Plain(<<USER_ADD(u)>>)
    BY PlainOne
  <2>3. Talks
    BY <2>1, <2>2, WriteTalks DEF Talks
  <2> QED BY <1>1, <2>3 DEF Lookup
<1>2. CASE Fill
  <2>1. inq' = inq \/ \E j : Write(<<JOB_SCHEDULE(j, "NONE")>>)
    BY <1>2 DEF Fill
  <2>2. \A j : Plain(<<JOB_SCHEDULE(j, "NONE")>>)
    BY PlainOne
  <2>3. Talks
    BY <2>1, <2>2, WriteTalks DEF Talks
  <2> QED BY <1>2, <2>3 DEF Fill
<1>3. CASE Submitted
  <2>1. PICK t1, t2, u, j : Write(If(t1, USER_ADD(u)) \o If(t2, JOB_SCHEDULE(j, "NONE")))
    BY <1>3 DEF Submitted
  <2>2. Plain(If(t1, USER_ADD(u))) /\ Plain(If(t2, JOB_SCHEDULE(j, "NONE")))
    BY PlainIf
  <2>3. Talks
    BY <2>1, <2>2, PlainConcat, WriteTalks
  <2> QED BY <1>3, <2>3 DEF Submitted
<1>4. ASSUME NEW u \in UserIds, UserIdle(u) PROVE Talks /\ UNCHANGED <<scheduling, sweep, reload>>
  <2>1. Write(<<USER_DEL(u)>>) /\ Plain(<<USER_DEL(u)>>)
    BY <1>4, PlainOne DEF UserIdle
  <2> QED BY <1>4, <2>1, WriteTalks DEF UserIdle
<1>5. ASSUME NEW j \in Jobs, Freed(j) PROVE Talks /\ UNCHANGED <<scheduling, sweep, reload>>
  <2>1. PICK t1, t2, u : Write(If(t1, JOB_DEL(j)) \o If(t2, USER_ADD(u)))
    BY <1>5 DEF Freed
  <2>2. Plain(If(t1, JOB_DEL(j))) /\ Plain(If(t2, USER_ADD(u)))
    BY PlainIf
  <2>3. Talks
    BY <2>1, <2>2, PlainConcat, WriteTalks
  <2> QED BY <1>5, <2>3 DEF Freed
<1>6. ASSUME NEW j \in Jobs, Prolog(j) PROVE Talks /\ UNCHANGED <<scheduling, sweep, reload>>
  BY <1>6 DEF Prolog, Talks
<1>7. ASSUME NEW j \in Jobs, EndOk(j) PROVE Talks /\ UNCHANGED <<scheduling, sweep, reload>>
  <2>1. PICK t, u, h : Write(If(t, JOB_DEL(j)) \o <<USER_ADD(u), HOST_MONITOR(h), JOB_SUCCESS(j)>>)
    BY <1>7 DEF EndOk
  <2>2. Plain(If(t, JOB_DEL(j))) /\ Plain(<<USER_ADD(u), HOST_MONITOR(h), JOB_SUCCESS(j)>>)
    BY PlainIf, PlainThree
  <2>3. Talks
    BY <2>1, <2>2, PlainConcat, WriteTalks
  <2> QED BY <1>7, <2>3 DEF EndOk
<1>8. ASSUME NEW j \in Jobs, EndFail(j) PROVE Talks /\ UNCHANGED <<scheduling, sweep, reload>>
  <2>1. PICK t, u, h :
          Write(If(t, JOB_DEL(j)) \o
                <<USER_ADD(u), HOST_MONITOR(h), JOB_FAILED(j), JOB_SCHEDULE(j, "NONE")>>)
    BY <1>8 DEF EndFail
  <2>2. Plain(If(t, JOB_DEL(j)))
        /\ Plain(<<USER_ADD(u), HOST_MONITOR(h), JOB_FAILED(j), JOB_SCHEDULE(j, "NONE")>>)
    BY PlainIf, PlainFour
  <2>3. Talks
    BY <2>1, <2>2, PlainConcat, WriteTalks
  <2> QED BY <1>8, <2>3 DEF EndFail
<1>9. ASSUME NEW j \in Jobs, Reschedule(j) PROVE Talks /\ UNCHANGED <<scheduling, sweep, reload>>
  <2>1. Write(<<JOB_SCHEDULE(j, "USER_REQUESTED")>>) /\ Plain(<<JOB_SCHEDULE(j, "USER_REQUESTED")>>)
    BY <1>9, PlainOne DEF Reschedule
  <2> QED BY <1>9, <2>1, WriteTalks DEF Reschedule
<1>10. ASSUME NEW j \in Jobs, Migrated(j) PROVE Talks /\ UNCHANGED <<scheduling, sweep, reload>>
  <2>1. PICK h : Write(<<HOST_MONITOR(h)>>)
    BY <1>10 DEF Migrated
  <2>2. Plain(<<HOST_MONITOR(h)>>)
    BY PlainOne
  <2> QED BY <1>10, <2>1, <2>2, WriteTalks DEF Migrated
<1> QED
  BY <1>1, <1>2, <1>3, <1>4, <1>5, <1>6, <1>7, <1>8, <1>9, <1>10 DEF Gwd

\* What the listener tells the scheduler when it applies an answer about a job.
LEMMA ListenTalks ==
  ASSUME NEW m, ListenJob(m)
  PROVE  Talks /\ UNCHANGED scheduling
<1>1. ASSUME NEW j, Uncheck(j) PROVE Talks
  <2>1. Plain(<<JOB_DEL(j)>>)
    BY PlainOne
  <2> QED BY <1>1, <2>1, WriteTalks DEF Uncheck, Talks
<1>2. ASSUME NEW j, NEW h, DispatchPending(j, h) PROVE Talks
  <2>1. PICK u : Write(<<HOST_MONITOR(h), USER_ADD(u)>>)
    BY <1>2 DEF DispatchPending
  <2>2. Plain(<<HOST_MONITOR(h), USER_ADD(u)>>)
    BY PlainTwo
  <2> QED BY <2>1, <2>2, WriteTalks
<1>3. ASSUME NEW j, NEW h, DispatchRunning(j, h) PROVE Talks
  <2>1. Plain(<<JOB_DEL(j)>>) /\ Plain(<<HOST_MONITOR(h)>>)
    BY PlainOne
  <2>2. Write(<<HOST_MONITOR(h)>>) \/ Write(<<JOB_DEL(j)>>)
    BY <1>3 DEF DispatchRunning
  <2> QED BY <2>1, <2>2, WriteTalks
<1> QED
  BY <1>1, <1>2, <1>3 DEF ListenJob, Talks

\* What is written to a new scheduler.
LEMMA ReloadTalks ==
  ASSUME Pipes, Reload
  PROVE  Talks
<1>1. CASE reload = "USERS"
  <2> DEFINE known == SetToSeq({u \in UserIds : upool[u] # NoUser})
             ms == [i \in DOMAIN known |-> USER_ADD(known[i])]
  <2>1. IsFiniteSet({u \in UserIds : upool[u] # NoUser})
    BY SchedulerAssumption, FS_Subset
  <2>2. IsSeq(known)
    BY <2>1, SetToSeqIs
  <2>3. Plain(ms)
    <3> HIDE DEF known
    <3> QED BY <2>2, PlainMap
  <2>4. Write(ms)
    BY <1>1 DEF Reload
  <2> QED BY <2>3, <2>4, WriteTalks
<1>2. CASE reload = "HOSTS"
  <2> DEFINE ms == [i \in DOMAIN pool |-> HOST_MONITOR(pool[i])]
  <2>1. Plain(ms)
    BY PlainMap DEF Pipes
  <2>2. Write(ms)
    BY <1>2 DEF Reload
  <2> QED BY <2>1, <2>2, WriteTalks
<1>3. CASE reload = "JOBS"
  <2> DEFINE pending == SetToSeq({j \in Jobs : job[j].state = "PENDING"})
             ms == [i \in DOMAIN pending |-> JOB_SCHEDULE(pending[i], "NONE")]
  <2>1. IsFiniteSet({j \in Jobs : job[j].state = "PENDING"})
    BY SchedulerAssumption, FS_Subset
  <2>2. IsSeq(pending)
    BY <2>1, SetToSeqIs
  <2>3. Plain(ms)
    <3> HIDE DEF pending
    <3> QED BY <2>2, PlainMap
  <2>4. Write(ms)
    BY <1>3 DEF Reload
  <2> QED BY <2>3, <2>4, WriteTalks
<1>4. CASE reload \notin {"USERS", "HOSTS", "JOBS"}
  BY <1>4 DEF Reload, Talks
<1> QED
  BY <1>1, <1>2, <1>3, <1>4

\* A step of gwd that asks for no round leaves what was asked.
LEMMA TalkKeeps ==
  ASSUME Pipes, Talks
  PROVE  IsSeq(inq') /\ Asked' = Asked /\ (~alive => inq' = inq)
<1>1. ASSUME NEW ms, Plain(ms)
      PROVE  IsSeq(inq \o ms) /\ Held(inq \o ms, "SCHEDULE") = Asked
  BY <1>1, HeldConcat, ConcatIs DEF Pipes, Plain, Asked
<1>2. CASE inq' = inq
  BY <1>2 DEF Asked, Pipes
<1>3. ASSUME NEW ms, Plain(ms), inq' = inq \o ms, alive
      PROVE  IsSeq(inq') /\ Asked' = Asked
  <2>1. IsSeq(inq \o ms) /\ Held(inq \o ms, "SCHEDULE") = Asked
    BY <1>1, <1>3
  <2> QED BY <1>3, <2>1 DEF Asked
<1> QED
  BY <1>2, <1>3 DEF Talks

\* The steps of gwd that leave the rounds alone.
LEMMA QuietRound ==
  ASSUME RoundInv, Talks, UNCHANGED <<alive, jobs, round, out, scheduling, sweep, reload>>,
         IsSeq(pool')
  PROVE  RoundInv'
<1>1. IsSeq(inq') /\ Asked' = Asked /\ (~alive => inq' = inq)
  BY TalkKeeps DEF RoundInv
<1>2. Ended' = Ended
  BY DEF Ended
<1> QED
  BY <1>1, <1>2 DEF RoundInv, Pipes, DeadIsEmpty, OnePlace, FlagSet

\* The scheduler takes a message: a round that was asked for is asked no more when it
\* is SCHEDULE.
LEMMA TakeKeeps ==
  ASSUME NEW act, Pipes, OnePlace, Take(act)
  PROVE  /\ IsSeq(inq')
         /\ act # "SCHEDULE" => (Asked' = {} <=> Asked = {})
                                /\ \A i, k \in Asked' : i = k
         /\ act = "SCHEDULE" => Asked # {} /\ Asked' = {}
<1>0. inq # <<>> /\ inq' = Tail(inq) /\ Head(inq).act = act /\ IsSeq(inq)
  BY DEF Take, Pipes
<1>1. /\ IsSeq(Tail(inq)) /\ Len(inq) \in Nat \ {0} /\ DOMAIN inq = 1..Len(inq)
      /\ Head(inq) = inq[1]
  BY <1>0, TailIs
<1>2. /\ \A i \in Asked' : i + 1 \in Asked /\ i \in Nat \ {0}
      /\ \A i \in Asked : i # 1 => i - 1 \in Asked'
  BY <1>0, HeldTail DEF Asked
<1>3. 1 \in Asked <=> act = "SCHEDULE"
  BY <1>0, <1>1 DEF Asked, Held
<1>4. \A i, k \in Asked : i = k
  BY DEF OnePlace
<1>5. ASSUME NEW i \in Asked', NEW k \in Asked' PROVE i = k
  BY <1>2, <1>4
<1>6. CASE act # "SCHEDULE"
  BY <1>0, <1>1, <1>2, <1>3, <1>5, <1>6
<1>7. CASE act = "SCHEDULE"
  <2>1. ASSUME NEW i \in Asked' PROVE FALSE
    <3>1. i + 1 \in Asked /\ 1 \in Asked /\ i \in Nat \ {0}
      BY <1>2, <1>3, <1>7
    <3>2. i + 1 = 1
      BY <1>4, <3>1
    <3> QED BY <3>1, <3>2
  <2> QED BY <1>0, <1>1, <1>3, <1>7, <2>1
<1> QED
  BY <1>6, <1>7

\* The handlers that update the tables of the scheduler touch no round.
LEMMA UpdateRound ==
  ASSUME RoundInv, HandleUpdate, UNCHANGED <<scheduling, sweep, reload, pool>>
  PROVE  RoundInv'
<1>1. PICK act \in {"USER_ADD", "HOST_MONITOR", "USER_DEL", "JOB_SCHEDULE", "JOB_DEL",
                    "JOB_FAILED", "JOB_SUCCESS"} : Take(act)
  BY DEF HandleUpdate
<1>2. IsSeq(inq') /\ (Asked' = {} <=> Asked = {}) /\ \A i, k \in Asked' : i = k
  BY <1>1, TakeKeeps DEF RoundInv
<1>3. ASSUME NEW m, JobAdd(m) PROVE IsSeq(jobs')
  <2>1. PICK e : jobs' = jobs \/ jobs' = Append(jobs, e)
    BY <1>3 DEF JobAdd
  <2>2. IsSeq(Append(jobs, e))
    <3> DEFINE S == ToSet(jobs) \union {e}
    <3>1. jobs \in Seq(ToSet(jobs)) /\ ToSet(jobs) \subseteq S
      BY DEF RoundInv, Pipes, IsSeq
    <3>2. Append(jobs, e) \in Seq(S)
      <4>1. jobs \in Seq(S)
        <5> HIDE DEF S
        <5> QED BY <3>1, SeqMonotonic
      <4>2. e \in S
        OBVIOUS
      <4> HIDE DEF S
      <4> QED BY <4>1, <4>2
    <3> QED BY <3>2, SeqIs
  <2> QED BY <2>1, <2>2 DEF RoundInv, Pipes
<1>4. ASSUME NEW m, JobDel(m) PROVE IsSeq(jobs')
  <2> DEFINE mine == {i \in DOMAIN jobs : jobs[i].jid = m.jid}
             at == CHOOSE i \in mine : \A k \in mine : i <= k
  <2>1. jobs' = jobs \/ jobs' = RemoveAt(jobs, at)
    BY <1>4 DEF JobDel
  <2>2. CASE mine = {}
    BY <1>4, <2>2 DEF JobDel, RoundInv, Pipes
  <2>3. CASE mine # {}
    <3>1. \E i \in mine : \A k \in mine : i <= k
      <4>1. mine \subseteq Nat
        BY SeqIs DEF RoundInv, Pipes, IsSeq
      <4> HIDE DEF mine
      <4> QED BY <2>3, <4>1, SmallestOf
    <3>2. at \in DOMAIN jobs
      BY <3>1
    <3> HIDE DEF at
    <3> QED BY <2>1, <3>2, RemoveIs DEF RoundInv, Pipes
  <2> QED BY <2>2, <2>3
<1>5. IsSeq(jobs')
  BY <1>3, <1>4 DEF HandleUpdate, AddUser, AddHost, DelUser, JobFailed, JobSuccess,
                    RoundInv, Pipes
<1>6. UNCHANGED <<alive, round, out>> /\ alive /\ round = NoRound /\ Ended' = Ended
  BY <1>1 DEF HandleUpdate, Take, Ended
<1> QED
  BY <1>2, <1>5, <1>6 DEF RoundInv, Pipes, DeadIsEmpty, OnePlace, FlagSet

\* gw_scheduler_loop, SCHEDULE: the round that was asked for begins.
LEMMA ScheduleRound ==
  ASSUME RoundInv, HandleSchedule, UNCHANGED <<scheduling, sweep, reload, pool>>
  PROVE  RoundInv'
<1>1. IsSeq(inq') /\ Asked # {} /\ Asked' = {} /\ round = NoRound
  BY TakeKeeps DEF RoundInv, HandleSchedule, Take
<1>2. Ended = {} /\ ~sweep /\ scheduling /\ reload = "NO" /\ alive /\ alive'
  BY <1>1 DEF RoundInv, OnePlace, FlagSet, HandleSchedule, Take
<1>3. UNCHANGED jobs
  BY DEF HandleSchedule, tables
<1>4. CASE UNCHANGED out
  <2>1. Ended' = {}
    BY <1>2, <1>4 DEF Ended
  <2> QED
    BY <1>1, <1>2, <1>3, <1>4, <2>1 DEF RoundInv, Pipes, DeadIsEmpty, OnePlace, FlagSet
<1>5. CASE Answer(<<[act |-> "SCHEDULE_END"]>>) /\ UNCHANGED round
  <2> DEFINE m == [act |-> "SCHEDULE_END"]
  <2>1. <<>> \o <<m>> = <<m>>
    OBVIOUS
  <2>2. Held(<<>>, m.act) = {} /\ IsSeq(<<>>)
    BY EmptyIs DEF Held
  <2>3. Held(out \o (<<>> \o <<m>>), m.act) = {Len(out) + Len(<<>>) + 1}
    <3>1. Held(out, m.act) = {}
      BY <1>2 DEF Ended
    <3>2. IsSeq(out)
      BY DEF RoundInv, Pipes
    <3> HIDE DEF m
    <3> QED BY <3>1, <3>2, <2>2, HeldLast
  <2>4. Ended' = {Len(out) + Len(<<>>) + 1}
    BY <1>5, <2>1, <2>3 DEF Answer, Ended
  <2>5. IsSeq(out')
    BY <1>5, OneIs, ConcatIs DEF Answer, RoundInv, Pipes
  <2> QED
    BY <1>1, <1>2, <1>3, <1>5, <2>4, <2>5
       DEF RoundInv, Pipes, DeadIsEmpty, OnePlace, FlagSet
<1> QED
  BY <1>4, <1>5 DEF HandleSchedule

\* A scheduler that dies takes the round and what it was asked with it.
LEMMA DieRound ==
  ASSUME RoundInv, Die, UNCHANGED <<scheduling, sweep, reload, pool>>
  PROVE  RoundInv'
<1>1. Asked' = {} /\ Ended' = Ended /\ IsSeq(inq') /\ IsSeq(jobs')
  BY EmptyIs DEF Die, Asked, Ended, Held
<1> QED
  BY <1>1 DEF Die, RoundInv, Pipes, DeadIsEmpty, OnePlace, FlagSet

\* The entries of a list at some of its positions are a list.
LEMMA EntriesIs ==
  ASSUME NEW n \in Nat, NEW T, NEW p \in [1..n -> T], NEW S \in SUBSET (1..n)
  PROVE  Entries(p, S) \in Seq(T) /\ IsSeq(Entries(p, S))
<1> DEFINE c == Cardinality(S)
<1>1. c \in Nat /\ InOrder(S) \in [1..c -> S]
  BY InOrderIs DEF Ordered
<1> HIDE DEF c
<1>2. \A k \in 1..c : p[InOrder(S)[k]] \in T
  BY <1>1
<1>3. Entries(p, S) \in [1..c -> T]
  BY <1>1, <1>2 DEF Entries
<1>4. Entries(p, S) \in Seq(T)
  BY <1>1, <1>3
<1> QED
  BY <1>4, SeqIs

\* A round tries entries of the list of jobs.
LEMMA PassesIs ==
  ASSUME IsSeq(jobs), NEW p \in Orders
  PROVE  /\ p \in [1..Len(jobs) -> 1..Len(jobs)] /\ Len(jobs) \in Nat
         /\ DOMAIN jobs = 1..Len(jobs)
         /\ Passes(p) \in Seq(1..Len(jobs))
<1>1. Len(jobs) \in Nat /\ DOMAIN jobs = 1..Len(jobs)
  BY SeqIs DEF IsSeq
<1>2. p \in [1..Len(jobs) -> 1..Len(jobs)]
  BY <1>1 DEF Orders
<1> DEFINE first == {i \in DOMAIN p : jobs[p[i]].reason = "NONE"}
<1>3. first \in SUBSET (1..Len(jobs)) /\ (DOMAIN p \ first) \in SUBSET (1..Len(jobs))
  BY <1>2
<1>4. Passes(p) = Entries(p, first) \o Entries(p, DOMAIN p \ first)
  BY DEF Passes
<1> HIDE DEF first
<1>5. /\ Entries(p, first) \in Seq(1..Len(jobs))
      /\ Entries(p, DOMAIN p \ first) \in Seq(1..Len(jobs))
  BY <1>1, <1>2, <1>3, EntriesIs
<1>6. Passes(p) \in Seq(1..Len(jobs))
  BY <1>4, <1>5, ConcatProperties
<1> QED
  BY <1>1, <1>2, <1>6

SUCCESS(s, a, i) == [act |-> "SUCCESS", jid |-> jobs[s[i]].jid, hid |-> a[i]]

\* What the dispatcher prints: an answer for each attempt that found a host, and
\* SCHEDULE_END.
Printed(p, a, sent, ans) ==
  LET s == Passes(p)
      F == Before(a, Len(s) + 1)
  IN /\ Len(s) \in Nat /\ DOMAIN s = 1..Len(s)
     /\ F \in SUBSET (1..Len(s)) /\ IsFiniteSet(F)
     /\ Ordered(sent, F) /\ Cardinality(F) \in Nat
     /\ IsSeq(ans) /\ Len(ans) = Cardinality(F)
     /\ \A k \in 1..Len(ans) : ans[k] = SUCCESS(s, a, sent[k])
     /\ out' = out \o (ans \o <<[act |-> "SCHEDULE_END"]>>)

\* What dispatch prints: its answers, then SCHEDULE_END.
LEMMA DispatchShape ==
  ASSUME IsSeq(jobs), Dispatch
  PROVE  /\ IsSeq(jobs')
         /\ \E p \in Orders : \E a \in Outcomes(p, Passes(p)) :
              \E sent, ans : Printed(p, a, sent, ans)
<1>0. PICK p \in Orders : \E a \in Outcomes(p, Passes(p)) :
        LET s    == Passes(p)
            sent == InOrder(Before(a, Len(s) + 1))
            rest == Entries(p, Left(p, s, a, Len(s) + 1))
        IN
        /\ Answer([k \in DOMAIN sent |-> [act |-> "SUCCESS", jid |-> jobs[s[sent[k]]].jid,
                                          hid |-> a[sent[k]]]]
                  \o <<[act |-> "SCHEDULE_END"]>>)
        /\ jobs' = [k \in DOMAIN rest |-> jobs[rest[k]]]
  BY DEF Dispatch
<1>1. PICK a \in Outcomes(p, Passes(p)) :
        LET s    == Passes(p)
            sent == InOrder(Before(a, Len(s) + 1))
            rest == Entries(p, Left(p, s, a, Len(s) + 1))
        IN
        /\ Answer([k \in DOMAIN sent |-> [act |-> "SUCCESS", jid |-> jobs[s[sent[k]]].jid,
                                          hid |-> a[sent[k]]]]
                  \o <<[act |-> "SCHEDULE_END"]>>)
        /\ jobs' = [k \in DOMAIN rest |-> jobs[rest[k]]]
  BY <1>0
<1> DEFINE s == Passes(p)
           n == Len(s)
           F == Before(a, n + 1)
           sent == InOrder(F)
           rest == Entries(p, Left(p, s, a, n + 1))
           ans == [k \in DOMAIN sent |-> SUCCESS(s, a, sent[k])]
<1>2. /\ p \in [1..Len(jobs) -> 1..Len(jobs)] /\ Len(jobs) \in Nat
      /\ s \in Seq(1..Len(jobs))
  BY PassesIs
<1>3. n \in Nat /\ DOMAIN s = 1..n
  BY <1>2, SeqIs
<1>4. F \in SUBSET (1..n)
  <2>1. (n + 1) - 1 = n
    BY <1>3
  <2> QED BY <2>1 DEF Before
<1>5. /\ IsFiniteSet(F) /\ Cardinality(F) \in Nat
      /\ Ordered(sent, F) /\ IsSeq(sent) /\ Len(sent) = Cardinality(F)
      /\ DOMAIN sent = 1..Cardinality(F)
  <2> HIDE DEF F, n
  <2>1. /\ IsFiniteSet(F) /\ Cardinality(F) \in Nat
        /\ Ordered(sent, F) /\ sent \in Seq(F) /\ Len(sent) = Cardinality(F)
    BY <1>3, <1>4, InOrderIs
  <2> QED BY <2>1, SeqIs
<1>6. /\ IsSeq(ans) /\ Len(ans) = Cardinality(F)
      /\ \A k \in 1..Len(ans) : ans[k] = SUCCESS(s, a, sent[k])
  <2> HIDE DEF F, n, s, sent
  <2>1. DOMAIN ans = 1..Cardinality(F) /\ ans = [i \in DOMAIN ans |-> ans[i]]
    BY <1>5
  <2>2. IsSeq(ans) /\ Len(ans) = Cardinality(F)
    <3> HIDE DEF ans
    <3> QED BY <1>5, <2>1, FunctionIs
  <2> QED BY <2>1, <2>2
<1>7. out' = out \o (ans \o <<[act |-> "SCHEDULE_END"]>>)
  BY <1>1 DEF Answer, SUCCESS
<1>8. IsSeq(jobs')
  <2>1. Left(p, s, a, n + 1) \in SUBSET (1..Len(jobs))
    BY <1>2 DEF Left
  <2>2. IsSeq(rest)
    <3> HIDE DEF s, n
    <3> QED BY <1>2, <2>1, EntriesIs
  <2>3. jobs' = [k \in DOMAIN rest |-> jobs[rest[k]]]
    BY <1>1
  <2> HIDE DEF rest
  <2>4. Len(rest) \in Nat /\ DOMAIN rest = 1..Len(rest)
    BY <2>2, SeqIs DEF IsSeq
  <2>5. DOMAIN jobs' = 1..Len(rest) /\ jobs' = [i \in DOMAIN jobs' |-> jobs'[i]]
    BY <2>3, <2>4
  <2> QED BY <2>4, <2>5, FunctionIs
<1>9. Printed(p, a, sent, ans)
  <2> HIDE DEF sent, ans
  <2> QED BY <1>3, <1>4, <1>5, <1>6, <1>7 DEF Printed
<1> HIDE DEF sent, ans
<1> QED
  BY <1>8, <1>9

\* The round ends with the one SCHEDULE_END it prints.
LEMMA DispatchRound ==
  ASSUME RoundInv, Dispatch, UNCHANGED <<scheduling, sweep, reload, pool>>
  PROVE  RoundInv'
<1> DEFINE END == [act |-> "SCHEDULE_END"]
<1>1. PICK ans : /\ IsSeq(ans) /\ \A k \in 1..Len(ans) : ans[k].act = "SUCCESS"
                 /\ out' = out \o (ans \o <<END>>)
  <2>1. IsSeq(jobs)
    BY DEF RoundInv, Pipes
  <2>2. \E p, a, sent, ans : Printed(p, a, sent, ans)
    BY <2>1, DispatchShape
  <2>3. PICK p, a, sent, ans : Printed(p, a, sent, ans)
    BY <2>2
  <2>4. /\ IsSeq(ans) /\ \A k \in 1..Len(ans) : ans[k] = SUCCESS(Passes(p), a, sent[k])
        /\ out' = out \o (ans \o <<END>>)
    BY <2>3 DEF Printed
  <2>5. \A k \in 1..Len(ans) : ans[k].act = "SUCCESS"
    <3>1. ASSUME NEW k \in 1..Len(ans) PROVE ans[k].act = "SUCCESS"
      <4>1. ans[k] = SUCCESS(Passes(p), a, sent[k])
        BY <2>4
      <4>2. SUCCESS(Passes(p), a, sent[k]).act = "SUCCESS"
        BY DEF SUCCESS
      <4> QED BY <4>1, <4>2
    <3> QED BY <3>1
  <2> QED BY <2>4, <2>5
<1>2. IsSeq(jobs')
  BY DispatchShape DEF RoundInv, Pipes
<1>3. /\ round # NoRound /\ round' = NoRound /\ UNCHANGED <<alive, inq>>
  BY DEF Dispatch
<1>4. Ended = {} /\ Asked = {} /\ ~sweep /\ scheduling /\ reload = "NO" /\ IsSeq(out)
  BY <1>3 DEF RoundInv, OnePlace, FlagSet, Pipes
<1>5. Held(ans, END.act) = {}
  BY <1>1, SeqIs DEF Held, IsSeq
<1>6. Ended' = {Len(out) + Len(ans) + 1}
  <2>1. Held(out, END.act) = {}
    BY <1>4 DEF Ended
  <2>2. Held(out \o (ans \o <<END>>), END.act) = {Len(out) + Len(ans) + 1}
    <3> HIDE DEF END
    <3> QED BY <1>1, <1>4, <1>5, <2>1, HeldLast
  <2> QED BY <1>1, <2>2 DEF Ended
<1>7. IsSeq(out')
  <2> HIDE DEF END
  <2>1. IsSeq(ans \o <<END>>)
    BY <1>1, OneIs, ConcatIs
  <2> QED BY <1>1, <1>4, <2>1, ConcatIs
<1>8. Asked' = {} /\ IsSeq(inq') /\ IsSeq(pool')
  BY <1>3, <1>4 DEF Asked, RoundInv, Pipes
<1> QED
  BY <1>2, <1>3, <1>4, <1>6, <1>7, <1>8 DEF RoundInv, Pipes, DeadIsEmpty, OnePlace, FlagSet

\* A match keeps the round under way.
LEMMA MatchRound ==
  ASSUME RoundInv, Match, UNCHANGED <<scheduling, sweep, reload, pool>>
  PROVE  RoundInv'
<1>1. round.next \in DOMAIN jobs /\ MatchNext(Matches(jobs[round.next].jid))
  BY DEF Match
<1>2. UNCHANGED <<alive, tables, inq>>
  BY <1>1 DEF MatchNext
<1>3. round # NoRound
  <2>1. DOMAIN jobs = 1..Len(jobs) /\ Len(jobs) \in Nat
    BY SeqIs DEF RoundInv, Pipes, IsSeq
  <2> QED BY <1>1, <2>1 DEF NoRound
<1>4. Ended = {} /\ Asked = {} /\ ~sweep /\ scheduling /\ reload = "NO" /\ alive
  BY <1>3 DEF RoundInv, OnePlace, FlagSet, DeadIsEmpty
<1>5. out' = out \/ \E j : out' = out \o <<[act |-> "FAILED", jid |-> j]>>
  BY <1>1 DEF MatchNext, Answer
<1>6. IsSeq(out') /\ Ended' = {}
  <2>1. CASE out' = out
    BY <1>4, <2>1 DEF RoundInv, Pipes, Ended
  <2>2. ASSUME NEW j, out' = out \o <<[act |-> "FAILED", jid |-> j]>>
        PROVE  IsSeq(out') /\ Ended' = {}
    <3> DEFINE ms == <<[act |-> "FAILED", jid |-> j]>>
    <3>1. IsSeq(ms) /\ Held(ms, "SCHEDULE_END") = {}
      BY OneIs DEF Held
    <3> HIDE DEF ms
    <3>2. IsSeq(out \o ms) /\ Held(out \o ms, "SCHEDULE_END") = Held(out, "SCHEDULE_END")
      BY <3>1, HeldConcat, ConcatIs DEF RoundInv, Pipes
    <3>3. out' = out \o ms
      BY <2>2 DEF ms
    <3> QED BY <1>4, <3>2, <3>3 DEF Ended
  <2> QED BY <1>5, <2>1, <2>2
<1>7. Asked' = {} /\ IsSeq(inq') /\ IsSeq(jobs') /\ IsSeq(pool')
  BY <1>2, <1>4 DEF Asked, RoundInv, Pipes, tables
<1> QED
  BY <1>2, <1>4, <1>6, <1>7 DEF RoundInv, Pipes, DeadIsEmpty, OnePlace, FlagSet

\* Every step of the scheduler keeps the rounds apart.
LEMMA SchedulerRound ==
  ASSUME RoundInv, SchedulerStep \/ Match, UNCHANGED <<gwdv, imv>>
  PROVE  RoundInv'
<1>1. UNCHANGED <<scheduling, sweep, reload, pool>>
  BY DEF gwdv, imv, imtables
<1>2. CASE BanEnds
  BY <1>1, <1>2 DEF BanEnds, RoundInv, Pipes, DeadIsEmpty, OnePlace, FlagSet, Asked, Ended
<1> QED
  BY <1>1, <1>2, UpdateRound, ScheduleRound, DispatchRound, DieRound, MatchRound
     DEF SchedulerStep, Crash

\* A sweep begins while nothing of a round is anywhere.
LEMMA SweepBeginsRound ==
  ASSUME RoundInv, SweepBegins, UNCHANGED <<alive, jobs, round, out, pool>>
  PROVE  RoundInv'
<1>1. ~scheduling /\ scheduling' /\ sweep' /\ UNCHANGED <<inq, reload>>
  BY DEF SweepBegins
<1>2. Asked = {} /\ Ended = {} /\ round = NoRound /\ reload = "NO"
  BY <1>1 DEF RoundInv, FlagSet
<1>3. Asked' = {} /\ Ended' = {}
  BY <1>1, <1>2 DEF Asked, Ended
<1> QED
  BY <1>1, <1>2, <1>3 DEF RoundInv, Pipes, DeadIsEmpty, OnePlace, FlagSet

\* It ends with one SCHEDULE, for a scheduler that lives.
LEMMA SweepEndsWrites ==
  ASSUME SweepEnds
  PROVE  \E ms : Plain(ms) /\ Write(ms \o <<SCHEDULE>>)
<1>1. CASE Write(<<SCHEDULE>>)
  <2>1. Plain(<<>>) /\ <<>> \o <<SCHEDULE>> = <<SCHEDULE>>
    BY EmptyIs DEF Plain, Held
  <2> QED BY <1>1, <2>1
<1>2. ASSUME NEW j \in Jobs, NEW why, Checks(j, why)
      PROVE  \E ms : Plain(ms) /\ Write(ms \o <<SCHEDULE>>)
  <2>1. PICK t1, t2, t3 :
          Write(If(t1, JOB_FAILED(j)) \o
                If(t2, JOB_SCHEDULE(j, "SUSPENSION_TIME")) \o
                If(t3, JOB_SCHEDULE(j, "RESCHEDULING_TIMEOUT")) \o <<SCHEDULE>>)
    BY <1>2 DEF Checks
  <2>2. /\ Plain(If(t1, JOB_FAILED(j)))
        /\ Plain(If(t2, JOB_SCHEDULE(j, "SUSPENSION_TIME")))
        /\ Plain(If(t3, JOB_SCHEDULE(j, "RESCHEDULING_TIMEOUT")))
    BY PlainIf
  <2>3. Plain(If(t1, JOB_FAILED(j)) \o If(t2, JOB_SCHEDULE(j, "SUSPENSION_TIME")))
    BY <2>2, PlainConcat
  <2>4. Plain((If(t1, JOB_FAILED(j)) \o If(t2, JOB_SCHEDULE(j, "SUSPENSION_TIME"))) \o
              If(t3, JOB_SCHEDULE(j, "RESCHEDULING_TIMEOUT")))
    BY <2>2, <2>3, PlainConcat
  <2> QED BY <2>1, <2>4
<1> QED
  BY <1>1, <1>2 DEF SweepEnds

\* The sweep of the DM asks for a round, and gw_dm.scheduling is set.
LEMMA SweepEndsRound ==
  ASSUME RoundInv, SweepEnds, UNCHANGED <<alive, jobs, round, out, pool>>
  PROVE  RoundInv'
<1>1. PICK ms : Plain(ms) /\ Write(ms \o <<SCHEDULE>>)
  BY SweepEndsWrites
<1>2. sweep /\ ~sweep' /\ UNCHANGED <<scheduling, reload>>
  BY DEF SweepEnds
<1>3. Asked = {} /\ Ended = {} /\ round = NoRound /\ scheduling /\ reload = "NO"
      /\ IsSeq(inq)
  BY <1>2 DEF RoundInv, OnePlace, FlagSet, Pipes
<1>4. Held(inq \o (ms \o <<SCHEDULE>>), "SCHEDULE") = {Len(inq) + Len(ms) + 1}
      /\ IsSeq(inq \o (ms \o <<SCHEDULE>>))
  <2>1. SCHEDULE.act = "SCHEDULE"
    BY DEF SCHEDULE
  <2>2. IsSeq(ms) /\ Held(ms, "SCHEDULE") = {}
    BY <1>1 DEF Plain
  <2>3. IsSeq(ms \o <<SCHEDULE>>)
    BY <2>2, OneIs, ConcatIs
  <2>4. IsSeq(inq \o (ms \o <<SCHEDULE>>))
    BY <1>3, <2>3, ConcatIs
  <2>5. Held(inq, "SCHEDULE") = {}
    BY <1>3 DEF Asked
  <2>6. Held(inq \o (ms \o <<SCHEDULE>>), SCHEDULE.act) = {Len(inq) + Len(ms) + 1}
    BY <1>3, <2>1, <2>2, <2>5, HeldLast
  <2> QED BY <2>1, <2>4, <2>6
<1>5. IsSeq(inq') /\ \A i, k \in Asked' : i = k
  <2>1. CASE alive
    BY <1>1, <1>4, <2>1 DEF Write, Asked
  <2>2. CASE ~alive
    BY <1>1, <1>3, <2>2 DEF Write, Asked
  <2> QED BY <2>1, <2>2
<1>6. ~alive => inq' = inq
  BY <1>1 DEF Write
<1>7. Ended' = {}
  BY <1>3 DEF Ended
<1> QED
  BY <1>2, <1>3, <1>5, <1>6, <1>7 DEF RoundInv, Pipes, DeadIsEmpty, OnePlace, FlagSet

\* The listener of the DM clears gw_dm.scheduling at SCHEDULE_END.
LEMMA ListenRound ==
  ASSUME RoundInv, Listen, UNCHANGED <<alive, tables, round, imtables>>
  PROVE  RoundInv'
<1>1. out # <<>> /\ reload = "NO" /\ out' = Tail(out) /\ UNCHANGED <<sweep, reload>>
  BY DEF Listen
<1>2. IsSeq(out) /\ IsSeq(out') /\ Head(out) = out[1] /\ 1 \in DOMAIN out
  BY <1>1, TailIs DEF RoundInv, Pipes
<1>3. /\ \A i \in Ended' : i + 1 \in Ended /\ i \in Nat \ {0}
      /\ \A i \in Ended : i # 1 => i - 1 \in Ended'
  BY <1>1, <1>2, HeldTail DEF Ended
<1>4. UNCHANGED <<jobs, pool>>
  BY DEF tables, imtables
<1>5. \A i, k \in Ended : i = k
  BY DEF RoundInv, OnePlace
<1>6. \A i, k \in Ended' : i = k
  BY <1>3, <1>5
<1>7. Ended = {} => Ended' = {}
  BY <1>3
<1>8. CASE Head(out).act = "SCHEDULE_END"
  <2>1. 1 \in Ended
    BY <1>2, <1>8 DEF Ended, Held
  <2>2. Ended' = {}
    <3>1. ASSUME NEW i \in Ended' PROVE FALSE
      <4>1. i + 1 \in Ended /\ i \in Nat \ {0}
        BY <1>3
      <4>2. i + 1 = 1
        BY <1>5, <2>1, <4>1
      <4> QED BY <4>1, <4>2
    <3> QED BY <3>1
  <2>3. Asked = {} /\ ~sweep /\ round = NoRound
    BY <2>1 DEF RoundInv, OnePlace
  <2>4. UNCHANGED inq /\ Asked' = {}
    BY <1>8, <2>3 DEF Listen, Asked
  <2> QED
    BY <1>1, <1>2, <1>4, <2>2, <2>3, <2>4
       DEF RoundInv, Pipes, DeadIsEmpty, OnePlace, FlagSet
<1>9. CASE Head(out).act # "SCHEDULE_END"
  <2>1. ListenJob(Head(out))
    BY <1>9 DEF Listen
  <2>2. Talks /\ UNCHANGED scheduling
    BY <2>1, ListenTalks
  <2>3. IsSeq(inq') /\ Asked' = Asked /\ (~alive => inq' = inq)
    BY <2>2, TalkKeeps DEF RoundInv
  <2> QED
    BY <1>1, <1>2, <1>4, <1>6, <1>7, <2>2, <2>3
       DEF RoundInv, Pipes, DeadIsEmpty, OnePlace, FlagSet
<1> QED
  BY <1>8, <1>9

\* A reload outside a sweep starts with a scheduler that was asked nothing.
LEMMA ReloadRound ==
  ASSUME RoundInv, Reload, CalmReload, UNCHANGED <<tables, round, imtables>>
  PROVE  RoundInv'
<1>1. Talks
  BY ReloadTalks DEF RoundInv
<1>2. IsSeq(inq') /\ Asked' = Asked /\ (~alive => inq' = inq)
  BY <1>1, TalkKeeps DEF RoundInv
<1>3. UNCHANGED <<jobs, pool, out, sweep, round>> /\ Ended' = Ended
  BY DEF tables, imtables, Reload, Ended
<1>4. CASE reload = "NO" /\ reload' = "USERS"
  <2>1. ~alive /\ out = <<>> /\ scheduling' /\ ~sweep
    BY <1>4 DEF Reload, CalmReload
  <2>2. Ended = {}
    BY <2>1, EmptyIs DEF Ended, Held
  <2>3. inq = <<>> /\ round = NoRound
    BY <2>1 DEF RoundInv, DeadIsEmpty
  <2>4. Asked = {}
    BY <2>3, EmptyIs DEF Asked, Held
  <2> QED
    BY <1>2, <1>3, <1>4, <2>1, <2>2, <2>3, <2>4
       DEF RoundInv, Pipes, DeadIsEmpty, OnePlace, FlagSet
<1>5. CASE reload # "NO"
  <2>1. Asked = {} /\ Ended = {} /\ round = NoRound /\ ~sweep /\ scheduling
    BY <1>5 DEF RoundInv, FlagSet
  <2>2. reload' # "NO" => scheduling'
    BY <1>5, <2>1 DEF Reload
  <2>3. UNCHANGED alive
    BY <1>5 DEF Reload
  <2> QED
    BY <1>2, <1>3, <2>1, <2>2, <2>3 DEF RoundInv, Pipes, DeadIsEmpty, OnePlace, FlagSet
<1> QED
  BY <1>4, <1>5 DEF Reload

\* The Information manager only appends to the pool.
LEMMA SilentPool ==
  ASSUME IsSeq(pool), Silent
  PROVE  IsSeq(pool')
<1>1. CASE Discovered
  <2>1. PICK found \in SUBSET Hosts : pool' = pool \o SetToSeq(found \ ToSet(pool))
    BY <1>1 DEF Discovered
  <2>2. IsFiniteSet(found \ ToSet(pool))
    BY SchedulerAssumption, FS_Subset
  <2> QED BY <2>1, <2>2, SetToSeqIs, ConcatIs
<1>2. CASE ~Discovered
  BY <1>2 DEF Silent, Timer, DiscoverFails, MadCrash, Garbled
<1> QED
  BY <1>1, <1>2

\* A host that is reported to the scheduler asks for no round.
LEMMA ToldTalks ==
  ASSUME NEW h \in Hosts, Told(h)
  PROVE  Talks /\ UNCHANGED pool
<1>1. Write(<<HOST_MONITOR(h)>>) /\ Plain(<<HOST_MONITOR(h)>>)
  BY PlainOne DEF Told
<1>2. UNCHANGED pool
  BY DEF Told, Monitored, MonitorFails
<1> QED
  BY <1>1, <1>2, WriteTalks

\* At the start no round is asked for.
LEMMA RoundInit ==
  ASSUME Init
  PROVE  RoundInv
<1>1. Asked = {} /\ Ended = {} /\ IsSeq(inq) /\ IsSeq(out) /\ IsSeq(jobs)
  BY EmptyIs DEF Init, SchedulerInit, Asked, Ended, Held
<1>2. IsSeq(pool)
  <2>1. IsFiniteSet(Monitored0)
    BY SchedulerAssumption, IMAssumption, FS_Subset
  <2> QED BY <2>1, SetToSeqIs DEF Init, IMInit
<1> QED
  BY <1>1, <1>2 DEF Init, SchedulerInit, RoundInv, Pipes, DeadIsEmpty, OnePlace, FlagSet

\* Every step keeps the rounds apart, when the reloads are calm.
LEMMA RoundStep ==
  ASSUME RoundInv, [Next]_vars, CalmReload
  PROVE  RoundInv'
<1>1. CASE (SchedulerStep \/ Match) /\ UNCHANGED <<gwdv, imv>>
  BY <1>1, SchedulerRound
<1>2. CASE Gwd /\ UNCHANGED <<alive, tables, round, out, imtables>>
  <2>1. UNCHANGED <<alive, jobs, round, out, pool>> /\ IsSeq(pool')
    BY <1>2 DEF tables, imtables, RoundInv, Pipes
  <2> QED
    BY <1>2, <2>1, SweepBeginsRound, SweepEndsRound, GwdTalks, QuietRound
<1>3. CASE Listen /\ UNCHANGED <<alive, tables, round, imtables>>
  BY <1>3, ListenRound
<1>4. CASE Reload /\ UNCHANGED <<tables, round, imtables>>
  BY <1>4, ReloadRound
<1>5. CASE SchedulerCrash /\ UNCHANGED <<gwdv, imtables>>
  BY <1>5, DieRound DEF SchedulerCrash, gwdv, imtables
<1>6. CASE Silent /\ UNCHANGED <<gwdv, schedv>>
  <2>1. UNCHANGED <<alive, jobs, round, out, scheduling, sweep, reload>> /\ Talks
    BY <1>6 DEF gwdv, schedv, tables, Talks
  <2> QED
    BY <1>6, <2>1, SilentPool, QuietRound DEF RoundInv, Pipes
<1>7. CASE (\E h \in Hosts : Told(h)) /\ UNCHANGED <<gwdv, alive, tables, round, out>>
  <2>1. UNCHANGED <<alive, jobs, round, out, scheduling, sweep, reload>>
    BY <1>7 DEF gwdv, tables
  <2>2. Talks /\ IsSeq(pool')
    BY <1>7, ToldTalks DEF RoundInv, Pipes
  <2> QED
    BY <2>1, <2>2, QuietRound
<1>8. CASE UNCHANGED vars
  BY <1>8 DEF vars, gwdv, schedv, imv, imtables, tables, RoundInv, Pipes, DeadIsEmpty,
              OnePlace, FlagSet, Asked, Ended
<1> QED
  BY <1>1, <1>2, <1>3, <1>4, <1>5, <1>6, <1>7, <1>8 DEF Next

\* Apart and known, the rounds are at most one.
LEMMA RoundOne ==
  ASSUME RoundInv
  PROVE  OneRound
<1>1. ASSUME NEW S, \A i, k \in S : i = k
      PROVE  Cardinality(S) = IF S = {} THEN 0 ELSE 1
  <2>1. S = {} \/ \E x : S = {x}
    BY <1>1
  <2> QED BY <2>1, FS_EmptySet, FS_Singleton
<1>2. /\ Cardinality(Asked) = IF Asked = {} THEN 0 ELSE 1
      /\ Cardinality(Ended) = IF Ended = {} THEN 0 ELSE 1
  BY <1>1 DEF RoundInv, OnePlace
<1>3. Rounds = Cardinality(Asked) + (IF round = NoRound THEN 0 ELSE 1) + Cardinality(Ended)
  BY DEF Rounds, Asked, Ended
<1> QED
  BY <1>2, <1>3 DEF RoundInv, OnePlace, FlagSet, OneRound

\* The rounds of the scheduler never overlap, for any number of jobs, hosts, users,
\* crashes and reloads of the scheduler (gw_dm_schedule, gw_dm_listener), unless a
\* reload begins while a sweep has set gw_dm.scheduling and not yet sent SCHEDULE.
THEOREM RoundsApart == Spec /\ [][CalmReload]_vars => []OneRound
<1>1. Init => RoundInv
  BY RoundInit
<1>2. RoundInv /\ [Next]_vars /\ [CalmReload]_vars => RoundInv'
  <2>1. CASE CalmReload
    BY <2>1, RoundStep
  <2>2. CASE UNCHANGED vars
    <3>1. UNCHANGED reload
      BY <2>2 DEF vars, gwdv
    <3>2. CalmReload
      BY <3>1 DEF CalmReload
    <3> QED BY <3>2, RoundStep
  <2> QED BY <2>1, <2>2
<1>3. RoundInv => OneRound
  BY RoundOne
<1> QED
  BY <1>1, <1>2, <1>3, PTL DEF Spec

\* The DM neither begins nor ends a reload.
LEMMA GwdReload ==
  ASSUME Gwd
  PROVE  UNCHANGED reload
<1>1. CASE SweepBegins \/ SweepEnds
  BY <1>1 DEF SweepBegins, SweepEnds
<1> QED
  BY <1>1, GwdTalks

\* Threads that leave no gap reload calmly.
LEMMA PromptReload == Spec /\ Prompt => [][CalmReload]_vars
<1>1. Prompt /\ [Next]_vars => [CalmReload]_vars
  <2> SUFFICES ASSUME Prompt, Next, reload = "NO", reload' = "USERS" PROVE ~sweep
    BY DEF CalmReload
  <2>1. CASE Reload
    BY <2>1 DEF Reload
  <2>2. CASE ~Reload
    <3>1. UNCHANGED reload
      BY <2>2, GwdReload DEF Next, gwdv, Listen
    <3> QED BY <3>1
  <2> QED BY <2>1, <2>2
<1>2. Prompt /\ [Next]_vars => Prompt'
  OBVIOUS
<1> QED
  BY <1>1, <1>2, PTL DEF Spec

-----------------------------------------------------------------------------
(* The timer of the Information manager.                                   *)

HostRecord == [state : States, fixed_priority : Nat, slots : Nat, queue : BOOLEAN,
               checked : BOOLEAN]

Queries == {DISCOVER} \union {MONITOR(h) : h \in Hosts}

\* The tables of the IM have their types; a host that was never monitored, or was
\* lost, has no slots.
HostTypes ==
  /\ pool \in Seq(Hosts)
  /\ host \in [Hosts -> HostRecord]
  /\ \A h \in Hosts : host[h].slots \in {0, Capacity[h]}
  /\ last_checked \in Int /\ active_queries \in Int
  /\ discovering \in BOOLEAN
  /\ queries \in Seq(Queries)

\* No query waits twice.
Unequal(q) == \A i, k \in DOMAIN q : q[i] = q[k] => i = k

\* A scan t that has looked at some hosts: discover says whether it began with a
\* discovery. What it has sent is new, and counted.
ScanOK(t, discover) ==
  /\ t \in [active : Int, sent : Seq(Queries), host : [Hosts -> HostRecord], last : Int]
  /\ \A h \in Hosts : t.host[h].slots = host[h].slots
  /\ t.active = active_queries + Len(t.sent)
  /\ t.active <= active_queries
       \/ t.active <= max_active_im_queries + (IF discovering \/ discover THEN 1 ELSE 0)
  /\ Unequal(t.sent)
  /\ \A i \in DOMAIN t.sent :
       \/ t.sent[i] = DISCOVER /\ discover /\ ~discovering
       \/ \E h \in ToSet(pool) : /\ t.sent[i] = MONITOR(h)
                                 /\ t.host[h].state = "MONITORING"
                                 /\ host[h].state # "MONITORING"
  /\ \A h \in Hosts : host[h].state = "MONITORING" => t.host[h].state = "MONITORING"

\* One more query.
LEMMA SendOne ==
  ASSUME NEW q \in Seq(Queries), Unequal(q), NEW m \in Queries,
         \A i \in DOMAIN q : q[i] # m
  PROVE  /\ Append(q, m) \in Seq(Queries) /\ Len(Append(q, m)) = Len(q) + 1
         /\ Unequal(Append(q, m))
         /\ \A i \in DOMAIN Append(q, m) :
              (i \in DOMAIN q /\ Append(q, m)[i] = q[i]) \/ Append(q, m)[i] = m
<1>1. /\ Append(q, m) \in Seq(Queries) /\ Len(Append(q, m)) = Len(q) + 1
      /\ Len(q) \in Nat
      /\ DOMAIN q = 1..Len(q) /\ DOMAIN Append(q, m) = 1..(Len(q) + 1)
      /\ \A i \in 1..Len(q) : Append(q, m)[i] = q[i]
      /\ Append(q, m)[Len(q) + 1] = m
  OBVIOUS
<1>2. \A i \in 1..(Len(q) + 1) : i \in 1..Len(q) \/ i = Len(q) + 1
  BY <1>1
<1> HIDE DEF Queries
<1> QED
  BY <1>1, <1>2 DEF Unequal

\* gw_im_timer visits a host: it may be asked about, once.
LEMMA VisitKeeps ==
  ASSUME HostTypes, NEW t, NEW discover \in BOOLEAN, ScanOK(t, discover),
         NEW i \in 1..Len(pool), NEW due
  PROVE  ScanOK(Visit(t, i, due), discover)
<1> DEFINE h == pool[i]
           seen == [t EXCEPT !.last = i - 1, !.host[h].checked = TRUE]
           sent == [seen EXCEPT !.host[h].state = "MONITORING", !.active = @ + 1,
                                !.sent = Append(@, MONITOR(h))]
<1>1. h \in Hosts /\ h \in ToSet(pool) /\ i \in Int
  BY DEF HostTypes, ToSet
<1>2. t \in [active : Int, sent : Seq(Queries), host : [Hosts -> HostRecord], last : Int]
  BY DEF ScanOK
<1>3. /\ seen \in [active : Int, sent : Seq(Queries), host : [Hosts -> HostRecord], last : Int]
      /\ seen.active = t.active /\ seen.sent = t.sent
      /\ \A g \in Hosts : seen.host[g].state = t.host[g].state
                          /\ seen.host[g].slots = t.host[g].slots
  <2>1. i - 1 \in Int
    BY <1>1
  <2> DEFINE old == t.host
             hs == [old EXCEPT ![h].checked = TRUE]
  <2>2. old \in [Hosts -> HostRecord]
    BY <1>2
  <2>3. seen = [t EXCEPT !.last = i - 1, !.host = hs]
    OBVIOUS
  <2> HIDE DEF h, old
  <2>4. /\ hs \in [Hosts -> HostRecord]
        /\ \A g \in Hosts : hs[g].state = old[g].state /\ hs[g].slots = old[g].slots
    BY <1>1, <2>2 DEF HostRecord
  <2> HIDE DEF hs, seen
  <2>5. /\ seen \in [active : Int, sent : Seq(Queries), host : [Hosts -> HostRecord], last : Int]
        /\ seen.active = t.active /\ seen.sent = t.sent /\ seen.host = hs
    BY <1>2, <2>1, <2>3, <2>4
  <2> QED BY <2>4, <2>5 DEF old
<1>4. ScanOK(seen, discover)
  <2> HIDE DEF seen, h
  <2> QED
    <3>1. \A g \in ToSet(pool) : g \in Hosts
      BY DEF HostTypes, ToSet
    <3> QED BY <1>3, <3>1 DEF ScanOK
<1>5. ASSUME t.active < max_active_im_queries, t.host[h].state \in {"DISCOVERED", "MONITORED"}
      PROVE  ScanOK(sent, discover)
  <2> HIDE DEF seen, h
  <2>1. /\ MONITOR(h) \in Queries
        /\ \A g : MONITOR(g) = MONITOR(h) => g = h
        /\ MONITOR(h) # DISCOVER
    <3>1. MONITOR(h).act = "MONITOR" /\ DISCOVER.act = "DISCOVER"
      BY DEF MONITOR, DISCOVER
    <3>2. \A g : MONITOR(g).hid = g
      BY DEF MONITOR
    <3> QED BY <1>1, <3>1, <3>2 DEF Queries
  <2>2. \A k \in DOMAIN t.sent : t.sent[k] # MONITOR(h)
    BY <1>5, <2>1 DEF ScanOK
  <2>3. /\ Append(t.sent, MONITOR(h)) \in Seq(Queries)
        /\ Len(Append(t.sent, MONITOR(h))) = Len(t.sent) + 1
        /\ Unequal(Append(t.sent, MONITOR(h)))
        /\ \A k \in DOMAIN Append(t.sent, MONITOR(h)) :
             \/ k \in DOMAIN t.sent /\ Append(t.sent, MONITOR(h))[k] = t.sent[k]
             \/ Append(t.sent, MONITOR(h))[k] = MONITOR(h)
    BY <1>2, <2>1, <2>2, SendOne DEF ScanOK
  <2>4. /\ sent \in [active : Int, sent : Seq(Queries), host : [Hosts -> HostRecord], last : Int]
        /\ sent.active = t.active + 1
        /\ sent.sent = Append(t.sent, MONITOR(h))
        /\ \A g \in Hosts : sent.host[g].slots = t.host[g].slots
        /\ \A g \in Hosts : g # h => sent.host[g].state = t.host[g].state
        /\ sent.host[h].state = "MONITORING"
    <3>1. "MONITORING" \in States
      BY DEF States
    <3> DEFINE hs == [seen.host EXCEPT ![h].state = "MONITORING"]
    <3>2. seen.host \in [Hosts -> HostRecord]
      BY <1>3
    <3>3. /\ hs \in [Hosts -> HostRecord]
          /\ \A g \in Hosts : hs[g].slots = seen.host[g].slots
          /\ \A g \in Hosts : g # h => hs[g].state = seen.host[g].state
          /\ hs[h].state = "MONITORING"
      <4> DEFINE old == seen.host
      <4>1. old \in [Hosts -> HostRecord] /\ hs = [old EXCEPT ![h].state = "MONITORING"]
        BY <3>2
      <4> HIDE DEF old, hs
      <4>2. /\ hs \in [Hosts -> HostRecord]
            /\ \A g \in Hosts : hs[g].slots = old[g].slots
            /\ \A g \in Hosts : g # h => hs[g].state = old[g].state
            /\ hs[h].state = "MONITORING"
        BY <1>1, <3>1, <4>1 DEF HostRecord
      <4> QED BY <4>2 DEF old
    <3>4. /\ sent.host = hs /\ sent.active = seen.active + 1
          /\ sent.sent = Append(seen.sent, MONITOR(h)) /\ sent.last = seen.last
          /\ sent = [active |-> sent.active, sent |-> sent.sent, host |-> sent.host,
                     last |-> sent.last]
      <4>1. PICK x \in [active : Int, sent : Seq(Queries), host : [Hosts -> HostRecord],
                        last : Int] : x = seen
        BY <1>3
      <4>2. sent = [x EXCEPT !.host = [x.host EXCEPT ![h] = [x.host[h] EXCEPT !.state = "MONITORING"]],
                             !.active = x.active + 1, !.sent = Append(x.sent, MONITOR(h))]
        BY <4>1
      <4>3. hs = [x.host EXCEPT ![h] = [x.host[h] EXCEPT !.state = "MONITORING"]]
        BY <4>1
      <4> HIDE DEF sent, hs
      <4> QED BY <4>1, <4>2, <4>3
    <3> HIDE DEF sent, hs
    <3>5. seen.active \in Int /\ seen.last \in Int
      BY <1>3
    <3>6. sent.active \in Int /\ sent.last \in Int /\ sent.host \in [Hosts -> HostRecord]
          /\ sent.sent \in Seq(Queries)
      BY <1>3, <2>3, <3>3, <3>4, <3>5
    <3>7. sent \in [active : Int, sent : Seq(Queries), host : [Hosts -> HostRecord], last : Int]
      BY <3>4, <3>6
    <3> QED BY <1>3, <3>3, <3>4, <3>7
  <2> HIDE DEF sent
  <2>5. sent.active <= max_active_im_queries + (IF discovering \/ discover THEN 1 ELSE 0)
    BY <1>2, <1>5, <2>4, IMAssumption
  <2>6. host[h].state # "MONITORING"
    BY <1>1, <1>5 DEF ScanOK
  <2>7. \A g \in Hosts : host[g].state = "MONITORING" => sent.host[g].state = "MONITORING"
    BY <2>4 DEF ScanOK
  <2>8. \A g \in Hosts : sent.host[g].slots = host[g].slots
    BY <2>4 DEF ScanOK
  <2>9. sent.active = active_queries + Len(sent.sent)
    BY <1>2, <2>3, <2>4 DEF ScanOK, HostTypes
  <2>10. ASSUME NEW k \in DOMAIN sent.sent
         PROVE  \/ sent.sent[k] = DISCOVER /\ discover /\ ~discovering
                \/ \E g \in ToSet(pool) : /\ sent.sent[k] = MONITOR(g)
                                          /\ sent.host[g].state = "MONITORING"
                                          /\ host[g].state # "MONITORING"
    <3>1. CASE sent.sent[k] = MONITOR(h)
      BY <1>1, <2>4, <2>6, <3>1
    <3>2. CASE k \in DOMAIN t.sent /\ sent.sent[k] = t.sent[k]
      <4>1. \A g \in ToSet(pool) : g \in Hosts
        BY DEF HostTypes, ToSet
      <4>2. \A g \in Hosts : t.host[g].state = "MONITORING" => sent.host[g].state = "MONITORING"
        BY <2>4
      <4> QED BY <3>2, <4>1, <4>2 DEF ScanOK
    <3> QED BY <2>3, <2>4, <3>1, <3>2
  <2> QED
    BY <2>3, <2>4, <2>5, <2>7, <2>8, <2>9, <2>10 DEF ScanOK
<1>6. Visit(t, i, due) \in {t, seen, sent}
  BY DEF Visit, Monitor
<1>7. Visit(t, i, due) = sent =>
        \/ t.active < max_active_im_queries /\ t.host[h].state \in {"DISCOVERED", "MONITORED"}
        \/ Visit(t, i, due) \in {t, seen}
  BY DEF Visit, Monitor
<1> QED
  <2> HIDE DEF seen, sent, h
  <2> QED BY <1>4, <1>5, <1>6, <1>7

\* The scan of the first n hosts, as the recursion defines it.
ScanIs(f, n, s, due) ==
  f = [i \in 0..n |-> IF i = 0 THEN s ELSE Visit(f[i - 1], Turn(i), due)]

\* The scan of the first n hosts, defined by recursion on n, exists.
LEMMA ScanExists ==
  ASSUME NEW s, NEW due, NEW n \in Nat
  PROVE  \E f : ScanIs(f, n, s, due)
<1> DEFINE P == {m \in Nat : \E f : ScanIs(f, m, s, due)}
<1>1. 0 \in P
  <2> DEFINE f == [i \in 0..0 |-> s]
  <2>1. f = [i \in 0..0 |-> IF i = 0 THEN s ELSE Visit(f[i - 1], Turn(i), due)]
    OBVIOUS
  <2>2. ScanIs(f, 0, s, due)
    <3> HIDE DEF f
    <3> QED BY <2>1 DEF ScanIs
  <2> QED BY <2>2
<1>2. ASSUME NEW m \in Nat, m \in P PROVE m + 1 \in P
  <2>1. PICK f : ScanIs(f, m, s, due)
    BY <1>2
  <2> DEFINE g == [i \in 0..(m + 1) |->
                     IF i = m + 1 THEN Visit(f[m], Turn(m + 1), due) ELSE f[i]]
  <2>2. ASSUME NEW i \in 0..(m + 1)
        PROVE  g[i] = IF i = 0 THEN s ELSE Visit(g[i - 1], Turn(i), due)
    <3>1. CASE i = m + 1
      <4>1. i - 1 = m /\ i # 0 /\ m \in 0..(m + 1) /\ m # m + 1
        BY <3>1
      <4>2. g[i - 1] = f[m]
        BY <4>1
      <4>3. g[i] = Visit(f[m], Turn(m + 1), due)
        BY <3>1
      <4> QED BY <3>1, <4>1, <4>2, <4>3
    <3>2. CASE i # m + 1
      <4>1. i \in 0..m
        BY <3>2
      <4>2. g[i] = f[i]
        BY <3>2
      <4>3. f[i] = IF i = 0 THEN s ELSE Visit(f[i - 1], Turn(i), due)
        BY <2>1, <4>1 DEF ScanIs
      <4>4. i # 0 => i - 1 \in 0..(m + 1) /\ i - 1 # m + 1
        BY <4>1
      <4>5. i # 0 => g[i - 1] = f[i - 1]
        BY <4>4
      <4> HIDE DEF g
      <4> QED BY <4>2, <4>3, <4>5
    <3> QED BY <3>1, <3>2
  <2>3. g = [i \in 0..(m + 1) |-> g[i]]
    OBVIOUS
  <2> HIDE DEF g
  <2>4. ScanIs(g, m + 1, s, due)
    BY <2>2, <2>3 DEF ScanIs
  <2> QED BY <2>4
<1>3. Nat \subseteq P
  <2> HIDE DEF P
  <2> QED BY <1>1, <1>2, SetInduction
<1> QED
  BY <1>3

\* What is true of a scan before it looks at its hosts is true when it has.
LEMMA MonitorHostsKeeps ==
  ASSUME HostTypes, NEW s, NEW discover \in BOOLEAN, ScanOK(s, discover), NEW due
  PROVE  ScanOK(MonitorHosts(s, due), discover)
<1> DEFINE n == Len(pool)
           scan == CHOOSE f : ScanIs(f, n, s, due)
<1>1. n \in Nat
  BY DEF HostTypes
<1>2. ScanIs(scan, n, s, due)
  BY <1>1, ScanExists
<1>3. MonitorHosts(s, due) = scan[n]
  BY DEF MonitorHosts, ScanIs
<1> HIDE DEF n, scan
<1>4. /\ scan[0] = s
      /\ \A i \in 0..n : i # 0 => scan[i] = Visit(scan[i - 1], Turn(i), due)
  BY <1>1, <1>2 DEF ScanIs
<1> DEFINE P == {m \in Nat : m <= n => ScanOK(scan[m], discover)}
<1>5. 0 \in P
  BY <1>4
<1>6. ASSUME NEW m \in Nat, m \in P PROVE m + 1 \in P
  <2>1. SUFFICES ASSUME m + 1 <= n PROVE ScanOK(scan[m + 1], discover)
    OBVIOUS
  <2>2. m + 1 \in 0..n /\ m + 1 # 0 /\ (m + 1) - 1 = m /\ m <= n
    BY <1>1, <2>1
  <2>3. scan[m + 1] = Visit(scan[m], Turn(m + 1), due)
    BY <1>4, <2>2
  <2>4. Turn(m + 1) \in 1..Len(pool)
    <3>1. last_checked \in Int /\ n > 0 /\ Len(pool) = n
      BY <1>1, <2>1 DEF HostTypes, n
    <3>2. (last_checked + (m + 1)) % n \in 0..(n - 1)
      BY <1>1, <3>1
    <3> QED BY <1>1, <3>1, <3>2 DEF Turn
  <2>5. ScanOK(scan[m], discover)
    BY <1>6, <2>2
  <2> QED BY <2>3, <2>4, <2>5, VisitKeeps
<1>7. Nat \subseteq P
  <2> HIDE DEF P
  <2> QED BY <1>5, <1>6, SetInduction
<1> QED
  BY <1>1, <1>3, <1>7

\* A scan begins within the bound of the queries, also when it discovers.
LEMMA ScanBegins ==
  ASSUME HostTypes
  PROVE  /\ ScanOK(Scan, FALSE)
         /\ active_queries <= max_active_im_queries + (IF discovering THEN 1 ELSE 0)
              => ScanOK(Discover(Scan), TRUE)
<1>1. Scan \in [active : Int, sent : Seq(Queries), host : [Hosts -> HostRecord], last : Int]
  BY DEF HostTypes, Scan
<1>2. Scan.sent = <<>> /\ Scan.active = active_queries /\ Scan.host = host
      /\ Scan.last = last_checked
  BY DEF Scan
<1>3. Len(<<>>) = 0 /\ Unequal(<<>>) /\ DOMAIN <<>> = {}
  BY EmptyIs DEF Unequal
<1>4. ScanOK(Scan, FALSE) /\ ScanOK(Scan, TRUE)
  BY <1>1, <1>2, <1>3 DEF ScanOK, HostTypes
<1>5. CASE discovering
  BY <1>4, <1>5 DEF Discover
<1>6. ASSUME ~discovering, active_queries <= max_active_im_queries
      PROVE  ScanOK(Discover(Scan), TRUE)
  <2> DEFINE d == [Scan EXCEPT !.active = @ + 1, !.sent = Append(@, DISCOVER)]
  <2>1. Discover(Scan) = d
    BY <1>6 DEF Discover
  <2>2. DISCOVER \in Queries
    BY DEF Queries
  <2>3. /\ Append(<<>>, DISCOVER) \in Seq(Queries)
        /\ Len(Append(<<>>, DISCOVER)) = Len(<<>>) + 1
        /\ Unequal(Append(<<>>, DISCOVER))
        /\ \A k \in DOMAIN Append(<<>>, DISCOVER) : Append(<<>>, DISCOVER)[k] = DISCOVER
    <3>1. <<>> \in Seq(Queries) /\ \A i \in DOMAIN <<>> : <<>>[i] # DISCOVER
      BY <1>3
    <3> QED BY <1>3, <2>2, <3>1, SendOne
  <2>4. /\ d \in [active : Int, sent : Seq(Queries), host : [Hosts -> HostRecord], last : Int]
        /\ d.active = active_queries + 1 /\ d.sent = Append(<<>>, DISCOVER)
        /\ d.host = host
    <3>1. PICK x \in [active : Int, sent : Seq(Queries), host : [Hosts -> HostRecord],
                      last : Int] : x = Scan
      BY <1>1
    <3>2. d = [x EXCEPT !.active = x.active + 1, !.sent = Append(x.sent, DISCOVER)]
      BY <3>1
    <3>3. x.sent = <<>> /\ x.active = active_queries /\ x.host = host
      BY <1>2, <3>1
    <3> HIDE DEF d
    <3>4. Append(x.sent, DISCOVER) \in Seq(Queries)
      BY <2>3, <3>3
    <3>5. x.active + 1 \in Int
      BY <3>3 DEF HostTypes
    <3>6. d.active = x.active + 1 /\ d.sent = Append(x.sent, DISCOVER) /\ d.host = x.host
      BY <3>1, <3>2
    <3>7. d \in [active : Int, sent : Seq(Queries), host : [Hosts -> HostRecord], last : Int]
      BY <3>1, <3>2, <3>4, <3>5
    <3> QED BY <3>3, <3>6, <3>7
  <2> HIDE DEF d
  <2>5. d.active <= max_active_im_queries + 1
    BY <1>6, <2>4, IMAssumption DEF HostTypes
  <2>6. ScanOK(d, TRUE)
    BY <1>3, <1>6, <2>3, <2>4, <2>5 DEF ScanOK
  <2> QED BY <2>1, <2>6
<1>7. ~discovering /\ active_queries <= max_active_im_queries + (IF discovering THEN 1 ELSE 0)
        => active_queries <= max_active_im_queries
  BY IMAssumption DEF HostTypes
<1> QED
  BY <1>4, <1>5, <1>6, <1>7

-----------------------------------------------------------------------------
(* One query about a host at a time.                                       *)

\* A query that waits is one for which the IM is waiting.
Awaited(q) ==
  \/ q = DISCOVER /\ discovering
  \/ \E h \in ToSet(pool) : q = MONITOR(h) /\ host[h].state = "MONITORING"

QueryInv ==
  /\ HostTypes
  /\ Len(queries) <= active_queries
  /\ active_queries <= max_active_im_queries + (IF discovering THEN 1 ELSE 0)
  /\ Unequal(queries)
  /\ \A i \in DOMAIN queries : Awaited(queries[i])

\* Queries about different hosts differ, and from the discovery.
LEMMA QueryNames ==
  /\ \A h : MONITOR(h) # DISCOVER /\ MONITOR(h).hid = h /\ MONITOR(h).act = "MONITOR"
  /\ \A g, h : MONITOR(g) = MONITOR(h) => g = h
  /\ DISCOVER.act = "DISCOVER"
<1>1. \A h : MONITOR(h).act = "MONITOR" /\ MONITOR(h).hid = h
  BY DEF MONITOR
<1>2. DISCOVER.act = "DISCOVER"
  BY DEF DISCOVER
<1> QED
  BY <1>1, <1>2

\* What is asked about the hosts that gwd starts with.
First(known) == <<DISCOVER>> \o [i \in DOMAIN known |-> MONITOR(known[i])]

\* The first queries after a restart name each known host once.
LEMMA FirstQueries ==
  ASSUME NEW known \in Seq(Hosts), IsInjective(known)
  PROVE  /\ First(known) \in Seq(Queries)
         /\ Len(First(known)) = Len(known) + 1
         /\ Unequal(First(known))
         /\ \A i \in DOMAIN First(known) :
              \/ First(known)[i] = DISCOVER
              \/ \E h \in ToSet(known) : First(known)[i] = MONITOR(h)
<1> DEFINE ms == [i \in DOMAIN known |-> MONITOR(known[i])]
<1>1. Len(known) \in Nat /\ DOMAIN known = 1..Len(known)
      /\ \A i \in DOMAIN known : known[i] \in Hosts /\ known[i] \in ToSet(known)
  BY SeqIs DEF ToSet
<1>2. \A i \in 1..Len(known) : ms[i] = MONITOR(known[i]) /\ ms[i] \in Queries
  BY <1>1 DEF Queries
<1>3. ms \in Seq(Queries) /\ Len(ms) = Len(known)
  <2> DEFINE n == Len(known)
  <2>1. ms \in [1..n -> Queries] /\ n \in Nat
    <3>1. DOMAIN ms = 1..n /\ ms = [i \in 1..n |-> ms[i]]
      BY <1>1
    <3> HIDE DEF Queries
    <3> QED BY <1>1, <1>2, <3>1
  <2> HIDE DEF n, Queries
  <2>2. ms \in Seq(Queries) /\ Len(ms) = n
    BY <2>1
  <2> QED BY <2>2 DEF n
<1>4. <<DISCOVER>> \in Seq(Queries) /\ Len(<<DISCOVER>>) = 1 /\ <<DISCOVER>>[1] = DISCOVER
  BY DEF Queries
<1> DEFINE q == <<DISCOVER>> \o ms
<1>5. /\ q \in Seq(Queries) /\ Len(q) = Len(known) + 1
      /\ \A i \in 1..(1 + Len(known)) : q[i] = IF i <= 1 THEN DISCOVER ELSE ms[i - 1]
  <2>1. Len(<<DISCOVER>>) + Len(ms) = 1 + Len(known)
    BY <1>3, <1>4
  <2>2. /\ <<DISCOVER>> \o ms \in Seq(Queries)
        /\ Len(<<DISCOVER>> \o ms) = Len(<<DISCOVER>>) + Len(ms)
        /\ \A i \in 1..(Len(<<DISCOVER>>) + Len(ms)) :
             (<<DISCOVER>> \o ms)[i] = IF i <= Len(<<DISCOVER>>) THEN <<DISCOVER>>[i]
                                       ELSE ms[i - Len(<<DISCOVER>>)]
    BY <1>3, <1>4, ConcatProperties
  <2>3. \A i \in 1..(1 + Len(known)) : i <= 1 => i = 1
    BY <1>1
  <2>4. Len(known) + 1 = 1 + Len(known)
    BY <1>1
  <2> QED BY <1>4, <2>1, <2>2, <2>3, <2>4
<1> HIDE DEF q
<1>6. DOMAIN q = 1..(1 + Len(known))
  BY <1>1, <1>5
<1>7. q[1] = DISCOVER
  <2>1. 1 \in 1..(1 + Len(known)) /\ 1 <= 1
    BY <1>1
  <2> QED BY <1>5, <2>1
<1>8. ASSUME NEW i \in 1..(1 + Len(known)), i # 1
      PROVE  i - 1 \in DOMAIN known /\ q[i] = MONITOR(known[i - 1])
  <2>1. i - 1 \in 1..Len(known) /\ ~(i <= 1)
    BY <1>1, <1>8
  <2> QED BY <1>1, <1>2, <1>5, <2>1
<1>9. ASSUME NEW i \in DOMAIN q, NEW k \in DOMAIN q, q[i] = q[k]
      PROVE  i = k
  <2>1. CASE i = 1
    BY <1>6, <1>7, <1>8, <1>9, <2>1, QueryNames
  <2>2. CASE k = 1
    BY <1>6, <1>7, <1>8, <1>9, <2>2, QueryNames
  <2>3. CASE i # 1 /\ k # 1
    <3>1. /\ i - 1 \in DOMAIN known /\ q[i] = MONITOR(known[i - 1])
          /\ k - 1 \in DOMAIN known /\ q[k] = MONITOR(known[k - 1])
      BY <1>6, <1>8, <2>3
    <3>2. known[i - 1] = known[k - 1]
      BY <1>9, <3>1, QueryNames
    <3>3. i - 1 = k - 1
      BY <3>1, <3>2 DEF IsInjective
    <3> QED BY <1>1, <1>6, <3>3
  <2> QED BY <2>1, <2>2, <2>3
<1>10. ASSUME NEW i \in DOMAIN q
       PROVE  q[i] = DISCOVER \/ \E h \in ToSet(known) : q[i] = MONITOR(h)
  BY <1>1, <1>6, <1>7, <1>8
<1> QED
  BY <1>5, <1>9, <1>10 DEF Unequal, q, First

\* At the start each known host is asked about once.
LEMMA QueryInit ==
  ASSUME Init
  PROVE  QueryInv
<1> DEFINE known == SetToSeq(Monitored0)
           asked == IF known = <<>> THEN <<>> ELSE First(known)
<1>1. IsFiniteSet(Monitored0) /\ Monitored0 \subseteq Hosts
  BY SchedulerAssumption, IMAssumption, FS_Subset
<1>2. /\ known \in Seq(Monitored0) /\ Len(known) = Cardinality(Monitored0)
      /\ IsInjective(known)
  BY <1>1, SetToSeqIs
<1>3. known \in Seq(Hosts) /\ \A h \in ToSet(known) : h \in Monitored0
  BY <1>1, <1>2, SeqMonotonic, SeqIs DEF ToSet
<1>4. /\ pool = known /\ queries = asked /\ active_queries = Len(asked)
      /\ discovering = (known # <<>>)
      /\ last_checked = IF known = <<>> THEN 0 ELSE Len(known) - 1
  BY DEF Init, IMInit, First
<1>5. /\ host \in [Hosts -> HostRecord]
      /\ \A h \in Hosts : host[h].slots \in {0, Capacity[h]}
      /\ \A h \in Monitored0 : host[h].state = "MONITORING"
  <2>0. host = [h \in Hosts |-> IF h \in Monitored0
                                 THEN [WithAnswer(NewHost(h), h) EXCEPT !.state = "MONITORING",
                                                                        !.checked = TRUE]
                                 ELSE [NewHost(h) EXCEPT !.state = "NONE"]]
    BY DEF Init, IMInit
  <2>1. \A h \in Hosts : Capacity[h] \in Nat /\ Priority[h] \in Nat
    BY IMAssumption
  <2>2. {"NONE", "DISCOVERED", "MONITORING", "MONITORED"} \subseteq States
    BY DEF States
  <2> QED
    BY <1>1, <2>0, <2>1, <2>2 DEF HostRecord, WithAnswer, NewHost
<1> HIDE DEF known
<1>6. /\ asked \in Seq(Queries) /\ Unequal(asked) /\ Len(asked) \in Nat
      /\ Len(asked) <= max_active_im_queries + (IF known # <<>> THEN 1 ELSE 0)
      /\ \A i \in DOMAIN asked : \/ asked[i] = DISCOVER /\ known # <<>>
                                 \/ \E h \in ToSet(known) : asked[i] = MONITOR(h)
  <2>1. CASE known = <<>>
    <3>1. asked = <<>>
      BY <2>1
    <3>2. <<>> \in Seq(Queries)
      OBVIOUS
    <3>3. Len(<<>>) = 0 /\ DOMAIN <<>> = {}
      BY EmptyIs
    <3> HIDE DEF asked
    <3> QED BY <2>1, <3>1, <3>2, <3>3, IMAssumption DEF Unequal
  <2>2. CASE known # <<>>
    <3>1. asked = First(known)
      BY <2>2
    <3>2. /\ asked \in Seq(Queries) /\ Len(asked) = Len(known) + 1
          /\ Unequal(asked)
          /\ \A i \in DOMAIN asked : \/ asked[i] = DISCOVER
                                     \/ \E h \in ToSet(known) : asked[i] = MONITOR(h)
      <4> HIDE DEF asked
      <4> QED BY <1>2, <1>3, <3>1, FirstQueries
    <3>3. Len(known) \in Nat
      BY <1>3
    <3> HIDE DEF asked
    <3> QED BY <1>2, <2>2, <3>2, <3>3, IMAssumption
  <2> QED BY <2>1, <2>2
<1>7. last_checked \in Int
  <2>1. Len(known) \in Nat
    BY <1>3
  <2> QED BY <1>4, <2>1
<1> HIDE DEF asked
<1>8. \A i \in DOMAIN queries : Awaited(queries[i])
  BY <1>3, <1>4, <1>5, <1>6 DEF Awaited
<1>9. HostTypes
  BY <1>3, <1>4, <1>5, <1>6, <1>7 DEF HostTypes
<1>10. discovering <=> known # <<>>
  BY <1>4
<1>11. active_queries <= max_active_im_queries + (IF discovering THEN 1 ELSE 0)
  BY <1>4, <1>6, <1>10
<1>12. Unequal(queries) /\ Len(queries) <= active_queries
  BY <1>4, <1>6
<1> QED
  BY <1>8, <1>9, <1>11, <1>12 DEF QueryInv

\* The timer sends what its scan has found to ask.
LEMMA TimerQuery ==
  ASSUME QueryInv, Timer
  PROVE  QueryInv'
<1>1. PICK discover \in BOOLEAN, due \in SUBSET ToSet(pool) :
        LET s == MonitorHosts(IF discover THEN Discover(Scan) ELSE Scan, due) IN
        /\ host' = s.host /\ last_checked' = s.last /\ active_queries' = s.active
        /\ queries' = queries \o s.sent /\ discovering' = (discovering \/ discover)
  BY DEF Timer
<1>2. HostTypes /\ UNCHANGED pool
  BY DEF QueryInv, Timer
<1> DEFINE t == IF discover THEN Discover(Scan) ELSE Scan
           s == MonitorHosts(t, due)
<1>3. ScanOK(t, discover)
  <2>1. CASE discover
    <3>1. ScanOK(Discover(Scan), TRUE)
      BY <1>2, ScanBegins DEF QueryInv
    <3>2. discover = TRUE
      BY <2>1
    <3> QED BY <3>1, <3>2
  <2>2. CASE ~discover
    <3>1. ScanOK(Scan, FALSE)
      BY <1>2, ScanBegins
    <3>2. discover = FALSE
      BY <2>2
    <3> QED BY <3>1, <3>2
  <2> QED BY <2>1, <2>2
<1>4. ScanOK(s, discover)
  <2> HIDE DEF t
  <2> QED BY <1>2, <1>3, MonitorHostsKeeps
<1>5. /\ host' = s.host /\ last_checked' = s.last /\ active_queries' = s.active
      /\ queries' = queries \o s.sent /\ (discovering' <=> discovering \/ discover)
      /\ discovering' \in BOOLEAN
  <2>1. discovering \in BOOLEAN
    BY <1>2 DEF HostTypes
  <2> QED BY <1>1, <2>1
<1> HIDE DEF s, t
<1>6. /\ s.sent \in Seq(Queries) /\ queries \in Seq(Queries) /\ s.active \in Int
      /\ s.host \in [Hosts -> HostRecord] /\ s.last \in Int
      /\ Len(s.sent) \in Nat /\ Len(queries) \in Nat
      /\ DOMAIN s.sent = 1..Len(s.sent) /\ DOMAIN queries = 1..Len(queries)
  BY <1>2, <1>4, SeqIs DEF ScanOK, HostTypes
<1>7. /\ queries' \in Seq(Queries) /\ Len(queries') = Len(queries) + Len(s.sent)
      /\ DOMAIN queries' = 1..(Len(queries) + Len(s.sent))
      /\ \A i \in 1..Len(queries) : queries'[i] = queries[i]
      /\ \A i \in 1..Len(s.sent) : queries'[Len(queries) + i] = s.sent[i]
  <2>1. IsSeq(queries) /\ IsSeq(s.sent) /\ queries \o s.sent \in Seq(Queries)
    BY <1>6, SeqIs, ConcatProperties
  <2> QED BY <1>5, <2>1, ConcatIs
<1>8. ASSUME NEW i \in DOMAIN queries'
      PROVE  \/ i \in 1..Len(queries) /\ queries'[i] = queries[i]
             \/ i - Len(queries) \in 1..Len(s.sent) /\ queries'[i] = s.sent[i - Len(queries)]
  <2>1. CASE i \in 1..Len(queries)
    BY <1>7, <2>1
  <2>2. CASE i \notin 1..Len(queries)
    <3>1. i - Len(queries) \in 1..Len(s.sent) /\ Len(queries) + (i - Len(queries)) = i
      BY <1>6, <1>7, <2>2
    <3> QED BY <1>7, <3>1
  <2> QED BY <2>1, <2>2
<1>9. HostTypes'
  <2>1. \A h \in Hosts : s.host[h].slots \in {0, Capacity[h]}
    BY <1>2, <1>4 DEF ScanOK, HostTypes
  <2> QED BY <1>2, <1>5, <1>6, <1>7, <2>1 DEF HostTypes
<1>10. Len(queries') <= active_queries'
  <2>1. s.active = active_queries + Len(s.sent) /\ Len(queries) <= active_queries
        /\ active_queries \in Int
    BY <1>2, <1>4 DEF ScanOK, QueryInv, HostTypes
  <2> QED BY <1>5, <1>6, <1>7, <2>1
<1>11. active_queries' <= max_active_im_queries + (IF discovering' THEN 1 ELSE 0)
  <2>1. s.active <= active_queries
          \/ s.active <= max_active_im_queries + (IF discovering \/ discover THEN 1 ELSE 0)
    BY <1>4 DEF ScanOK
  <2>2. active_queries <= max_active_im_queries + (IF discovering THEN 1 ELSE 0)
        /\ active_queries \in Int /\ max_active_im_queries \in Int
    BY <1>2, IMAssumption DEF QueryInv, HostTypes
  <2> QED BY <1>5, <1>6, <2>1, <2>2
<1>12. \A g \in ToSet(pool) : g \in Hosts
  BY <1>2 DEF HostTypes, ToSet
\* What waited, and what is new.
<1>13. ASSUME NEW i \in 1..Len(queries)
       PROVE  \/ queries[i] = DISCOVER /\ discovering
              \/ \E h \in ToSet(pool) : queries[i] = MONITOR(h) /\ host[h].state = "MONITORING"
  BY <1>6 DEF QueryInv, Awaited
<1>14. ASSUME NEW i \in 1..Len(s.sent)
       PROVE  \/ s.sent[i] = DISCOVER /\ discover /\ ~discovering
              \/ \E h \in ToSet(pool) : /\ s.sent[i] = MONITOR(h)
                                        /\ s.host[h].state = "MONITORING"
                                        /\ host[h].state # "MONITORING"
  BY <1>4, <1>6 DEF ScanOK
<1>15. ASSUME NEW i \in 1..Len(queries), NEW k \in 1..Len(s.sent)
       PROVE  queries[i] # s.sent[k]
  <2>1. CASE queries[i] = DISCOVER /\ discovering
    BY <1>14, <2>1, QueryNames
  <2>2. CASE \E h \in ToSet(pool) : queries[i] = MONITOR(h) /\ host[h].state = "MONITORING"
    BY <1>14, <2>2, QueryNames
  <2> QED BY <1>13, <2>1, <2>2
<1>16. Unequal(queries) /\ Unequal(s.sent)
  BY <1>4 DEF QueryInv, ScanOK
<1>17. Unequal(queries')
  <2>1. ASSUME NEW i \in DOMAIN queries', NEW k \in DOMAIN queries', queries'[i] = queries'[k]
        PROVE  i = k
    <3>1. CASE i \in 1..Len(queries) /\ queries'[i] = queries[i]
      <4>1. ~(k - Len(queries) \in 1..Len(s.sent) /\ queries'[k] = s.sent[k - Len(queries)])
        BY <1>15, <2>1, <3>1
      <4>2. k \in 1..Len(queries) /\ queries'[k] = queries[k]
        BY <1>8, <4>1
      <4> QED BY <1>6, <1>16, <2>1, <3>1, <4>2 DEF Unequal
    <3>2. CASE i - Len(queries) \in 1..Len(s.sent) /\ queries'[i] = s.sent[i - Len(queries)]
      <4>1. ~(k \in 1..Len(queries) /\ queries'[k] = queries[k])
        BY <1>15, <2>1, <3>2
      <4>2. k - Len(queries) \in 1..Len(s.sent) /\ queries'[k] = s.sent[k - Len(queries)]
        BY <1>8, <4>1
      <4>3. i - Len(queries) = k - Len(queries)
        BY <1>6, <1>16, <2>1, <3>2, <4>2 DEF Unequal
      <4>4. i \in Int /\ k \in Int
        BY <1>6, <1>7
      <4> QED BY <1>6, <4>3, <4>4
    <3> QED BY <1>8, <3>1, <3>2
  <2> QED BY <2>1 DEF Unequal
<1>18. ASSUME NEW i \in DOMAIN queries'
       PROVE  Awaited(queries[i])'
  <2>1. \A h \in Hosts : host[h].state = "MONITORING" => s.host[h].state = "MONITORING"
    BY <1>4 DEF ScanOK
  <2>2. \/ queries'[i] = DISCOVER /\ discovering'
        \/ \E h \in ToSet(pool) : queries'[i] = MONITOR(h) /\ s.host[h].state = "MONITORING"
    <3>1. CASE i \in 1..Len(queries) /\ queries'[i] = queries[i]
      BY <1>5, <1>12, <1>13, <2>1, <3>1
    <3>2. CASE i - Len(queries) \in 1..Len(s.sent) /\ queries'[i] = s.sent[i - Len(queries)]
      BY <1>5, <1>14, <3>2
    <3> QED BY <1>8, <3>1, <3>2
  <2> QED BY <1>2, <1>5, <2>2 DEF Awaited
<1> QED
  BY <1>9, <1>10, <1>11, <1>17, <1>18 DEF QueryInv

\* The MAD answers the first query.
LEMMA AnsweredQueue ==
  ASSUME QueryInv, NEW act, Answered(act)
  PROVE  /\ queries' \in Seq(Queries) /\ Unequal(queries')
         /\ Len(queries') <= active_queries' /\ active_queries' \in Int
         /\ active_queries' = active_queries - 1 /\ UNCHANGED last_checked
         /\ \A i \in DOMAIN queries' : /\ queries'[i] # Head(queries)
                                       /\ Awaited(queries'[i])
         /\ Awaited(Head(queries)) /\ Head(queries).act = act
<1>1. /\ queries # <<>> /\ Head(queries).act = act /\ queries' = Tail(queries)
      /\ active_queries' = active_queries - 1 /\ UNCHANGED last_checked
  BY DEF Answered
<1>2. queries \in Seq(Queries) /\ active_queries \in Int /\ Unequal(queries)
      /\ Len(queries) <= active_queries /\ \A i \in DOMAIN queries : Awaited(queries[i])
  BY DEF QueryInv, HostTypes
<1>3. /\ Tail(queries) \in Seq(Queries)
      /\ Len(queries) \in Nat \ {0} /\ DOMAIN queries = 1..Len(queries)
      /\ Len(Tail(queries)) = Len(queries) - 1
      /\ DOMAIN Tail(queries) = 1..(Len(queries) - 1)
      /\ Head(queries) = queries[1]
      /\ \A i \in 1..(Len(queries) - 1) : Tail(queries)[i] = queries[i + 1]
  <2>1. IsSeq(queries) /\ Tail(queries) \in Seq(Queries)
    BY <1>1, <1>2, SeqIs, HeadTailProperties
  <2> QED BY <1>1, <2>1, TailIs
<1>4. ASSUME NEW i \in 1..(Len(queries) - 1)
      PROVE  i + 1 \in DOMAIN queries /\ 1 \in DOMAIN queries /\ i + 1 # 1 /\ i \in Int
  BY <1>3
<1>5. Unequal(Tail(queries))
  BY <1>2, <1>3, <1>4 DEF Unequal
<1>6. \A i \in DOMAIN Tail(queries) : /\ Tail(queries)[i] # Head(queries)
                                      /\ Awaited(Tail(queries)[i])
  BY <1>2, <1>3, <1>4 DEF Unequal
<1>7. Awaited(Head(queries))
  BY <1>2, <1>3
<1> QED
  BY <1>1, <1>2, <1>3, <1>5, <1>6, <1>7

\* An answer about the host h: it is the only one that is no longer awaited.
LEMMA MonitorQuery ==
  ASSUME QueryInv, NEW h \in Hosts, Answered("MONITOR"), h = Head(queries).hid,
         UNCHANGED <<pool, discovering>>,
         host' \in [Hosts -> HostRecord], host'[h].slots \in {0, Capacity[h]},
         \A g \in Hosts : g # h => host'[g] = host[g]
  PROVE  QueryInv'
<1>1. /\ queries' \in Seq(Queries) /\ Unequal(queries')
      /\ Len(queries') <= active_queries' /\ active_queries' \in Int
      /\ active_queries' = active_queries - 1 /\ UNCHANGED last_checked
      /\ \A i \in DOMAIN queries' : queries'[i] # Head(queries) /\ Awaited(queries'[i])
      /\ Awaited(Head(queries)) /\ Head(queries).act = "MONITOR"
  BY AnsweredQueue
<1>2. Head(queries) = MONITOR(h)
  BY <1>1, QueryNames DEF Awaited
<1>3. \A g \in ToSet(pool) : g \in Hosts
  BY DEF QueryInv, HostTypes, ToSet
<1>4. ASSUME NEW i \in DOMAIN queries' PROVE Awaited(queries[i])'
  <2>1. \/ queries'[i] = DISCOVER /\ discovering
        \/ \E g \in ToSet(pool) : queries'[i] = MONITOR(g) /\ host[g].state = "MONITORING"
    BY <1>1 DEF Awaited
  <2>2. \A g : queries'[i] = MONITOR(g) => g # h
    BY <1>1, <1>2
  <2> QED BY <1>3, <2>1, <2>2 DEF Awaited
<1>5. HostTypes'
  BY <1>1 DEF QueryInv, HostTypes
<1>6. active_queries' <= max_active_im_queries + (IF discovering' THEN 1 ELSE 0)
  BY <1>1, IMAssumption DEF QueryInv, HostTypes
<1> QED
  BY <1>1, <1>4, <1>5, <1>6 DEF QueryInv

\* An answer about a host, good, failed or garbled, ends one query.
LEMMA HostAnswers ==
  ASSUME QueryInv, NEW h \in Hosts, Monitored(h) \/ MonitorFails(h) \/ Garbled(h)
  PROVE  QueryInv'
<1>1. host \in [Hosts -> HostRecord] /\ \A g \in Hosts : host[g].slots \in {0, Capacity[g]}
  BY DEF QueryInv, HostTypes
<1>2. Capacity[h] \in Nat /\ {"MONITORED", "UNKNOWN"} \subseteq States
  BY IMAssumption DEF States
<1>3. CASE Monitored(h)
  <2>1. host' = [host EXCEPT ![h] = WithAnswer(@, h)]
    BY <1>3 DEF Monitored
  <2>2. host' \in [Hosts -> HostRecord] /\ host'[h].slots = Capacity[h]
        /\ \A g \in Hosts : g # h => host'[g] = host[g]
    BY <1>1, <1>2, <2>1 DEF WithAnswer, HostRecord
  <2> QED BY <1>3, <2>2, MonitorQuery DEF Monitored
<1>4. CASE MonitorFails(h)
  <2>1. host' = [host EXCEPT ![h].state = "UNKNOWN", ![h].fixed_priority = 0, ![h].slots = 0,
                             ![h].checked = FALSE]
    BY <1>4 DEF MonitorFails
  <2> DEFINE cleared == [host[h] EXCEPT !.state = "UNKNOWN", !.fixed_priority = 0, !.slots = 0,
                                        !.checked = FALSE]
  <2>3. cleared \in HostRecord /\ cleared.slots = 0
    <3>1. host[h] \in HostRecord /\ 0 \in Nat
      BY <1>1
    <3> QED BY <1>2, <3>1 DEF HostRecord
  <2>4. host' = [host EXCEPT ![h] = cleared]
    BY <1>1, <2>1
  <2>2. host' \in [Hosts -> HostRecord] /\ host'[h].slots = 0
        /\ \A g \in Hosts : g # h => host'[g] = host[g]
    <3> HIDE DEF cleared
    <3> QED BY <1>1, <2>3, <2>4
  <2> QED BY <1>4, <2>2, MonitorQuery DEF MonitorFails
<1>5. CASE Garbled(h)
  <2>1. host' = [host EXCEPT ![h].state = "UNKNOWN"]
    BY <1>5 DEF Garbled
  <2>2. host' \in [Hosts -> HostRecord] /\ host'[h].slots = host[h].slots
        /\ \A g \in Hosts : g # h => host'[g] = host[g]
    BY <1>1, <1>2, <2>1 DEF HostRecord
  <2> QED BY <1>1, <1>5, <2>2, MonitorQuery DEF Garbled
<1> QED
  BY <1>3, <1>4, <1>5

\* The answer to a discovery ends the only one.
LEMMA DiscoverQuery ==
  ASSUME QueryInv, Discovered \/ DiscoverFails
  PROVE  QueryInv'
<1>1. Answered("DISCOVER") /\ ~discovering' /\ discovering' \in BOOLEAN
  BY DEF Discovered, DiscoverFails
<1>2. /\ queries' \in Seq(Queries) /\ Unequal(queries')
      /\ Len(queries') <= active_queries' /\ active_queries' \in Int
      /\ active_queries' = active_queries - 1 /\ UNCHANGED last_checked
      /\ \A i \in DOMAIN queries' : queries'[i] # Head(queries) /\ Awaited(queries'[i])
      /\ Awaited(Head(queries)) /\ Head(queries).act = "DISCOVER"
  BY <1>1, AnsweredQueue
<1>3. Head(queries) = DISCOVER /\ discovering
  BY <1>2, QueryNames DEF Awaited
<1>4. active_queries' <= max_active_im_queries
  BY <1>2, <1>3, IMAssumption DEF QueryInv, HostTypes
<1>5. /\ pool' \in Seq(Hosts) /\ host' \in [Hosts -> HostRecord]
      /\ \A h \in Hosts : host'[h].slots \in {0, Capacity[h]}
      /\ \A h \in ToSet(pool) : /\ h \in ToSet(pool')
                                /\ host[h].state = "MONITORING" => host'[h].state = "MONITORING"
  <2>1. CASE DiscoverFails
    BY <2>1 DEF DiscoverFails, QueryInv, HostTypes
  <2>2. CASE Discovered
    <3>1. PICK found \in SUBSET Hosts :
            LET new == found \ ToSet(pool) IN
            /\ pool' = pool \o SetToSeq(new)
            /\ host' = [h \in Hosts |-> IF h \in new THEN NewHost(h)
                                        ELSE IF h \in found THEN Rediscovered(h) ELSE host[h]]
      BY <2>2 DEF Discovered
    <3> DEFINE new == found \ ToSet(pool)
    <3>2. new \in SUBSET Hosts /\ IsFiniteSet(new)
      BY SchedulerAssumption, FS_Subset
    <3>3. SetToSeq(new) \in Seq(new)
      BY <3>2, SetToSeqIs
    <3>4. SetToSeq(new) \in Seq(Hosts)
      <4> HIDE DEF new
      <4> QED BY <3>2, <3>3, SeqMonotonic
    <3>5. pool \in Seq(Hosts) /\ pool' = pool \o SetToSeq(new)
      BY <3>1 DEF QueryInv, HostTypes
    <3>6. pool' \in Seq(Hosts)
      <4> HIDE DEF new
      <4> QED BY <3>4, <3>5, ConcatProperties
    <3>7. \A h \in ToSet(pool) : h \in ToSet(pool')
      <4> HIDE DEF new
      <4>1. IsSeq(pool) /\ IsSeq(SetToSeq(new))
        BY <3>4, <3>5, SeqIs
      <4>2. /\ Len(pool) \in Nat /\ Len(SetToSeq(new)) \in Nat /\ DOMAIN pool = 1..Len(pool)
            /\ DOMAIN pool' = 1..(Len(pool) + Len(SetToSeq(new)))
            /\ \A i \in 1..Len(pool) : pool'[i] = pool[i]
        BY <3>5, <4>1, ConcatIs
      <4>3. \A i \in DOMAIN pool : i \in DOMAIN pool' /\ pool'[i] = pool[i]
        BY <4>2
      <4> QED BY <4>3 DEF ToSet
    <3>8. /\ host \in [Hosts -> HostRecord] /\ \A h \in Hosts : host[h].slots \in {0, Capacity[h]}
          /\ \A h \in Hosts : Priority[h] \in Nat
          /\ "DISCOVERED" \in States
      <4>1. host \in [Hosts -> HostRecord] /\ \A h \in Hosts : host[h].slots \in {0, Capacity[h]}
        BY DEF QueryInv, HostTypes
      <4>2. \A h \in Hosts : Priority[h] \in 0..20
        BY IMAssumption
      <4>3. "DISCOVERED" \in States
        BY DEF States
      <4> QED BY <4>1, <4>2, <4>3
    <3>9. \A h \in Hosts : NewHost(h) \in HostRecord /\ NewHost(h).slots = 0
      BY <3>8 DEF NewHost, HostRecord
    <3>10. \A h \in Hosts : /\ Rediscovered(h) \in HostRecord
                            /\ Rediscovered(h).slots = host[h].slots
                            /\ host[h].state = "MONITORING" => Rediscovered(h) = host[h]
      BY <3>8 DEF Rediscovered, HostRecord
    <3>11. \A h \in Hosts : host'[h] = IF h \in new THEN NewHost(h)
                                       ELSE IF h \in found THEN Rediscovered(h) ELSE host[h]
      BY <3>1
    <3>12. host' \in [Hosts -> HostRecord]
      BY <3>1, <3>8, <3>9, <3>10
    <3>13. \A h \in Hosts : host'[h].slots \in {0, Capacity[h]}
      BY <3>8, <3>9, <3>10, <3>11
    <3>14. \A h \in ToSet(pool) : host[h].state = "MONITORING" => host'[h].state = "MONITORING"
      <4>1. \A h \in ToSet(pool) : h \in Hosts /\ h \notin new
        BY <3>5 DEF ToSet
      <4> QED BY <3>10, <3>11, <4>1
    <3> QED BY <3>6, <3>7, <3>12, <3>13, <3>14
  <2> QED BY <2>1, <2>2
<1>6. ASSUME NEW i \in DOMAIN queries' PROVE Awaited(queries[i])'
  <2>1. \E h \in ToSet(pool) : queries'[i] = MONITOR(h) /\ host[h].state = "MONITORING"
    BY <1>2, <1>3 DEF Awaited
  <2> QED BY <1>5, <2>1 DEF Awaited
<1>7. last_checked' \in Int
  BY <1>2 DEF QueryInv, HostTypes
<1>8. active_queries' <= max_active_im_queries + (IF discovering' THEN 1 ELSE 0)
  BY <1>1, <1>2, <1>4, IMAssumption
<1>9. HostTypes'
  BY <1>1, <1>2, <1>5, <1>7 DEF HostTypes
<1> QED
  BY <1>2, <1>6, <1>8, <1>9 DEF QueryInv

\* A MAD that dies takes its queries with it.
LEMMA CrashQuery ==
  ASSUME QueryInv, MadCrash
  PROVE  QueryInv'
<1>1. queries' = <<>> /\ UNCHANGED <<pool, host, last_checked, discovering, active_queries>>
  BY DEF MadCrash
<1>2. <<>> \in Seq(Queries) /\ Len(<<>>) = 0 /\ DOMAIN <<>> = {}
  BY EmptyIs
<1>3. Len(queries) \in Nat /\ active_queries \in Int /\ Len(queries) <= active_queries
  BY DEF QueryInv, HostTypes
<1>4. Len(queries') <= active_queries'
  BY <1>1, <1>2, <1>3
<1> QED
  BY <1>1, <1>2, <1>4 DEF QueryInv, HostTypes, Unequal

\* Every step keeps one query for a host.
LEMMA QueryStep ==
  ASSUME QueryInv, [Next]_vars
  PROVE  QueryInv'
<1>1. CASE UNCHANGED imtables
  BY <1>1 DEF imtables, QueryInv, HostTypes, Awaited
<1>2. CASE Silent
  BY <1>2, TimerQuery, DiscoverQuery, CrashQuery, HostAnswers DEF Silent
<1>3. ASSUME NEW h \in Hosts, Told(h) PROVE QueryInv'
  BY <1>3, HostAnswers DEF Told
<1>4. CASE UNCHANGED vars
  BY <1>1, <1>4 DEF vars, imv
<1>5. CASE Next
  <2>1. UNCHANGED imtables \/ Silent \/ \E h \in Hosts : Told(h)
    BY <1>5 DEF Next, imv
  <2> QED BY <1>1, <1>2, <1>3, <2>1
<1> QED
  BY <1>4, <1>5

\* gwd never asks the MAD of the Information manager twice about a host, and its
\* counter of queries never falls below those that wait nor rises over the limit by
\* more than a discovery (gw_im_timer, gw_host_pool_monitor_hosts, gw_im_listener),
\* for any pool of hosts and however often the MAD dies with its queries.
THEOREM QueriesOnce == Spec => []OneQuery
<1>1. Init => QueryInv
  BY QueryInit
<1>2. QueryInv /\ [Next]_vars => QueryInv'
  BY QueryStep
<1>3. QueryInv => OneQuery
  BY IMAssumption DEF QueryInv, HostTypes, Unequal, OneQuery
<1> QED
  BY <1>1, <1>2, <1>3, PTL DEF Spec

-----------------------------------------------------------------------------
(* The slots of the hosts.                                                 *)

\* The answers in the pipe q that give a slot of the host h.
Granted(q, h) == {i \in DOMAIN q : q[i].act = "SUCCESS" /\ q[i].hid = h}

\* A slot is promised only in a round that has ended.
Answers ==
  \A i \in DOMAIN out :
    /\ out[i].act \in {"SUCCESS", "FAILED", "SCHEDULE_END"}
    /\ out[i].act = "SUCCESS" => \E k \in Ended : i < k

\* The slots that a round counts with are free.
Offer(slots) ==
  \A h \in Hosts : h \in DOMAIN slots => slots[h] \in Int /\ slots[h] <= Capacity[h] - running[h]

Matching ==
  round # NoRound =>
    /\ round = [next |-> round.next, last |-> round.last, mhosts |-> round.mhosts]
    /\ round.next \in 1..(Len(jobs) + 1)
    /\ round.last # NoArray => round.next > 1
    /\ IsSeq(round.mhosts) /\ Len(round.mhosts) = round.next - 1
    /\ \A i \in DOMAIN round.mhosts : Offer(round.mhosts[i])

\* A host has room for the jobs it runs and for those promised to it.
SlotInv ==
  /\ running \in [Hosts -> Int]
  /\ Answers
  /\ \A h \in Hosts : Cardinality(Granted(out, h)) <= Capacity[h] - running[h]
  /\ Matching

\* The slots promised in a queue can be counted.
LEMMA GrantedFinite ==
  ASSUME NEW q, NEW h, IsSeq(q)
  PROVE  IsFiniteSet(Granted(q, h)) /\ Cardinality(Granted(q, h)) \in Nat
<1>1. Len(q) \in Nat /\ DOMAIN q = 1..Len(q)
  BY SeqIs DEF IsSeq
<1>2. IsFiniteSet(1..Len(q))
  BY <1>1, FS_Interval
<1>3. Granted(q, h) \subseteq 1..Len(q)
  BY <1>1 DEF Granted
<1> QED
  BY <1>2, <1>3, FS_Subset, FS_CardinalityType

\* An answer that is taken is a slot that is no longer promised.
LEMMA GrantedTail ==
  ASSUME NEW q, NEW h, IsSeq(q), q # <<>>
  PROVE  Cardinality(Granted(Tail(q), h))
           + (IF Head(q).act = "SUCCESS" /\ Head(q).hid = h THEN 1 ELSE 0)
         <= Cardinality(Granted(q, h))
<1>1. /\ IsSeq(Tail(q)) /\ Len(q) \in Nat \ {0} /\ DOMAIN q = 1..Len(q)
      /\ DOMAIN Tail(q) = 1..(Len(q) - 1) /\ Head(q) = q[1]
      /\ \A i \in 1..(Len(q) - 1) : Tail(q)[i] = q[i + 1]
  BY TailIs
<1> DEFINE S == Granted(Tail(q), h)
           T == Granted(q, h)
           f == [i \in S |-> i + 1]
<1>2. IsFiniteSet(T) /\ Cardinality(T) \in Nat /\ Cardinality(S) \in Nat
  BY <1>1, GrantedFinite
<1>3. S \subseteq Nat \ {0} /\ \A i \in S : i + 1 \in T \ {1}
  BY <1>1 DEF Granted
<1>4. f \in [S -> T \ {1}] /\ \A x, y \in S : f[x] = f[y] => x = y
  <2> HIDE DEF S, T
  <2> QED BY <1>3
<1>5. IsFiniteSet(T \ {1})
  BY <1>2, FS_Subset
<1>6. Cardinality(S) <= Cardinality(T \ {1})
  <2> HIDE DEF S, T, f
  <2> QED BY <1>4, <1>5, CountByMap
<1>7. (Head(q).act = "SUCCESS" /\ Head(q).hid = h) <=> 1 \in T
  BY <1>1 DEF Granted
<1>8. Cardinality(T \ {1}) = IF 1 \in T THEN Cardinality(T) - 1 ELSE Cardinality(T)
  <2> HIDE DEF T
  <2> QED BY <1>2, FS_RemoveElement
<1> HIDE DEF S, T
<1>9. CASE 1 \in T
  BY <1>2, <1>6, <1>7, <1>8, <1>9 DEF S, T
<1>10. CASE 1 \notin T
  BY <1>2, <1>6, <1>7, <1>8, <1>10 DEF S, T
<1> QED
  BY <1>9, <1>10

\* What promises nothing, appended, promises nothing.
LEMMA GrantedConcat ==
  ASSUME NEW q, NEW ms, NEW h, IsSeq(q), IsSeq(ms), Granted(ms, h) = {}
  PROVE  Granted(q \o ms, h) = Granted(q, h)
<1>1. /\ Len(q) \in Nat /\ Len(ms) \in Nat
      /\ DOMAIN q = 1..Len(q) /\ DOMAIN ms = 1..Len(ms)
      /\ DOMAIN (q \o ms) = 1..(Len(q) + Len(ms))
      /\ \A i \in 1..Len(q) : (q \o ms)[i] = q[i]
      /\ \A i \in 1..Len(ms) : (q \o ms)[Len(q) + i] = ms[i]
  BY ConcatIs
<1>2. ASSUME NEW i \in 1..(Len(q) + Len(ms)), i \notin 1..Len(q)
      PROVE  ~((q \o ms)[i].act = "SUCCESS" /\ (q \o ms)[i].hid = h)
  <2>1. i - Len(q) \in 1..Len(ms) /\ Len(q) + (i - Len(q)) = i
    BY <1>1, <1>2
  <2>2. (q \o ms)[i] = ms[i - Len(q)]
    BY <1>1, <2>1
  <2> QED BY <1>1, <2>1, <2>2 DEF Granted
<1> QED
  BY <1>1, <1>2 DEF Granted

\* Jobs that end leave more room.
LEMMA FewerRun ==
  ASSUME RoundInv, SlotInv, UNCHANGED <<jobs, round, out>>,
         running' \in [Hosts -> Int], \A h \in Hosts : running'[h] <= running[h]
  PROVE  SlotInv'
<1>1. \A h \in Hosts : /\ Capacity[h] \in Nat /\ running[h] \in Int /\ running'[h] \in Int
                       /\ Cardinality(Granted(out, h)) \in Nat
  BY IMAssumption, GrantedFinite DEF SlotInv, RoundInv, Pipes
<1>2. Answers'
  BY DEF SlotInv, Answers, Ended
<1>3. \A h \in Hosts : Cardinality(Granted(out', h)) <= Capacity[h] - running'[h]
  BY <1>1 DEF SlotInv
<1>4. ASSUME NEW slots, Offer(slots)
      PROVE  \A h \in Hosts : h \in DOMAIN slots =>
                slots[h] \in Int /\ slots[h] <= Capacity[h] - running'[h]
  BY <1>1, <1>4 DEF Offer
<1>5. Matching'
  <2>1. ASSUME NEW i \in DOMAIN round.mhosts, round # NoRound PROVE Offer(round.mhosts[i])'
    <3>1. Offer(round.mhosts[i])
      BY <2>1 DEF SlotInv, Matching
    <3> QED BY <1>4, <3>1 DEF Offer
  <2> QED BY <2>1 DEF SlotInv, Matching
<1> QED
  BY <1>2, <1>3, <1>5 DEF SlotInv

\* Outside a round nothing is offered.
LEMMA NoRoundSlots ==
  ASSUME SlotInv, UNCHANGED <<running, out>>, round' = NoRound
  PROVE  SlotInv'
<1>1. Answers' /\ \A h \in Hosts : Cardinality(Granted(out', h)) <= Capacity[h] - running'[h]
  BY DEF SlotInv, Answers, Ended
<1> QED
  BY <1>1 DEF SlotInv, Matching

\* A sentence that promises nothing.
LEMMA OtherAnswer ==
  ASSUME RoundInv, SlotInv, NEW m, m.act \in {"FAILED", "SCHEDULE_END"}, UNCHANGED running,
         out' = out \o <<m>>
  PROVE  Answers' /\ \A h \in Hosts : Cardinality(Granted(out', h)) <= Capacity[h] - running'[h]
<1>1. IsSeq(out) /\ IsSeq(<<m>>) /\ Len(<<m>>) = 1 /\ DOMAIN <<m>> = 1..1 /\ <<m>>[1] = m
  BY OneIs DEF RoundInv, Pipes
<1>2. /\ Len(out) \in Nat /\ DOMAIN out = 1..Len(out)
      /\ DOMAIN (out \o <<m>>) = 1..(Len(out) + Len(<<m>>))
      /\ \A i \in 1..Len(out) : (out \o <<m>>)[i] = out[i]
      /\ \A i \in 1..Len(<<m>>) : (out \o <<m>>)[Len(out) + i] = <<m>>[i]
  BY <1>1, ConcatIs
<1>3. /\ DOMAIN out' = 1..(Len(out) + 1)
      /\ \A i \in 1..Len(out) : out'[i] = out[i]
      /\ out'[Len(out) + 1] = m
  <2>1. 1 \in 1..Len(<<m>>)
    BY <1>1
  <2> QED BY <1>1, <1>2, <2>1
<1>4. ASSUME NEW h \in Hosts PROVE Granted(out', h) = Granted(out, h)
  <2>1. Granted(<<m>>, h) = {}
    BY <1>1 DEF Granted
  <2>2. Granted(out \o <<m>>, h) = Granted(out, h)
    BY <1>1, <2>1, GrantedConcat
  <2> QED BY <2>2
<1>5. \A k \in Ended : k \in Ended'
  BY <1>2, <1>3 DEF Ended, Held
<1>6. ASSUME NEW i \in DOMAIN out'
      PROVE  /\ out'[i].act \in {"SUCCESS", "FAILED", "SCHEDULE_END"}
             /\ out'[i].act = "SUCCESS" => \E k \in Ended' : i < k
  <2>1. CASE i \in 1..Len(out)
    BY <1>2, <1>3, <1>5, <2>1 DEF SlotInv, Answers
  <2>2. CASE i = Len(out) + 1
    BY <1>3, <2>2
  <2> QED BY <1>2, <1>3, <2>1, <2>2
<1> QED
  BY <1>4, <1>6 DEF SlotInv, Answers

\* A round begins with no job matched: nothing is promised yet.
LEMMA ScheduleSlots ==
  ASSUME RoundInv, SlotInv, HandleSchedule, UNCHANGED running
  PROVE  SlotInv'
<1>0. UNCHANGED jobs
  BY DEF HandleSchedule, tables
<1>1. CASE round' = [NoRound EXCEPT !.next = 1] /\ UNCHANGED out
  <2>1. round' = [next |-> 1, last |-> NoArray, mhosts |-> <<>>]
    BY <1>1 DEF NoRound
  <2>2. Len(jobs) \in Nat /\ 1 \in 1..(Len(jobs) + 1)
    BY SeqIs DEF RoundInv, Pipes, IsSeq
  <2>3. /\ round'.next = 1 /\ round'.last = NoArray /\ round'.mhosts = <<>>
        /\ IsSeq(<<>>) /\ Len(<<>>) = 0 /\ DOMAIN <<>> = {}
    BY <2>1, EmptyIs
  <2>4. Matching'
    BY <1>0, <2>1, <2>2, <2>3 DEF Matching
  <2> QED BY <1>1, <2>4 DEF SlotInv, Answers, Ended
<1>2. CASE out' = out \o <<[act |-> "SCHEDULE_END"]>> /\ UNCHANGED round
  <2>1. [act |-> "SCHEDULE_END"].act = "SCHEDULE_END"
    OBVIOUS
  <2>2. Answers' /\ \A h \in Hosts : Cardinality(Granted(out', h)) <= Capacity[h] - running'[h]
    <3> DEFINE m == [act |-> "SCHEDULE_END"]
    <3>1. m.act \in {"FAILED", "SCHEDULE_END"} /\ out' = out \o <<m>>
      BY <1>2
    <3> HIDE DEF m
    <3> QED BY <3>1, OtherAnswer
  <2>3. round = NoRound
    BY DEF HandleSchedule, Take
  <2> QED BY <1>2, <2>2, <2>3 DEF SlotInv, Matching
<1> QED
  BY <1>1, <1>2 DEF HandleSchedule, Answer

\* The slots gwd answers with are those its host has left.
LEMMA MatchesOffer ==
  ASSUME QueryInv, RoundInv, SlotInv, NEW j, NEW hs, hs \subseteq DOMAIN Matches(j).slots
  PROVE  /\ Offer([h \in hs |-> Matches(j).slots[h]])
         /\ ToSet(pool) \subseteq Hosts
<1>1. ToSet(pool) \subseteq Hosts
  BY DEF QueryInv, HostTypes, ToSet
<1>2. ASSUME NEW h \in Hosts, h \in hs
      PROVE  Matches(j).slots[h] \in Int /\ Matches(j).slots[h] <= Capacity[h] - running[h]
  <2>1. /\ Capacity[h] \in Nat /\ running[h] \in Int /\ host[h].slots \in {0, Capacity[h]}
        /\ Cardinality(Granted(out, h)) \in Nat
        /\ Cardinality(Granted(out, h)) <= Capacity[h] - running[h]
    BY IMAssumption, GrantedFinite DEF QueryInv, HostTypes, SlotInv, RoundInv, Pipes
  <2>2. Matches(j).slots[h] = IF host[h].slots > 0 THEN host[h].slots - running[h] ELSE 0
    BY <1>2 DEF Matches
  <2> QED BY <2>1, <2>2
<1> QED
  BY <1>1, <1>2 DEF Offer

\* gw_job_match: a job is matched only with a host that has a slot left.
LEMMA MatchSlots ==
  ASSUME QueryInv, RoundInv, SlotInv, Match, UNCHANGED running
  PROVE  SlotInv'
<1> DEFINE e == jobs[round.next]
           m == Matches(e.jid)
           n == round.next
<1>1. n \in DOMAIN jobs /\ MatchNext(m) /\ UNCHANGED jobs
  BY DEF Match, MatchNext, tables
<1>2. DOMAIN jobs = 1..Len(jobs) /\ Len(jobs) \in Nat /\ n \in 1..Len(jobs)
  BY <1>1, SeqIs DEF RoundInv, Pipes, IsSeq
<1>3. round # NoRound
  BY <1>2 DEF NoRound
<1>4. /\ round = [next |-> n, last |-> round.last, mhosts |-> round.mhosts]
      /\ round.last # NoArray => n > 1
      /\ IsSeq(round.mhosts) /\ Len(round.mhosts) = n - 1
      /\ \A i \in DOMAIN round.mhosts : Offer(round.mhosts[i])
  BY <1>3 DEF SlotInv, Matching
<1>5. Answers' /\ \A h \in Hosts : Cardinality(Granted(out', h)) <= Capacity[h] - running'[h]
  <2>1. CASE UNCHANGED out
    BY <2>1 DEF SlotInv, Answers, Ended
  <2>2. ASSUME NEW f, f = [act |-> "FAILED", jid |-> e.jid], out' = out \o <<f>>
        PROVE  Answers' /\ \A h \in Hosts : Cardinality(Granted(out', h)) <= Capacity[h] - running'[h]
    <3>1. f.act \in {"FAILED", "SCHEDULE_END"}
      BY <2>2
    <3> QED BY <2>2, <3>1, OtherAnswer
  <2>3. UNCHANGED out \/ out' = out \o <<[act |-> "FAILED", jid |-> e.jid]>>
    BY <1>1 DEF MatchNext, Answer
  <2> HIDE DEF e
  <2> QED BY <2>1, <2>2, <2>3
<1>6. \E slots, last :
        /\ round' = [next |-> n + 1, mhosts |-> Append(round.mhosts, slots), last |-> last]
        /\ Offer(slots)
  <2>1. PICK banned \in Banned(e) :
          LET kept == Kept(e, m, banned) IN
          IF SkipsMatching(e)
            THEN round' = [round EXCEPT !.next = @ + 1, !.mhosts = Append(@, Last(@))]
            ELSE round' = [next   |-> n + 1,
                           mhosts |-> Append(round.mhosts, [h \in kept |-> m.slots[h]]),
                           last   |-> IF DOMAIN m.slots = {} THEN round.last
                                      ELSE ArrayOf[e.jid]]
    BY <1>1 DEF MatchNext
  <2>2. CASE SkipsMatching(e)
    <3>1. round.last # NoArray
      BY <2>2 DEF SkipsMatching
    <3>2. /\ Len(round.mhosts) \in Nat /\ DOMAIN round.mhosts = 1..Len(round.mhosts)
          /\ Len(round.mhosts) > 0
      BY <1>2, <1>4, <3>1, SeqIs DEF IsSeq
    <3>3. Last(round.mhosts) = round.mhosts[Len(round.mhosts)]
      BY DEF Last
    <3>4. Offer(Last(round.mhosts))
      BY <1>4, <3>2, <3>3
    <3>5. round' = [round EXCEPT !.next = @ + 1, !.mhosts = Append(@, Last(@))]
      BY <2>1, <2>2
    <3>6. round' = [next |-> n + 1, mhosts |-> Append(round.mhosts, Last(round.mhosts)),
                    last |-> round.last]
      BY <1>4, <3>5
    <3> QED BY <3>4, <3>6
  <2>3. CASE ~SkipsMatching(e)
    <3> DEFINE kept == Kept(e, m, banned)
    <3>1. kept \subseteq DOMAIN Matches(e.jid).slots
      BY DEF Kept
    <3>2. Offer([h \in kept |-> m.slots[h]])
      <4> HIDE DEF kept, e
      <4> QED BY <3>1, MatchesOffer
    <3> QED BY <2>1, <2>3, <3>2
  <2> QED BY <2>2, <2>3
<1>7. PICK slots, last :
        /\ round' = [next |-> n + 1, mhosts |-> Append(round.mhosts, slots), last |-> last]
        /\ Offer(slots)
  BY <1>6
<1>8. IsSeq(Append(round.mhosts, slots)) /\ Len(Append(round.mhosts, slots)) = n
      /\ DOMAIN Append(round.mhosts, slots) = 1..n
      /\ \A i \in 1..n : Offer(Append(round.mhosts, slots)[i])
  <2> DEFINE q == round.mhosts
  <2>1. q \in Seq(ToSet(q)) /\ Len(q) = n - 1 /\ DOMAIN q = 1..(n - 1)
        /\ \A i \in 1..(n - 1) : Offer(q[i])
    BY <1>4, SeqIs DEF IsSeq
  <2> DEFINE T == ToSet(q) \union {slots}
  <2>2. q \in Seq(T) /\ slots \in T
    <3>1. ToSet(q) \subseteq T
      OBVIOUS
    <3> HIDE DEF q
    <3> QED BY <2>1, <3>1, SeqMonotonic
  <2> HIDE DEF T, q
  <2>3. Append(q, slots) \in Seq(T) /\ Len(Append(q, slots)) = n
        /\ \A i \in 1..(n - 1) : Append(q, slots)[i] = q[i]
        /\ Append(q, slots)[n] = slots
    BY <1>2, <2>1, <2>2, AppendProperties
  <2>4. IsSeq(Append(q, slots)) /\ DOMAIN Append(q, slots) = 1..n
    BY <2>3, SeqIs
  <2>5. \A i \in 1..n : Offer(Append(q, slots)[i])
    <3>1. ASSUME NEW i \in 1..n PROVE Offer(Append(q, slots)[i])
      <4>1. i \in 1..(n - 1) \/ i = n
        BY <1>2
      <4> QED BY <1>7, <2>1, <2>3, <4>1
    <3> QED BY <3>1
  <2> QED BY <2>3, <2>4, <2>5 DEF q
<1>9. /\ round'.next = n + 1 /\ round'.mhosts = Append(round.mhosts, slots)
      /\ round' = [next |-> round'.next, last |-> round'.last, mhosts |-> round'.mhosts]
  BY <1>7
<1>10. ASSUME NEW i \in DOMAIN round'.mhosts PROVE Offer(round.mhosts[i])'
  <2>1. Offer(round'.mhosts[i])
    BY <1>8, <1>9
  <2> QED BY <2>1 DEF Offer
<1>11. round'.next \in 1..(Len(jobs') + 1) /\ round'.next > 1 /\ Len(round'.mhosts) = round'.next - 1
  BY <1>1, <1>2, <1>8, <1>9
<1>12. Matching'
  BY <1>8, <1>9, <1>10, <1>11 DEF Matching
<1> QED
  BY <1>5, <1>12 DEF SlotInv

\* The attempts that found a host are no more than the slots it has left: each was
\* counted when the next one looked for a host.
LEMMA TakenFit ==
  ASSUME QueryInv, RoundInv, SlotInv, round # NoRound, round.next > Len(jobs),
         NEW p \in Orders, NEW a \in Outcomes(p, Passes(p)), NEW h \in Hosts
  PROVE  Cardinality(To(a, Len(Passes(p)) + 1, h)) <= Capacity[h] - running[h]
<1> DEFINE s == Passes(p)
           n == Len(s)
           room == Capacity[h] - running[h]
           P == {m \in Nat : m <= n => Cardinality(To(a, m + 1, h)) <= room}
<1>1. s \in Seq(1..Len(jobs)) /\ Len(jobs) \in Nat
  BY PassesIs DEF RoundInv, Pipes
<1>2. n \in Nat /\ DOMAIN s = 1..n /\ \A i \in 1..n : s[i] \in 1..Len(jobs)
  BY <1>1, SeqIs
<1>3. DOMAIN round.mhosts = 1..Len(jobs) /\ \A i \in 1..Len(jobs) : Offer(round.mhosts[i])
  <2>1. /\ round.next \in 1..(Len(jobs) + 1) /\ Len(round.mhosts) = round.next - 1
        /\ IsSeq(round.mhosts) /\ \A i \in DOMAIN round.mhosts : Offer(round.mhosts[i])
    BY DEF SlotInv, Matching
  <2>2. Len(round.mhosts) = Len(jobs)
    BY <1>1, <2>1
  <2> QED BY <2>1, <2>2, SeqIs DEF IsSeq
<1>4. room \in Nat
  <2>1. /\ Capacity[h] \in Nat /\ running[h] \in Int /\ Cardinality(Granted(out, h)) \in Nat
        /\ Cardinality(Granted(out, h)) <= Capacity[h] - running[h]
    BY IMAssumption, GrantedFinite DEF SlotInv, RoundInv, Pipes
  <2> QED BY <2>1
<1>5. \A i \in 1..n : a[i] = h => a[i] \in Fit(s, a, i)
  BY <1>2, SchedulerAssumption DEF Outcomes
<1> HIDE DEF s, n, room
<1>6. 0 \in P
  <2>1. To(a, 0 + 1, h) = {}
    BY DEF To, Before
  <2> QED BY <1>4, <2>1, FS_EmptySet
<1>7. ASSUME NEW m \in Nat, m \in P PROVE m + 1 \in P
  <2> SUFFICES ASSUME m + 1 <= n PROVE Cardinality(To(a, (m + 1) + 1, h)) <= room
    OBVIOUS
  <2> DEFINE i == m + 1
             T == To(a, i, h)
  <2>1. i \in 1..n /\ m <= n /\ i - 1 = m /\ (i + 1) - 1 = i
    BY <1>2
  <2>2. T \subseteq 1..m /\ i \notin T
    BY <2>1 DEF To, Before
  <2>3. IsFiniteSet(T) /\ Cardinality(T) \in Nat /\ Cardinality(T) <= room
    <3>1. IsFiniteSet(1..m)
      BY FS_Interval
    <3>2. Cardinality(To(a, m + 1, h)) <= room
      BY <1>7, <2>1
    <3> QED BY <2>2, <3>1, <3>2, FS_Subset, FS_CardinalityType
  <2>4. To(a, i + 1, h) = IF a[i] = h THEN T \union {i} ELSE T
    <3>1. 1..((i + 1) - 1) = (1..(i - 1)) \union {i}
      BY <2>1
    <3>2. h # NoHost
      BY SchedulerAssumption
    <3> QED BY <3>1, <3>2 DEF To, Before
  <2>5. CASE a[i] = h
    <3>1. h \in DOMAIN round.mhosts[s[i]] /\ round.mhosts[s[i]][h] - Cardinality(T) > 0
      BY <1>5, <2>1, <2>5 DEF Fit
    <3>2. round.mhosts[s[i]][h] \in Int /\ round.mhosts[s[i]][h] <= room
      BY <1>2, <1>3, <2>1, <3>1 DEF Offer, room
    <3>3. Cardinality(T \union {i}) = Cardinality(T) + 1
      <4> HIDE DEF T, i
      <4> QED BY <2>2, <2>3, FS_AddElement
    <3>4. Cardinality(T) + 1 <= room
      <4> HIDE DEF T
      <4> QED BY <1>4, <2>3, <3>1, <3>2
    <3>5. To(a, i + 1, h) = T \union {i}
      BY <2>4, <2>5
    <3> HIDE DEF T
    <3> QED BY <3>3, <3>4, <3>5
  <2>6. CASE a[i] # h
    BY <2>3, <2>4, <2>6
  <2> QED BY <2>5, <2>6
<1>8. n \in P
  <2> HIDE DEF P
  <2>1. P \subseteq Nat /\ \A m \in Nat : m \in P => m + 1 \in P
    BY <1>7 DEF P
  <2> QED BY <1>2, <1>6, <2>1, SetInduction
<1> QED
  BY <1>2, <1>8 DEF n, s, room

\* Where the answers of a round are in the queue.
LEMMA PrintedOut ==
  ASSUME IsSeq(out), NEW p, NEW a, NEW sent, NEW ans, Printed(p, a, sent, ans)
  PROVE  /\ Len(out) \in Nat /\ DOMAIN out = 1..Len(out)
         /\ Len(ans) \in Nat
         /\ DOMAIN out' = 1..(Len(out) + (Len(ans) + 1))
         /\ \A i \in 1..Len(out) : out'[i] = out[i]
         /\ \A k \in 1..Len(ans) : out'[Len(out) + k] = SUCCESS(Passes(p), a, sent[k])
         /\ out'[Len(out) + (Len(ans) + 1)] = [act |-> "SCHEDULE_END"]
<1> DEFINE END == [act |-> "SCHEDULE_END"]
           q == ans \o <<END>>
           b == Len(out)
           c == Len(ans)
<1>1. /\ IsSeq(ans) /\ out' = out \o q
      /\ \A k \in 1..c : ans[k] = SUCCESS(Passes(p), a, sent[k])
  BY DEF Printed
<1> HIDE DEF END
<1>2. /\ c \in Nat /\ IsSeq(q) /\ Len(q) = c + 1
      /\ \A k \in 1..c : q[k] = ans[k]
      /\ q[c + 1] = END
  <2>1. IsSeq(<<END>>) /\ Len(<<END>>) = 1 /\ <<END>>[1] = END
    BY OneIs
  <2>2. /\ Len(ans) \in Nat /\ IsSeq(ans \o <<END>>)
        /\ Len(ans \o <<END>>) = Len(ans) + Len(<<END>>)
        /\ \A k \in 1..Len(ans) : (ans \o <<END>>)[k] = ans[k]
        /\ \A k \in 1..Len(<<END>>) : (ans \o <<END>>)[Len(ans) + k] = <<END>>[k]
    BY <1>1, <2>1, ConcatIs
  <2>3. 1 \in 1..Len(<<END>>)
    BY <2>1
  <2> QED BY <2>1, <2>2, <2>3
<1> HIDE DEF q
<1>3. /\ b \in Nat /\ DOMAIN out = 1..b /\ DOMAIN out' = 1..(b + (c + 1))
      /\ \A i \in 1..b : out'[i] = out[i]
      /\ \A k \in 1..(c + 1) : out'[b + k] = q[k]
  <2>1. /\ Len(out) \in Nat /\ DOMAIN out = 1..Len(out)
        /\ DOMAIN (out \o q) = 1..(Len(out) + Len(q))
        /\ \A i \in 1..Len(out) : (out \o q)[i] = out[i]
        /\ \A k \in 1..Len(q) : (out \o q)[Len(out) + k] = q[k]
    BY <1>2, ConcatIs
  <2> QED BY <1>1, <1>2, <2>1
<1> HIDE DEF b, c
<1>4. c + 1 \in 1..(c + 1) /\ \A k \in 1..c : k \in 1..(c + 1)
  BY <1>2
<1> QED
  BY <1>1, <1>2, <1>3, <1>4 DEF b, c, END

\* An answer for each attempt, and no more.
LEMMA GrantedPrinted ==
  ASSUME IsSeq(out), NEW p, NEW a, NEW sent, NEW ans, Printed(p, a, sent, ans),
         NEW h, Granted(out, h) = {}
  PROVE  /\ Cardinality(Granted(out', h)) <= Cardinality(To(a, Len(Passes(p)) + 1, h))
         /\ Cardinality(To(a, Len(Passes(p)) + 1, h)) \in Nat
<1> DEFINE s == Passes(p)
           n == Len(s)
           F == Before(a, n + 1)
           G == Granted(out', h)
           T == To(a, n + 1, h)
           b == Len(out)
           c == Len(ans)
           f == [x \in G |-> sent[x - b]]
<1>1. /\ n \in Nat /\ F \in SUBSET (1..n) /\ IsFiniteSet(F)
      /\ Ordered(sent, F) /\ c = Cardinality(F)
  BY DEF Printed
<1>2. /\ b \in Nat /\ DOMAIN out = 1..b /\ c \in Nat /\ DOMAIN out' = 1..(b + (c + 1))
      /\ \A i \in 1..b : out'[i] = out[i]
      /\ \A k \in 1..c : out'[b + k] = SUCCESS(s, a, sent[k])
      /\ out'[b + (c + 1)].act = "SCHEDULE_END"
  BY PrintedOut
<1> HIDE DEF b, c, n, s
<1>3. ASSUME NEW x \in G
      PROVE  x - b \in 1..c /\ b + (x - b) = x /\ sent[x - b] \in T
  <2>1. x \in 1..(b + (c + 1)) /\ out'[x].act = "SUCCESS" /\ out'[x].hid = h
    BY <1>2 DEF Granted
  <2>2. x \notin 1..b
    BY <1>2, <2>1 DEF Granted
  <2>3. x # b + (c + 1)
    BY <1>2, <2>1
  <2>4. x - b \in 1..c /\ b + (x - b) = x
    BY <1>2, <2>1, <2>2, <2>3
  <2>5. out'[x] = SUCCESS(s, a, sent[x - b])
    BY <1>2, <2>4
  <2>6. a[sent[x - b]] = h
    BY <2>1, <2>5 DEF SUCCESS
  <2>7. sent[x - b] \in F
    BY <1>1, <2>4 DEF Ordered
  <2> QED BY <2>4, <2>6, <2>7 DEF To
<1>4. \A x, y \in G : sent[x - b] = sent[y - b] => x = y
  <2>1. ASSUME NEW x \in G, NEW y \in G, sent[x - b] = sent[y - b], x - b < y - b PROVE FALSE
    <3>1. sent[x - b] < sent[y - b]
      BY <1>1, <1>3, <2>1 DEF Ordered
    <3>2. sent[x - b] \in Nat
      BY <1>1, <1>3 DEF Ordered
    <3> QED BY <2>1, <3>1, <3>2
  <2>2. ASSUME NEW x \in G, NEW y \in G, sent[x - b] = sent[y - b] PROVE x = y
    <3>1. /\ x - b \in Nat /\ y - b \in Nat
          /\ b + (x - b) = x /\ b + (y - b) = y
      BY <1>2, <1>3
    <3>2. ~(x - b < y - b) /\ ~(y - b < x - b)
      BY <2>1, <2>2
    <3>3. x - b = y - b
      BY <3>1, <3>2
    <3> QED BY <3>1, <3>3
  <2> QED BY <2>2
<1>5. IsFiniteSet(T) /\ Cardinality(T) \in Nat
  <2>1. T \subseteq F
    BY DEF To
  <2> HIDE DEF T, F
  <2> QED BY <1>1, <2>1, FS_Subset, FS_CardinalityType
<1> HIDE DEF G, T, F
<1>6. f \in [G -> T] /\ \A x, y \in G : f[x] = f[y] => x = y
  BY <1>3, <1>4
<1>7. Cardinality(G) <= Cardinality(T)
  <2> HIDE DEF f
  <2> QED BY <1>5, <1>6, CountByMap
<1> QED
  BY <1>5, <1>7 DEF G, T, n, s

\* What dispatch prints promises the slots that were matched, no more.
LEMMA DispatchSlots ==
  ASSUME QueryInv, RoundInv, SlotInv, Dispatch, UNCHANGED <<gwdv, imv>>
  PROVE  SlotInv'
<1>1. /\ round # NoRound /\ round.next > Len(jobs) /\ round' = NoRound
      /\ running' = running
  BY DEF Dispatch, gwdv
<1>2. Ended = {} /\ IsSeq(out) /\ IsSeq(out')
  <2>1. UNCHANGED <<scheduling, sweep, reload, pool>>
    BY DEF gwdv, imv, imtables
  <2>2. RoundInv'
    BY <2>1, DispatchRound
  <2> QED BY <1>1, <2>2 DEF RoundInv, OnePlace, Pipes
<1>3. \A i \in DOMAIN out : out[i].act \in {"FAILED", "SCHEDULE_END"}
  BY <1>2 DEF SlotInv, Answers
<1>4. \A h \in Hosts : Granted(out, h) = {}
  BY <1>3 DEF Granted
<1>5. PICK p \in Orders : \E a \in Outcomes(p, Passes(p)) :
        \E sent, ans : Printed(p, a, sent, ans)
  BY DispatchShape DEF RoundInv, Pipes
<1>6. PICK a \in Outcomes(p, Passes(p)) : \E sent, ans : Printed(p, a, sent, ans)
  BY <1>5
<1>7. PICK sent, ans : Printed(p, a, sent, ans)
  BY <1>6
<1>8. ASSUME NEW h \in Hosts
      PROVE  Cardinality(Granted(out', h)) <= Capacity[h] - running'[h]
  <2>1. /\ Cardinality(Granted(out', h)) <= Cardinality(To(a, Len(Passes(p)) + 1, h))
        /\ Cardinality(To(a, Len(Passes(p)) + 1, h)) \in Nat
    BY <1>2, <1>4, <1>7, GrantedPrinted
  <2>2. Cardinality(To(a, Len(Passes(p)) + 1, h)) <= Capacity[h] - running[h]
    BY <1>1, TakenFit
  <2>3. Cardinality(Granted(out', h)) \in Nat
    BY <1>2, GrantedFinite
  <2>4. Capacity[h] \in Nat /\ running[h] \in Int
    BY IMAssumption DEF SlotInv
  <2> QED BY <1>1, <2>1, <2>2, <2>3, <2>4
<1>9. Answers'
  <2> DEFINE b == Len(out)
             c == Len(ans)
  <2>1. /\ b \in Nat /\ DOMAIN out = 1..b /\ c \in Nat /\ DOMAIN out' = 1..(b + (c + 1))
        /\ \A i \in 1..b : out'[i] = out[i]
        /\ \A k \in 1..c : out'[b + k] = SUCCESS(Passes(p), a, sent[k])
        /\ out'[b + (c + 1)].act = "SCHEDULE_END"
    BY <1>2, <1>7, PrintedOut
  <2> HIDE DEF b, c
  <2>2. b + (c + 1) \in Ended'
    BY <2>1 DEF Ended, Held
  <2>3. ASSUME NEW i \in DOMAIN out'
        PROVE  /\ out'[i].act \in {"SUCCESS", "FAILED", "SCHEDULE_END"}
               /\ out'[i].act = "SUCCESS" => i < b + (c + 1)
    <3>1. CASE i \in 1..b
      BY <1>3, <2>1, <3>1
    <3>2. CASE i = b + (c + 1)
      BY <2>1, <3>2
    <3>3. CASE i \notin 1..b /\ i # b + (c + 1)
      <4>1. i - b \in 1..c /\ b + (i - b) = i
        BY <2>1, <3>3
      <4>2. out'[i] = SUCCESS(Passes(p), a, sent[i - b])
        BY <2>1, <4>1
      <4>3. out'[i].act = "SUCCESS"
        BY <4>2 DEF SUCCESS
      <4>4. i < b + (c + 1)
        BY <2>1, <4>1
      <4> QED BY <4>3, <4>4
    <3> QED BY <3>1, <3>2, <3>3
  <2> QED BY <2>2, <2>3 DEF Answers
<1> QED
  BY <1>1, <1>8, <1>9 DEF SlotInv, Matching

\* A job that leaves a host leaves its slot.
LEMMA LeavesHost ==
  ASSUME running \in [Hosts -> Int], NEW g, running' = [running EXCEPT ![g] = @ - 1]
  PROVE  running' \in [Hosts -> Int] /\ \A h \in Hosts : running'[h] <= running[h]
<1>1. ASSUME NEW h \in Hosts
      PROVE  running'[h] = (IF h = g THEN running[h] - 1 ELSE running[h]) /\ running[h] \in Int
  OBVIOUS
<1>2. DOMAIN running' = Hosts /\ running' = [h \in Hosts |-> running'[h]]
  OBVIOUS
<1>3. \A h \in Hosts : running'[h] \in Int /\ running'[h] <= running[h]
  BY <1>1
<1> QED
  BY <1>2, <1>3

\* gw_dm_dispatch takes the slot that was promised.
LEMMA GwdSlots ==
  ASSUME RoundInv, SlotInv, Gwd, UNCHANGED <<alive, tables, round, out, imtables>>
  PROVE  SlotInv'
<1>1. UNCHANGED <<jobs, round, out>> /\ running \in [Hosts -> Int]
  BY DEF tables, SlotInv
<1>2. \A h \in Hosts : running[h] \in Int /\ running[h] <= running[h]
  BY <1>1
<1>3. CASE UNCHANGED running
  BY <1>1, <1>2, <1>3, FewerRun
<1>4. ASSUME NEW j \in Jobs, EndOk(j) \/ EndFail(j) \/ Migrated(j) PROVE SlotInv'
  <2>1. \E g : running' = [running EXCEPT ![g] = @ - 1]
    BY <1>4 DEF EndOk, EndFail, Migrated
  <2> QED BY <1>1, <2>1, LeavesHost, FewerRun
<1>5. CASE /\ ~\E j \in Jobs : EndOk(j) \/ EndFail(j) \/ Migrated(j)
  <2>1. UNCHANGED running
    <3>1. ASSUME NEW s \in Submissions, Lookup(s) PROVE UNCHANGED running
      BY <3>1 DEF Lookup
    <3>2. CASE Fill \/ Submitted \/ SweepBegins \/ SweepEnds
      BY <3>2 DEF Fill, Submitted, SweepBegins, SweepEnds
    <3>3. ASSUME NEW u \in UserIds, UserIdle(u) PROVE UNCHANGED running
      BY <3>3 DEF UserIdle
    <3>4. ASSUME NEW j \in Jobs, Freed(j) \/ Prolog(j) \/ Reschedule(j) PROVE UNCHANGED running
      BY <3>4 DEF Freed, Prolog, Reschedule
    <3> QED BY <1>5, <3>1, <3>2, <3>3, <3>4 DEF Gwd
  <2> QED BY <1>3, <2>1
<1> QED
  BY <1>4, <1>5

\* gwd reads an answer: a slot that was promised is taken.
LEMMA ListenSlots ==
  ASSUME RoundInv, SlotInv, Listen, UNCHANGED <<alive, tables, round, imtables>>
  PROVE  SlotInv'
<1> DEFINE m == Head(out)
<1>1. out # <<>> /\ out' = Tail(out) /\ UNCHANGED <<jobs, round>>
  BY DEF Listen, tables
<1>2. /\ IsSeq(out) /\ IsSeq(Tail(out)) /\ Len(out) \in Nat \ {0} /\ DOMAIN out = 1..Len(out)
      /\ DOMAIN out' = 1..(Len(out) - 1) /\ m = out[1]
      /\ \A i \in 1..(Len(out) - 1) : out'[i] = out[i + 1]
  BY <1>1, TailIs DEF RoundInv, Pipes
<1>3. m.act \in {"SUCCESS", "FAILED", "SCHEDULE_END"} /\ 1 \in DOMAIN out
  BY <1>2 DEF SlotInv, Answers
<1>4. \A h \in Hosts :
        /\ Cardinality(Granted(out', h))
             + (IF m.act = "SUCCESS" /\ m.hid = h THEN 1 ELSE 0)
           <= Cardinality(Granted(out, h))
        /\ Cardinality(Granted(out', h)) \in Nat /\ Cardinality(Granted(out, h)) \in Nat
        /\ Capacity[h] \in Nat /\ running[h] \in Int
        /\ Cardinality(Granted(out, h)) <= Capacity[h] - running[h]
  BY <1>1, <1>2, GrantedTail, GrantedFinite, IMAssumption DEF SlotInv
<1>5. Answers'
  <2>1. \A k \in Ended : k # 1 => k - 1 \in Ended'
    BY <1>1, <1>2, HeldTail DEF Ended
  <2>2. ASSUME NEW i \in DOMAIN out'
        PROVE  /\ out'[i].act \in {"SUCCESS", "FAILED", "SCHEDULE_END"}
               /\ out'[i].act = "SUCCESS" => \E k \in Ended' : i < k
    <3>1. i + 1 \in DOMAIN out /\ out'[i] = out[i + 1] /\ i \in Nat \ {0}
      BY <1>2
    <3>2. out'[i].act \in {"SUCCESS", "FAILED", "SCHEDULE_END"}
      BY <3>1 DEF SlotInv, Answers
    <3>3. ASSUME out'[i].act = "SUCCESS" PROVE \E k \in Ended' : i < k
      <4>1. PICK k \in Ended : i + 1 < k
        BY <3>1, <3>3 DEF SlotInv, Answers
      <4>2. k \in Nat
        BY <1>2 DEF Ended, Held
      <4>3. k # 1 /\ i < k - 1
        BY <3>1, <4>1, <4>2
      <4> QED BY <2>1, <4>3
    <3> QED BY <3>2, <3>3
  <2> QED BY <2>2 DEF Answers
<1>6. running' = running \/ (m.act = "SUCCESS" /\ running' = [running EXCEPT ![m.hid] = @ + 1])
  <2>1. CASE m.act = "SCHEDULE_END"
    BY <2>1 DEF Listen
  <2>2. CASE m.act = "FAILED"
    <3>1. ListenJob(m)
      BY <2>2 DEF Listen
    <3>2. Uncheck(m.jid)
      BY <2>2, <3>1 DEF ListenJob
    <3> QED BY <3>2 DEF Uncheck
  <2>3. CASE m.act = "SUCCESS"
    <3>1. ListenJob(m)
      BY <2>3 DEF Listen
    <3>2. \/ DispatchPending(m.jid, m.hid)
          \/ DispatchRunning(m.jid, m.hid)
          \/ UNCHANGED running
      BY <2>3, <3>1 DEF ListenJob
    <3> QED BY <2>3, <3>2 DEF DispatchPending, DispatchRunning, Charge
  <2> QED BY <1>3, <2>1, <2>2, <2>3
<1>7. CASE running' = running
  <2>1. \A h \in Hosts : Cardinality(Granted(out', h)) <= Capacity[h] - running'[h]
    BY <1>4, <1>7
  <2>2. Matching'
    BY <1>1, <1>7 DEF SlotInv, Matching, Offer
  <2> QED BY <1>5, <1>7, <2>1, <2>2 DEF SlotInv
<1>8. CASE m.act = "SUCCESS" /\ running' = [running EXCEPT ![m.hid] = @ + 1]
  <2>1. running \in [Hosts -> Int]
    BY DEF SlotInv
  <2>2. ASSUME NEW h \in Hosts
        PROVE  running'[h] = running[h] + (IF m.hid = h THEN 1 ELSE 0)
    BY <1>8, <2>1
  <2>3. running' \in [Hosts -> Int]
    <3>1. running' = [h \in Hosts |-> running'[h]]
      BY <1>8, <2>1
    <3>2. \A h \in Hosts : running'[h] \in Int
      BY <2>1, <2>2
    <3> QED BY <3>1, <3>2
  <2>4. \A h \in Hosts : Cardinality(Granted(out', h)) <= Capacity[h] - running'[h]
    BY <1>4, <1>8, <2>2
  <2>5. round = NoRound
    <3>1. Ended # {}
      BY <1>2, <1>3, <1>8 DEF SlotInv, Answers
    <3> QED BY <3>1 DEF RoundInv, OnePlace
  <2> QED BY <1>1, <1>5, <2>3, <2>4, <2>5 DEF SlotInv, Matching
<1> QED
  BY <1>6, <1>7, <1>8

\* Every step keeps the promised slots within the free ones.
LEMMA SlotStep ==
  ASSUME QueryInv, RoundInv, SlotInv, [Next]_vars
  PROVE  SlotInv'
<1>1. \A h \in Hosts : running[h] <= running[h]
  <2>1. running \in [Hosts -> Int]
    BY DEF SlotInv
  <2> QED BY <2>1
<1>2. CASE UNCHANGED <<jobs, round, out, running>>
  BY <1>1, <1>2, FewerRun DEF SlotInv
<1>3. CASE (SchedulerStep \/ Match) /\ UNCHANGED <<gwdv, imv>>
  <2>1. UNCHANGED running
    BY <1>3 DEF gwdv
  <2>2. CASE HandleUpdate
    <3>1. round' = NoRound /\ UNCHANGED out
      BY <2>2 DEF HandleUpdate, Take
    <3> QED BY <2>1, <3>1, NoRoundSlots
  <2>3. CASE BanEnds
    BY <1>2, <2>1, <2>3 DEF BanEnds
  <2>4. CASE Crash
    BY <2>1, <2>4, NoRoundSlots DEF Crash, Die
  <2> QED
    BY <1>3, <2>1, <2>2, <2>3, <2>4, ScheduleSlots, DispatchSlots, MatchSlots
       DEF SchedulerStep
<1>4. CASE SchedulerCrash /\ UNCHANGED <<gwdv, imtables>>
  BY <1>4, NoRoundSlots DEF SchedulerCrash, Die, gwdv
<1>5. CASE Reload /\ UNCHANGED <<tables, round, imtables>>
  BY <1>2, <1>5 DEF Reload, tables
<1>6. CASE Silent /\ UNCHANGED <<gwdv, schedv>>
  BY <1>2, <1>6 DEF gwdv, schedv, tables
<1>7. CASE (\E h \in Hosts : Told(h)) /\ UNCHANGED <<gwdv, alive, tables, round, out>>
  BY <1>2, <1>7 DEF gwdv, tables
<1>8. CASE UNCHANGED vars
  BY <1>2, <1>8 DEF vars, gwdv, schedv, tables
<1> QED
  BY <1>3, <1>4, <1>5, <1>6, <1>7, <1>8, GwdSlots, ListenSlots DEF Next

\* No host gets more jobs than its queue takes, for any number of jobs, hosts, users,
\* faults and reloads (gw_sched, gw_dm_listener, gw_dm_dispatch), unless a reload begins
\* while a sweep has set gw_dm.scheduling: rounds that overlapped would promise the same
\* slots.
THEOREM RoomForJobs == Spec /\ [][CalmReload]_vars => []NoOvercommit
<1> DEFINE Inv == RoundInv /\ QueryInv /\ SlotInv
<1>1. Init => Inv
  <2> SUFFICES ASSUME Init PROVE SlotInv
    BY RoundInit, QueryInit
  <2>1. out = <<>> /\ round = NoRound /\ running = [h \in Hosts |-> 0]
    BY DEF Init, SchedulerInit
  <2>2. \A h \in Hosts : Granted(out, h) = {} /\ Capacity[h] \in Nat /\ running[h] = 0
    BY <2>1, EmptyIs, IMAssumption DEF Granted
  <2>3. Answers
    BY <2>1, EmptyIs DEF Answers
  <2>4. \A h \in Hosts : Cardinality(Granted(out, h)) <= Capacity[h] - running[h]
    BY <2>2, FS_EmptySet
  <2> QED BY <2>1, <2>3, <2>4 DEF SlotInv, Matching
<1>2. Inv /\ [Next]_vars /\ [CalmReload]_vars => Inv'
  <2>1. CASE CalmReload
    BY <2>1, RoundStep, QueryStep, SlotStep
  <2>2. CASE UNCHANGED vars
    <3>1. UNCHANGED reload
      BY <2>2 DEF vars, gwdv
    <3>2. CalmReload
      BY <3>1 DEF CalmReload
    <3> QED BY <3>2, RoundStep, QueryStep, SlotStep
  <2> QED BY <2>1, <2>2
<1>3. Inv => NoOvercommit
  <2> SUFFICES ASSUME Inv, NEW h \in Hosts PROVE running[h] <= Capacity[h]
    BY DEF NoOvercommit
  <2>1. /\ Capacity[h] \in Nat /\ running[h] \in Int /\ Cardinality(Granted(out, h)) \in Nat
        /\ Cardinality(Granted(out, h)) <= Capacity[h] - running[h]
    BY IMAssumption, GrantedFinite DEF SlotInv, RoundInv, Pipes
  <2> QED BY <2>1
<1> QED
  BY <1>1, <1>2, <1>3, PTL DEF Spec
=============================================================================
