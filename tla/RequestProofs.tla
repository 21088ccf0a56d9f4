---------------------------- MODULE RequestProofs ---------------------------
(***************************************************************************)
(* What a client is told: theorems about the request manager and its       *)
(* clients, for every value of the constants, and however late the threads *)
(* of the RM are.                                                          *)
(***************************************************************************)
EXTENDS Requests, FunctionTheorems, FiniteSetTheorems, SequenceTheorems,
        WellFoundedInduction, TLAPS

-----------------------------------------------------------------------------
(* Types.                                                                  *)

Ops == {"WAIT", "JOB_STATUS"} \union Signals \union AsyncSignals
Apis == {"IDLE", "RUN", "JOB_PS"} \union Waits \union Kills \union Signals

Request ==
  [type : Ops, wait : {"JOB", "ANY_FIRST", "ANY"}, job : Jobs, from : Clients]
    \union [type : {"SUBMIT"}, wait : {"JOB"}, job : {NoJob}, from : Clients]
Submitted ==
  [type : {"SUBMITTED"}, job : Jobs, rc : {"SUCCESS"}, from : Clients]
    \union [type : {"SUBMITTED"}, job : {NoJob}, rc : {"NO_MEMORY"}, from : Clients]
Line == Request \union {DISENGAGE}

Entry == [fd : Fds, op : {"WAIT"} \union Signals, wait : {"JOB", "ANY_FIRST", "ANY"}, job : Jobs]

DMAction ==
  [act : {"ALLOCATE_JOB"}, fd : Fds, from : Clients]
    \union [act : {"WAIT", "KILL_HARD"} \union Signals, job : Jobs]
RMAction ==
  [act : {"CONNECTION"}, fd : Fds, msg : Request \union Submitted]
    \union [act : {"WAIT_SUCCESS", "WAIT_FAILED", "KILL_SUCCESS", "KILL_FAILED"}, job : Jobs]
    \union [act : {"SUCCESS", "FAILED"}, op : Signals \ {"KILL"}, job : Jobs]

Answers ==
  [type : Ops \union {"SUBMIT"}, job : Jobs, rc : (Codes \ {"CONNECTION"}) \union States]
    \union [type : {"SUBMIT"}, job : {NoJob}, rc : {"NO_MEMORY"}]
    \union {EOF}

Call == [api : Apis, jobs : Seq(Jobs), todo : Seq(Jobs), rc : Codes \union States \union {"-"}]

CallOK(k) ==
  /\ k.api \in Waits => k.jobs # <<>>
  /\ k.api \in {"SYNC", "DISPOSE", "REAP", "KILL_ALL"} => k.todo # <<>>

Types ==
  /\ up \in BOOLEAN
  /\ job_state \in [Jobs -> States] /\ client_waiting \in [Jobs -> Int]
  /\ restarted \subseteq Jobs
  /\ active \in [Fds -> Clients \union {NoClient}]
  /\ connection_list \in Seq(Entry)
  /\ threads \subseteq [fd : Fds, msg : Request \union Submitted]
  /\ dmq \in Seq(DMAction) /\ rmq \in Seq(RMAction)
  /\ backlog \in Seq([client : Clients, msgs : Seq(Line)])
  /\ inbox \in [Fds -> Seq(Line)]
  /\ conn \in [Clients -> Fds \union {0}]
  /\ replies \in [Clients -> Seq(Answers)]
  /\ call \in [Clients -> Call] /\ \A c \in Clients : CallOK(call[c])
  /\ session \in Seq(Jobs)
  /\ lock \in Clients \union {NoClient}

\* The listener does not close the slot of a client that reads from it.
Wired ==
  \A c \in Clients : conn[c] # 0 =>
    /\ active[conn[c]] = c
    /\ \A i \in DOMAIN inbox[conn[c]] : inbox[conn[c]][i] # DISENGAGE

Locked == lock # NoClient => call[lock].api = "KILL_ALL"

TypeInv == Types /\ Wired /\ Locked

-----------------------------------------------------------------------------
(* Sequences, and what is chosen from them.                                *)

LEMMA SeqFacts ==
  ASSUME NEW S, NEW s \in Seq(S)
  PROVE  /\ Len(s) \in Nat /\ DOMAIN s = 1..Len(s)
         /\ \A i \in DOMAIN s : s[i] \in S
         /\ s = <<>> <=> DOMAIN s = {}
  OBVIOUS

LEMMA TailFacts ==
  ASSUME NEW S, NEW s \in Seq(S), s # <<>>
  PROVE  /\ 1 \in DOMAIN s /\ Head(s) = s[1] /\ s[1] \in S
         /\ Tail(s) \in Seq(S) /\ Len(Tail(s)) = Len(s) - 1
         /\ \A i \in DOMAIN Tail(s) : i + 1 \in DOMAIN s /\ i + 1 # 1 /\ Tail(s)[i] = s[i + 1]
  OBVIOUS

LEMMA AppendFacts ==
  ASSUME NEW S, NEW s \in Seq(S), NEW e \in S
  PROVE  /\ Append(s, e) \in Seq(S) /\ Len(Append(s, e)) = Len(s) + 1
         /\ \A i \in DOMAIN s : i \in DOMAIN Append(s, e) /\ Append(s, e)[i] = s[i]
         /\ \A i \in DOMAIN Append(s, e) :
              \/ i \in DOMAIN s /\ Append(s, e)[i] = s[i]
              \/ i = Len(s) + 1 /\ Append(s, e)[i] = e
  OBVIOUS

LEMMA ConcatFacts ==
  ASSUME NEW S, NEW s \in Seq(S), NEW t \in Seq(S)
  PROVE  /\ s \o t \in Seq(S) /\ Len(s \o t) = Len(s) + Len(t)
         /\ \A i \in DOMAIN (s \o t) :
              \/ i \in DOMAIN s /\ (s \o t)[i] = s[i]
              \/ i - Len(s) \in DOMAIN t /\ (s \o t)[i] = t[i - Len(s)]
  OBVIOUS

LEMMA EmptyFacts == \A S : <<>> \in Seq(S)
  OBVIOUS

LEMMA SetInduction ==
  ASSUME NEW S, 0 \in S, \A n \in Nat : n \in S => n + 1 \in S
  PROVE  Nat \subseteq S
<1> DEFINE Less == {p \in Nat \X Nat : p[1] < p[2]}
<1>1. SUFFICES ASSUME Nat \ S # {} PROVE FALSE
  OBVIOUS
<1>2. IsWellFoundedOn(Less, Nat)
  BY NatLessThanWellFounded DEF OpToRel
<1>3. PICK x \in Nat \ S : \A y \in Nat \ S : <<y, x>> \notin Less
  <2> HIDE DEF Less
  <2> QED BY <1>1, <1>2, WFMin
<1>4. x # 0
  BY <1>3
<1>5. x - 1 \in Nat /\ x - 1 < x
  BY <1>3, <1>4
<1>6. x - 1 \in S
  BY <1>3, <1>5
<1>7. (x - 1) + 1 \in S
  BY <1>5, <1>6
<1> QED
  BY <1>3, <1>7

\* A set of natural numbers has a smallest one.
LEMMA SmallestOf ==
  ASSUME NEW S, S \subseteq Nat, S # {}
  PROVE  \E i \in S : \A k \in S : i <= k
<1> DEFINE Less == {p \in Nat \X Nat : p[1] < p[2]}
<1>1. IsWellFoundedOn(Less, Nat)
  BY NatLessThanWellFounded DEF OpToRel
<1>2. PICK x \in S : \A y \in S : <<y, x>> \notin Less
  <2> HIDE DEF Less
  <2> QED BY <1>1, WFMin
<1>3. ASSUME NEW k \in S PROVE x <= k
  <2>1. k \in Nat /\ x \in Nat /\ <<k, x>> \notin Less
    BY <1>2
  <2> QED BY <2>1
<1> QED
  BY <1>3

\* The positions in the order of a set.
Ordered(f, S) ==
  /\ f \in [1..Cardinality(S) -> S]
  /\ \A i, k \in 1..Cardinality(S) : i < k => f[i] < f[k]

\* Positions can be put in their order.
LEMMA OrderExists ==
  ASSUME NEW n \in Nat, NEW S \in SUBSET (1..n)
  PROVE  \E f : Ordered(f, S)
<1> DEFINE P == {m \in Nat : \A T \in SUBSET (1..m) : \E f : Ordered(f, T)}
<1>1. 0 \in P
  <2>1. ASSUME NEW T \in SUBSET (1..0) PROVE \E f : Ordered(f, T)
    <3>0. T = {}
      OBVIOUS
    <3>1. T = {} /\ Cardinality(T) = 0
      BY <3>0, FS_EmptySet
    <3>2. Ordered([i \in 1..0 |-> i], T)
      BY <3>1 DEF Ordered
    <3> QED BY <3>2
  <2> QED BY <2>1
<1>2. ASSUME NEW m \in Nat, m \in P PROVE m + 1 \in P
  <2>1. ASSUME NEW T \in SUBSET (1..(m + 1)) PROVE \E f : Ordered(f, T)
    <3> DEFINE R == T \ {m + 1}
               c == Cardinality(R)
    <3>1. R \in SUBSET (1..m)
      OBVIOUS
    <3>2. IsFiniteSet(R) /\ c \in Nat
      <4>1. IsFiniteSet(1..m)
        BY FS_Interval
      <4>2. IsFiniteSet(R)
        <5> HIDE DEF R
        <5> QED BY <3>1, <4>1, FS_Subset
      <4> QED BY <4>2, FS_CardinalityType
    <3>3. PICK f : Ordered(f, R)
      BY <1>2, <3>1
    <3>4. CASE m + 1 \notin T
      <4>1. R = T
        BY <3>4
      <4> QED BY <4>1, <3>3
    <3>5. CASE m + 1 \in T
      <4>1. m + 1 \notin R /\ R \union {m + 1} = T
        BY <3>5
      <4>2. Cardinality(R \union {m + 1}) = c + 1
        BY <3>2, <4>1, FS_AddElement
      <4>3. Cardinality(T) = c + 1
        BY <4>1, <4>2
      <4> DEFINE g == [i \in 1..(c + 1) |-> IF i = c + 1 THEN m + 1 ELSE f[i]]
      <4>4. f \in [1..c -> R] /\ \A i, k \in 1..c : i < k => f[i] < f[k]
        BY <3>3 DEF Ordered
      <4> HIDE DEF c
      <4>5. \A i \in 1..(c + 1) : i # c + 1 => i \in 1..c /\ f[i] \in R /\ f[i] \in 1..m
        <5>1. ASSUME NEW i \in 1..(c + 1), i # c + 1
              PROVE  i \in 1..c /\ f[i] \in R /\ f[i] \in 1..m
          <6>1. i \in 1..c
            BY <3>2, <5>1
          <6>2. f[i] \in R
            BY <4>4, <6>1
          <6> HIDE DEF R
          <6> QED BY <3>1, <6>1, <6>2
        <5> QED BY <5>1
      <4>6. g \in [1..(c + 1) -> T]
        BY <4>5, <3>5
      <4>7. ASSUME NEW i \in 1..(c + 1), NEW k \in 1..(c + 1), i < k
            PROVE  g[i] < g[k]
        <5>1. i # c + 1 /\ f[i] \in 1..m /\ i \in 1..c
          BY <3>2, <4>5, <4>7
        <5>2. CASE k = c + 1
          BY <5>1, <5>2
        <5>3. CASE k # c + 1
          <6>1. k \in 1..c
            BY <5>3, <4>5
          <6> QED BY <5>1, <5>3, <6>1, <4>4, <4>7
        <5> QED BY <5>2, <5>3
      <4>8. Ordered(g, T)
        BY <4>3, <4>6, <4>7 DEF Ordered
      <4> QED BY <4>8
    <3> QED BY <3>4, <3>5
  <2>2. m + 1 \in Nat
    OBVIOUS
  <2> QED BY <2>1, <2>2
<1>3. Nat \subseteq P
  <2> HIDE DEF P
  <2> QED BY <1>1, <1>2, SetInduction
<1> QED
  BY <1>3

\* InOrder is such an order.
LEMMA InOrderIs ==
  ASSUME NEW n \in Nat, NEW S \in SUBSET (1..n)
  PROVE  IsFiniteSet(S) /\ Cardinality(S) \in Nat /\ Ordered(InOrder(S), S)
<1>1. IsFiniteSet(S) /\ Cardinality(S) \in Nat
  <2>1. IsFiniteSet(1..n)
    BY FS_Interval
  <2>2. IsFiniteSet(S)
    BY <2>1, FS_Subset
  <2> QED BY <2>2, FS_CardinalityType
<1>2. PICK f : Ordered(f, S)
  BY OrderExists
<1>3. Ordered(InOrder(S), S)
  BY <1>2 DEF Ordered, InOrder
<1> QED
  BY <1>1, <1>3

\* What is chosen is a sequence of entries of s, each of a place in S.
LEMMA ChosenIs ==
  ASSUME NEW T, NEW s \in Seq(T), NEW S \in SUBSET DOMAIN s
  PROVE  /\ Chosen(s, S) \in Seq(T)
         /\ \A i \in DOMAIN Chosen(s, S) :
              InOrder(S)[i] \in S /\ Chosen(s, S)[i] = s[InOrder(S)[i]]
         /\ \A i, k \in DOMAIN Chosen(s, S) : InOrder(S)[i] = InOrder(S)[k] => i = k
<1> DEFINE c == Cardinality(S)
           f == InOrder(S)
<1>1. Len(s) \in Nat /\ S \in SUBSET (1..Len(s))
  BY SeqFacts
<1>2. c \in Nat /\ Ordered(f, S)
  BY <1>1, InOrderIs
<1>3. f \in [1..c -> S] /\ \A i, k \in 1..c : i < k => f[i] < f[k]
  BY <1>2 DEF Ordered
<1>4. Chosen(s, S) = [i \in 1..c |-> s[f[i]]]
  BY DEF Chosen
<1>5. S \subseteq Nat
  BY <1>1
<1> HIDE DEF c, f
<1>6. \A i \in 1..c : f[i] \in S /\ s[f[i]] \in T
  BY <1>3, SeqFacts
<1>7. [i \in 1..c |-> s[f[i]]] \in [1..c -> T]
  BY <1>6
<1>8. Chosen(s, S) \in Seq(T) /\ DOMAIN Chosen(s, S) = 1..c
  BY <1>2, <1>4, <1>7
<1>9. ASSUME NEW i \in 1..c, NEW k \in 1..c, f[i] = f[k] PROVE i = k
  <2>1. ~(f[i] < f[k]) /\ ~(f[k] < f[i])
    BY <1>9, <1>6, <1>5
  <2>2. ~(i < k) /\ ~(k < i)
    BY <1>3, <2>1
  <2> QED BY <2>2, <1>2
<1> QED
  BY <1>4, <1>6, <1>8, <1>9 DEF f

\* The list without some of its entries.
LEMMA RestIs ==
  ASSUME Types, NEW P
  PROVE  /\ Rest(P) \in Seq(Entry)
         /\ \A i \in DOMAIN Rest(P) : \E n \in DOMAIN connection_list \ P :
              Rest(P)[i] = connection_list[n]
<1> DEFINE S == DOMAIN connection_list \ P
<1>1. S \in SUBSET DOMAIN connection_list /\ connection_list \in Seq(Entry)
  BY DEF Types
<1>2. Rest(P) = Chosen(connection_list, S)
  BY DEF Rest
<1>3. /\ Chosen(connection_list, S) \in Seq(Entry)
      /\ \A i \in DOMAIN Chosen(connection_list, S) :
           InOrder(S)[i] \in S /\ Chosen(connection_list, S)[i] = connection_list[InOrder(S)[i]]
  <2> HIDE DEF S
  <2> QED BY <1>1, ChosenIs
<1> QED
  BY <1>2, <1>3

\* The same answer, to each connection of c at the places P.
LEMMA CopiesIs ==
  ASSUME Types, NEW P \in SUBSET DOMAIN connection_list, NEW a, NEW c
  PROVE  /\ Copies(P, a, c) \in Seq({a})
         /\ \/ Copies(P, a, c) = <<>>
            \/ \E n \in P : Reaches(connection_list[n].fd, c)
<1> DEFINE S == {n \in P : Reaches(connection_list[n].fd, c)}
           k == Cardinality(S)
<1>1. S \in SUBSET (1..Len(connection_list)) /\ Len(connection_list) \in Nat
  BY SeqFacts DEF Types
<1>2. k \in Nat
  BY <1>1, InOrderIs
<1>3. Copies(P, a, c) = [i \in 1..k |-> a]
  BY DEF Copies
<1>4. Copies(P, a, c) \in Seq({a})
  <2> HIDE DEF k
  <2> QED BY <1>2, <1>3
<1>5. CASE S = {}
  <2>1. k = 0
    BY <1>5, FS_EmptySet
  <2>2. Copies(P, a, c) = <<>>
    <3> HIDE DEF k
    <3> QED BY <1>3, <2>1
  <2> QED BY <1>4, <2>2
<1> QED
  BY <1>4, <1>5

-----------------------------------------------------------------------------
(* Every step keeps the types.                                             *)

LEMMA AnswerTypes ==
  /\ \A type \in Ops \union {"SUBMIT"}, j \in Jobs, x \in (Codes \ {"CONNECTION"}) \union States :
       Said(type, j, x) \in Answers
  /\ Said("SUBMIT", NoJob, "NO_MEMORY") \in Answers
  /\ EOF \in Answers
  BY DEF Answers, Said

LEMMA ReplyType ==
  ASSUME Types, NEW f, NEW a \in Answers
  PROVE  Reply(f, a) \in [Clients -> Seq(Answers)]
  BY DEF Types, Reply

LEMMA CopiesType ==
  ASSUME Types, NEW P \in SUBSET DOMAIN connection_list, NEW a \in Answers, NEW c
  PROVE  Copies(P, a, c) \in Seq(Answers)
<1>1. Copies(P, a, c) \in Seq({a})
  BY CopiesIs
<1> HIDE DEF Answers
<1> QED
  BY <1>1

LEMMA ReceivedType ==
  ASSUME Types, NEW P \in SUBSET DOMAIN connection_list, NEW a \in Answers
  PROVE  Received(P, a) \in [Clients -> Seq(Answers)]
<1>1. \A c \in Clients : Copies(P, a, c) \in Seq(Answers)
  BY CopiesType
<1>2. \A c \in Clients : replies[c] \o Copies(P, a, c) \in Seq(Answers)
  BY <1>1 DEF Types
<1> QED
  BY <1>2 DEF Received

LEMMA PlacesIn ==
  /\ \A op, j : Waiting(op, j) \in SUBSET DOMAIN connection_list
  /\ \A f : Places(f) \in SUBSET DOMAIN connection_list
  BY DEF Waiting, Places

LEMMA LessType ==
  ASSUME Types, NEW P \in SUBSET DOMAIN connection_list
  PROVE  WaitsLess(P) \in [Jobs -> Int]
<1>1. ASSUME NEW j \in Jobs PROVE Cardinality(P \intersect Waiting("WAIT", j)) \in Nat
  <2>1. DOMAIN connection_list = 1..Len(connection_list) /\ Len(connection_list) \in Nat
    BY SeqFacts DEF Types
  <2>2. P \intersect Waiting("WAIT", j) \in SUBSET (1..Len(connection_list))
    BY <2>1
  <2> QED BY <2>1, <2>2, InOrderIs
<1>2. ASSUME NEW j \in Jobs
      PROVE  (IF InPool(j)
              THEN client_waiting[j] - Cardinality(P \intersect Waiting("WAIT", j))
              ELSE client_waiting[j]) \in Int
  <2>1. client_waiting[j] \in Int
    BY DEF Types
  <2> QED BY <2>1, <1>1
<1> QED
  BY <1>2 DEF WaitsLess

LEMMA WithAnysIn ==
  ASSUME NEW P \in SUBSET DOMAIN connection_list
  PROVE  WithAnys(P) \in SUBSET DOMAIN connection_list
  BY DEF WithAnys

LEMMA WiredSame == Wired /\ UNCHANGED <<active, inbox, conn>> => Wired'
  BY DEF Wired

LEMMA LockedSame == Locked /\ UNCHANGED clientv => Locked'
  BY DEF Locked, clientv

LEMMA CrashTypes ==
  ASSUME Types, NEW sent \in [Clients -> Seq(Answers)], Crash(sent), UNCHANGED clientv
  PROVE  Types' /\ Wired'
<1>1. replies' \in [Clients -> Seq(Answers)]
  <2>1. \A c \in Clients : sent[c] \in Seq(Answers) /\ Append(sent[c], EOF) \in Seq(Answers)
    BY AnswerTypes
  <2> QED BY <2>1 DEF Crash
<1>2. conn' \in [Clients -> Fds \union {0}] /\ \A c \in Clients : conn'[c] = 0
  BY DEF Crash
<1>3. Types'
  <2>1. up' \in BOOLEAN /\ backlog' \in Seq([client : Clients, msgs : Seq(Line)])
    BY EmptyFacts DEF Crash
  <2>2. UNCHANGED <<job_state, client_waiting, restarted, active, connection_list, threads,
                    dmq, rmq,                     inbox, call, session, lock>>
    BY DEF Crash, clientv, pool, server, queues
  <2> QED
    BY <1>1, <1>2, <2>1, <2>2 DEF Types
<1>4. Wired'
  BY <1>2 DEF Wired
<1> QED
  BY <1>3, <1>4

LEMMA FreeSlot ==
  ASSUME Types, FreeSlots # {}
  PROVE  LET f == CHOOSE g \in FreeSlots : \A h \in FreeSlots : g <= h
         IN f \in Fds /\ active[f] = NoClient
<1>1. Cardinality(Fds) \in Nat /\ Fds = 1..Cardinality(Fds)
  BY RMAssumption, FS_CardinalityType
<1>2. FreeSlots \subseteq Fds /\ FreeSlots \subseteq Nat
  BY <1>1 DEF FreeSlots
<1>3. \E g \in FreeSlots : \A h \in FreeSlots : g <= h
  BY <1>2, SmallestOf
<1> QED
  BY <1>2, <1>3 DEF FreeSlots

LEMMA NoZero == 0 \notin Fds /\ Fds \subseteq Nat
<1>1. Cardinality(Fds) \in Nat /\ Fds = 1..Cardinality(Fds)
  BY RMAssumption, FS_CardinalityType
<1> QED
  BY <1>1

LEMMA AcceptTypes ==
  Types /\ Wired /\ Locked /\ Accept /\ UNCHANGED clientv => TypeInv'
<1> SUFFICES ASSUME Types, Wired, Locked, Accept, UNCHANGED clientv PROVE TypeInv'
  OBVIOUS
<1> DEFINE b == Head(backlog)
           f == CHOOSE g \in FreeSlots : \A h \in FreeSlots : g <= h
<1>1. /\ b \in [client : Clients, msgs : Seq(Line)]
      /\ Tail(backlog) \in Seq([client : Clients, msgs : Seq(Line)])
  <2> DEFINE S == [client : Clients, msgs : Seq(Line)]
  <2>1. backlog \in Seq(S) /\ backlog # <<>>
    BY DEF Types, Accept
  <2> HIDE DEF S
  <2>2. Head(backlog) \in S /\ Tail(backlog) \in Seq(S)
    BY <2>1, TailFacts
  <2> QED BY <2>2 DEF S
<1>2. Locked'
  BY LockedSame
<1>3. backlog' = Tail(backlog) /\ UNCHANGED <<up, pool, queues, connection_list, threads, clientv>>
  BY DEF Accept
<1>4. CASE FreeSlots = {}
  <2>1. /\ replies' = [replies EXCEPT ![b.client] = Append(@, EOF)]
        /\ UNCHANGED <<active, inbox, conn>>
    BY <1>4 DEF Accept
  <2>2. replies' \in [Clients -> Seq(Answers)]
    <3>1. Append(replies[b.client], EOF) \in Seq(Answers)
      BY <1>1, AnswerTypes DEF Types
    <3> QED BY <1>1, <2>1, <3>1 DEF Types
  <2>3. Wired'
    BY <2>1, WiredSame
  <2>4. Types'
    BY <1>1, <1>3, <2>1, <2>2 DEF Types, pool, queues, clientv
  <2> QED BY <1>2, <2>3, <2>4 DEF TypeInv
<1>5. CASE FreeSlots # {}
  <2>1. f \in Fds /\ active[f] = NoClient
    BY <1>5, FreeSlot
  <2>2. /\ active' = [active EXCEPT ![f] = b.client]
        /\ inbox' = [inbox EXCEPT ![f] = b.msgs]
        /\ conn' = IF DISENGAGE \in {b.msgs[i] : i \in DOMAIN b.msgs} THEN conn
                   ELSE [conn EXCEPT ![b.client] = f]
        /\ UNCHANGED replies
    BY <1>5 DEF Accept
  <2> HIDE DEF f, b
  <2>3. Types'
    BY <1>1, <1>3, <2>1, <2>2 DEF Types, pool, queues, clientv
  <2>4. \A c \in Clients : conn[c] # 0 => conn[c] # f
    BY <2>1, RMAssumption DEF Wired
  <2>5. ASSUME NEW c \in Clients, conn'[c] # 0
        PROVE  /\ active'[conn'[c]] = c
               /\ \A i \in DOMAIN inbox'[conn'[c]] : inbox'[conn'[c]][i] # DISENGAGE
    <3>1. CASE conn'[c] = conn[c]
      BY <1>1, <2>1, <2>2, <2>4, <2>5, <3>1 DEF Wired, Types
    <3>2. CASE conn'[c] # conn[c]
      <4>1. c = b.client /\ conn'[c] = f /\ DISENGAGE \notin {b.msgs[i] : i \in DOMAIN b.msgs}
        BY <1>1, <2>2, <3>2 DEF Types
      <4>2. active'[f] = c /\ inbox'[f] = b.msgs
        BY <2>1, <2>2, <4>1 DEF Types
      <4> QED BY <4>1, <4>2
    <3> QED BY <3>1, <3>2
  <2>6. Wired'
    BY <2>5 DEF Wired
  <2> QED BY <1>2, <2>3, <2>6 DEF TypeInv
<1> QED
  BY <1>4, <1>5

LEMMA ReadTypes ==
  ASSUME Types, Wired, Locked, NEW f \in Fds, Read(f), UNCHANGED clientv
  PROVE  TypeInv'
<1>1. /\ inbox[f] \in Seq(Line) /\ inbox[f] # <<>>
      /\ Tail(inbox[f]) \in Seq(Line) /\ Head(inbox[f]) \in Line
      /\ \A i \in DOMAIN Tail(inbox[f]) : \E k \in DOMAIN inbox[f] : Tail(inbox[f])[i] = inbox[f][k]
  <2>1. inbox[f] \in Seq(Line) /\ inbox[f] # <<>>
    BY DEF Types, Read
  <2> QED BY <2>1, TailFacts
<1>2. inbox' = [inbox EXCEPT ![f] = Tail(@)] /\ UNCHANGED <<up, pool, dmq, backlog, conn, replies>>
  BY DEF Read
<1>3. CASE Head(inbox[f]) = DISENGAGE
  <2>1. /\ active' = [active EXCEPT ![f] = NoClient]
        /\ connection_list' = Rest(Places(f)) /\ UNCHANGED <<threads, rmq>>
    BY <1>3 DEF Read, Close
  <2>2. connection_list' \in Seq(Entry)
    BY <2>1, RestIs
  <2>3. Types'
    BY <1>1, <1>2, <2>1, <2>2 DEF Types, pool, clientv
  <2>4. \A c \in Clients : conn[c] # f
    <3>1. 1 \in DOMAIN inbox[f] /\ inbox[f][1] = DISENGAGE
      BY <1>1, <1>3, TailFacts
    <3> QED BY <3>1, NoZero DEF Wired
  <2>5. Wired'
    BY <1>2, <2>1, <2>4 DEF Wired, Types
  <2> QED BY <2>3, <2>5, LockedSame DEF TypeInv
<1>4. CASE Head(inbox[f]) # DISENGAGE
  <2>1. /\ rmq' = Append(rmq, Connection(f, Head(inbox[f])))
        /\ UNCHANGED <<active, connection_list, threads>>
    BY <1>4 DEF Read
  <2>2. Head(inbox[f]) \in Request
    BY <1>1, <1>4 DEF Line
  <2>3. Connection(f, Head(inbox[f])) \in RMAction
    BY <2>2 DEF Connection, RMAction
  <2>4. rmq' \in Seq(RMAction)
    BY <2>1, <2>3 DEF Types
  <2>5. Types'
    BY <1>1, <1>2, <2>1, <2>4 DEF Types, pool, clientv
  <2>6. Wired'
    BY <1>1, <1>2, <2>1 DEF Wired, Types
  <2> QED BY <2>5, <2>6, LockedSame DEF TypeInv
<1> QED
  BY <1>3, <1>4

Task == [fd : Fds, msg : Request \union Submitted]

\* The job of a message that is not about a submission.
LEMMA TaskJob ==
  ASSUME NEW t \in Task
  PROVE  /\ t.fd \in Fds
         /\ t.msg.type \in Ops =>
              t.msg.job \in Jobs /\ t.msg.wait \in {"JOB", "ANY_FIRST", "ANY"}
         /\ t.msg.type = "SUBMITTED" =>
              \/ t.msg.job \in Jobs /\ t.msg.rc = "SUCCESS"
              \/ t.msg.job = NoJob /\ t.msg.rc = "NO_MEMORY"
         /\ t.msg.from \in Clients
<1>1. t.fd \in Fds /\ t.msg \in Request \union Submitted
  BY DEF Task
<1>2. CASE t.msg \in Request
  BY <1>1, <1>2 DEF Request, Ops, Signals, AsyncSignals
<1>3. CASE t.msg \in Submitted
  BY <1>1, <1>3 DEF Submitted, Ops, Signals, AsyncSignals
<1> QED
  BY <1>1, <1>2, <1>3

LEMMA RegisteredType ==
  ASSUME Types, NEW t \in Task, t.msg.type \in {"WAIT"} \union Signals,
         NEW w \in {"JOB", "ANY_FIRST", "ANY"}
  PROVE  Registered(t, w) \in Seq(Entry)
<1> DEFINE e == [fd |-> t.fd, op |-> t.msg.type, wait |-> w, job |-> t.msg.job]
<1>1. t.fd \in Fds /\ t.msg.job \in Jobs
  BY TaskJob DEF Ops
<1>2. e \in Entry
  BY <1>1 DEF Entry
<1>3. connection_list \in Seq(Entry)
  BY DEF Types
<1>4. Registered(t, w) = <<e>> \o connection_list
  BY DEF Registered
<1> HIDE DEF e
<1>5. <<e>> \in Seq(Entry)
  BY <1>2
<1> QED
  BY <1>3, <1>4, <1>5

\* The DM gets a request on job j.
LEMMA PostType ==
  ASSUME Types, NEW j \in Jobs, NEW act \in {"WAIT", "KILL_HARD"} \union Signals
  PROVE  Append(dmq, [act |-> act, job |-> j]) \in Seq(DMAction)
<1>1. [act |-> act, job |-> j] \in DMAction
  BY DEF DMAction
<1> QED
  BY <1>1 DEF Types

LEMMA DeniedTypes ==
  ASSUME Types, NEW t \in Task, t.msg.type \in Ops, t.msg.job \in Jobs, Denied(t)
  PROVE  /\ replies' \in [Clients -> Seq(Answers)]
         /\ UNCHANGED <<connection_list, dmq>>
<1>1. Said(t.msg.type, t.msg.job, "PERM") \in Answers
  BY AnswerTypes DEF Codes
<1> QED
  BY <1>1, ReplyType DEF Denied

LEMMA WorkTypes ==
  ASSUME Types, NEW t \in Task, Work(t)
  PROVE  /\ connection_list' \in Seq(Entry)
         /\ dmq' \in Seq(DMAction)
         /\ replies' \in [Clients -> Seq(Answers)]
<1> DEFINE Goal == /\ connection_list' \in Seq(Entry)
                   /\ dmq' \in Seq(DMAction)
                   /\ replies' \in [Clients -> Seq(Answers)]
<1>0. /\ connection_list \in Seq(Entry)
      /\ dmq \in Seq(DMAction)
      /\ replies \in [Clients -> Seq(Answers)]
  BY DEF Types
<1>1. CASE t.msg.type \in Ops /\ t.msg.job \in Jobs /\ Denied(t)
  BY <1>0, <1>1, DeniedTypes
<1>2. ASSUME ThreadWait(t) PROVE Goal
  <2>1. t.msg.type = "WAIT" /\ t.msg.job \in Jobs
    BY <1>2, TaskJob DEF ThreadWait, Ops
  <2>2. CASE Denied(t)
    BY <1>1, <2>1, <2>2 DEF Ops
  <2>3. CASE RegisterWait(t)
    <3>1. CASE UNCHANGED <<connection_list, dmq, replies>>
      BY <1>0, <3>1
    <3>2. CASE /\ connection_list' = Registered(t, IF t.msg.wait = "ANY_FIRST" THEN "ANY"
                                                   ELSE t.msg.wait)
               /\ dmq' = Append(dmq, [act |-> "WAIT", job |-> t.msg.job])
               /\ UNCHANGED replies
      <4>1. (IF t.msg.wait = "ANY_FIRST" THEN "ANY" ELSE t.msg.wait)
              \in {"JOB", "ANY_FIRST", "ANY"}
        BY <2>1, TaskJob DEF Ops
      <4>2. connection_list' \in Seq(Entry)
        BY <2>1, <3>2, <4>1, RegisteredType
      <4>3. dmq' \in Seq(DMAction)
        BY <2>1, <3>2, PostType
      <4> QED BY <1>0, <3>2, <4>2, <4>3
    <3> QED BY <2>3, <3>1, <3>2 DEF RegisterWait
  <2> QED BY <1>2, <2>2, <2>3 DEF ThreadWait
<1>3. ASSUME ThreadSignal(t) PROVE Goal
  <2>1. t.msg.type \in Signals \union AsyncSignals /\ t.msg.job \in Jobs
        /\ t.msg.wait \in {"JOB", "ANY_FIRST", "ANY"}
    BY <1>3, TaskJob DEF ThreadSignal, Ops
  <2>2. CASE Denied(t)
    BY <1>1, <2>1, <2>2 DEF Ops
  <2>3. CASE Authorised(t.msg)
    <3> DEFINE act == CASE t.msg.type = "KILL_ASYNC" -> "KILL"
                        [] t.msg.type = "STOP_ASYNC" -> "STOP"
                        [] OTHER -> t.msg.type
    <3>1. act \in {"WAIT", "KILL_HARD"} \union Signals
      BY <2>1 DEF Signals, AsyncSignals
    <3>2. dmq' = Append(dmq, [act |-> act, job |-> t.msg.job]) /\ UNCHANGED replies
          /\ connection_list' = IF t.msg.type \in Signals
                                THEN Registered(t, t.msg.wait) ELSE connection_list
      BY <1>3, <2>3 DEF ThreadSignal
    <3> HIDE DEF act
    <3>3. dmq' \in Seq(DMAction)
      BY <2>1, <3>1, <3>2, PostType
    <3>4. connection_list' \in Seq(Entry)
      BY <1>0, <2>1, <3>2, RegisteredType
    <3> QED BY <1>0, <3>2, <3>3, <3>4
  <2> QED BY <1>3, <2>2, <2>3 DEF ThreadSignal
<1>4. ASSUME ThreadSubmit(t) PROVE Goal
  <2>1. [act |-> "ALLOCATE_JOB", fd |-> t.fd, from |-> t.msg.from] \in DMAction
    BY TaskJob DEF DMAction
  <2> QED BY <1>0, <1>4, <2>1 DEF ThreadSubmit
<1>5. ASSUME ThreadStatus(t) PROVE Goal
  <2>1. t.msg.job \in Jobs /\ "JOB_STATUS" \in Ops \union {"SUBMIT"}
    BY <1>5, TaskJob DEF ThreadStatus, Ops
  <2> DEFINE x == IF InPool(t.msg.job) THEN job_state[t.msg.job] ELSE "BAD_JOB_ID"
  <2>2. x \in (Codes \ {"CONNECTION"}) \union States
    BY <2>1 DEF Types, Codes
  <2>3. Said("JOB_STATUS", t.msg.job, x) \in Answers
    BY <2>1, <2>2, AnswerTypes
  <2>4. /\ replies' = Reply(t.fd, Said("JOB_STATUS", t.msg.job, x))
        /\ UNCHANGED <<connection_list, dmq>>
    BY <1>5 DEF ThreadStatus
  <2> QED BY <1>0, <2>3, <2>4, ReplyType
<1>6. ASSUME ThreadAnswer(t) PROVE Goal
  <2>1. Said("SUBMIT", t.msg.job, t.msg.rc) \in Answers
    BY <1>6, TaskJob, AnswerTypes DEF ThreadAnswer, Codes
  <2> QED BY <1>0, <1>6, <2>1, ReplyType DEF ThreadAnswer
<1> QED
  BY <1>2, <1>3, <1>4, <1>5, <1>6 DEF Work

LEMMA ThreadTypes ==
  ASSUME Types, Wired, Locked, NEW t \in threads, Thread(t), UNCHANGED clientv
  PROVE  TypeInv'
<1>1. t \in Task /\ Work(t)
  BY DEF Types, Task, Thread
<1>2. /\ connection_list' \in Seq(Entry)
      /\ dmq' \in Seq(DMAction)
      /\ replies' \in [Clients -> Seq(Answers)]
  BY <1>1, WorkTypes
<1>3. threads' = threads \ {t} /\ UNCHANGED <<up, pool, active, wire, rmq>>
  BY DEF Thread
<1>4. Types'
  BY <1>2, <1>3 DEF Types, pool, wire, clientv
<1>5. Wired' /\ Locked'
  BY <1>3, WiredSame, LockedSame DEF wire
<1> QED
  BY <1>4, <1>5 DEF TypeInv

\* The DM's and the RM's actions.
LEMMA RMActions ==
  /\ \A j \in Jobs, act \in {"WAIT_SUCCESS", "WAIT_FAILED", "KILL_SUCCESS", "KILL_FAILED"} :
       [act |-> act, job |-> j] \in RMAction
  /\ \A j \in Jobs, op \in Signals \ {"KILL"}, act \in {"SUCCESS", "FAILED"} :
       [act |-> act, op |-> op, job |-> j] \in RMAction
  /\ \A f \in Fds, m \in Request \union Submitted : Connection(f, m) \in RMAction
  BY DEF RMAction, Connection

\* The RM gets an answer of the DM about job j.
LEMMA AnswerType ==
  ASSUME NEW q \in Seq(RMAction), NEW j \in Jobs,
         NEW act \in {"WAIT_SUCCESS", "WAIT_FAILED", "KILL_SUCCESS", "KILL_FAILED"}
  PROVE  Post(q, act, j) \in Seq(RMAction)
<1>1. [act |-> act, job |-> j] \in RMAction
  BY DEF RMAction
<1> HIDE DEF RMAction
<1> QED
  BY <1>1 DEF Post

LEMMA DMActionIs ==
  ASSUME NEW a \in DMAction
  PROVE  /\ a.act = "ALLOCATE_JOB" => a.fd \in Fds /\ a.from \in Clients
         /\ a.act \in {"WAIT", "KILL_HARD"} \union Signals => a.job \in Jobs
  BY DEF DMAction, Signals

LEMMA RMActionIs ==
  ASSUME NEW a \in RMAction
  PROVE  /\ a.act = "CONNECTION" => [fd |-> a.fd, msg |-> a.msg] \in Task
         /\ a.act # "CONNECTION" => a.job \in Jobs
         /\ a.act \in {"SUCCESS", "FAILED"} => a.op \in Signals \ {"KILL"}
  BY DEF RMAction, Task

\* What a signal may take its job, in the pool, to.  A job that has ended, or is
\* stopped, is freed or begins again.
SignalledTo == {"RUN", "KILL_CANCEL", "STOP_CANCEL", "FREED"}

SignalMoves(j) ==
  \/ UNCHANGED job_state
  \/ /\ InPool(j)
     /\ \E s \in SignalledTo :
          /\ job_state' = [job_state EXCEPT ![j] = s]
          /\ job_state[j] \in Final \union {"STOPPED"} => s = "FREED" \/ j \in restarted'

\* What the DM answers a signal: only a job that is gone is said to be killed, and
\* that a job is stopped is not said before it is.
SignalSaid(j) ==
  \/ UNCHANGED rmq
  \/ \E e \in RMAction :
       /\ rmq' = Append(rmq, e)
       /\ e.act \notin {"CONNECTION", "WAIT_SUCCESS"} /\ e.job = j
       /\ e.act = "KILL_SUCCESS" => job_state'[j] = "FREED"
       /\ e.act = "SUCCESS" => e.op # "STOP"

SignalRaises(j) ==
  restarted \subseteq restarted' /\ restarted' \subseteq restarted \union {j}

SignalOK(j) == SignalMoves(j) /\ SignalSaid(j) /\ SignalRaises(j)

LEMMA KillSaid ==
  ASSUME NEW j \in Jobs, NEW act \in {"KILL_SUCCESS", "KILL_FAILED"},
         rmq' = Post(rmq, act, j), act = "KILL_SUCCESS" => job_state'[j] = "FREED"
  PROVE  SignalSaid(j)
<1>1. [act |-> act, job |-> j] \in RMAction
  BY RMActions
<1>2. PICK e \in RMAction : e = [act |-> act, job |-> j]
  BY <1>1
<1>3. e.act = act /\ e.job = j /\ rmq' = Append(rmq, e)
  BY <1>2 DEF Post
<1> QED
  BY <1>3 DEF SignalSaid

LEMMA OtherSaid ==
  ASSUME NEW a, a.job \in Jobs, a.act \in Signals \ {"KILL"},
         NEW result \in {"SUCCESS", "FAILED"}, rmq' = Signalled(result, a),
         result = "SUCCESS" => a.act # "STOP"
  PROVE  SignalSaid(a.job)
<1>1. [act |-> result, op |-> a.act, job |-> a.job] \in RMAction
  BY RMActions
<1>2. PICK e \in RMAction : e = [act |-> result, op |-> a.act, job |-> a.job]
  BY <1>1
<1>3. e.act = result /\ e.op = a.act /\ e.job = a.job /\ rmq' = Append(rmq, e)
  BY <1>2 DEF Signalled
<1> QED
  BY <1>3 DEF SignalSaid

LEMMA RefusedOK ==
  ASSUME NEW a, a.job \in Jobs, a.act \in Signals \ {"KILL"}, Refused(a)
  PROVE  SignalOK(a.job)
<1>1. PICK result \in {"SUCCESS", "FAILED"} : result = "FAILED"
  OBVIOUS
<1>2. rmq' = Signalled(result, a) /\ result # "SUCCESS"
  BY <1>1 DEF Refused
<1>3. SignalSaid(a.job)
  BY <1>1, <1>2, OtherSaid
<1> QED
  BY <1>3 DEF Refused, SignalOK, SignalMoves, SignalRaises

LEMMA GrantedOK ==
  ASSUME NEW a, a.job \in Jobs, a.act \in Signals \ {"KILL", "STOP"},
         rmq' = Signalled("SUCCESS", a), SignalMoves(a.job), SignalRaises(a.job)
  PROVE  SignalOK(a.job)
<1>1. PICK result \in {"SUCCESS", "FAILED"} : result = "SUCCESS"
  OBVIOUS
<1>2. rmq' = Signalled(result, a) /\ a.act # "STOP"
  BY <1>1
<1>3. SignalSaid(a.job)
  BY <1>1, <1>2, OtherSaid
<1> QED
  BY <1>3 DEF SignalOK

LEMMA KillsOK ==
  ASSUME Types, NEW a, a.job \in Jobs, DMKill(a) \/ DMKillHard(a)
  PROVE  SignalOK(a.job)
<1>1. PICK j \in Jobs : j = a.job
  OBVIOUS
<1>2. UNCHANGED restarted
  BY DEF DMKill, DMKillHard
<1>3. SignalRaises(j)
  BY <1>2 DEF SignalRaises
<1>4. CASE InPool(j) /\ job_state' = [job_state EXCEPT ![j] = "FREED"]
           /\ rmq' = Post(rmq, "KILL_SUCCESS", j)
  <2>1. job_state'[j] = "FREED"
    BY <1>4 DEF Types
  <2>2. PICK act \in {"KILL_SUCCESS", "KILL_FAILED"} : act = "KILL_SUCCESS"
    OBVIOUS
  <2>3. SignalSaid(j)
    BY <1>4, <2>1, <2>2, KillSaid
  <2>4. SignalMoves(j)
    BY <1>4 DEF SignalMoves, SignalledTo
  <2> QED BY <1>1, <1>3, <2>3, <2>4 DEF SignalOK
<1>5. CASE UNCHANGED job_state /\ rmq' = Post(rmq, "KILL_FAILED", j)
  <2>1. PICK act \in {"KILL_SUCCESS", "KILL_FAILED"} : act = "KILL_FAILED"
    OBVIOUS
  <2>2. SignalSaid(j)
    BY <1>5, <2>1, KillSaid
  <2> QED BY <1>1, <1>3, <1>5, <2>2 DEF SignalOK, SignalMoves
<1>6. CASE InState(j, {"RUN"}) /\ job_state' = [job_state EXCEPT ![j] = "KILL_CANCEL"]
           /\ UNCHANGED rmq
  <2>1. InPool(j) /\ job_state[j] \notin Final \union {"STOPPED"}
    BY <1>6 DEF InState, InPool, Final
  <2>2. SignalMoves(j)
    BY <1>6, <2>1 DEF SignalMoves, SignalledTo
  <2> QED BY <1>1, <1>3, <1>6, <2>2 DEF SignalOK, SignalSaid
<1>7. InState(j, {"RUN", "STOPPED"} \cup Final) => InPool(j)
  BY DEF InState, InPool, Final
<1> QED
  BY <1>1, <1>4, <1>5, <1>6, <1>7 DEF DMKill, DMKillHard

LEMMA HoldsOK ==
  ASSUME NEW a, a.job \in Jobs, DMHold(a) \/ DMRelease(a) \/ DMReschedule(a),
         UNCHANGED <<job_state, restarted>>
  PROVE  SignalOK(a.job)
<1>1. a.act \in Signals \ {"KILL", "STOP"}
  BY DEF DMHold, DMRelease, DMReschedule, Signals
<1>2. Refused(a) \/ rmq' = Signalled("SUCCESS", a)
  BY DEF DMHold, DMRelease, DMReschedule, Again
<1>3. SignalMoves(a.job) /\ SignalRaises(a.job)
  BY DEF SignalMoves, SignalRaises
<1> QED
  BY <1>1, <1>2, <1>3, RefusedOK, GrantedOK

LEMMA AgainOK ==
  ASSUME NEW a, a.job \in Jobs, a.act \in Signals \ {"KILL", "STOP"},
         InState(a.job, {"STOPPED", "FAILED"}), Again(a)
  PROVE  SignalOK(a.job)
<1>1. InPool(a.job) /\ restarted' = restarted \union {a.job}
  BY DEF InState, InPool, Again
<1>2. SignalMoves(a.job)
  BY <1>1 DEF SignalMoves, SignalledTo, Again
<1>3. SignalRaises(a.job) /\ rmq' = Signalled("SUCCESS", a)
  BY <1>1 DEF SignalRaises, Again
<1> QED
  BY <1>2, <1>3, GrantedOK

LEMMA StopOK ==
  ASSUME NEW a, a.job \in Jobs, DMStop(a)
  PROVE  SignalOK(a.job)
<1>1. CASE Refused(a)
  BY <1>1, RefusedOK DEF DMStop, Signals
<1>2. CASE /\ InState(a.job, {"RUN"})
           /\ job_state' = [job_state EXCEPT ![a.job] = "STOP_CANCEL"]
           /\ UNCHANGED <<restarted, rmq>>
  <2>1. InPool(a.job) /\ job_state[a.job] \notin Final \union {"STOPPED"}
    BY <1>2 DEF InState, InPool, Final
  <2>2. SignalMoves(a.job)
    BY <1>2, <2>1 DEF SignalMoves, SignalledTo
  <2> QED BY <1>2, <2>2 DEF SignalOK, SignalSaid, SignalRaises
<1> QED
  BY <1>1, <1>2 DEF DMStop

LEMMA SignalIs ==
  ASSUME Types, NEW a \in DMAction, DMSignal(a)
  PROVE  a.act \in {"KILL_HARD"} \union Signals /\ a.job \in Jobs /\ SignalOK(a.job)
<1>1. a.act \in {"KILL_HARD"} \union Signals
  BY DEF DMSignal, DMKill, DMKillHard, DMHold, DMRelease, DMStop, DMResume, DMReschedule,
         Signals
<1>2. a.job \in Jobs
  BY <1>1, DMActionIs
<1> SUFFICES SignalOK(a.job)
  BY <1>1, <1>2
<1>3. CASE DMKill(a) \/ DMKillHard(a)
  BY <1>2, <1>3, KillsOK
<1>4. CASE DMHold(a) \/ DMRelease(a)
  BY <1>2, <1>4, HoldsOK DEF DMHold, DMRelease, Refused
<1>5. CASE DMStop(a)
  BY <1>2, <1>5, StopOK
<1>6. CASE DMResume(a)
  <2>1. a.act \in Signals \ {"KILL", "STOP"}
    BY <1>6 DEF DMResume, Signals
  <2>2. CASE InState(a.job, {"STOPPED"}) /\ Again(a)
    BY <1>2, <2>1, <2>2, AgainOK DEF InState
  <2> QED BY <1>2, <1>6, <2>1, <2>2, RefusedOK DEF DMResume
<1>7. CASE DMReschedule(a)
  <2>1. a.act \in Signals \ {"KILL", "STOP"}
    BY <1>7 DEF DMReschedule, Signals
  <2>2. CASE InState(a.job, {"FAILED"}) /\ Again(a)
    BY <1>2, <2>1, <2>2, AgainOK DEF InState
  <2>3. CASE UNCHANGED <<job_state, restarted>>
    BY <1>2, <1>7, <2>3, HoldsOK
  <2> QED BY <1>7, <2>2, <2>3 DEF DMReschedule, Refused
<1> QED
  BY <1>3, <1>4, <1>5, <1>6, <1>7 DEF DMSignal

LEMMA DMTypes ==
  ASSUME Types, NEW a \in DMAction, DMAllocate(a) \/ DMWait(a) \/ DMSignal(a),
         dmq # <<>>
  PROVE  /\ job_state' \in [Jobs -> States] /\ client_waiting' \in [Jobs -> Int]
         /\ restarted' \subseteq Jobs
         /\ dmq' \in Seq(DMAction) /\ rmq' \in Seq(RMAction)
         /\ UNCHANGED <<connection_list, threads>>
<1> DEFINE Goal == /\ job_state' \in [Jobs -> States] /\ client_waiting' \in [Jobs -> Int]
                   /\ restarted' \subseteq Jobs
                   /\ dmq' \in Seq(DMAction) /\ rmq' \in Seq(RMAction)
                   /\ UNCHANGED <<connection_list, threads>>
<1>0. /\ job_state \in [Jobs -> States] /\ client_waiting \in [Jobs -> Int]
      /\ restarted \subseteq Jobs
      /\ dmq \in Seq(DMAction) /\ rmq \in Seq(RMAction)
      /\ Tail(dmq) \in Seq(DMAction)
  BY TailFacts DEF Types
<1>1. ASSUME DMAllocate(a) PROVE Goal
  <2>1. a.fd \in Fds /\ a.from \in Clients
    BY <1>1, DMActionIs DEF DMAllocate
  <2> DEFINE new == {j \in Jobs : job_state[j] = "NONE"}
             Answer_(j, rc) == [type |-> "SUBMITTED", job |-> j, rc |-> rc, from |-> a.from]
             j == CHOOSE k \in new : TRUE
  <2>2. CASE new = {}
    <3>1. Answer_(NoJob, "NO_MEMORY") \in Submitted
      BY <2>1 DEF Submitted
    <3>2. Connection(a.fd, Answer_(NoJob, "NO_MEMORY")) \in RMAction
      BY <2>1, <3>1, RMActions
    <3>3. rmq' = Append(rmq, Connection(a.fd, Answer_(NoJob, "NO_MEMORY")))
          /\ UNCHANGED job_state
      BY <1>1, <2>2 DEF DMAllocate
    <3> QED BY <1>0, <1>1, <3>2, <3>3 DEF DMAllocate
  <2>3. CASE new # {}
    <3>1. j \in Jobs
      BY <2>3
    <3>2. Answer_(j, "SUCCESS") \in Submitted
      BY <2>1, <3>1 DEF Submitted
    <3>3. Connection(a.fd, Answer_(j, "SUCCESS")) \in RMAction
      BY <2>1, <3>2, RMActions
    <3>4. rmq' = Append(rmq, Connection(a.fd, Answer_(j, "SUCCESS")))
          /\ job_state' = [job_state EXCEPT ![j] = "RUN"]
      BY <1>1, <2>3 DEF DMAllocate
    <3>5. "RUN" \in States
      BY DEF States
    <3> HIDE DEF j, Answer_, States, RMAction
    <3>6. rmq' \in Seq(RMAction) /\ job_state' \in [Jobs -> States]
      BY <1>0, <3>1, <3>3, <3>4, <3>5
    <3> QED BY <1>0, <1>1, <3>6 DEF DMAllocate
  <2> QED BY <2>2, <2>3
<1>2. ASSUME DMWait(a) PROVE Goal
  <2>1. a.job \in Jobs
    BY <1>2, DMActionIs DEF DMWait
  <2>2. Post(rmq, "WAIT_SUCCESS", a.job) \in Seq(RMAction)
        /\ Post(rmq, "WAIT_FAILED", a.job) \in Seq(RMAction)
    BY <1>0, <2>1, AnswerType
  <2>3. [client_waiting EXCEPT ![a.job] = @ + 1] \in [Jobs -> Int]
    BY <1>0, <2>1
  <2> QED BY <1>0, <1>2, <2>2, <2>3 DEF DMWait
<1>3. ASSUME DMSignal(a) PROVE Goal
  <2>1. a.job \in Jobs /\ SignalMoves(a.job) /\ SignalSaid(a.job) /\ SignalRaises(a.job)
    BY <1>3, SignalIs DEF SignalOK
  <2>2. dmq' = Tail(dmq) /\ UNCHANGED <<client_waiting, connection_list, threads>>
    BY <1>3 DEF DMSignal
  <2>3. rmq' \in Seq(RMAction)
    <3>1. ASSUME NEW e \in RMAction, rmq' = Append(rmq, e) PROVE rmq' \in Seq(RMAction)
      <4> HIDE DEF RMAction
      <4> QED BY <1>0, <3>1
    <3> QED BY <1>0, <2>1, <3>1 DEF SignalSaid
  <2>4. job_state' \in [Jobs -> States]
    <3>1. SignalledTo \subseteq States
      BY DEF SignalledTo, States
    <3> HIDE DEF States
    <3> QED BY <1>0, <2>1, <3>1 DEF SignalMoves
  <2> QED BY <1>0, <2>1, <2>2, <2>3, <2>4 DEF SignalRaises
<1> QED
  BY <1>1, <1>2, <1>3

LEMMA DMStepTypes ==
  ASSUME Types, Wired, Locked, DMStep, UNCHANGED clientv
  PROVE  TypeInv'
<1> DEFINE a == Head(dmq)
<1>1. a \in DMAction /\ dmq # <<>>
  BY TailFacts DEF DMStep, Types
<1>2. DMAllocate(a) \/ DMWait(a) \/ DMSignal(a)
  BY DEF DMStep
<1> HIDE DEF a
<1>3. PICK x : x = a
  OBVIOUS
<1>4. /\ job_state' \in [Jobs -> States] /\ client_waiting' \in [Jobs -> Int]
      /\ restarted' \subseteq Jobs
      /\ dmq' \in Seq(DMAction) /\ rmq' \in Seq(RMAction)
      /\ UNCHANGED <<connection_list, threads>>
  BY <1>1, <1>2, <1>3, DMTypes
<1>5. UNCHANGED <<up, active, wire, replies>>
  BY DEF DMStep
<1>6. Types'
  BY <1>4, <1>5 DEF Types, wire, clientv
<1>7. Wired' /\ Locked'
  BY <1>5, WiredSame, LockedSame DEF wire
<1> QED
  BY <1>6, <1>7 DEF TypeInv

\* A job ends, or a kill, a stop or its failure does.
LEMMA JobStepTypes ==
  ASSUME Types, Wired, Locked, NEW j \in Jobs, JobStep(j), UNCHANGED clientv
  PROVE  TypeInv'
<1>0. job_state \in [Jobs -> States] /\ dmq \in Seq(DMAction) /\ rmq \in Seq(RMAction)
  BY DEF Types
<1>1. /\ Post(rmq, "WAIT_SUCCESS", j) \in Seq(RMAction)
      /\ Post(rmq, "KILL_SUCCESS", j) \in Seq(RMAction)
      /\ Append(rmq, [act |-> "SUCCESS", op |-> "STOP", job |-> j]) \in Seq(RMAction)
      /\ Post(dmq, "KILL", j) \in Seq(DMAction)
  <2>1. Post(dmq, "KILL", j) = Append(dmq, [act |-> "KILL", job |-> j])
    BY DEF Post
  <2>2. PICK k \in {"WAIT", "KILL_HARD"} \union Signals : k = "KILL"
    BY DEF Signals
  <2>3. Append(dmq, [act |-> k, job |-> j]) \in Seq(DMAction)
    BY PostType
  <2>4. [act |-> "SUCCESS", op |-> "STOP", job |-> j] \in RMAction
    BY RMActions DEF Signals
  <2>5. Append(rmq, [act |-> "SUCCESS", op |-> "STOP", job |-> j]) \in Seq(RMAction)
    <3> HIDE DEF RMAction
    <3> QED BY <1>0, <2>4
  <2> QED BY <1>0, <2>1, <2>2, <2>3, <2>5, AnswerType
<1>2. \A s \in States : [job_state EXCEPT ![j] = s] \in [Jobs -> States]
  BY <1>0
<1>3. Final \subseteq States /\ {"FREED", "STOPPED", "RUN"} \subseteq States
  BY DEF States
<1>4. job_state' \in [Jobs -> States] /\ dmq' \in Seq(DMAction) /\ rmq' \in Seq(RMAction)
  <2>1. CASE JobEnds(j)
    BY <1>0, <1>1, <1>2, <1>3, <2>1 DEF JobEnds, Notify
  <2>2. CASE JobKilled(j) \/ JobStopped(j)
    BY <1>0, <1>1, <1>2, <1>3, <2>2 DEF JobKilled, JobStopped
  <2>3. CASE CancelForgotten(j)
    BY <1>0, <1>2, <1>3, <2>3 DEF CancelForgotten, queues
  <2> QED BY <2>1, <2>2, <2>3 DEF JobStep
<1>5. UNCHANGED <<up, client_waiting, restarted, server, wire, replies>>
  BY DEF JobStep
<1>6. Types'
  BY <1>4, <1>5 DEF Types, wire, server, clientv
<1>7. Wired' /\ Locked'
  BY <1>5, WiredSame, LockedSame DEF wire, server
<1> QED
  BY <1>6, <1>7 DEF TypeInv

\* The slot's message is worked on, or a thread is started for it.
LEMMA RMConnectionTypes ==
  ASSUME Types, NEW a \in RMAction, RMConnection(a), rmq # <<>>
  PROVE  /\ connection_list' \in Seq(Entry) /\ dmq' \in Seq(DMAction)
         /\ replies' \in [Clients -> Seq(Answers)]
         /\ threads' \subseteq Task
         /\ UNCHANGED <<up, pool, active, wire>>
<1> DEFINE u == [fd |-> a.fd, msg |-> a.msg]
<1>1. u \in Task /\ UNCHANGED <<up, pool, active, wire>>
  BY RMActionIs DEF RMConnection
<1>2. PICK t \in Task : t = u
  BY <1>1
<1>3. CASE Prompt
  <2>1. Work(u) /\ UNCHANGED threads
    BY <1>3 DEF RMConnection
  <2>2. Work(t)
    <3> HIDE DEF u
    <3> QED BY <1>2, <2>1
  <2> QED BY <1>1, <2>1, <2>2, WorkTypes DEF Types, Task
<1>4. CASE ~Prompt
  <2>1. threads' = threads \union {u} /\ UNCHANGED <<connection_list, dmq, replies>>
    BY <1>4 DEF RMConnection
  <2> HIDE DEF u
  <2> QED BY <1>1, <2>1 DEF Types, Task
<1> QED
  BY <1>3, <1>4

\* What the RM's handlers of the DM's answers change.
RMKeeps ==
  /\ connection_list' \in Seq(Entry) /\ client_waiting' \in [Jobs -> Int]
  /\ replies' \in [Clients -> Seq(Answers)]
  /\ UNCHANGED <<up, job_state, restarted, active, threads, dmq, wire>>

LEMMA AnsweredTypes ==
  ASSUME Types, NEW a \in RMAction, a.job \in Jobs, NEW op \in Signals, NEW ok, Answered(op, a, ok)
  PROVE  RMKeeps
<1> DEFINE x == IF ok THEN "SUCCESS" ELSE IF InPool(a.job) THEN "BAD_JOB_STATE" ELSE "BAD_JOB_ID"
<1>1. x \in (Codes \ {"CONNECTION"}) \union States /\ op \in Ops
  BY DEF Codes, Ops
<1>2. Said(op, a.job, x) \in Answers
  BY <1>1, AnswerTypes
<1>3. /\ replies' = Received(Waiting(op, a.job), Said(op, a.job, x))
      /\ connection_list' = Rest(Waiting(op, a.job))
      /\ UNCHANGED <<up, pool, active, threads, dmq, wire>>
  BY DEF Answered
<1> HIDE DEF x
<1>4. replies' \in [Clients -> Seq(Answers)]
  BY <1>2, <1>3, ReceivedType, PlacesIn
<1>5. connection_list' \in Seq(Entry)
  BY <1>3, RestIs
<1> QED
  BY <1>3, <1>4, <1>5 DEF RMKeeps, pool, Types

LEMMA RMWaitTypes ==
  ASSUME Types, NEW a \in RMAction, a.job \in Jobs,
         RMWaitFailed(a) \/ (RMWaitSuccess(a) /\ InPool(a.job))
  PROVE  RMKeeps
<1> DEFINE ws == Waiting("WAIT", a.job)
           one == {n \in ws : \A k \in ws : n <= k}
           x == IF job_state[a.job] = "FAILED" THEN "JOB_FAIL" ELSE "SUCCESS"
<1>1. /\ ws \in SUBSET DOMAIN connection_list /\ one \in SUBSET DOMAIN connection_list
      /\ WithAnys(ws) \in SUBSET DOMAIN connection_list
      /\ WithAnys(one) \ one \in SUBSET DOMAIN connection_list
  BY PlacesIn DEF WithAnys
<1>2. x \in (Codes \ {"CONNECTION"}) \union States
      /\ "BAD_JOB_ID" \in (Codes \ {"CONNECTION"}) \union States /\ "WAIT" \in Ops
  BY DEF Codes, Ops
<1>3. Said("WAIT", a.job, x) \in Answers /\ Said("WAIT", a.job, "BAD_JOB_ID") \in Answers
  BY <1>2, AnswerTypes
<1>4. CASE RMWaitFailed(a)
  <2>1. /\ replies' = Received(one, Said("WAIT", a.job, "BAD_JOB_ID"))
        /\ connection_list' = Rest(WithAnys(one))
        /\ client_waiting' = WaitsLess(WithAnys(one) \ one)
        /\ UNCHANGED <<up, job_state, restarted, active, threads, dmq, wire>>
    BY <1>4 DEF RMWaitFailed
  <2> HIDE DEF one, ws
  <2> QED BY <1>1, <1>3, <2>1, ReceivedType, RestIs, LessType DEF RMKeeps
<1>5. CASE RMWaitSuccess(a) /\ InPool(a.job)
  <2>1. /\ replies' = Received(ws, Said("WAIT", a.job, x))
        /\ connection_list' = Rest(WithAnys(ws))
        /\ client_waiting' = WaitsLess(WithAnys(ws))
        /\ UNCHANGED <<up, job_state, restarted, active, threads, dmq, wire>>
    BY <1>5 DEF RMWaitSuccess
  <2> HIDE DEF one, ws, x
  <2> QED BY <1>1, <1>3, <2>1, ReceivedType, RestIs, LessType DEF RMKeeps
<1> QED
  BY <1>4, <1>5

LEMMA RMKillTypes ==
  ASSUME Types, NEW a \in RMAction, a.job \in Jobs, RMKillSuccess(a)
  PROVE  RMKeeps
<1> DEFINE ks == Waiting("KILL", a.job)
           ws == Waiting("WAIT", a.job)
           k == Said("KILL", a.job, "SUCCESS")
           w == Said("KILL", a.job, "JOB_KILLED")
<1>1. /\ ks \in SUBSET DOMAIN connection_list /\ ws \in SUBSET DOMAIN connection_list
      /\ WithAnys(ws) \ ws \in SUBSET DOMAIN connection_list
  BY PlacesIn DEF WithAnys
<1>2. k \in Answers /\ w \in Answers
  BY AnswerTypes DEF Codes, Ops, Signals
<1>3. /\ replies' = [c \in Clients |-> replies[c] \o Copies(ks, k, c) \o Copies(ws, w, c)]
      /\ connection_list' = Rest(ks \union WithAnys(ws))
      /\ client_waiting' = WaitsLess(WithAnys(ws) \ ws)
      /\ UNCHANGED <<up, job_state, restarted, active, threads, dmq, wire>>
  BY DEF RMKillSuccess, ToldOfKill
<1> HIDE DEF ks, ws, k, w
<1>4. \A c \in Clients : /\ replies[c] \in Seq(Answers) /\ Copies(ks, k, c) \in Seq(Answers)
                         /\ Copies(ws, w, c) \in Seq(Answers)
  BY <1>1, <1>2, CopiesType DEF Types
<1>5. \A c \in Clients : replies[c] \o Copies(ks, k, c) \o Copies(ws, w, c) \in Seq(Answers)
  BY <1>4
<1>6. replies' \in [Clients -> Seq(Answers)]
  BY <1>3, <1>5
<1> QED
  BY <1>1, <1>3, <1>6, RestIs, LessType DEF RMKeeps

LEMMA RMStepTypes ==
  ASSUME Types, Wired, Locked, RMStep, UNCHANGED clientv
  PROVE  TypeInv'
<1> DEFINE b == Head(rmq)
<1>1. b \in RMAction /\ rmq # <<>> /\ Tail(rmq) \in Seq(RMAction)
  BY TailFacts DEF RMStep, Types
<1>2. PICK a \in RMAction : a = b
  BY <1>1
<1>3. \/ RMConnection(a)
      \/ RMWaitSuccess(a) \/ RMWaitFailed(a) \/ RMKillSuccess(a) \/ RMKillFailed(a)
      \/ RMHold(a) \/ RMRelease(a) \/ RMStop(a) \/ RMResume(a) \/ RMReschedule(a)
  BY <1>2 DEF RMStep
<1>4. Locked'
  BY LockedSame
<1>5. CASE RMConnection(a)
  <2>1. /\ connection_list' \in Seq(Entry) /\ dmq' \in Seq(DMAction)
        /\ replies' \in [Clients -> Seq(Answers)]
        /\ threads' \subseteq Task
        /\ UNCHANGED <<up, pool, active, wire>>
    BY <1>1, <1>5, RMConnectionTypes
  <2>2. rmq' = Tail(rmq)
    BY <1>5 DEF RMConnection
  <2>3. Types'
    BY <1>1, <2>1, <2>2 DEF Types, Task, pool, wire, clientv
  <2> QED BY <1>4, <2>1, <2>3, WiredSame DEF TypeInv, wire
<1>6. CASE RMWaitSuccess(a) /\ ~InPool(a.job)
  <2>1. PICK sent : sent = Received(Waiting("WAIT", a.job), Said("WAIT", a.job, "BAD_JOB_ID"))
    OBVIOUS
  <2>2. a.job \in Jobs /\ Crash(sent)
    BY <1>6, <2>1, RMActionIs DEF RMWaitSuccess
  <2>3. Said("WAIT", a.job, "BAD_JOB_ID") \in Answers
    BY <2>2, AnswerTypes DEF Ops, Codes
  <2>4. sent \in [Clients -> Seq(Answers)]
    BY <2>1, <2>3, ReceivedType, PlacesIn
  <2> QED BY <1>4, <2>2, <2>4, CrashTypes DEF TypeInv
<1>7. ASSUME RMKeeps, rmq' = Tail(rmq) PROVE TypeInv'
  <2>1. Types'
    BY <1>1, <1>7 DEF RMKeeps, Types, wire, clientv
  <2> QED BY <1>4, <1>7, <2>1, WiredSame DEF TypeInv, RMKeeps, wire
<1>8. CASE RMWaitFailed(a) \/ (RMWaitSuccess(a) /\ InPool(a.job))
  <2>1. a.job \in Jobs
    BY <1>8, RMActionIs DEF RMWaitFailed, RMWaitSuccess
  <2>2. rmq' = Tail(rmq)
    BY <1>8 DEF RMWaitFailed, RMWaitSuccess
  <2> QED BY <1>7, <1>8, <2>1, <2>2, RMWaitTypes
<1>9. CASE RMKillSuccess(a)
  <2>1. a.job \in Jobs
    BY <1>9, RMActionIs DEF RMKillSuccess
  <2>2. rmq' = Tail(rmq)
    BY <1>9 DEF RMKillSuccess
  <2> QED BY <1>7, <1>9, <2>1, <2>2, RMKillTypes
<1>10. ASSUME NEW op \in Signals, NEW ok, Answered(op, a, ok), a.act # "CONNECTION" PROVE TypeInv'
  <2>1. a.job \in Jobs
    BY <1>10, RMActionIs
  <2>2. rmq' = Tail(rmq)
    BY <1>10 DEF Answered
  <2> QED BY <1>7, <1>10, <2>1, <2>2, AnsweredTypes
<1>11. CASE RMKillFailed(a)
  BY <1>10, <1>11 DEF RMKillFailed, Signals
<1>12. ASSUME NEW op \in Signals, SignalAnswer(op, a) PROVE TypeInv'
  <2>1. PICK ok : ok = (a.act = "SUCCESS")
    OBVIOUS
  <2>2. Answered(op, a, ok) /\ a.act # "CONNECTION"
    BY <1>12, <2>1 DEF SignalAnswer
  <2> QED BY <1>10, <2>2
<1>13. CASE RMHold(a) \/ RMRelease(a) \/ RMStop(a) \/ RMResume(a) \/ RMReschedule(a)
  BY <1>12, <1>13 DEF RMHold, RMRelease, RMStop, RMResume, RMReschedule, Signals
<1> QED
  BY <1>3, <1>5, <1>6, <1>8, <1>9, <1>11, <1>13

-----------------------------------------------------------------------------
(* The clients.                                                            *)

LEMMA MessageTypes ==
  ASSUME NEW c \in Clients, NEW j \in Jobs
  PROVE  /\ \A op \in Signals \union AsyncSignals : Signal(c, op, j) \in Seq(Line) \ {<<>>}
         /\ WaitFor(c, j) \in Seq(Line) \ {<<>>} /\ Status(c, j) \in Seq(Line) \ {<<>>}
<1>1. \A op \in Ops : Msg(op, "JOB", j, c) \in Line
  BY DEF Msg, Line, Request
<1>2. DISENGAGE \in Line
  BY DEF Line
<1> HIDE DEF Line
<1>3. \A op \in Ops : /\ <<Msg(op, "JOB", j, c)>> \in Seq(Line) \ {<<>>}
                      /\ <<Msg(op, "JOB", j, c), DISENGAGE>> \in Seq(Line) \ {<<>>}
  BY <1>1, <1>2
<1>4. Signals \union AsyncSignals \subseteq Ops /\ "WAIT" \in Ops /\ "JOB_STATUS" \in Ops
  BY DEF Ops
<1> QED
  BY <1>3, <1>4 DEF Signal, WaitFor, Status

LEMMA SubmitType ==
  ASSUME NEW c \in Clients
  PROVE  Submit(c) \in Seq(Line) \ {<<>>}
<1>1. Msg("SUBMIT", "JOB", NoJob, c) \in Line
  BY DEF Msg, Line, Request
<1> HIDE DEF Line
<1> QED
  BY <1>1 DEF Submit

LEMMA WaitSetType ==
  ASSUME NEW c \in Clients, NEW s \in Seq(Jobs), s # <<>>, NEW any
  PROVE  WaitSet(c, s, any) \in Seq(Line) \ {<<>>}
<1> DEFINE w(i) == IF ~any THEN "JOB" ELSE IF i = 1 THEN "ANY_FIRST" ELSE "ANY"
<1>1. \A i : w(i) \in {"JOB", "ANY_FIRST", "ANY"}
  OBVIOUS
<1>2. WaitSet(c, s, any) = [i \in DOMAIN s |-> Msg("WAIT", w(i), s[i], c)]
  BY DEF WaitSet
<1> HIDE DEF w
<1>3. \A i \in DOMAIN s : Msg("WAIT", w(i), s[i], c) \in Line
  BY <1>1, SeqFacts DEF Msg, Line, Request, Ops
<1>4. Len(s) \in Nat /\ DOMAIN s = 1..Len(s) /\ Len(s) # 0
  OBVIOUS
<1> HIDE DEF Line
<1>5. WaitSet(c, s, any) \in [1..Len(s) -> Line]
  BY <1>2, <1>3, <1>4
<1>6. WaitSet(c, s, any) \in Seq(Line) /\ Len(WaitSet(c, s, any)) = Len(s)
  BY <1>4, <1>5
<1> QED
  BY <1>4, <1>6

\* A client leaves its connection and opens another.
LEMMA ConnectTypes ==
  ASSUME Types, Wired, NEW c \in Clients, NEW msgs \in Seq(Line), Connect(c, msgs),
         UNCHANGED active
  PROVE  /\ inbox' \in [Fds -> Seq(Line)] /\ conn' \in [Clients -> Fds \union {0}]
         /\ backlog' \in Seq([client : Clients, msgs : Seq(Line)])
         /\ replies' \in [Clients -> Seq(Answers)] /\ Wired'
<1>1. inbox' \in [Fds -> Seq(Line)]
  <2>1. CASE conn[c] = 0
    BY <2>1 DEF Connect, Types
  <2>2. CASE conn[c] # 0
    <3>1. conn[c] \in Fds /\ inbox[conn[c]] \in Seq(Line) /\ DISENGAGE \in Line
      BY <2>2 DEF Types, Line
    <3>2. Append(inbox[conn[c]], DISENGAGE) \in Seq(Line)
      <4> HIDE DEF Line
      <4> QED BY <3>1
    <3> QED BY <2>2, <3>1, <3>2 DEF Connect, Types
  <2> QED BY <2>1, <2>2
<1>2. conn' = [conn EXCEPT ![c] = 0] /\ conn' \in [Clients -> Fds \union {0}]
  BY DEF Connect, Types
<1>3. backlog' \in Seq([client : Clients, msgs : Seq(Line)])
  <2> DEFINE b == [client |-> c, msgs |-> msgs]
             S == [client : Clients, msgs : Seq(Line)]
  <2>1. b \in S /\ backlog \in Seq(S)
    BY DEF Types
  <2>2. backlog' = IF up /\ msgs # <<>> THEN Append(backlog, b) ELSE backlog
    BY DEF Connect
  <2> HIDE DEF b, S
  <2>3. backlog' \in Seq(S)
    BY <2>1, <2>2
  <2> QED BY <2>3 DEF S
<1>4. replies' \in [Clients -> Seq(Answers)]
  <2> DEFINE r == IF up \/ msgs = <<>> THEN <<>> ELSE <<EOF>>
  <2>1. r \in Seq(Answers)
    <3>1. EOF \in Answers
      BY AnswerTypes
    <3> HIDE DEF Answers
    <3> QED BY <3>1
  <2>2. replies' = [replies EXCEPT ![c] = r]
    BY DEF Connect
  <2> HIDE DEF r
  <2> QED BY <2>1, <2>2 DEF Types
<1>5. Wired'
  <2>1. ASSUME NEW d \in Clients, conn'[d] # 0
        PROVE  /\ active'[conn'[d]] = d
               /\ \A i \in DOMAIN inbox'[conn'[d]] : inbox'[conn'[d]][i] # DISENGAGE
    <3>1. d # c /\ conn'[d] = conn[d] /\ conn[d] \in Fds
      BY <1>2, <2>1 DEF Types
    <3>2. active[conn[d]] = d /\ (conn[c] # 0 => active[conn[c]] = c)
      BY <2>1, <3>1 DEF Wired
    <3>3. conn[d] # conn[c]
      BY <2>1, <3>1, <3>2
    <3>4. inbox'[conn[d]] = inbox[conn[d]]
      BY <3>1, <3>3 DEF Connect, Types
    <3> QED BY <2>1, <3>1, <3>2, <3>4 DEF Wired
  <2> QED BY <2>1 DEF Wired
<1> QED
  BY <1>1, <1>2, <1>3, <1>4, <1>5

\* A client goes on to call k.
Goes(c, k, msgs) ==
  /\ Connect(c, msgs) /\ call' = [call EXCEPT ![c] = k] /\ UNCHANGED gwdv
  /\ \/ lock' = NoClient
     \/ lock' = lock /\ lock # c
     \/ lock' = c /\ k.api = "KILL_ALL"

LEMMA GoesTypes ==
  ASSUME Types, Wired, Locked, NEW c \in Clients, NEW msgs \in Seq(Line), NEW k \in Call,
         CallOK(k), Goes(c, k, msgs), session' \in Seq(Jobs)
  PROVE  TypeInv'
<1>1. UNCHANGED <<up, job_state, client_waiting, restarted, active, connection_list, threads,
                    dmq, rmq>>
  BY DEF Goes, gwdv, pool, server
<1>2. /\ inbox' \in [Fds -> Seq(Line)] /\ conn' \in [Clients -> Fds \union {0}]
      /\ backlog' \in Seq([client : Clients, msgs : Seq(Line)])
      /\ replies' \in [Clients -> Seq(Answers)] /\ Wired'
  BY <1>1, ConnectTypes DEF Goes
<1>3. /\ call' \in [Clients -> Call] /\ call'[c] = k
      /\ \A d \in Clients : d # c => call'[d] = call[d]
  <2>1. call \in [Clients -> Call] /\ call' = [call EXCEPT ![c] = k]
    BY DEF Types, Goes
  <2> HIDE DEF Call
  <2> QED BY <2>1
<1>4. \A d \in Clients : CallOK(call'[d])
  BY <1>3 DEF Types
<1>5. lock' \in Clients \union {NoClient}
  BY DEF Types, Goes
<1>6. Types'
  BY <1>1, <1>2, <1>3, <1>4, <1>5 DEF Types, CallOK
<1>7. Locked'
  <2>1. CASE lock' = NoClient
    BY <2>1 DEF Locked
  <2>2. CASE lock' # NoClient /\ lock' = lock /\ lock # c
    BY <1>3, <1>5, <2>2 DEF Locked
  <2>3. CASE lock' = c /\ k.api = "KILL_ALL"
    BY <1>3, <2>3 DEF Locked
  <2> QED BY <2>1, <2>2, <2>3 DEF Goes
<1> QED
  BY <1>2, <1>6, <1>7 DEF TypeInv

LEMMA StartTypes ==
  ASSUME Types, Wired, Locked, NEW c \in Clients, NEW msgs \in Seq(Line),
         NEW api \in Apis, NEW jobs \in Seq(Jobs), NEW todo \in Seq(Jobs),
         api \in Waits => jobs # <<>>,
         api \in {"SYNC", "DISPOSE", "REAP", "KILL_ALL"} => todo # <<>>,
         Start(c, api, jobs, todo, msgs), UNCHANGED session,
         UNCHANGED lock \/ (lock' = c /\ api = "KILL_ALL")
  PROVE  TypeInv'
<1> DEFINE k == [api |-> api, jobs |-> jobs, todo |-> todo, rc |-> "SUCCESS"]
<1>1. k \in Call /\ CallOK(k) /\ k.api = api
  BY DEF Call, CallOK, Codes
<1>2. Goes(c, k, msgs)
  BY <1>1 DEF Start, Goes
<1>3. session' \in Seq(Jobs)
  BY DEF Types
<1> HIDE DEF k
<1> QED
  BY <1>1, <1>2, <1>3, GoesTypes

LEMMA IdleType == Idle \in Call /\ CallOK(Idle)
<1>1. Idle.jobs \in Seq(Jobs) /\ Idle.todo \in Seq(Jobs)
  BY EmptyFacts DEF Idle
<1>2. Idle.api \in Apis /\ Idle.rc \in Codes \union States \union {"-"}
  BY DEF Idle, Apis
<1>3. Idle.api \notin Waits /\ Idle.api \notin {"SYNC", "DISPOSE", "REAP", "KILL_ALL"}
  BY DEF Idle, Waits
<1> QED
  BY <1>1, <1>2, <1>3 DEF Idle, Call, CallOK

LEMMA WithoutType ==
  ASSUME session \in Seq(Jobs), NEW gone
  PROVE  Without(gone) \in Seq(Jobs)
<1> DEFINE S == {i \in DOMAIN session : session[i] \notin gone}
<1>1. S \in SUBSET DOMAIN session /\ Without(gone) = Chosen(session, S)
  BY DEF Without
<1> HIDE DEF S
<1> QED
  BY <1>1, ChosenIs

\* A call ends.
LEMMA ReturnTypes ==
  ASSUME Types, Wired, Locked, NEW c \in Clients, Return(c), UNCHANGED gwdv,
         session' \in Seq(Jobs), lock' = NoClient \/ (UNCHANGED lock /\ lock # c)
  PROVE  TypeInv'
<1>1. <<>> \in Seq(Line)
  BY EmptyFacts
<1>2. PICK k : k = Idle
  OBVIOUS
<1>3. PICK m : m = <<>>
  OBVIOUS
<1>4. Goes(c, k, m)
  BY <1>2, <1>3 DEF Return, Goes
<1> QED
  BY <1>1, <1>2, <1>3, <1>4, IdleType, GoesTypes

\* A call goes on to kill what it waited for, or the next of its jobs.
LEMMA KillNextTypes ==
  ASSUME Types, Wired, Locked, NEW c \in Clients, NEW api \in {"REAP", "KILL_ALL"},
         NEW jobs \in Seq(Jobs), NEW todo \in Seq(Jobs), todo # <<>>,
         KillNext(c, api, jobs, todo), UNCHANGED gwdv,
         session' \in Seq(Jobs), UNCHANGED lock, lock = c => api = "KILL_ALL"
  PROVE  TypeInv'
<1> DEFINE k_ == [api |-> api, jobs |-> jobs, todo |-> todo, rc |-> "SUCCESS"]
           m_ == Signal(c, "KILL", Head(todo))
<1>1. k_ \in Call /\ CallOK(k_) /\ k_.api = api
  BY DEF Call, CallOK, Codes, Apis, Kills, Waits
<1>2. m_ \in Seq(Line)
  <2>1. Head(todo) \in Jobs
    OBVIOUS
  <2>2. \A op \in Signals \union AsyncSignals : Signal(c, op, Head(todo)) \in Seq(Line)
    BY <2>1, MessageTypes
  <2> QED BY <2>2 DEF Signals
<1>3. PICK k \in Call : k = k_
  BY <1>1
<1>4. PICK m \in Seq(Line) : m = m_
  BY <1>2
<1>5. call' = [call EXCEPT ![c] = k_] /\ Connect(c, m_)
  BY DEF KillNext
<1> HIDE DEF k_, m_
<1>6. Goes(c, k, m)
  BY <1>1, <1>3, <1>4, <1>5 DEF Goes
<1> QED
  BY <1>1, <1>3, <1>6, GoesTypes

\* What the first answer is about.
LEMMA AnswerIs ==
  ASSUME Types, NEW c \in Clients, replies[c] # <<>>
  PROVE  /\ Answer(c) \in Answers /\ Tail(replies[c]) \in Seq(Answers)
         /\ Answer(c).rc \in Codes \union States
         /\ Answer(c).rc = "SUCCESS" => Answer(c).job \in Jobs
<1>1. replies[c] \in Seq(Answers)
  BY DEF Types
<1>2. Answer(c) \in Answers /\ Tail(replies[c]) \in Seq(Answers)
  BY <1>1, TailFacts DEF Answer
<1>3. PICK r \in Answers : r = Answer(c)
  BY <1>2
<1>4. r.rc \in Codes \union States /\ (r.rc = "SUCCESS" => r.job \in Jobs)
  BY DEF Answers, Codes, EOF
<1> QED
  BY <1>2, <1>3, <1>4

LEMMA CallIs ==
  ASSUME Types, NEW c \in Clients
  PROVE  /\ call[c].api \in Apis /\ call[c].rc \in Codes \union States \union {"-"}
         /\ call[c].jobs \in Seq(Jobs) /\ call[c].todo \in Seq(Jobs)
         /\ call[c].api \in Waits => call[c].jobs # <<>> /\ call[c].jobs[1] \in Jobs
         /\ call[c].api \in {"SYNC", "DISPOSE", "REAP", "KILL_ALL"} => call[c].todo # <<>>
         /\ call[c] = [api |-> call[c].api, jobs |-> call[c].jobs, todo |-> call[c].todo,
                       rc |-> call[c].rc]
<1>1. call[c] \in Call /\ CallOK(call[c])
  BY DEF Types
<1>2. PICK k \in Call : k = call[c]
  BY <1>1
<1>3. /\ k.api \in Apis /\ k.rc \in Codes \union States \union {"-"}
      /\ k.jobs \in Seq(Jobs) /\ k.todo \in Seq(Jobs)
      /\ k = [api |-> k.api, jobs |-> k.jobs, todo |-> k.todo, rc |-> k.rc]
  BY DEF Call
<1>4. k.jobs # <<>> => k.jobs[1] \in Jobs
  BY <1>3
<1> QED
  BY <1>1, <1>2, <1>3, <1>4 DEF CallOK

LEMMA LongTail ==
  ASSUME NEW s \in Seq(Jobs), s # <<>>, Len(s) # 1
  PROVE  Tail(s) \in Seq(Jobs) /\ Tail(s) # <<>>
<1>1. Len(s) \in Nat /\ Len(s) # 0 /\ Tail(s) \in Seq(Jobs) /\ Len(Tail(s)) = Len(s) - 1
  OBVIOUS
<1>2. \A t \in Seq(Jobs) : Len(t) # 0 => t # <<>>
  OBVIOUS
<1>3. Len(Tail(s)) # 0
  BY <1>1
<1> QED
  BY <1>1, <1>2, <1>3, Zenon

LEMMA TwoFields ==
  ASSUME NEW e, e = [api |-> e.api, jobs |-> e.jobs, todo |-> e.todo, rc |-> e.rc],
         NEW z, NEW y
  PROVE  [e EXCEPT !.todo = z, !.rc = y] = [api |-> e.api, jobs |-> e.jobs, todo |-> z, rc |-> y]
<1>1. PICK u, v, w, x : u = e.api /\ v = e.jobs /\ w = e.todo /\ x = e.rc
  OBVIOUS
<1>2. PICK f : f = [api |-> u, jobs |-> v, todo |-> w, rc |-> x]
  OBVIOUS
<1>3. [f EXCEPT !.todo = z] = [api |-> u, jobs |-> v, todo |-> z, rc |-> x]
  BY <1>2
<1>4. PICK g : g = [api |-> u, jobs |-> v, todo |-> z, rc |-> x]
  OBVIOUS
<1>5. [g EXCEPT !.rc = y] = [api |-> u, jobs |-> v, todo |-> z, rc |-> y]
  BY <1>4
<1>6. [f EXCEPT !.todo = z, !.rc = y] = [[f EXCEPT !.todo = z] EXCEPT !.rc = y]
  OBVIOUS
<1>7. [f EXCEPT !.todo = z, !.rc = y] = [g EXCEPT !.rc = y]
  BY <1>3, <1>4, <1>6
<1> QED
  BY <1>1, <1>2, <1>5, <1>7

LEMMA ReturnsTypes ==
  ASSUME Types, Wired, Locked, NEW c \in Clients, Returns(c)
  PROVE  TypeInv'
<1>1. /\ replies[c] # <<>> /\ lock \in {NoClient, c} /\ UNCHANGED gwdv
      /\ session \in Seq(Jobs) /\ c # NoClient
  BY RMAssumption DEF Returns, Types
<1>2. call[c].api # "KILL_ALL" => lock # c /\ lock = NoClient
  BY <1>1 DEF Locked
<1>3. CASE RunReturn(c)
  <2>1. session' \in Seq(Jobs)
    BY <1>1, <1>3, AnswerIs DEF RunReturn
  <2>2. Return(c) /\ UNCHANGED lock /\ lock # c
    BY <1>2, <1>3 DEF RunReturn
  <2> QED BY <1>1, <2>1, <2>2, ReturnTypes
<1>4. CASE WaitReturn(c) \/ WaitAnyReturn(c)
  <2>1. /\ UNCHANGED lock /\ lock # c
        /\ session' \in Seq(Jobs)
        /\ \/ Return(c)
           \/ \E j \in Jobs : KillNext(c, "REAP", <<j>>, <<j>>)
    <3>1. call[c].jobs[1] \in Jobs
      BY <1>4, CallIs DEF WaitReturn, WaitAnyReturn, Waits
    <3>2. AnyJob(c) \in Jobs
      BY <1>1, <3>1, AnswerIs DEF AnyJob
    <3>3. \A S : Without(S) \in Seq(Jobs)
      BY <1>1, WithoutType
    <3>4. CASE WaitReturn(c)
      BY <1>1, <1>2, <3>1, <3>3, <3>4 DEF WaitReturn
    <3>5. CASE WaitAnyReturn(c)
      BY <1>1, <1>2, <3>2, <3>3, <3>5 DEF WaitAnyReturn
    <3> QED BY <1>4, <3>4, <3>5
  <2>2. CASE Return(c)
    BY <1>1, <2>1, <2>2, ReturnTypes
  <2>3. ASSUME NEW j \in Jobs, KillNext(c, "REAP", <<j>>, <<j>>) PROVE TypeInv'
    <3>1. <<j>> \in Seq(Jobs) /\ <<j>> # <<>>
      OBVIOUS
    <3>2. PICK q \in Seq(Jobs) : q = <<j>>
      BY <3>1
    <3>3. PICK api \in {"REAP", "KILL_ALL"} : api = "REAP"
      OBVIOUS
    <3>4. KillNext(c, api, q, q) /\ q # <<>>
      BY <2>3, <3>1, <3>2, <3>3
    <3> QED BY <1>1, <2>1, <3>4, KillNextTypes
  <2> QED BY <2>1, <2>2, <2>3
<1>5. CASE SyncReturn(c)
  <2> DEFINE rc == IF Answer(c).rc = "SUCCESS" THEN call[c].rc ELSE Answer(c).rc
             last == Len(call[c].todo) = 1 \/ rc = "CONNECTION"
  <2>0. UNCHANGED <<session, lock>> /\ lock # c /\ session' \in Seq(Jobs)
        /\ call[c].api \in {"SYNC", "DISPOSE"} /\ call[c].todo # <<>> /\ call[c].jobs # <<>>
        /\ call[c].todo \in Seq(Jobs) /\ call[c].jobs \in Seq(Jobs)
    BY <1>1, <1>2, <1>5, CallIs DEF SyncReturn, Waits
  <2>1. rc \in Codes \union States \union {"-"}
    BY <1>1, CallIs, AnswerIs
  <2>2. CASE ~last
    <3>1. /\ call' = [call EXCEPT ![c].todo = Tail(@), ![c].rc = rc]
          /\ replies' = [replies EXCEPT ![c] = Tail(@)]
          /\ UNCHANGED <<inbox, conn, backlog>>
      BY <1>5, <2>2 DEF SyncReturn
    <3> DEFINE k == [api |-> call[c].api, jobs |-> call[c].jobs, todo |-> Tail(call[c].todo),
                     rc |-> rc]
    <3>2. Tail(call[c].todo) \in Seq(Jobs) /\ Tail(call[c].todo) # <<>>
      <4>1. Len(call[c].todo) # 1
        BY <2>2
      <4> QED BY <2>0, <4>1, LongTail
    <3>3. call' = [call EXCEPT ![c] = k]
      <4> HIDE DEF rc
      <4>1. PICK e, z : e = call[c] /\ z = Tail(call[c].todo)
        OBVIOUS
      <4>2. e = [api |-> e.api, jobs |-> e.jobs, todo |-> e.todo, rc |-> e.rc]
        BY <4>1, CallIs
      <4>3. [e EXCEPT !.todo = z, !.rc = rc] =
              [api |-> e.api, jobs |-> e.jobs, todo |-> z, rc |-> rc]
        BY <4>2, TwoFields
      <4>4. call' = [call EXCEPT ![c] = [e EXCEPT !.todo = z, !.rc = rc]]
        BY <3>1, <4>1 DEF Types
      <4> QED BY <4>1, <4>3, <4>4
    <3>4. k \in Call /\ CallOK(k) /\ k.api # "KILL_ALL"
      BY <2>0, <2>1, <3>2, CallIs DEF Call, CallOK
    <3> HIDE DEF k
    <3>5. /\ call' \in [Clients -> Call] /\ call'[c] = k
          /\ \A d \in Clients : d # c => call'[d] = call[d]
      <4>1. call \in [Clients -> Call]
        BY DEF Types
      <4> HIDE DEF Call
      <4> QED BY <3>3, <3>4, <4>1
    <3>6. \A d \in Clients : CallOK(call'[d])
      BY <3>4, <3>5 DEF Types
    <3>7. replies' \in [Clients -> Seq(Answers)]
      BY <1>1, <3>1, AnswerIs DEF Types
    <3>8. UNCHANGED <<up, job_state, client_waiting, restarted, active, connection_list, threads,
                    dmq, rmq>>
      BY <1>1 DEF gwdv, pool, server
    <3>9. Types'
      BY <2>0, <3>1, <3>5, <3>6, <3>7, <3>8 DEF Types, CallOK
    <3>10. Wired'
      BY <3>1, <3>8, WiredSame
    <3>11. Locked'
      BY <2>0, <3>5 DEF Locked, Types
    <3> QED BY <3>9, <3>10, <3>11 DEF TypeInv
  <2>3. CASE last /\ Return(c)
    BY <1>1, <2>0, <2>3, ReturnTypes
  <2>4. CASE KillNext(c, "REAP", call[c].jobs, call[c].jobs)
    <3>1. PICK q \in Seq(Jobs) : q = call[c].jobs
      BY <2>0
    <3>2. PICK api \in {"REAP", "KILL_ALL"} : api = "REAP"
      OBVIOUS
    <3>3. KillNext(c, api, q, q) /\ q # <<>>
      BY <2>0, <2>4, <3>1, <3>2
    <3> QED BY <1>1, <2>0, <3>3, KillNextTypes
  <2> QED BY <1>5, <2>2, <2>3, <2>4 DEF SyncReturn
<1>6. CASE ReapReturn(c)
  <2>0. call[c].api \in {"REAP", "KILL_ALL"} /\ call[c].todo # <<>>
        /\ call[c].todo \in Seq(Jobs) /\ call[c].jobs \in Seq(Jobs)
        /\ Tail(call[c].todo) \in Seq(Jobs)
    <3>1. call[c].api \in {"REAP", "KILL_ALL"} /\ call[c].todo # <<>>
          /\ call[c].todo \in Seq(Jobs) /\ call[c].jobs \in Seq(Jobs)
      BY <1>6, CallIs DEF ReapReturn
    <3> QED BY <3>1, TailFacts
  <2>1. CASE Tail(call[c].todo) # <<>>
    <3>1. PICK q \in Seq(Jobs) : q = call[c].jobs
      BY <2>0
    <3>2. PICK p \in Seq(Jobs) : p = Tail(call[c].todo)
      BY <2>0
    <3>3. PICK api \in {"REAP", "KILL_ALL"} : api = call[c].api
      BY <2>0
    <3>4. KillNext(c, api, q, p) /\ p # <<>> /\ UNCHANGED <<session, lock>>
      BY <1>6, <2>1, <3>1, <3>2, <3>3 DEF ReapReturn
    <3>5. lock = c => api = "KILL_ALL"
      BY <1>2, <3>3
    <3> QED BY <1>1, <3>4, <3>5, KillNextTypes
  <2>2. CASE Tail(call[c].todo) = <<>>
    <3>1. Return(c) /\ lock' = IF lock = c THEN NoClient ELSE lock
      BY <1>6, <2>2 DEF ReapReturn
    <3>2. session' \in Seq(Jobs)
      BY <1>1, <1>6, <2>2, WithoutType DEF ReapReturn
    <3> QED BY <1>1, <3>1, <3>2, ReturnTypes
  <2> QED BY <2>1, <2>2
<1>7. CASE OtherReturn(c)
  <2>1. Return(c) /\ UNCHANGED <<session, lock>> /\ lock # c
    BY <1>2, <1>7 DEF OtherReturn, Signals
  <2> QED BY <1>1, <2>1, ReturnTypes
<1> QED
  BY <1>3, <1>4, <1>5, <1>6, <1>7 DEF Returns

LEMMA ClientTypes ==
  ASSUME Types, Wired, Locked, NEW c \in Clients, Client(c)
  PROVE  TypeInv'
<1>0. session \in Seq(Jobs) /\ <<>> \in Seq(Jobs)
  BY EmptyFacts DEF Types
<1>1. CASE RunJob(c)
  <2>1. PICK m \in Seq(Line) : m = Submit(c)
    BY SubmitType
  <2>2. PICK e \in Seq(Jobs) : e = <<>>
    BY <1>0
  <2>3. PICK api \in Apis : api = "RUN"
    BY DEF Apis
  <2>4. Start(c, api, e, e, m) /\ UNCHANGED <<session, lock>>
    BY <1>1, <2>1, <2>2, <2>3 DEF RunJob
  <2>5. api \notin Waits /\ api \notin {"SYNC", "DISPOSE", "REAP", "KILL_ALL"}
    BY <2>3 DEF Waits
  <2> QED BY <2>4, <2>5, StartTypes
<1>2. CASE WaitAny(c)
  <2>1. PICK m \in Seq(Line) : m = WaitSet(c, session, TRUE)
    BY <1>0, <1>2, WaitSetType DEF WaitAny
  <2>2. PICK e \in Seq(Jobs) : e = <<>>
    BY <1>0
  <2>3. PICK s \in Seq(Jobs) : s = session
    BY <1>0
  <2>4. PICK api \in Apis : api = "WAIT_ANY"
    BY DEF Apis, Waits
  <2>5. Start(c, api, s, e, m) /\ UNCHANGED <<session, lock>> /\ s # <<>>
    BY <1>2, <2>1, <2>2, <2>3, <2>4 DEF WaitAny
  <2> QED BY <2>4, <2>5, StartTypes
<1>3. CASE ControlAll(c)
  <2>1. session # <<>>
    BY <1>3 DEF ControlAll
  <2>2. Head(session) \in Jobs
    BY <1>0, <2>1
  <2>3. \A op \in Signals \union AsyncSignals : Signal(c, op, Head(session)) \in Seq(Line)
    BY <2>2, MessageTypes
  <2>4. PICK m \in Seq(Line) : m = Signal(c, "KILL", Head(session))
    BY <2>3 DEF Signals
  <2>5. PICK s \in Seq(Jobs) : s = session
    BY <1>0
  <2>6. PICK api \in Apis : api = "KILL_ALL"
    BY DEF Apis, Kills
  <2>7. Start(c, api, s, s, m) /\ UNCHANGED session /\ lock' = c /\ s # <<>>
    BY <1>3, <2>4, <2>5, <2>6 DEF ControlAll
  <2> QED BY <2>6, <2>7, StartTypes DEF Waits
<1>4. ASSUME NEW api \in {"SYNC", "DISPOSE"}, Synchronize(c, api) PROVE TypeInv'
  <2>1. PICK m \in Seq(Line) : m = WaitSet(c, session, FALSE)
    BY <1>0, <1>4, WaitSetType DEF Synchronize
  <2>2. PICK s \in Seq(Jobs) : s = session
    BY <1>0
  <2>3. api \in Apis
    BY DEF Apis, Waits
  <2>4. Start(c, api, s, s, m) /\ UNCHANGED <<session, lock>> /\ s # <<>>
    BY <1>4, <2>1, <2>2 DEF Synchronize
  <2> QED BY <2>3, <2>4, StartTypes
<1>5. ASSUME NEW j \in Jobs, WaitJob(c, j) PROVE TypeInv'
  <2>1. PICK m \in Seq(Line) : m = WaitFor(c, j)
    BY MessageTypes
  <2>2. PICK s \in Seq(Jobs) : s = <<j>> /\ s # <<>>
    <3>1. <<j>> \in Seq(Jobs) /\ <<j>> # <<>>
      OBVIOUS
    <3> QED BY <3>1
  <2>3. PICK e \in Seq(Jobs) : e = <<>>
    BY <1>0
  <2>4. PICK api \in Apis : api = "WAIT"
    BY DEF Apis, Waits
  <2>5. Start(c, api, s, e, m) /\ UNCHANGED <<session, lock>>
    BY <1>5, <2>1, <2>2, <2>3, <2>4 DEF WaitJob
  <2> QED BY <2>2, <2>4, <2>5, StartTypes
<1>6. ASSUME NEW j \in Jobs, JobPs(c, j) PROVE TypeInv'
  <2>1. PICK m \in Seq(Line) : m = Status(c, j)
    BY MessageTypes
  <2>2. PICK s \in Seq(Jobs) : s = <<j>> /\ s # <<>>
    <3>1. <<j>> \in Seq(Jobs) /\ <<j>> # <<>>
      OBVIOUS
    <3> QED BY <3>1
  <2>3. PICK e \in Seq(Jobs) : e = <<>>
    BY <1>0
  <2>4. PICK api \in Apis : api = "JOB_PS"
    BY DEF Apis
  <2>5. Start(c, api, s, e, m) /\ UNCHANGED <<session, lock>>
    BY <1>6, <2>1, <2>2, <2>3, <2>4 DEF JobPs
  <2> QED BY <2>2, <2>4, <2>5, StartTypes
<1>7. ASSUME NEW j \in Jobs, NEW op \in Signals, Control(c, op, j) PROVE TypeInv'
  <2>1. PICK m \in Seq(Line) : m = Signal(c, op, j)
    BY MessageTypes
  <2>2. PICK s \in Seq(Jobs) : s = <<j>> /\ s # <<>>
    <3>1. <<j>> \in Seq(Jobs) /\ <<j>> # <<>>
      OBVIOUS
    <3> QED BY <3>1
  <2>3. PICK e \in Seq(Jobs) : e = <<>>
    BY <1>0
  <2>4. op \in Apis /\ op \notin {"SYNC", "DISPOSE", "REAP", "KILL_ALL"}
    BY DEF Apis, Signals
  <2>5. Start(c, op, s, e, m) /\ UNCHANGED <<session, lock>>
    BY <1>7, <2>1, <2>2, <2>3 DEF Control
  <2> QED BY <2>2, <2>4, <2>5, StartTypes
<1>8. ASSUME NEW j \in Jobs, NEW op \in AsyncSignals, Async(c, op, j) PROVE TypeInv'
  <2> DEFINE b == [client |-> c, msgs |-> Signal(c, op, j)]
             S == [client : Clients, msgs : Seq(Line)]
  <2>1. b \in S
    BY MessageTypes
  <2>2. backlog \in Seq(S)
    BY DEF Types
  <2>3. /\ backlog' = Append(backlog, b)
        /\ UNCHANGED <<gwdv, inbox, conn, replies, call, session, lock>>
    BY <1>8 DEF Async
  <2> HIDE DEF b, S
  <2>4. backlog' \in Seq(S)
    BY <2>1, <2>2, <2>3
  <2>5. UNCHANGED <<up, job_state, client_waiting, restarted, active, connection_list, threads,
                    dmq, rmq>>
    BY <2>3 DEF gwdv, pool, server
  <2>6. Types'
    BY <2>3, <2>4, <2>5 DEF Types, S, CallOK
  <2>7. Wired' /\ Locked'
    BY <2>3, <2>5, WiredSame DEF Locked
  <2> QED BY <2>6, <2>7 DEF TypeInv
<1>9. CASE Timeout(c)
  <2>1. lock # c
    BY <1>9, RMAssumption DEF Timeout, Locked
  <2> QED BY <1>0, <1>9, <2>1, ReturnTypes DEF Timeout
<1> QED
  BY <1>1, <1>2, <1>3, <1>4, <1>5, <1>6, <1>7, <1>8, <1>9, ReturnsTypes DEF Client

LEMMA InitTypes == Init => TypeInv
<1> SUFFICES ASSUME Init PROVE TypeInv
  OBVIOUS
<1>1. Types
  <2>1. /\ up \in BOOLEAN /\ job_state \in [Jobs -> States] /\ client_waiting \in [Jobs -> Int]
        /\ restarted \subseteq Jobs
        /\ active \in [Fds -> Clients \union {NoClient}] /\ threads = {}
        /\ conn \in [Clients -> Fds \union {0}] /\ lock \in Clients \union {NoClient}
    <3>1. job_state \in [Jobs -> {"NONE", "RUN", "STOPPED", "FAILED"}]
      BY DEF Init, RMInit
    <3>2. {"NONE", "RUN", "STOPPED", "FAILED"} \subseteq States
      BY DEF States, Final
    <3>3. job_state \in [Jobs -> States]
      BY <3>1, <3>2
    <3> QED BY <3>3 DEF Init, RMInit, ClientInit
  <2>2. /\ connection_list \in Seq(Entry) /\ dmq \in Seq(DMAction) /\ rmq \in Seq(RMAction)
        /\ backlog \in Seq([client : Clients, msgs : Seq(Line)])
    BY EmptyFacts DEF Init, RMInit
  <2>3. inbox \in [Fds -> Seq(Line)] /\ replies \in [Clients -> Seq(Answers)]
    BY EmptyFacts DEF Init, RMInit
  <2>4. call \in [Clients -> Call] /\ \A c \in Clients : CallOK(call[c])
    <3>1. call = [c \in Clients |-> Idle]
      BY DEF Init, ClientInit
    <3> HIDE DEF Idle, Call
    <3> QED BY <3>1, IdleType
  <2>5. session \in Seq(Jobs)
    BY RMAssumption DEF Init, ClientInit, ToSet
  <2> QED BY <2>1, <2>2, <2>3, <2>4, <2>5 DEF Types
<1>2. Wired /\ Locked
  BY DEF Init, RMInit, ClientInit, Wired, Locked
<1> QED
  BY <1>1, <1>2 DEF TypeInv

LEMMA NextTypes == TypeInv /\ [Next]_vars => TypeInv'
<1> SUFFICES ASSUME Types, Wired, Locked, [Next]_vars PROVE TypeInv'
  BY DEF TypeInv
<1>1. CASE UNCHANGED vars
  <2>1. UNCHANGED <<up, job_state, client_waiting, restarted, active, connection_list, threads,
                    dmq, rmq, backlog, inbox, conn, replies, call, session, lock>>
    BY <1>1 DEF vars, rmvars, clientv, pool, server, queues, wire
  <2> QED BY <2>1 DEF TypeInv, Types, Wired, Locked, CallOK
<1>2. CASE Gwd(Listen)
  BY <1>2, AcceptTypes, ReadTypes DEF Gwd, Listen
<1>3. CASE Gwd(Server)
  BY <1>3, ThreadTypes, DMStepTypes, RMStepTypes DEF Gwd, Server
<1>4. CASE Gwd(\E j \in Jobs : JobStep(j))
  BY <1>4, JobStepTypes DEF Gwd
<1>5. CASE \E c \in Clients : Client(c)
  BY <1>5, ClientTypes
<1> QED
  BY <1>1, <1>2, <1>3, <1>4, <1>5 DEF Next

\* The types of the variables, and the wiring of clients to slots: however late
\* the threads are, and whatever order clients connect, ask, time out and leave
\* in, gw_rm_listener gives nobody the slot that a client still reads from, and
\* the session's mutex is held only by a call that kills the whole session.
THEOREM TypeCorrect == Spec => []TypeOK
<1>1. TypeInv => TypeOK
  <2> SUFFICES ASSUME Types, Wired, Locked PROVE TypeOK
    BY DEF TypeInv
  <2>1. \A c \in Clients : \A r \in ToSet(replies[c]) : r.rc \in Codes \union States
    <3>1. ASSUME NEW c \in Clients, NEW r \in ToSet(replies[c]) PROVE r.rc \in Codes \union States
      <4>1. replies[c] \in Seq(Answers)
        BY DEF Types
      <4>2. r \in Answers
        <5> HIDE DEF Answers
        <5> QED BY <4>1 DEF ToSet
      <4> QED BY <4>2 DEF Answers, Codes, EOF
    <3> QED BY <3>1
  <2>2. ToSet(session) \subseteq Jobs
    BY DEF Types, ToSet
  <2>3. \A t \in threads : t.fd \in Fds
    BY DEF Types
  <2> QED BY <2>1, <2>2, <2>3 DEF TypeOK, Types, Wired, Locked
<1> QED
  BY <1>1, InitTypes, NextTypes, PTL DEF Spec

-----------------------------------------------------------------------------
(* What a client is told has happened.                                     *)

\* Job j is in S, or gone, unless a user has had it begin again.
Stays(j, S) == j \in restarted \/ job_state[j] \in S \union {"FREED"}

\* What the RM is told of a job has happened.
TruthOf(e) ==
  /\ e.act = "WAIT_SUCCESS" => Stays(e.job, Final)
  /\ e.act = "KILL_SUCCESS" => Stays(e.job, {})
  /\ e.act = "SUCCESS" /\ e.op = "STOP" => Stays(e.job, {"STOPPED"})

\* What the RM tells a client has happened.
IsTrue(r) ==
  /\ r.rc = "JOB_FAIL" => Stays(r.job, {"FAILED"})
  /\ r.rc = "JOB_KILLED" => Stays(r.job, {})
  /\ r.rc = "SUCCESS" /\ r.type = "WAIT" => Stays(r.job, {"ZOMBIE"})
  /\ r.rc = "SUCCESS" /\ r.type = "KILL" => Stays(r.job, {})
  /\ r.rc = "SUCCESS" /\ r.type = "STOP" => Stays(r.job, {"STOPPED"})

Truth ==
  /\ \A i \in DOMAIN rmq : TruthOf(rmq[i])
  /\ \A c \in Clients : \A i \in DOMAIN replies[c] : IsTrue(replies[c][i])

\* What a step may do to the jobs.
Advance ==
  /\ restarted \subseteq restarted'
  /\ \A j \in Jobs : job_state[j] \in Final \union {"STOPPED", "FREED"} =>
       job_state'[j] \in {job_state[j], "FREED"} \/ j \in restarted'

\* What the queue of the RM, and a client's answers, may get.
TrueQueue ==
  \A i \in DOMAIN rmq' : (\E k \in DOMAIN rmq : rmq'[i] = rmq[k]) \/ TruthOf(rmq[i])'

TrueReplies(c) ==
  \A i \in DOMAIN replies'[c] :
    (\E k \in DOMAIN replies[c] : replies'[c][i] = replies[c][k]) \/ IsTrue(replies[c][i])'

LEMMA StaysOn ==
  ASSUME Advance, NEW j \in Jobs, NEW S \in SUBSET (Final \union {"STOPPED"}), Stays(j, S)
  PROVE  Stays(j, S)'
  BY DEF Advance, Stays

LEMMA TruthOn ==
  ASSUME Advance, NEW e \in RMAction, TruthOf(e)
  PROVE  /\ e.act = "WAIT_SUCCESS" => Stays(e.job, Final)'
         /\ e.act = "KILL_SUCCESS" => Stays(e.job, {})'
         /\ e.act = "SUCCESS" /\ e.op = "STOP" => Stays(e.job, {"STOPPED"})'
<1>1. e.act # "CONNECTION" => e.job \in Jobs
  BY RMActionIs
<1> QED
  BY <1>1, StaysOn DEF TruthOf

LEMMA IsTrueOn ==
  ASSUME Advance, NEW r \in Answers, IsTrue(r)
  PROVE  /\ r.rc = "JOB_FAIL" => Stays(r.job, {"FAILED"})'
         /\ r.rc = "JOB_KILLED" => Stays(r.job, {})'
         /\ r.rc = "SUCCESS" /\ r.type = "WAIT" => Stays(r.job, {"ZOMBIE"})'
         /\ r.rc = "SUCCESS" /\ r.type = "KILL" => Stays(r.job, {})'
         /\ r.rc = "SUCCESS" /\ r.type = "STOP" => Stays(r.job, {"STOPPED"})'
<1>1. r.rc \in {"JOB_FAIL", "JOB_KILLED", "SUCCESS"} => r.job \in Jobs
  BY DEF Answers, EOF
<1>2. {{"FAILED"}, {"ZOMBIE"}} \subseteq SUBSET (Final \union {"STOPPED"})
  BY DEF Final
<1> QED
  BY <1>1, <1>2, StaysOn DEF IsTrue

LEMMA TruthStep ==
  ASSUME Types, Truth, Advance, TrueQueue, \A c \in Clients : TrueReplies(c)
  PROVE  Truth'
<1>1. ASSUME NEW i \in DOMAIN rmq' PROVE TruthOf(rmq[i])'
  <2>1. ASSUME NEW k \in DOMAIN rmq, rmq'[i] = rmq[k] PROVE TruthOf(rmq[i])'
    <3>1. PICK e \in RMAction : e = rmq[k]
      BY SeqFacts DEF Types
    <3>2. TruthOf(e)
      BY <3>1 DEF Truth
    <3> QED BY <2>1, <3>1, <3>2, TruthOn DEF TruthOf
  <2> QED BY <1>1, <2>1 DEF TrueQueue
<1>2. ASSUME NEW c \in Clients, NEW i \in DOMAIN replies'[c] PROVE IsTrue(replies[c][i])'
  <2>1. ASSUME NEW k \in DOMAIN replies[c], replies'[c][i] = replies[c][k]
        PROVE  IsTrue(replies[c][i])'
    <3>1. replies[c] \in Seq(Answers)
      BY DEF Types
    <3>2. replies[c][k] \in Answers
      <4> HIDE DEF Answers
      <4> QED BY <3>1
    <3>3. PICK r \in Answers : r = replies[c][k]
      BY <3>2
    <3>4. IsTrue(r)
      BY <3>3 DEF Truth
    <3> QED BY <2>1, <3>3, <3>4, IsTrueOn DEF IsTrue
  <2> QED BY <1>2, <2>1 DEF TrueReplies
<1> QED
  BY <1>1, <1>2 DEF Truth

LEMMA AdvanceSame == ASSUME UNCHANGED <<job_state, restarted>> PROVE Advance
  BY DEF Advance

LEMMA QueueSame == ASSUME UNCHANGED rmq PROVE TrueQueue
  BY DEF TrueQueue

LEMMA RepliesSame == ASSUME UNCHANGED replies, NEW c PROVE TrueReplies(c)
  BY DEF TrueReplies

LEMMA QueueTail ==
  ASSUME Types, rmq # <<>>, rmq' = Tail(rmq)
  PROVE  TrueQueue
<1>1. rmq \in Seq(RMAction)
  BY DEF Types
<1>2. \A i \in DOMAIN Tail(rmq) : i + 1 \in DOMAIN rmq /\ Tail(rmq)[i] = rmq[i + 1]
  <2> HIDE DEF RMAction
  <2> QED BY <1>1, TailFacts
<1> QED
  BY <1>2 DEF TrueQueue

LEMMA QueueAppend ==
  ASSUME Types, NEW e \in RMAction, rmq' = Append(rmq, e),
         e.act = "WAIT_SUCCESS" => Stays(e.job, Final)',
         e.act = "KILL_SUCCESS" => Stays(e.job, {})',
         e.act = "SUCCESS" /\ e.op = "STOP" => Stays(e.job, {"STOPPED"})'
  PROVE  TrueQueue
<1>1. rmq \in Seq(RMAction)
  BY DEF Types
<1>2. \A i \in DOMAIN Append(rmq, e) :
        \/ i \in DOMAIN rmq /\ Append(rmq, e)[i] = rmq[i]
        \/ Append(rmq, e)[i] = e
  <2> HIDE DEF RMAction
  <2> QED BY <1>1, AppendFacts
<1>3. ASSUME NEW i \in DOMAIN rmq', rmq'[i] = e PROVE TruthOf(rmq[i])'
  BY <1>3 DEF TruthOf
<1> QED
  BY <1>2, <1>3 DEF TrueQueue

\* Answers are sent to a slot, or to those who wait at the places P.
LEMMA ReplyTrue ==
  ASSUME Types, NEW f, NEW r \in Answers, replies' = Reply(f, r), NEW c \in Clients,
         r.rc \notin {"JOB_FAIL", "JOB_KILLED"},
         r.rc = "SUCCESS" => r.type \notin {"WAIT", "KILL", "STOP"}
  PROVE  TrueReplies(c)
<1>1. replies[c] \in Seq(Answers)
  BY DEF Types
<1>2. \A i \in DOMAIN Append(replies[c], r) :
        \/ i \in DOMAIN replies[c] /\ Append(replies[c], r)[i] = replies[c][i]
        \/ Append(replies[c], r)[i] = r
  BY <1>1, AppendFacts
<1>3. replies'[c] = IF Reaches(f, c) THEN Append(replies[c], r) ELSE replies[c]
  BY DEF Reply
<1>4. ASSUME NEW i \in DOMAIN replies'[c], replies'[c][i] = r PROVE IsTrue(replies[c][i])'
  BY <1>4 DEF IsTrue
<1> QED
  BY <1>2, <1>3, <1>4 DEF TrueReplies

LEMMA ReceivedIs ==
  ASSUME Types, NEW P \in SUBSET DOMAIN connection_list, NEW a \in Answers, NEW c,
         NEW s \in Seq(Answers)
  PROVE  /\ s \o Copies(P, a, c) \in Seq(Answers)
         /\ \A i \in DOMAIN (s \o Copies(P, a, c)) :
              \/ (s \o Copies(P, a, c))[i] = a
              \/ \E k \in DOMAIN s : (s \o Copies(P, a, c))[i] = s[k]
<1>1. PICK t : t = Copies(P, a, c)
  OBVIOUS
<1>2. t \in Seq({a}) /\ t \in Seq(Answers)
  BY <1>1, CopiesIs, CopiesType
<1>3. /\ s \o t \in Seq(Answers)
      /\ \A i \in DOMAIN (s \o t) :
           \/ i \in DOMAIN s /\ (s \o t)[i] = s[i]
           \/ i - Len(s) \in DOMAIN t /\ (s \o t)[i] = t[i - Len(s)]
  BY <1>2, ConcatFacts
<1>4. \A i \in DOMAIN t : t[i] = a
  BY <1>2
<1> QED
  BY <1>1, <1>3, <1>4

LEMMA ReceivedTrue ==
  ASSUME Types, NEW P \in SUBSET DOMAIN connection_list, NEW r \in Answers,
         replies' = Received(P, r), NEW c \in Clients,
         r.rc = "JOB_FAIL" => Stays(r.job, {"FAILED"})',
         r.rc # "JOB_KILLED",
         r.rc = "SUCCESS" /\ r.type = "WAIT" => Stays(r.job, {"ZOMBIE"})',
         r.rc = "SUCCESS" => r.type # "KILL",
         r.rc = "SUCCESS" /\ r.type = "STOP" => Stays(r.job, {"STOPPED"})'
  PROVE  TrueReplies(c)
<1>1. PICK s \in Seq(Answers) : s = replies[c]
  BY DEF Types
<1>2. \A i \in DOMAIN (s \o Copies(P, r, c)) :
        \/ (s \o Copies(P, r, c))[i] = r
        \/ \E k \in DOMAIN s : (s \o Copies(P, r, c))[i] = s[k]
  BY ReceivedIs
<1>3. replies'[c] = s \o Copies(P, r, c)
  BY <1>1 DEF Received
<1>4. ASSUME NEW i \in DOMAIN replies'[c], replies'[c][i] = r PROVE IsTrue(replies[c][i])'
  BY <1>4 DEF IsTrue
<1> QED
  BY <1>1, <1>2, <1>3, <1>4 DEF TrueReplies

-----------------------------------------------------------------------------
(* Every step keeps it.                                                    *)

\* A thread says only that a job was submitted, that a user may not, or a job's state.
LEMMA WorkReplies ==
  ASSUME Types, NEW t \in Task, Work(t), NEW c \in Clients
  PROVE  TrueReplies(c)
<1>1. CASE UNCHANGED replies
  BY <1>1, RepliesSame
<1>2. CASE t.msg.type \in Ops /\ t.msg.job \in Jobs /\ Denied(t)
  <2>1. PICK r : r = Said(t.msg.type, t.msg.job, "PERM")
    OBVIOUS
  <2>2. r \in Answers /\ r.rc = "PERM" /\ replies' = Reply(t.fd, r)
    BY <1>2, <2>1, AnswerTypes DEF Codes, Denied, Said
  <2> QED BY <2>2, ReplyTrue
<1>3. CASE ThreadStatus(t)
  <2>1. PICK x : x = IF InPool(t.msg.job) THEN job_state[t.msg.job] ELSE "BAD_JOB_ID"
    OBVIOUS
  <2>2. t.msg.job \in Jobs /\ x \in (Codes \ {"CONNECTION"}) \union States
        /\ x \in States \union {"BAD_JOB_ID"} /\ "JOB_STATUS" \in Ops \union {"SUBMIT"}
    BY <1>3, <2>1, TaskJob DEF ThreadStatus, Ops, Types, Codes
  <2>3. PICK r : r = Said("JOB_STATUS", t.msg.job, x)
    OBVIOUS
  <2>4. r \in Answers /\ r.rc = x /\ r.type = "JOB_STATUS" /\ replies' = Reply(t.fd, r)
    BY <1>3, <2>1, <2>2, <2>3, AnswerTypes DEF ThreadStatus, Said
  <2>5. r.rc \notin {"JOB_FAIL", "JOB_KILLED"}
    BY <2>2, <2>4 DEF States, Final
  <2> QED BY <2>4, <2>5, ReplyTrue
<1>4. CASE ThreadAnswer(t)
  <2>1. PICK r : r = Said("SUBMIT", t.msg.job, t.msg.rc)
    OBVIOUS
  <2>2. r \in Answers
    BY <1>4, <2>1, TaskJob, AnswerTypes DEF ThreadAnswer, Codes
  <2>3. r.type = "SUBMIT" /\ r.rc \in {"SUCCESS", "NO_MEMORY"} /\ replies' = Reply(t.fd, r)
    BY <1>4, <2>1, TaskJob DEF ThreadAnswer, Said
  <2> QED BY <2>2, <2>3, ReplyTrue
<1>5. CASE ThreadWait(t) \/ ThreadSignal(t)
  <2>1. t.msg.type \in Ops /\ t.msg.job \in Jobs
    BY <1>5, TaskJob DEF ThreadWait, ThreadSignal, Ops
  <2> QED BY <1>1, <1>2, <1>5, <2>1 DEF ThreadWait, ThreadSignal, RegisterWait
<1> QED
  BY <1>1, <1>3, <1>4, <1>5 DEF Work, ThreadSubmit

LEMMA CrashTruth ==
  ASSUME Types, Truth, NEW P \in SUBSET DOMAIN connection_list, NEW r \in Answers,
         r.rc = "BAD_JOB_ID", Crash(Received(P, r))
  PROVE  Truth'
<1>1. UNCHANGED <<job_state, restarted, rmq>>
  BY DEF Crash, pool, queues
<1>2. ASSUME NEW c \in Clients PROVE TrueReplies(c)
  <2>1. PICK s \in Seq(Answers) : s = replies[c]
    BY DEF Types
  <2>2. PICK u : u = s \o Copies(P, r, c)
    OBVIOUS
  <2>3. u \in Seq(Answers) /\ \A i \in DOMAIN u : u[i] = r \/ \E k \in DOMAIN s : u[i] = s[k]
    BY <2>2, ReceivedIs
  <2>4. replies'[c] \in {u, Append(u, EOF)}
    BY <2>1, <2>2 DEF Crash, Received
  <2>5. \A i \in DOMAIN Append(u, EOF) :
          \/ i \in DOMAIN u /\ Append(u, EOF)[i] = u[i]
          \/ Append(u, EOF)[i] = EOF
    BY <2>3, AnswerTypes, AppendFacts
  <2>6. ASSUME NEW i \in DOMAIN replies'[c], replies'[c][i] \in {r, EOF}
        PROVE  IsTrue(replies[c][i])'
    BY <2>6 DEF IsTrue, EOF
  <2> QED BY <2>1, <2>3, <2>4, <2>5, <2>6 DEF TrueReplies
<1> QED
  BY <1>1, <1>2, AdvanceSame, QueueSame, TruthStep

\* The handlers of the RM tell what they were told.
LEMMA RMStepTruth ==
  ASSUME Types, Truth, RMStep
  PROVE  Truth'
<1> DEFINE b == Head(rmq)
<1>1. b \in RMAction /\ rmq # <<>> /\ TruthOf(b)
  <2>1. b \in RMAction /\ rmq # <<>> /\ 1 \in DOMAIN rmq /\ b = rmq[1]
    BY TailFacts DEF RMStep, Types
  <2> QED BY <2>1 DEF Truth
<1>2. PICK a \in RMAction : a = b
  BY <1>1
<1>3. /\ \/ RMConnection(a)
         \/ RMWaitSuccess(a) \/ RMWaitFailed(a) \/ RMKillSuccess(a) \/ RMKillFailed(a)
         \/ RMHold(a) \/ RMRelease(a) \/ RMStop(a) \/ RMResume(a) \/ RMReschedule(a)
      /\ TruthOf(a)
  BY <1>1, <1>2 DEF RMStep
<1> HIDE DEF b
<1>4. a.act # "CONNECTION" => a.job \in Jobs
  BY RMActionIs
<1>5. ASSUME UNCHANGED <<job_state, restarted>>, rmq' = Tail(rmq),
             \A c \in Clients : TrueReplies(c)
      PROVE  Truth'
  BY <1>1, <1>5, AdvanceSame, QueueTail, TruthStep
<1>6. PICK ws \in SUBSET DOMAIN connection_list : ws = Waiting("WAIT", a.job)
  BY PlacesIn
<1>7. CASE RMConnection(a)
  <2>1. UNCHANGED <<job_state, restarted>> /\ rmq' = Tail(rmq)
    BY <1>7 DEF RMConnection, pool
  <2>2. ASSUME NEW c \in Clients PROVE TrueReplies(c)
    <3>1. PICK t \in Task : t = [fd |-> a.fd, msg |-> a.msg]
      BY <1>7, RMActionIs DEF RMConnection
    <3>2. Work(t) \/ UNCHANGED replies
      BY <1>7, <3>1 DEF RMConnection
    <3> QED BY <3>2, WorkReplies, RepliesSame
  <2> QED BY <1>5, <2>1, <2>2
<1>8. CASE RMWaitSuccess(a)
  <2>0. a.job \in Jobs /\ Stays(a.job, Final)
    BY <1>3, <1>4, <1>8 DEF RMWaitSuccess, TruthOf
  <2>1. CASE ~InPool(a.job)
    <3>1. PICK r : r = Said("WAIT", a.job, "BAD_JOB_ID")
      OBVIOUS
    <3>2. r \in Answers /\ r.rc = "BAD_JOB_ID"
      BY <2>0, <3>1, AnswerTypes DEF Ops, Codes, Said
    <3>3. Crash(Received(ws, r))
      BY <1>6, <1>8, <2>1, <3>1 DEF RMWaitSuccess
    <3> QED BY <3>2, <3>3, CrashTruth
  <2>2. CASE InPool(a.job)
    <3>1. PICK x : x = IF job_state[a.job] = "FAILED" THEN "JOB_FAIL" ELSE "SUCCESS"
      OBVIOUS
    <3>2. PICK r : r = Said("WAIT", a.job, x)
      OBVIOUS
    <3>3. r \in Answers /\ r.rc = x /\ r.type = "WAIT" /\ r.job = a.job
      BY <2>0, <3>1, <3>2, AnswerTypes DEF Ops, Codes, Said
    <3>4. replies' = Received(ws, r) /\ UNCHANGED <<job_state, restarted>> /\ rmq' = Tail(rmq)
      BY <1>6, <1>8, <2>2, <3>1, <3>2 DEF RMWaitSuccess
    <3>5. /\ x = "JOB_FAIL" => Stays(a.job, {"FAILED"})'
          /\ x = "SUCCESS" => Stays(a.job, {"ZOMBIE"})'
      BY <2>0, <2>2, <3>1, <3>4 DEF Stays, InPool, Final
    <3>6. \A c \in Clients : TrueReplies(c)
      BY <3>1, <3>3, <3>4, <3>5, ReceivedTrue
    <3> QED BY <1>5, <3>4, <3>6
  <2> QED BY <2>1, <2>2
<1>9. CASE RMWaitFailed(a)
  <2>1. PICK one \in SUBSET DOMAIN connection_list : one = {n \in ws : \A k \in ws : n <= k}
    OBVIOUS
  <2>2. PICK r : r = Said("WAIT", a.job, "BAD_JOB_ID")
    OBVIOUS
  <2>3. r \in Answers /\ r.rc = "BAD_JOB_ID"
    BY <1>4, <1>9, <2>2, AnswerTypes DEF Ops, Codes, Said, RMWaitFailed
  <2>4. replies' = Received(one, r) /\ UNCHANGED <<job_state, restarted>> /\ rmq' = Tail(rmq)
    BY <1>6, <1>9, <2>1, <2>2 DEF RMWaitFailed
  <2>5. \A c \in Clients : TrueReplies(c)
    BY <2>3, <2>4, ReceivedTrue
  <2> QED BY <1>5, <2>4, <2>5
<1>10. CASE RMKillSuccess(a)
  <2>1. a.job \in Jobs /\ Stays(a.job, {})
    BY <1>3, <1>4, <1>10 DEF RMKillSuccess, TruthOf
  <2>2. PICK ks \in SUBSET DOMAIN connection_list : ks = Waiting("KILL", a.job)
    BY PlacesIn
  <2>3. PICK k, w : k = Said("KILL", a.job, "SUCCESS") /\ w = Said("KILL", a.job, "JOB_KILLED")
    OBVIOUS
  <2>4. /\ k \in Answers /\ w \in Answers /\ k.job = a.job /\ w.job = a.job
        /\ k.type = "KILL" /\ w.type = "KILL" /\ k.rc = "SUCCESS" /\ w.rc = "JOB_KILLED"
    BY <2>1, <2>3, AnswerTypes DEF Ops, Signals, Codes, Said
  <2>5. /\ UNCHANGED <<job_state, restarted>> /\ rmq' = Tail(rmq)
        /\ replies' = [c \in Clients |-> replies[c] \o Copies(ks, k, c) \o Copies(ws, w, c)]
    BY <1>6, <1>10, <2>2, <2>3 DEF RMKillSuccess, ToldOfKill
  <2>6. ASSUME NEW c \in Clients PROVE TrueReplies(c)
    <3>1. PICK s \in Seq(Answers) : s = replies[c]
      BY DEF Types
    <3>2. PICK u \in Seq(Answers) : u = s \o Copies(ks, k, c)
      BY <2>4, ReceivedIs
    <3>3. \A i \in DOMAIN u : u[i] = k \/ \E n \in DOMAIN s : u[i] = s[n]
      BY <2>4, <3>2, ReceivedIs
    <3>4. \A i \in DOMAIN (u \o Copies(ws, w, c)) :
            \/ (u \o Copies(ws, w, c))[i] = w
            \/ \E n \in DOMAIN u : (u \o Copies(ws, w, c))[i] = u[n]
      BY <2>4, ReceivedIs
    <3>5. PICK v : v = u \o Copies(ws, w, c)
      OBVIOUS
    <3>6. replies'[c] = v
      BY <2>5, <3>1, <3>2, <3>5
    <3>7. Stays(a.job, {})'
      BY <2>1, <2>5 DEF Stays
    <3>8. ASSUME NEW i \in DOMAIN replies'[c], replies'[c][i] \in {k, w}
          PROVE  IsTrue(replies[c][i])'
      BY <2>4, <3>7, <3>8 DEF IsTrue
    <3> QED BY <3>1, <3>3, <3>4, <3>5, <3>6, <3>8 DEF TrueReplies
  <2> QED BY <1>5, <2>5, <2>6
<1>11. ASSUME NEW op \in Signals, NEW ok, Answered(op, a, ok), a.act # "CONNECTION",
              ok => op # "KILL" /\ (op = "STOP" => Stays(a.job, {"STOPPED"}))
       PROVE  Truth'
  <2>1. PICK x : x = IF ok THEN "SUCCESS"
                     ELSE IF InPool(a.job) THEN "BAD_JOB_STATE" ELSE "BAD_JOB_ID"
    OBVIOUS
  <2>2. PICK P \in SUBSET DOMAIN connection_list : P = Waiting(op, a.job)
    BY PlacesIn
  <2>3. PICK r : r = Said(op, a.job, x)
    OBVIOUS
  <2>4. r \in Answers /\ r.rc = x /\ r.type = op /\ r.job = a.job /\ op # "WAIT"
    BY <1>4, <1>11, <2>1, <2>3, AnswerTypes DEF Ops, Codes, Said, Signals
  <2>5. replies' = Received(P, r) /\ UNCHANGED <<job_state, restarted>> /\ rmq' = Tail(rmq)
    BY <1>11, <2>1, <2>2, <2>3 DEF Answered, pool
  <2>6. x = "SUCCESS" => ok
    BY <2>1
  <2>7. x = "SUCCESS" /\ op = "STOP" => Stays(a.job, {"STOPPED"})'
    BY <1>11, <2>5, <2>6 DEF Stays
  <2>8. x \notin {"JOB_FAIL", "JOB_KILLED"}
    BY <2>1
  <2>9. \A c \in Clients : TrueReplies(c)
    BY <1>11, <2>4, <2>5, <2>6, <2>7, <2>8, ReceivedTrue
  <2> QED BY <1>5, <2>5, <2>9
<1>12. CASE RMKillFailed(a)
  <2>1. PICK ok \in BOOLEAN : ok = FALSE
    OBVIOUS
  <2>2. PICK op \in Signals : op = "KILL"
    BY DEF Signals
  <2>3. Answered(op, a, ok) /\ a.act # "CONNECTION"
    BY <1>12, <2>1, <2>2 DEF RMKillFailed
  <2> QED BY <1>11, <2>1, <2>3
<1>13. ASSUME NEW op \in Signals, SignalAnswer(op, a), op # "KILL" PROVE Truth'
  <2>1. PICK ok \in BOOLEAN : ok = (a.act = "SUCCESS")
    OBVIOUS
  <2>2. Answered(op, a, ok) /\ a.act # "CONNECTION" /\ a.op = op
    BY <1>13, <2>1 DEF SignalAnswer
  <2>3. ok => op # "KILL" /\ (op = "STOP" => Stays(a.job, {"STOPPED"}))
    BY <1>3, <1>13, <2>1, <2>2 DEF TruthOf
  <2> QED BY <1>11, <2>2, <2>3
<1>14. CASE RMHold(a) \/ RMRelease(a) \/ RMStop(a) \/ RMResume(a) \/ RMReschedule(a)
  BY <1>13, <1>14 DEF RMHold, RMRelease, RMStop, RMResume, RMReschedule, Signals
<1> QED
  BY <1>3, <1>7, <1>8, <1>9, <1>10, <1>12, <1>14

\* The DM tells the RM what has happened.
LEMMA DMStepTruth ==
  ASSUME Types, Truth, DMStep
  PROVE  Truth'
<1>1. PICK a \in DMAction : a = Head(dmq)
  BY TailFacts DEF DMStep, Types
<1>2. (DMAllocate(a) \/ DMWait(a) \/ DMSignal(a)) /\ UNCHANGED replies
  BY <1>1 DEF DMStep
<1>3. \A c \in Clients : TrueReplies(c)
  BY <1>2, RepliesSame
<1>4. job_state \in [Jobs -> States]
  BY DEF Types
<1>5. CASE DMAllocate(a)
  <2>1. TrueQueue
    <3>1. ASSUME NEW m \in Submitted, rmq' = Append(rmq, Connection(a.fd, m)) PROVE TrueQueue
      <4>1. a.fd \in Fds
        BY <1>5, DMActionIs DEF DMAllocate
      <4>2. PICK e \in RMAction : e = Connection(a.fd, m)
        BY <4>1, RMActions
      <4>3. e.act = "CONNECTION" /\ rmq' = Append(rmq, e)
        BY <3>1, <4>2 DEF Connection
      <4> QED BY <4>3, QueueAppend
    <3>2. a.from \in Clients
      BY <1>5, DMActionIs DEF DMAllocate
    <3> DEFINE Message(j, rc) == [type |-> "SUBMITTED", job |-> j, rc |-> rc, from |-> a.from]
    <3>3. Message(NoJob, "NO_MEMORY") \in Submitted
          /\ \A j \in Jobs : Message(j, "SUCCESS") \in Submitted
      BY <3>2 DEF Submitted
    <3>4. \/ rmq' = Append(rmq, Connection(a.fd, Message(NoJob, "NO_MEMORY")))
          \/ \E j \in Jobs : rmq' = Append(rmq, Connection(a.fd, Message(j, "SUCCESS")))
      BY <1>5 DEF DMAllocate
    <3> HIDE DEF Message
    <3> QED BY <3>1, <3>3, <3>4
  <2>2. Advance
    <3>1. \/ UNCHANGED job_state
          \/ \E j \in Jobs : job_state[j] = "NONE" /\ job_state' = [job_state EXCEPT ![j] = "RUN"]
      BY <1>5 DEF DMAllocate
    <3>2. UNCHANGED restarted
      BY <1>5 DEF DMAllocate
    <3> QED BY <1>4, <3>1, <3>2 DEF Advance, Final
  <2> QED BY <1>3, <2>1, <2>2, TruthStep
<1>6. CASE DMWait(a)
  <2>1. a.job \in Jobs /\ UNCHANGED <<job_state, restarted>>
    BY <1>6, DMActionIs DEF DMWait
  <2>2. TrueQueue
    <3>1. ASSUME NEW act \in {"WAIT_SUCCESS", "WAIT_FAILED"}, rmq' = Post(rmq, act, a.job),
                 act = "WAIT_SUCCESS" => Over(a.job)
          PROVE  TrueQueue
      <4>1. [act |-> act, job |-> a.job] \in RMAction
        BY <2>1, RMActions
      <4>2. PICK e \in RMAction : e = [act |-> act, job |-> a.job]
        BY <4>1
      <4>3. e.act = act /\ e.job = a.job /\ rmq' = Append(rmq, e)
        BY <3>1, <4>2 DEF Post
      <4>4. act = "WAIT_SUCCESS" => Stays(a.job, Final)'
        BY <2>1, <3>1 DEF Over, Stays
      <4> QED BY <4>3, <4>4, QueueAppend
    <3>2. PICK s, f \in {"WAIT_SUCCESS", "WAIT_FAILED"} : s = "WAIT_SUCCESS" /\ f = "WAIT_FAILED"
      OBVIOUS
    <3>3. \/ UNCHANGED rmq
          \/ rmq' = Post(rmq, s, a.job) /\ Over(a.job)
          \/ rmq' = Post(rmq, f, a.job)
      BY <1>6, <3>2 DEF DMWait
    <3> QED BY <3>1, <3>2, <3>3, QueueSame
  <2> QED BY <1>3, <2>1, <2>2, AdvanceSame, TruthStep
<1>7. CASE DMSignal(a)
  <2>1. a.job \in Jobs /\ SignalMoves(a.job) /\ SignalSaid(a.job) /\ SignalRaises(a.job)
    BY <1>7, SignalIs DEF SignalOK
  <2>2. TrueQueue
    <3>1. ASSUME NEW e \in RMAction, rmq' = Append(rmq, e),
                 e.act \notin {"CONNECTION", "WAIT_SUCCESS"}, e.job = a.job,
                 e.act = "KILL_SUCCESS" => job_state'[a.job] = "FREED",
                 e.act = "SUCCESS" => e.op # "STOP"
          PROVE  TrueQueue
      <4>1. e.act = "KILL_SUCCESS" => Stays(e.job, {})'
        BY <3>1 DEF Stays
      <4> QED BY <3>1, <4>1, QueueAppend
    <3> QED BY <2>1, <3>1, QueueSame DEF SignalSaid
  <2>3. Advance
    <3>1. restarted \subseteq restarted'
      BY <2>1 DEF SignalRaises
    <3>2. ASSUME InPool(a.job), NEW s \in SignalledTo,
                 job_state' = [job_state EXCEPT ![a.job] = s],
                 job_state[a.job] \in Final \union {"STOPPED"} =>
                   s = "FREED" \/ a.job \in restarted'
          PROVE  Advance
      <4>1. \A j \in Jobs : job_state'[j] = IF j = a.job THEN s ELSE job_state[j]
        BY <1>4, <3>2
      <4>2. job_state[a.job] # "FREED"
        BY <3>2 DEF InPool
      <4> QED BY <3>1, <3>2, <4>1, <4>2 DEF Advance
    <3>3. CASE UNCHANGED job_state
      BY <3>1, <3>3 DEF Advance
    <3> QED BY <2>1, <3>2, <3>3 DEF SignalMoves
  <2> QED BY <1>3, <2>2, <2>3, TruthStep
<1> QED
  BY <1>2, <1>5, <1>6, <1>7

LEMMA JobStepTruth ==
  ASSUME Types, Truth, NEW j \in Jobs, JobStep(j)
  PROVE  Truth'
<1>1. UNCHANGED <<restarted, replies>> /\ job_state \in [Jobs -> States]
  BY DEF JobStep, Types
<1>2. PICK s : /\ job_state' = [job_state EXCEPT ![j] = s]
               /\ job_state[j] \notin Final \union {"STOPPED", "FREED"}
               /\ \/ UNCHANGED rmq
                  \/ rmq' = Post(rmq, "WAIT_SUCCESS", j) /\ s \in Final
                  \/ rmq' = Post(rmq, "KILL_SUCCESS", j) /\ s = "FREED"
                  \/ /\ rmq' = Append(rmq, [act |-> "SUCCESS", op |-> "STOP", job |-> j])
                     /\ s = "STOPPED"
  <2>1. CASE JobEnds(j)
    BY <2>1 DEF JobEnds, Notify, Final
  <2>2. CASE JobKilled(j) \/ JobStopped(j) \/ CancelForgotten(j)
    BY <2>2 DEF JobKilled, JobStopped, CancelForgotten, queues, Final
  <2> QED BY <2>1, <2>2 DEF JobStep
<1>3. job_state'[j] = s /\ \A k \in Jobs : k # j => job_state'[k] = job_state[k]
  BY <1>1, <1>2
<1>4. Advance
  BY <1>1, <1>2, <1>3 DEF Advance
<1>5. ASSUME NEW e \in RMAction, rmq' = Append(rmq, e), e.job = j,
             e.act = "WAIT_SUCCESS" => s \in Final, e.act = "KILL_SUCCESS" => s = "FREED",
             e.act = "SUCCESS" => s = "STOPPED"
      PROVE  TrueQueue
  <2>1. /\ e.act = "WAIT_SUCCESS" => Stays(e.job, Final)'
        /\ e.act = "KILL_SUCCESS" => Stays(e.job, {})'
        /\ e.act = "SUCCESS" => Stays(e.job, {"STOPPED"})'
    BY <1>3, <1>5 DEF Stays
  <2> QED BY <1>5, <2>1, QueueAppend
<1>6. TrueQueue
  <2>1. PICK w, k, p \in RMAction : /\ w = [act |-> "WAIT_SUCCESS", job |-> j]
                                    /\ k = [act |-> "KILL_SUCCESS", job |-> j]
                                    /\ p = [act |-> "SUCCESS", op |-> "STOP", job |-> j]
    BY RMActions DEF Signals
  <2>2. \/ UNCHANGED rmq
        \/ rmq' = Append(rmq, w) /\ s \in Final
        \/ rmq' = Append(rmq, k) /\ s = "FREED"
        \/ rmq' = Append(rmq, p) /\ s = "STOPPED"
    BY <1>2, <2>1 DEF Post
  <2> QED BY <1>5, <2>1, <2>2, QueueSame
<1>7. \A c \in Clients : TrueReplies(c)
  BY <1>1, RepliesSame
<1> QED
  BY <1>4, <1>6, <1>7, TruthStep

\* A client reads an answer, or opens another connection.
LEMMA ClientTruth ==
  ASSUME Types, Truth, NEW c \in Clients, Client(c)
  PROVE  Truth'
<1>1. UNCHANGED <<job_state, restarted, rmq>>
  BY DEF Client, RunJob, WaitAny, ControlAll, Synchronize, WaitJob, JobPs, Control,
         Async, Returns, Timeout, Start, gwdv, pool
<1>2. \/ UNCHANGED replies
      \/ \E msgs : Connect(c, msgs)
      \/ replies[c] # <<>> /\ replies' = [replies EXCEPT ![c] = Tail(@)]
  <2>1. CASE Returns(c)
    BY <2>1 DEF Returns, RunReturn, WaitReturn, WaitAnyReturn, SyncReturn, ReapReturn,
                OtherReturn, Return, KillNext
  <2>2. CASE Timeout(c)
    BY <2>2 DEF Timeout, Return
  <2>3. CASE ~Returns(c) /\ ~Timeout(c)
    BY <2>3 DEF Client, RunJob, WaitAny, ControlAll, Synchronize, WaitJob, JobPs, Control,
                Async, Start
  <2> QED BY <2>1, <2>2, <2>3
<1>3. ASSUME NEW d \in Clients PROVE TrueReplies(d)
  <2>1. CASE UNCHANGED replies
    BY <2>1, RepliesSame
  <2>2. ASSUME NEW msgs, Connect(c, msgs) PROVE TrueReplies(d)
    <3>1. /\ d # c => replies'[d] = replies[d]
          /\ d = c => replies'[d] \in {<<>>, <<EOF>>}
      BY <2>2 DEF Connect, Types
    <3>2. DOMAIN <<EOF>> = {1} /\ <<EOF>>[1] = EOF /\ DOMAIN <<>> = {}
      OBVIOUS
    <3>3. ASSUME NEW i \in DOMAIN replies'[d], replies'[d][i] = EOF
          PROVE  IsTrue(replies[d][i])'
      BY <3>3 DEF IsTrue, EOF
    <3> QED BY <3>1, <3>2, <3>3 DEF TrueReplies
  <2>3. CASE replies[c] # <<>> /\ replies' = [replies EXCEPT ![c] = Tail(@)]
    <3>1. replies[c] \in Seq(Answers)
      BY DEF Types
    <3>2. \A i \in DOMAIN Tail(replies[c]) :
            i + 1 \in DOMAIN replies[c] /\ Tail(replies[c])[i] = replies[c][i + 1]
      BY <2>3, <3>1, TailFacts
    <3>3. replies'[d] = IF d = c THEN Tail(replies[c]) ELSE replies[d]
      BY <2>3 DEF Types
    <3> QED BY <3>2, <3>3 DEF TrueReplies
  <2> QED BY <1>2, <2>1, <2>2, <2>3
<1> QED
  BY <1>1, <1>3, AdvanceSame, QueueSame, TruthStep

LEMMA ListenTruth ==
  ASSUME Types, Truth, Listen
  PROVE  Truth'
<1>1. UNCHANGED <<job_state, restarted>>
  BY DEF Listen, Accept, Read, pool
<1>2. CASE Accept
  <2>1. TrueQueue
    BY <1>2, QueueSame DEF Accept, queues
  <2>2. ASSUME NEW c \in Clients PROVE TrueReplies(c)
    <3>1. CASE UNCHANGED replies
      BY <3>1, RepliesSame
    <3>2. CASE replies' = [replies EXCEPT ![Head(backlog).client] = Append(@, EOF)]
      <4>1. replies[c] \in Seq(Answers)
        BY DEF Types
      <4>2. \A i \in DOMAIN Append(replies[c], EOF) :
              \/ i \in DOMAIN replies[c] /\ Append(replies[c], EOF)[i] = replies[c][i]
              \/ Append(replies[c], EOF)[i] = EOF
        BY <4>1, AnswerTypes, AppendFacts
      <4>3. replies'[c] \in {replies[c], Append(replies[c], EOF)}
        BY <3>2 DEF Types
      <4>4. ASSUME NEW i \in DOMAIN replies'[c], replies'[c][i] = EOF
            PROVE  IsTrue(replies[c][i])'
        BY <4>4 DEF IsTrue, EOF
      <4> QED BY <4>2, <4>3, <4>4 DEF TrueReplies
    <3> QED BY <1>2, <3>1, <3>2 DEF Accept
  <2> QED BY <1>1, <2>1, <2>2, AdvanceSame, TruthStep
<1>3. ASSUME NEW f \in Fds, Read(f) PROVE Truth'
  <2>1. UNCHANGED replies
    BY <1>3 DEF Read
  <2>2. CASE UNCHANGED rmq
    BY <1>1, <2>1, <2>2, AdvanceSame, QueueSame, RepliesSame, TruthStep
  <2>3. CASE /\ Head(inbox[f]) # DISENGAGE
             /\ rmq' = Append(rmq, Connection(f, Head(inbox[f])))
    <3>1. inbox[f] \in Seq(Line) /\ inbox[f] # <<>>
      BY <1>3 DEF Read, Types
    <3>2. Head(inbox[f]) \in Request
      <4>1. Head(inbox[f]) \in Line
        BY <3>1, TailFacts
      <4> QED BY <2>3, <4>1 DEF Line
    <3>3. PICK e \in RMAction : e = Connection(f, Head(inbox[f]))
      BY <3>2, RMActions
    <3>4. e.act = "CONNECTION" /\ rmq' = Append(rmq, e)
      BY <2>3, <3>3 DEF Connection
    <3>5. TrueQueue
      BY <3>4, QueueAppend
    <3> QED BY <1>1, <2>1, <3>5, AdvanceSame, RepliesSame, TruthStep
  <2> QED BY <1>3, <2>2, <2>3 DEF Read
<1> QED
  BY <1>2, <1>3 DEF Listen

LEMMA InitTruth == Init => Truth
  BY DEF Init, RMInit, Truth

LEMMA NextTruth == TypeInv /\ Truth /\ [Next]_vars => Truth'
<1> SUFFICES ASSUME Types, Truth, [Next]_vars PROVE Truth'
  BY DEF TypeInv
<1>1. CASE UNCHANGED vars
  BY <1>1, AdvanceSame, QueueSame, RepliesSame, TruthStep
     DEF vars, rmvars, pool, queues
<1>2. CASE Gwd(Listen)
  BY <1>2, ListenTruth DEF Gwd
<1>3. CASE Gwd(Server)
  <2>1. ASSUME NEW t \in threads, Thread(t) PROVE Truth'
    <3>1. t \in Task /\ Work(t)
      BY <2>1 DEF Types, Task, Thread
    <3>2. UNCHANGED <<job_state, restarted, rmq>>
      BY <2>1 DEF Thread, pool
    <3>3. \A c \in Clients : TrueReplies(c)
      BY <3>1, WorkReplies
    <3> QED BY <3>2, <3>3, AdvanceSame, QueueSame, TruthStep
  <2> QED BY <1>3, <2>1, DMStepTruth, RMStepTruth DEF Gwd, Server
<1>4. CASE Gwd(\E j \in Jobs : JobStep(j))
  BY <1>4, JobStepTruth DEF Gwd
<1>5. CASE \E c \in Clients : Client(c)
  BY <1>5, ClientTruth
<1> QED
  BY <1>1, <1>2, <1>3, <1>4, <1>5 DEF Next

\* What gw_rm_wait_success, gw_rm_kill_success and gw_rm_stop tell a client has
\* happened to its job, and stays so as long as the answer may be read, unless a
\* user has the job begin again: however late the threads are, and whichever kills,
\* stops and failures of the wrapper cross the answer.
THEOREM AnswersTrue == Spec => []AnswerTrue
<1>1. TypeInv /\ Truth => AnswerTrue
  <2> SUFFICES ASSUME TypeInv, Truth, NEW c \in Clients, NEW r \in AnswersOf(c),
                      r.job \notin restarted
               PROVE  /\ r.rc = "JOB_FAIL" => job_state[r.job] \in {"FAILED", "FREED"}
                      /\ r.rc = "JOB_KILLED" => job_state[r.job] = "FREED"
                      /\ r.rc = "SUCCESS" =>
                           /\ r.type = "WAIT" => job_state[r.job] \in {"ZOMBIE", "FREED"}
                           /\ r.type = "KILL" => job_state[r.job] = "FREED"
                           /\ r.type = "STOP" => job_state[r.job] \in {"STOPPED", "FREED"}
    BY DEF AnswerTrue
  <2>1. PICK i \in DOMAIN replies[c] : r = replies[c][i]
    BY DEF AnswersOf, ToSet
  <2>2. IsTrue(r)
    BY <2>1 DEF Truth
  <2> QED BY <2>2 DEF IsTrue, Stays
<1>2. Init => TypeInv /\ Truth
  BY InitTypes, InitTruth
<1>3. (TypeInv /\ Truth) /\ [Next]_vars => (TypeInv /\ Truth)'
  BY NextTypes, NextTruth
<1> QED
  BY <1>1, <1>2, <1>3, PTL DEF Spec

-----------------------------------------------------------------------------
(* Who waits is counted.                                                   *)

\* The waits on j that the DM has not seen yet.
Pending(j) == {i \in DOMAIN dmq : dmq[i].act = "WAIT" /\ dmq[i].job = j}

Counted(j) == client_waiting[j] + Cardinality(Pending(j)) >= Cardinality(Waiting("WAIT", j))

\* A request names a job that was submitted: gwadmin alone may name another.
KnownEntry(e) == e.op = "WAIT" => job_state[e.job] # "NONE"
KnownWait(a) == a.act = "WAIT" => job_state[a.job] # "NONE"

CountInv ==
  /\ \A j \in Jobs : InPool(j) => Counted(j)
  /\ \A j \in Jobs : job_state[j] = "NONE" => client_waiting[j] = 0
  /\ \A n \in DOMAIN connection_list : KnownEntry(connection_list[n])
  /\ \A i \in DOMAIN dmq : KnownWait(dmq[i])

LEMMA DomainOf ==
  ASSUME NEW S, NEW s \in Seq(S)
  PROVE  \E n \in Nat : DOMAIN s = 1..n
  OBVIOUS

LEMMA IntoCard ==
  ASSUME NEW n \in Nat, NEW m \in Nat, NEW S \in SUBSET (1..n), NEW T \in SUBSET (1..m),
         NEW f \in [S -> T], \A i, k \in S : f[i] = f[k] => i = k
  PROVE  Cardinality(S) <= Cardinality(T)
<1>1. IsFiniteSet(T)
  BY InOrderIs
<1>2. f \in Injection(S, T)
  BY DEF Injection, IsInjective
<1> QED
  BY <1>1, <1>2, FS_Injection

\* The members of S but 1 have their predecessors in T.
LEMMA ShiftCard ==
  ASSUME NEW n \in Nat, NEW m \in Nat, NEW S \in SUBSET (1..n), NEW T \in SUBSET (1..m),
         \A i \in S : i # 1 => i - 1 \in T
  PROVE  /\ Cardinality(S) <= Cardinality(T) + 1
         /\ 1 \notin S => Cardinality(S) <= Cardinality(T)
<1>1. IsFiniteSet(S) /\ Cardinality(S) \in Nat /\ Cardinality(T) \in Nat
  BY InOrderIs
<1>2. PICK R \in SUBSET (1..n) : R = S \ {1}
  OBVIOUS
<1>3. PICK f : f = [i \in R |-> i - 1]
  OBVIOUS
<1>4. f \in [R -> T]
  BY <1>2, <1>3
<1>5. \A i, k \in R : f[i] = f[k] => i = k
  <2>1. \A i \in R : i \in Nat /\ f[i] = i - 1
    BY <1>3
  <2> QED BY <2>1
<1>6. Cardinality(R) <= Cardinality(T) /\ Cardinality(R) \in Nat
  BY <1>4, <1>5, IntoCard, InOrderIs
<1>7. Cardinality(S) <= Cardinality(R) + 1 /\ (1 \notin S => S = R)
  <2>1. CASE 1 \in S
    <3>1. Cardinality(S \ {1}) = Cardinality(S) - 1
      BY <1>1, <2>1, FS_RemoveElement
    <3> QED BY <1>1, <1>2, <2>1, <3>1
  <2>2. CASE 1 \notin S
    <3>1. S = R
      BY <1>2, <2>2
    <3> QED BY <1>1, <3>1
  <2> QED BY <2>1, <2>2
<1> QED
  BY <1>1, <1>6, <1>7

\* The sets that are counted.
LEMMA CountSets ==
  ASSUME Types, NEW j
  PROVE  /\ Len(connection_list) \in Nat /\ Waiting("WAIT", j) \in SUBSET (1..Len(connection_list))
         /\ Len(dmq) \in Nat /\ Pending(j) \in SUBSET (1..Len(dmq))
         /\ IsFiniteSet(Waiting("WAIT", j)) /\ IsFiniteSet(Pending(j))
         /\ Cardinality(Waiting("WAIT", j)) \in Nat /\ Cardinality(Pending(j)) \in Nat
<1>1. connection_list \in Seq(Entry) /\ dmq \in Seq(DMAction)
  BY DEF Types
<1>2. /\ Len(connection_list) \in Nat /\ DOMAIN connection_list = 1..Len(connection_list)
      /\ Len(dmq) \in Nat /\ DOMAIN dmq = 1..Len(dmq)
  BY <1>1, SeqFacts
<1>3. /\ Waiting("WAIT", j) \in SUBSET (1..Len(connection_list))
      /\ Pending(j) \in SUBSET (1..Len(dmq))
  BY <1>2 DEF Waiting, Pending
<1> QED
  BY <1>2, <1>3, InOrderIs

LEMMA CountSetsPrime ==
  ASSUME Types', NEW j
  PROVE  Cardinality(Waiting("WAIT", j)') \in Nat /\ Cardinality(Pending(j)') \in Nat
<1>1. PICK l \in Seq(Entry) : l = connection_list'
  BY DEF Types
<1>2. PICK q \in Seq(DMAction) : q = dmq'
  BY DEF Types
<1>3. PICK n \in Nat : DOMAIN l = 1..n
  <2> HIDE DEF Entry
  <2> QED BY DomainOf
<1>4. PICK m \in Nat : DOMAIN q = 1..m
  <2> HIDE DEF DMAction
  <2> QED BY DomainOf
<1>5. Waiting("WAIT", j)' \in SUBSET (1..n) /\ Pending(j)' \in SUBSET (1..m)
  BY <1>1, <1>2, <1>3, <1>4 DEF Waiting, Pending
<1> QED
  BY <1>5, InOrderIs

LEMMA RestCount ==
  ASSUME Types, Types', NEW P, connection_list' = Rest(P), NEW j
  PROVE  Cardinality(Waiting("WAIT", j)') <= Cardinality(Waiting("WAIT", j) \ P)
<1>1. PICK l \in Seq(Entry) : l = connection_list
  BY DEF Types
<1>2. PICK S \in SUBSET DOMAIN l : S = DOMAIN connection_list \ P
  BY <1>1
<1>3. connection_list' = Chosen(l, S)
  BY <1>1, <1>2 DEF Rest
<1>4. /\ \A i \in DOMAIN Chosen(l, S) :
           InOrder(S)[i] \in S /\ Chosen(l, S)[i] = l[InOrder(S)[i]]
      /\ \A i, k \in DOMAIN Chosen(l, S) : InOrder(S)[i] = InOrder(S)[k] => i = k
  <2> HIDE DEF Entry
  <2> QED BY ChosenIs
<1>5. PICK n \in Nat : DOMAIN connection_list' = 1..n
  <2>1. connection_list' \in Seq(Entry)
    BY RestIs
  <2> HIDE DEF Entry
  <2> QED BY <2>1, DomainOf
<1>6. PICK m \in Nat : m = Len(connection_list) /\ Waiting("WAIT", j) \ P \in SUBSET (1..m)
  BY CountSets
<1>7. PICK A \in SUBSET (1..n) : A = Waiting("WAIT", j)'
  BY <1>5 DEF Waiting
<1>8. PICK B \in SUBSET (1..m) : B = Waiting("WAIT", j) \ P
  BY <1>6
<1>9. \A i \in A : i \in DOMAIN Chosen(l, S) /\ InOrder(S)[i] \in B
  <2>1. ASSUME NEW i \in A PROVE i \in DOMAIN Chosen(l, S) /\ InOrder(S)[i] \in B
    <3>1. i \in DOMAIN Chosen(l, S)
          /\ Chosen(l, S)[i].op = "WAIT" /\ Chosen(l, S)[i].job = j
      BY <1>3, <1>7, <2>1 DEF Waiting
    <3>2. PICK k : k = InOrder(S)[i]
      OBVIOUS
    <3>3. k \in S /\ l[k].op = "WAIT" /\ l[k].job = j
      BY <1>4, <3>1, <3>2
    <3>4. k \in Waiting("WAIT", j) \ P
      BY <1>1, <1>2, <3>3 DEF Waiting
    <3> QED BY <1>8, <3>1, <3>2, <3>4
  <2> QED BY <2>1
<1>10. PICK f : f = [i \in A |-> InOrder(S)[i]]
  OBVIOUS
<1>11. f \in [A -> B] /\ \A i, k \in A : f[i] = f[k] => i = k
  BY <1>4, <1>9, <1>10
<1> QED
  BY <1>7, <1>8, <1>11, IntoCard

\* A connection is added to the list.
LEMMA RegisteredCount ==
  ASSUME Types, Types', NEW t, NEW w, connection_list' = Registered(t, w), NEW j
  PROVE  /\ Cardinality(Waiting("WAIT", j)') <= Cardinality(Waiting("WAIT", j)) + 1
         /\ t.msg.type # "WAIT" \/ t.msg.job # j =>
              Cardinality(Waiting("WAIT", j)') <= Cardinality(Waiting("WAIT", j))
<1>1. PICK l \in Seq(Entry) : l = connection_list
  BY DEF Types
<1>2. PICK e : e = [fd |-> t.fd, op |-> t.msg.type, wait |-> w, job |-> t.msg.job]
  OBVIOUS
<1>3. connection_list' = <<e>> \o l /\ e.op = t.msg.type /\ e.job = t.msg.job
  BY <1>1, <1>2 DEF Registered
<1>4. /\ (<<e>> \o l)[1] = e
      /\ \A i \in DOMAIN (<<e>> \o l) : i # 1 =>
           i - 1 \in DOMAIN l /\ (<<e>> \o l)[i] = l[i - 1]
  <2> HIDE DEF Entry
  <2> QED OBVIOUS
<1>5. PICK n \in Nat : DOMAIN connection_list' = 1..n
  <2>1. connection_list' \in Seq(Entry)
    BY DEF Types
  <2> HIDE DEF Entry
  <2> QED BY <2>1, DomainOf
<1>6. PICK m \in Nat : m = Len(connection_list) /\ Waiting("WAIT", j) \in SUBSET (1..m)
  BY CountSets
<1>7. PICK A \in SUBSET (1..n) : A = Waiting("WAIT", j)'
  BY <1>5 DEF Waiting
<1>8. PICK B \in SUBSET (1..m) : B = Waiting("WAIT", j)
  BY <1>6
<1>9. \A i \in A : i # 1 => i - 1 \in B
  BY <1>1, <1>3, <1>4, <1>7, <1>8 DEF Waiting
<1>10. t.msg.type # "WAIT" \/ t.msg.job # j => 1 \notin A
  BY <1>3, <1>4, <1>7 DEF Waiting
<1> QED
  BY <1>7, <1>8, <1>9, <1>10, ShiftCard

\* The DM takes a request, and gets one.
LEMMA PendingTail ==
  ASSUME Types, Types', dmq # <<>>, dmq' = Tail(dmq), NEW a, a = Head(dmq), NEW j
  PROVE  /\ Cardinality(Pending(j)) <= Cardinality(Pending(j)') + 1
         /\ a.act # "WAIT" \/ a.job # j => Cardinality(Pending(j)) <= Cardinality(Pending(j)')
<1>1. PICK q \in Seq(DMAction) : q = dmq
  BY DEF Types
<1>2. q # <<>> /\ dmq' = Tail(q)
  BY <1>1
<1>3. PICK n \in Nat : n = Len(q) /\ DOMAIN q = 1..n
  BY <1>1, SeqFacts
<1>4. /\ Head(q) = q[1] /\ Tail(q) \in Seq(DMAction)
      /\ \A i \in DOMAIN q : i # 1 => i - 1 \in DOMAIN Tail(q) /\ Tail(q)[i - 1] = q[i]
  <2> HIDE DEF DMAction
  <2>1. Tail(q) \in Seq(DMAction) /\ Head(q) = q[1] /\ Len(Tail(q)) = n - 1
    BY <1>2, <1>3, TailFacts
  <2>2. DOMAIN Tail(q) = 1..(n - 1)
    BY <2>1, SeqFacts
  <2>3. \A i \in DOMAIN Tail(q) : Tail(q)[i] = q[i + 1]
    BY <1>2, TailFacts
  <2>4. \A i \in 1..n : i # 1 => i - 1 \in 1..(n - 1) /\ (i - 1) + 1 = i
    OBVIOUS
  <2> QED BY <1>3, <2>1, <2>2, <2>3, <2>4
<1>5. PICK m \in Nat : m = Len(Tail(q)) /\ DOMAIN Tail(q) = 1..m
  BY <1>4, SeqFacts
<1>6. PICK A \in SUBSET (1..n) : A = Pending(j)
  BY <1>1, <1>3 DEF Pending
<1>7. PICK B \in SUBSET (1..m) : B = Pending(j)'
  BY <1>2, <1>5 DEF Pending
<1>8. \A i \in A : i # 1 => i - 1 \in B
  BY <1>1, <1>2, <1>4, <1>6, <1>7 DEF Pending
<1>9. a.act # "WAIT" \/ a.job # j => 1 \notin A
  BY <1>1, <1>4, <1>6 DEF Pending
<1> QED
  BY <1>6, <1>7, <1>8, <1>9, ShiftCard

LEMMA PendingAppend ==
  ASSUME Types, NEW e \in DMAction, dmq' = Append(dmq, e), NEW j
  PROVE  /\ Cardinality(Pending(j)) <= Cardinality(Pending(j)')
         /\ e.act = "WAIT" /\ e.job = j => Cardinality(Pending(j)') = Cardinality(Pending(j)) + 1
<1>1. PICK q \in Seq(DMAction) : q = dmq
  BY DEF Types
<1>2. PICK n \in Nat : n = Len(q) /\ DOMAIN q = 1..n
  BY <1>1, SeqFacts
<1>3. /\ DOMAIN dmq' = DOMAIN q \union {n + 1} /\ dmq'[n + 1] = e
      /\ \A i \in DOMAIN q : dmq'[i] = q[i]
  <2>1. dmq' = Append(q, e)
    BY <1>1
  <2> HIDE DEF DMAction
  <2> QED BY <1>2, <2>1
<1>4. Pending(j)' = IF e.act = "WAIT" /\ e.job = j THEN Pending(j) \union {n + 1} ELSE Pending(j)
  BY <1>1, <1>3 DEF Pending
<1>5. PICK A \in SUBSET (1..n) : A = Pending(j)
  BY <1>1, <1>2 DEF Pending
<1>6. IsFiniteSet(A) /\ Cardinality(A) \in Nat /\ n + 1 \notin A
  BY InOrderIs
<1>7. Cardinality(A \union {n + 1}) = Cardinality(A) + 1
  BY <1>6, FS_AddElement
<1> QED
  BY <1>4, <1>5, <1>6, <1>7

\* What a step may do to jobs, requests and entries, when the counts are fine.
LEMMA CountStep ==
  ASSUME Types, CountInv,
         \A j \in Jobs : job_state[j] # "NONE" => job_state'[j] # "NONE",
         \A j \in Jobs : job_state'[j] = "NONE" => client_waiting'[j] = client_waiting[j],
         \A n \in DOMAIN connection_list' :
           \/ \E m \in DOMAIN connection_list : connection_list'[n] = connection_list[m]
           \/ KnownEntry(connection_list[n])',
         \A i \in DOMAIN dmq' : (\E k \in DOMAIN dmq : dmq'[i] = dmq[k]) \/ KnownWait(dmq[i])',
         \A j \in Jobs : InPool(j)' => Counted(j)'
  PROVE  CountInv'
<1>1. \A j \in Jobs : job_state'[j] = "NONE" => client_waiting'[j] = 0
  BY DEF CountInv
<1>2. ASSUME NEW n \in DOMAIN connection_list' PROVE KnownEntry(connection_list[n])'
  <2>1. ASSUME NEW m \in DOMAIN connection_list, connection_list'[n] = connection_list[m]
        PROVE  KnownEntry(connection_list[n])'
    <3>1. PICK e \in Entry : e = connection_list[m]
      BY SeqFacts DEF Types
    <3>2. e.job \in Jobs /\ KnownEntry(connection_list[m])
      BY DEF Entry, CountInv
    <3> QED BY <2>1, <3>1, <3>2 DEF KnownEntry
  <2> QED BY <1>2, <2>1
<1>3. ASSUME NEW i \in DOMAIN dmq' PROVE KnownWait(dmq[i])'
  <2>1. ASSUME NEW k \in DOMAIN dmq, dmq'[i] = dmq[k] PROVE KnownWait(dmq[i])'
    <3>1. PICK a \in DMAction : a = dmq[k]
      BY SeqFacts DEF Types
    <3>2. (a.act = "WAIT" => a.job \in Jobs) /\ KnownWait(dmq[k])
      BY DMActionIs DEF CountInv
    <3> QED BY <2>1, <3>1, <3>2 DEF KnownWait
  <2> QED BY <1>3, <2>1
<1> QED
  BY <1>1, <1>2, <1>3 DEF CountInv

LEMMA QuietCount ==
  ASSUME Types, CountInv, UNCHANGED <<job_state, client_waiting, connection_list, dmq>>
  PROVE  CountInv'
<1>1. \A j \in Jobs : InPool(j)' => Counted(j)'
  BY DEF CountInv, Counted, InPool, Waiting, Pending
<1> QED
  BY <1>1, CountStep

\* Entries leave the list, and of those that are counted none stays.
LEMMA RestKeepsCount ==
  ASSUME Types, Types', CountInv, UNCHANGED <<job_state, dmq>>,
         NEW P, NEW Q \in SUBSET DOMAIN connection_list, Q \subseteq P,
         connection_list' = Rest(P),
         UNCHANGED client_waiting \/ client_waiting' = WaitsLess(Q)
  PROVE  CountInv'
<1>1. ASSUME NEW j \in Jobs, InPool(j) PROVE Counted(j)'
  <2>1. PICK A : A = Waiting("WAIT", j)
    OBVIOUS
  <2>2. IsFiniteSet(A) /\ Cardinality(A) \in Nat /\ Cardinality(Pending(j)) \in Nat
    BY <2>1, CountSets
  <2>3. Cardinality(Waiting("WAIT", j)') <= Cardinality(A \ P)
        /\ Cardinality(Waiting("WAIT", j)') \in Nat
    BY <2>1, RestCount, CountSetsPrime
  <2>4. PICK x \in Nat : /\ x = Cardinality(Q \intersect A) /\ Cardinality(A \ Q) = Cardinality(A) - x
    <3>1. Cardinality(A \ Q) = Cardinality(A) - Cardinality(A \intersect Q)
      BY <2>2, FS_Difference
    <3>2. IsFiniteSet(A \intersect Q)
      BY <2>2, FS_Intersection
    <3>3. Cardinality(A \intersect Q) \in Nat /\ A \intersect Q = Q \intersect A
      BY <3>2, FS_CardinalityType
    <3> QED BY <3>1, <3>3
  <2>5. Cardinality(A \ P) <= Cardinality(A \ Q) /\ Cardinality(A \ P) \in Nat
    <3>1. IsFiniteSet(A \ Q) /\ A \ P \in SUBSET (A \ Q)
      BY <2>2, FS_Difference
    <3> QED BY <3>1, FS_Subset, FS_CardinalityType
  <2>6. client_waiting[j] \in Int /\ client_waiting'[j] \in Int
    BY DEF Types
  <2>7. client_waiting'[j] >= client_waiting[j] - x
    <3>1. CASE UNCHANGED client_waiting
      BY <2>6, <3>1
    <3>2. CASE client_waiting' = WaitsLess(Q)
      BY <1>1, <2>1, <2>4, <2>6, <3>2 DEF WaitsLess
    <3> QED BY <3>1, <3>2
  <2>8. client_waiting[j] + Cardinality(Pending(j)) >= Cardinality(A)
    BY <1>1, <2>1 DEF CountInv, Counted
  <2>9. Pending(j)' = Pending(j)
    BY DEF Pending
  <2> QED BY <2>2, <2>3, <2>4, <2>5, <2>6, <2>7, <2>8, <2>9 DEF Counted
<1>2. \A j \in Jobs : InPool(j)' => Counted(j)'
  BY <1>1 DEF InPool
<1>3. \A j \in Jobs : job_state'[j] = "NONE" => client_waiting'[j] = client_waiting[j]
  BY DEF WaitsLess, InPool
<1>4. \A n \in DOMAIN connection_list' :
        \E m \in DOMAIN connection_list : connection_list'[n] = connection_list[m]
  BY RestIs
<1> QED
  BY <1>2, <1>3, <1>4, CountStep

\* Requests are sent to the DM, waits with their entry of the list.
LEMMA SendCount ==
  ASSUME Types, Types', CountInv, UNCHANGED <<job_state, client_waiting>>,
         NEW e \in DMAction, dmq' = Append(dmq, e), e.act = "WAIT" => InPool(e.job),
         \/ UNCHANGED connection_list
         \/ \E t, w : /\ connection_list' = Registered(t, w)
                      /\ t.msg.type = "WAIT" => e.act = "WAIT" /\ e.job = t.msg.job
  PROVE  CountInv'
<1>1. ASSUME NEW j \in Jobs, InPool(j) PROVE Counted(j)'
  <2>1. /\ Cardinality(Pending(j)) <= Cardinality(Pending(j)')
        /\ e.act = "WAIT" /\ e.job = j => Cardinality(Pending(j)') = Cardinality(Pending(j)) + 1
    BY PendingAppend
  <2>2. /\ Cardinality(Waiting("WAIT", j)) \in Nat /\ Cardinality(Pending(j)) \in Nat
        /\ Cardinality(Waiting("WAIT", j)') \in Nat /\ Cardinality(Pending(j)') \in Nat
    BY CountSets, CountSetsPrime
  <2>3. /\ Cardinality(Waiting("WAIT", j)') <= Cardinality(Waiting("WAIT", j)) + 1
        /\ ~(e.act = "WAIT" /\ e.job = j) =>
             Cardinality(Waiting("WAIT", j)') <= Cardinality(Waiting("WAIT", j))
    <3>1. CASE UNCHANGED connection_list
      <4>1. Waiting("WAIT", j)' = Waiting("WAIT", j)
        BY <3>1 DEF Waiting
      <4> QED BY <2>2, <4>1
    <3>2. ASSUME NEW t, NEW w, connection_list' = Registered(t, w),
                 t.msg.type = "WAIT" => e.act = "WAIT" /\ e.job = t.msg.job
          PROVE  /\ Cardinality(Waiting("WAIT", j)') <= Cardinality(Waiting("WAIT", j)) + 1
                 /\ ~(e.act = "WAIT" /\ e.job = j) =>
                      Cardinality(Waiting("WAIT", j)') <= Cardinality(Waiting("WAIT", j))
      BY <3>2, RegisteredCount
    <3> QED BY <3>1, <3>2
  <2>4. client_waiting[j] + Cardinality(Pending(j)) >= Cardinality(Waiting("WAIT", j))
    BY <1>1 DEF CountInv, Counted
  <2>5. client_waiting'[j] = client_waiting[j] /\ client_waiting[j] \in Int
    BY DEF Types
  <2> QED BY <2>1, <2>2, <2>3, <2>4, <2>5 DEF Counted
<1>2. \A j \in Jobs : InPool(j)' => Counted(j)'
  BY <1>1 DEF InPool
<1>3. \A i \in DOMAIN dmq' : (\E k \in DOMAIN dmq : dmq'[i] = dmq[k]) \/ KnownWait(dmq[i])'
  <2>1. \A i \in DOMAIN dmq' : dmq'[i] = e \/ \E k \in DOMAIN dmq : dmq'[i] = dmq[k]
    <3>1. dmq \in Seq(DMAction)
      BY DEF Types
    <3> HIDE DEF DMAction
    <3> QED BY <3>1, AppendFacts
  <2>2. e.act = "WAIT" => job_state'[e.job] # "NONE"
    BY DEF InPool
  <2> QED BY <2>1, <2>2 DEF KnownWait
<1>4. \A n \in DOMAIN connection_list' :
        \/ \E m \in DOMAIN connection_list : connection_list'[n] = connection_list[m]
        \/ KnownEntry(connection_list[n])'
  <2>1. ASSUME NEW t, NEW w, connection_list' = Registered(t, w),
               t.msg.type = "WAIT" => e.act = "WAIT" /\ e.job = t.msg.job,
               NEW n \in DOMAIN connection_list'
        PROVE  \/ \E m \in DOMAIN connection_list : connection_list'[n] = connection_list[m]
               \/ KnownEntry(connection_list[n])'
    <3>1. PICK l \in Seq(Entry) : l = connection_list
      BY DEF Types
    <3>2. PICK x : x = [fd |-> t.fd, op |-> t.msg.type, wait |-> w, job |-> t.msg.job]
      OBVIOUS
    <3>3. connection_list' = <<x>> \o l /\ x.op = t.msg.type /\ x.job = t.msg.job
      BY <2>1, <3>1, <3>2 DEF Registered
    <3>4. /\ (<<x>> \o l)[1] = x
          /\ \A i \in DOMAIN (<<x>> \o l) : i # 1 =>
               i - 1 \in DOMAIN l /\ (<<x>> \o l)[i] = l[i - 1]
      <4> HIDE DEF Entry
      <4> QED OBVIOUS
    <3>5. x.op = "WAIT" => job_state'[x.job] # "NONE"
      BY <2>1, <3>3 DEF InPool
    <3>6. CASE n = 1
      BY <3>3, <3>4, <3>5, <3>6 DEF KnownEntry
    <3>7. CASE n # 1
      BY <2>1, <3>1, <3>3, <3>4, <3>7
    <3> QED BY <3>6, <3>7
  <2> QED BY <2>1
<1> QED
  BY <1>2, <1>3, <1>4, CountStep

\* With no administrator, a request that is registered names a job of the pool.
LEMMA WorkCount ==
  ASSUME Admins = {}, Types, Types', CountInv, NEW t \in Task, Work(t), UNCHANGED pool
  PROVE  CountInv'
<1>0. UNCHANGED <<job_state, client_waiting>>
  BY DEF pool
<1>1. CASE UNCHANGED <<connection_list, dmq>>
  BY <1>0, <1>1, QuietCount
<1>2. CASE Denied(t)
  BY <1>1, <1>2 DEF Denied
<1>3. ASSUME NEW e \in DMAction, dmq' = Append(dmq, e), e.act = "WAIT" => InPool(e.job),
             \/ UNCHANGED connection_list
             \/ \E w : /\ connection_list' = Registered(t, w)
                       /\ t.msg.type = "WAIT" => e.act = "WAIT" /\ e.job = t.msg.job
      PROVE  CountInv'
  BY <1>0, <1>3, SendCount
<1>4. CASE ThreadWait(t)
  <2>1. t.msg.type = "WAIT" /\ t.msg.job \in Jobs
    BY <1>4, TaskJob DEF ThreadWait, Ops
  <2>2. CASE RegisterWait(t) /\ Authorised(t.msg)
    <3>1. CASE UNCHANGED <<connection_list, dmq, replies>>
      BY <1>1, <3>1
    <3>2. ASSUME NEW w, connection_list' = Registered(t, w),
                 dmq' = Append(dmq, [act |-> "WAIT", job |-> t.msg.job])
          PROVE  CountInv'
      <4>1. PICK e : e = [act |-> "WAIT", job |-> t.msg.job]
        OBVIOUS
      <4>2. e \in DMAction /\ e.act = "WAIT" /\ e.job = t.msg.job
        BY <2>1, <4>1 DEF DMAction
      <4>3. InPool(t.msg.job)
        BY <2>2 DEF Authorised
      <4> QED BY <1>3, <3>2, <4>1, <4>2, <4>3
    <3> QED BY <2>2, <3>1, <3>2 DEF RegisterWait
  <2> QED BY <1>2, <1>4, <2>2 DEF ThreadWait
<1>5. CASE ThreadSignal(t)
  <2>1. t.msg.type \in Signals \union AsyncSignals /\ t.msg.job \in Jobs
    BY <1>5, TaskJob DEF ThreadSignal, Ops
  <2>2. CASE Authorised(t.msg)
    <3> DEFINE act == CASE t.msg.type = "KILL_ASYNC" -> "KILL"
                        [] t.msg.type = "STOP_ASYNC" -> "STOP"
                        [] OTHER -> t.msg.type
    <3>1. act \in {"KILL_HARD"} \union Signals /\ act # "WAIT" /\ t.msg.type # "WAIT"
      BY <2>1 DEF Signals, AsyncSignals
    <3>2. dmq' = Append(dmq, [act |-> act, job |-> t.msg.job])
          /\ connection_list' = IF t.msg.type \in Signals
                                THEN Registered(t, t.msg.wait) ELSE connection_list
      BY <1>5, <2>2 DEF ThreadSignal
    <3> HIDE DEF act
    <3>3. PICK e : e = [act |-> act, job |-> t.msg.job]
      OBVIOUS
    <3>4. e \in DMAction /\ e.act # "WAIT"
      BY <2>1, <3>1, <3>3 DEF DMAction
    <3>5. PICK w : w = t.msg.wait
      OBVIOUS
    <3>6. UNCHANGED connection_list \/ connection_list' = Registered(t, w)
      BY <3>2, <3>5
    <3> QED BY <1>3, <3>1, <3>2, <3>3, <3>4, <3>6
  <2> QED BY <1>2, <1>5, <2>2 DEF ThreadSignal
<1>6. CASE ThreadSubmit(t)
  <2>1. PICK e : e = [act |-> "ALLOCATE_JOB", fd |-> t.fd, from |-> t.msg.from]
    OBVIOUS
  <2>2. e \in DMAction /\ e.act # "WAIT"
    BY <2>1, TaskJob DEF DMAction
  <2>3. dmq' = Append(dmq, e) /\ UNCHANGED connection_list
    BY <1>6, <2>1 DEF ThreadSubmit
  <2> QED BY <1>3, <2>2, <2>3
<1>7. CASE ThreadStatus(t) \/ ThreadAnswer(t)
  BY <1>1, <1>7 DEF ThreadStatus, ThreadAnswer
<1> QED
  BY <1>4, <1>5, <1>6, <1>7 DEF Work

LEMMA ReadCount ==
  ASSUME Types, Types', CountInv, NEW f \in Fds, Read(f)
  PROVE  CountInv'
<1>0. UNCHANGED <<job_state, client_waiting, dmq>>
  BY DEF Read, pool
<1>1. CASE UNCHANGED connection_list
  BY <1>0, <1>1, QuietCount
<1>2. CASE Close(f)
  <2>1. connection_list' = Rest(Places(f))
    BY <1>2 DEF Close
  <2>2. {} \in SUBSET DOMAIN connection_list /\ {} \subseteq Places(f)
    OBVIOUS
  <2> QED BY <1>0, <2>1, <2>2, RestKeepsCount
<1> QED
  BY <1>1, <1>2 DEF Read

\* The handlers of the RM: each removes at least what it counts.
LEMMA RMStepCount ==
  ASSUME Admins = {}, Types, Types', CountInv, RMStep
  PROVE  CountInv'
<1> DEFINE b == Head(rmq)
<1>1. b \in RMAction
  BY TailFacts DEF RMStep, Types
<1>2. PICK a \in RMAction : a = b
  BY <1>1
<1>3. \/ RMConnection(a)
      \/ RMWaitSuccess(a) \/ RMWaitFailed(a) \/ RMKillSuccess(a) \/ RMKillFailed(a)
      \/ RMHold(a) \/ RMRelease(a) \/ RMStop(a) \/ RMResume(a) \/ RMReschedule(a)
  BY <1>2 DEF RMStep
<1> HIDE DEF b
<1>4. CASE RMConnection(a)
  <2> DEFINE u == [fd |-> a.fd, msg |-> a.msg]
  <2>1. u \in Task /\ UNCHANGED pool
    BY <1>4, RMActionIs DEF RMConnection
  <2>2. PICK t \in Task : t = u
    BY <2>1
  <2>3. (Prompt /\ Work(u)) \/ UNCHANGED <<connection_list, dmq>>
    BY <1>4 DEF RMConnection
  <2> HIDE DEF u
  <2>4. CASE Work(u)
    BY <2>1, <2>2, <2>4, WorkCount
  <2>5. CASE UNCHANGED <<connection_list, dmq>>
    BY <2>1, <2>5, QuietCount DEF pool
  <2> QED BY <2>3, <2>4, <2>5
<1>5. ASSUME NEW P, NEW Q \in SUBSET DOMAIN connection_list, Q \subseteq P,
             connection_list' = Rest(P), UNCHANGED <<job_state, dmq>>,
             UNCHANGED client_waiting \/ client_waiting' = WaitsLess(Q)
      PROVE  CountInv'
  BY <1>5, RestKeepsCount
<1>6. PICK ws, ks : /\ ws = Waiting("WAIT", a.job) /\ ks = Waiting("KILL", a.job)
                    /\ ws \in SUBSET DOMAIN connection_list
  BY PlacesIn
<1>7. CASE RMWaitSuccess(a)
  <2>1. CASE ~InPool(a.job)
    BY <1>7, <2>1, QuietCount DEF RMWaitSuccess, Crash, pool, server, queues
  <2>2. CASE InPool(a.job)
    <3>1. /\ connection_list' = Rest(WithAnys(ws)) /\ client_waiting' = WaitsLess(WithAnys(ws))
          /\ UNCHANGED <<job_state, dmq>>
      BY <1>6, <1>7, <2>2 DEF RMWaitSuccess
    <3> QED BY <1>5, <1>6, <3>1, WithAnysIn
  <2> QED BY <2>1, <2>2
<1>8. CASE RMWaitFailed(a)
  <2>1. PICK one \in SUBSET DOMAIN connection_list : one = {n \in ws : \A k \in ws : n <= k}
    BY <1>6
  <2>2. /\ connection_list' = Rest(WithAnys(one))
        /\ client_waiting' = WaitsLess(WithAnys(one) \ one)
        /\ UNCHANGED <<job_state, dmq>>
    BY <1>6, <1>8, <2>1 DEF RMWaitFailed
  <2>3. WithAnys(one) \ one \in SUBSET DOMAIN connection_list
    BY WithAnysIn
  <2> QED BY <1>5, <2>2, <2>3
<1>9. CASE RMKillSuccess(a)
  <2>1. /\ connection_list' = Rest(ks \union WithAnys(ws))
        /\ client_waiting' = WaitsLess(WithAnys(ws) \ ws)
        /\ UNCHANGED <<job_state, dmq>>
    BY <1>6, <1>9 DEF RMKillSuccess, ToldOfKill
  <2>2. WithAnys(ws) \ ws \in SUBSET DOMAIN connection_list
        /\ WithAnys(ws) \ ws \subseteq ks \union WithAnys(ws)
    BY <1>6, WithAnysIn
  <2> QED BY <1>5, <2>1, <2>2
<1>10. ASSUME NEW op, NEW ok, Answered(op, a, ok) PROVE CountInv'
  <2>1. PICK P : P = Waiting(op, a.job)
    OBVIOUS
  <2>2. connection_list' = Rest(P) /\ UNCHANGED <<job_state, client_waiting, dmq>>
    BY <1>10, <2>1 DEF Answered, pool
  <2>3. PICK Q \in SUBSET DOMAIN connection_list : Q = {}
    OBVIOUS
  <2> QED BY <1>5, <2>2, <2>3
<1>11. CASE RMKillFailed(a)
  BY <1>10, <1>11 DEF RMKillFailed
<1>12. ASSUME NEW op, SignalAnswer(op, a) PROVE CountInv'
  <2>1. PICK ok : ok = (a.act = "SUCCESS")
    OBVIOUS
  <2> QED BY <1>10, <1>12, <2>1 DEF SignalAnswer
<1>13. CASE RMHold(a) \/ RMRelease(a) \/ RMStop(a) \/ RMResume(a) \/ RMReschedule(a)
  BY <1>12, <1>13 DEF RMHold, RMRelease, RMStop, RMResume, RMReschedule
<1> QED
  BY <1>3, <1>4, <1>7, <1>8, <1>9, <1>11, <1>13

\* The DM's steps.
LEMMA DMStepCount ==
  ASSUME Types, Types', CountInv, DMStep
  PROVE  CountInv'
<1>1. PICK a \in DMAction : a = Head(dmq)
  BY TailFacts DEF DMStep, Types
<1>2. dmq # <<>> /\ (DMAllocate(a) \/ DMWait(a) \/ DMSignal(a))
  BY <1>1 DEF DMStep
<1>3. dmq' = Tail(dmq) /\ UNCHANGED connection_list
  BY <1>2 DEF DMAllocate, DMWait, DMSignal
<1>4. \A j : Waiting("WAIT", j)' = Waiting("WAIT", j)
  BY <1>3 DEF Waiting
<1>5. ASSUME NEW j
      PROVE  /\ Cardinality(Pending(j)) <= Cardinality(Pending(j)') + 1
             /\ a.act # "WAIT" \/ a.job # j => Cardinality(Pending(j)) <= Cardinality(Pending(j)')
             /\ Cardinality(Waiting("WAIT", j)) \in Nat
             /\ Cardinality(Pending(j)) \in Nat /\ Cardinality(Pending(j)') \in Nat
  <2>1. /\ Cardinality(Pending(j)) <= Cardinality(Pending(j)') + 1
        /\ a.act # "WAIT" \/ a.job # j => Cardinality(Pending(j)) <= Cardinality(Pending(j)')
    BY <1>1, <1>2, <1>3, PendingTail
  <2> QED BY <2>1, CountSets, CountSetsPrime
<1>6. \A i \in DOMAIN dmq' : \E k \in DOMAIN dmq : dmq'[i] = dmq[k]
  <2>1. PICK q \in Seq(DMAction) : q = dmq
    BY DEF Types
  <2>2. \A i \in DOMAIN Tail(q) : i + 1 \in DOMAIN q /\ Tail(q)[i] = q[i + 1]
    <3> HIDE DEF DMAction
    <3> QED BY <1>2, <2>1, TailFacts
  <2> QED BY <1>3, <2>1, <2>2
<1>7. ASSUME \A j \in Jobs : job_state[j] # "NONE" => job_state'[j] # "NONE",
             \A j \in Jobs : job_state'[j] = "NONE" => client_waiting'[j] = client_waiting[j],
             \A j \in Jobs : InPool(j)' => Counted(j)'
      PROVE  CountInv'
  <2>1. \A n \in DOMAIN connection_list' :
          \/ \E m \in DOMAIN connection_list : connection_list'[n] = connection_list[m]
          \/ KnownEntry(connection_list[n])'
    BY <1>3
  <2>2. \A i \in DOMAIN dmq' :
          (\E k \in DOMAIN dmq : dmq'[i] = dmq[k]) \/ KnownWait(dmq[i])'
    BY <1>6
  <2> QED BY <1>7, <2>1, <2>2, CountStep
<1>8. ASSUME NEW j \in Jobs, InPool(j), a.act # "WAIT" \/ a.job # j,
             client_waiting'[j] = client_waiting[j]
      PROVE  Counted(j)'
  <2>1. client_waiting[j] + Cardinality(Pending(j)) >= Cardinality(Waiting("WAIT", j))
    BY <1>8 DEF CountInv, Counted
  <2>2. client_waiting[j] \in Int
    BY DEF Types
  <2> QED BY <1>4, <1>5, <1>8, <2>1, <2>2 DEF Counted
<1>9. CASE DMAllocate(a)
  <2> DEFINE new == {j \in Jobs : job_state[j] = "NONE"}
  <2>1. a.act # "WAIT" /\ UNCHANGED client_waiting
    BY <1>9 DEF DMAllocate
  <2>2. \/ UNCHANGED job_state
        \/ \E j \in new : job_state' = [job_state EXCEPT ![j] = "RUN"]
    <3>1. CASE new = {}
      BY <1>9, <3>1 DEF DMAllocate
    <3>2. CASE new # {}
      <4>1. PICK j : j = CHOOSE k \in new : TRUE
        OBVIOUS
      <4>2. j \in new
        BY <3>2, <4>1
      <4>3. job_state' = [job_state EXCEPT ![j] = "RUN"]
        BY <1>9, <3>2, <4>1 DEF DMAllocate
      <4> QED BY <4>2, <4>3
    <3> QED BY <3>1, <3>2
  <2>3. CASE UNCHANGED job_state
    <3>1. \A j \in Jobs : InPool(j)' => Counted(j)'
      BY <1>8, <2>1, <2>3 DEF InPool
    <3> QED BY <1>7, <2>1, <2>3, <3>1
  <2>4. ASSUME NEW k \in new, job_state' = [job_state EXCEPT ![k] = "RUN"]
        PROVE  CountInv'
    <3>1. k \in Jobs /\ job_state[k] = "NONE" /\ client_waiting[k] = 0
      BY DEF CountInv
    <3>2. job_state \in [Jobs -> States]
      BY DEF Types
    <3>3. \A j \in Jobs : j # k => job_state'[j] = job_state[j]
      BY <2>4, <3>2
    <3>4. job_state'[k] = "RUN"
      BY <2>4, <3>1, <3>2
    <3>5. Counted(k)'
      <4>1. Waiting("WAIT", k) = {}
        BY <3>1 DEF Waiting, CountInv, KnownEntry
      <4>2. Cardinality({}) = 0
        BY FS_EmptySet
      <4> QED BY <1>4, <1>5, <2>1, <3>1, <4>1, <4>2 DEF Counted
    <3>6. \A j \in Jobs : InPool(j)' => Counted(j)'
      <4>1. ASSUME NEW j \in Jobs, InPool(j)', j # k PROVE Counted(j)'
        BY <1>8, <2>1, <3>3, <4>1 DEF InPool
      <4> QED BY <3>5, <4>1
    <3>7. \A j \in Jobs : job_state[j] # "NONE" => job_state'[j] # "NONE"
      BY <3>3, <3>4
    <3> QED BY <1>7, <2>1, <3>6, <3>7
  <2> QED BY <2>2, <2>3, <2>4
<1>10. CASE DMWait(a)
  <2>1. a.act = "WAIT" /\ a.job \in Jobs /\ UNCHANGED job_state
    BY <1>10, DMActionIs DEF DMWait
  <2>2. KnownWait(a)
    <3>1. PICK q \in Seq(DMAction) : q = dmq
      BY DEF Types
    <3>2. 1 \in DOMAIN q /\ Head(q) = q[1]
      <4> HIDE DEF DMAction
      <4> QED BY <1>2, <3>1, TailFacts
    <3>3. 1 \in DOMAIN dmq /\ a = dmq[1]
      BY <1>1, <3>1, <3>2
    <3> QED BY <3>3 DEF CountInv
  <2>3. job_state[a.job] # "NONE"
    BY <2>1, <2>2 DEF KnownWait
  <2>4. client_waiting \in [Jobs -> Int]
    BY DEF Types
  <2>5. CASE ~InPool(a.job)
    <3>1. UNCHANGED client_waiting
      BY <1>10, <2>5 DEF DMWait
    <3>2. \A j \in Jobs : InPool(j)' => Counted(j)'
      BY <1>8, <2>1, <2>5, <3>1 DEF InPool
    <3> QED BY <1>7, <2>1, <3>1, <3>2
  <2>6. CASE InPool(a.job)
    <3>1. PICK k \in Jobs : k = a.job
      BY <2>1
    <3>2. client_waiting' = [client_waiting EXCEPT ![k] = @ + 1]
      BY <1>10, <2>6, <3>1 DEF DMWait
    <3>3. client_waiting'[k] = client_waiting[k] + 1
          /\ \A j \in Jobs : j # k => client_waiting'[j] = client_waiting[j]
      BY <2>4, <3>2
    <3>4. Counted(k)'
      <4>1. client_waiting[k] + Cardinality(Pending(k)) >= Cardinality(Waiting("WAIT", k))
        BY <2>6, <3>1 DEF CountInv, Counted
      <4>2. client_waiting[k] \in Int
        BY <2>4
      <4> QED BY <1>4, <1>5, <3>3, <4>1, <4>2 DEF Counted
    <3>5. \A j \in Jobs : InPool(j)' => Counted(j)'
      <4>1. ASSUME NEW j \in Jobs, InPool(j)', j # k PROVE Counted(j)'
        BY <1>8, <2>1, <3>1, <3>3, <4>1 DEF InPool
      <4> QED BY <3>4, <4>1
    <3>6. \A j \in Jobs : job_state'[j] = "NONE" => client_waiting'[j] = client_waiting[j]
      BY <2>1, <2>3, <3>1, <3>3
    <3> QED BY <1>7, <2>1, <3>5, <3>6
  <2> QED BY <2>5, <2>6
<1>11. CASE DMSignal(a)
  <2>1. a.act # "WAIT" /\ UNCHANGED client_waiting
    BY <1>11, SignalIs DEF DMSignal, Signals
  <2>2. \A j \in Jobs : /\ job_state[j] # "NONE" => job_state'[j] # "NONE"
                        /\ InPool(j)' => InPool(j)
    <3>1. job_state \in [Jobs -> States]
      BY DEF Types
    <3>2. \/ UNCHANGED job_state
          \/ /\ InPool(a.job)
             /\ \E s \in SignalledTo : job_state' = [job_state EXCEPT ![a.job] = s]
      BY <1>11, SignalIs DEF SignalOK, SignalMoves
    <3>3. CASE UNCHANGED job_state
      BY <3>3 DEF InPool
    <3>4. ASSUME InPool(a.job), NEW s \in SignalledTo,
                 job_state' = [job_state EXCEPT ![a.job] = s]
          PROVE  \A j \in Jobs : /\ job_state[j] # "NONE" => job_state'[j] # "NONE"
                                 /\ InPool(j)' => InPool(j)
      <4>1. PICK k \in Jobs : k = a.job
        BY <3>4 DEF InPool
      <4>2. job_state' = [job_state EXCEPT ![k] = s]
        BY <3>4, <4>1
      <4>3. \A j \in Jobs : job_state'[j] = IF j = k THEN s ELSE job_state[j]
        BY <3>1, <4>2
      <4>4. InPool(k)
        BY <3>4, <4>1
      <4> QED BY <4>3, <4>4 DEF InPool, SignalledTo
    <3> QED BY <3>2, <3>3, <3>4
  <2>3. \A j \in Jobs : InPool(j)' => Counted(j)'
    BY <1>8, <2>1, <2>2
  <2> QED BY <1>7, <2>1, <2>2, <2>3
<1> QED
  BY <1>2, <1>9, <1>10, <1>11

\* Where a job's own steps take it.
EndsIn == Final \union {"FREED", "STOPPED", "RUN"}

\* A job ends; with DISPOSE the DM gets a kill, never a wait.
LEMMA JobStepCount ==
  ASSUME Types, Types', CountInv, NEW k \in Jobs, JobStep(k)
  PROVE  CountInv'
<1>1. UNCHANGED <<client_waiting, connection_list>>
  BY DEF JobStep, server
<1>2. InPool(k) /\ \E s \in EndsIn : job_state' = [job_state EXCEPT ![k] = s]
  BY DEF JobStep, JobEnds, JobKilled, JobStopped, CancelForgotten, InPool, EndsIn
<1>3. \A j \in Jobs : /\ job_state[j] # "NONE" => job_state'[j] # "NONE"
                      /\ InPool(j)' => InPool(j)
  <2>1. job_state \in [Jobs -> States]
    BY DEF Types
  <2>2. PICK s \in EndsIn : job_state' = [job_state EXCEPT ![k] = s]
    BY <1>2
  <2>3. \A j \in Jobs : job_state'[j] = IF j = k THEN s ELSE job_state[j]
    BY <2>1, <2>2
  <2>4. s # "NONE"
    BY <2>2 DEF EndsIn, Final
  <2> QED BY <1>2, <2>3, <2>4 DEF InPool
<1>4. PICK e : e = [act |-> "KILL", job |-> k]
  OBVIOUS
<1>5. e \in DMAction /\ e.act # "WAIT"
  BY <1>4 DEF DMAction, Signals
<1>6. UNCHANGED dmq \/ dmq' = Append(dmq, e)
  BY <1>4 DEF JobStep, JobEnds, JobKilled, JobStopped, CancelForgotten, Notify, Post, queues
<1>7. ASSUME NEW j \in Jobs, InPool(j)' PROVE Counted(j)'
  <2>1. /\ Cardinality(Pending(j)) \in Nat /\ Cardinality(Waiting("WAIT", j)) \in Nat
        /\ Cardinality(Pending(j)') \in Nat
    BY CountSets, CountSetsPrime
  <2>2. Cardinality(Pending(j)) <= Cardinality(Pending(j)')
    <3>1. CASE UNCHANGED dmq
      <4>1. Pending(j)' = Pending(j)
        BY <3>1 DEF Pending
      <4> QED BY <2>1, <4>1
    <3>2. CASE dmq' = Append(dmq, e)
      BY <1>5, <3>2, PendingAppend
    <3> QED BY <1>6, <3>1, <3>2
  <2>3. client_waiting[j] + Cardinality(Pending(j)) >= Cardinality(Waiting("WAIT", j))
    BY <1>3, <1>7 DEF CountInv, Counted
  <2>4. client_waiting'[j] = client_waiting[j] /\ client_waiting[j] \in Int
    BY <1>1 DEF Types
  <2>5. Waiting("WAIT", j)' = Waiting("WAIT", j)
    BY <1>1 DEF Waiting
  <2> QED BY <2>1, <2>2, <2>3, <2>4, <2>5 DEF Counted
<1>8. \A n \in DOMAIN connection_list' :
        \/ \E m \in DOMAIN connection_list : connection_list'[n] = connection_list[m]
        \/ KnownEntry(connection_list[n])'
  BY <1>1
<1>9. \A i \in DOMAIN dmq' : (\E n \in DOMAIN dmq : dmq'[i] = dmq[n]) \/ KnownWait(dmq[i])'
  <2>1. CASE UNCHANGED dmq
    BY <2>1
  <2>2. CASE dmq' = Append(dmq, e)
    <3>1. \A i \in DOMAIN dmq' : dmq'[i] = e \/ \E n \in DOMAIN dmq : dmq'[i] = dmq[n]
      <4>1. dmq \in Seq(DMAction)
        BY DEF Types
      <4> HIDE DEF DMAction
      <4> QED BY <1>5, <2>2, <4>1, AppendFacts
    <3> QED BY <1>5, <3>1 DEF KnownWait
  <2> QED BY <1>6, <2>1, <2>2
<1> QED
  BY <1>1, <1>3, <1>7, <1>8, <1>9, CountStep

LEMMA InitCount == Init => CountInv
<1> SUFFICES ASSUME Init PROVE CountInv
  OBVIOUS
<1>1. connection_list = <<>> /\ dmq = <<>> /\ client_waiting = [j \in Jobs |-> 0]
  BY DEF Init, RMInit
<1>2. \A j \in Jobs : Counted(j)
  <2>1. ASSUME NEW j \in Jobs PROVE Counted(j)
    <3>1. Waiting("WAIT", j) = {} /\ Pending(j) = {} /\ client_waiting[j] = 0
      BY <1>1 DEF Waiting, Pending
    <3>2. Cardinality({}) = 0
      BY FS_EmptySet
    <3> QED BY <3>1, <3>2 DEF Counted
  <2> QED BY <2>1
<1> QED
  BY <1>1, <1>2 DEF CountInv

LEMMA NextCount == TypeInv /\ CountInv /\ Admins = {} /\ [Next]_vars => CountInv'
<1> SUFFICES ASSUME TypeInv, CountInv, Admins = {}, [Next]_vars PROVE CountInv'
  OBVIOUS
<1>0. Types /\ Types'
  BY NextTypes DEF TypeInv
<1>1. CASE UNCHANGED <<job_state, client_waiting, connection_list, dmq>>
  BY <1>0, <1>1, QuietCount
<1>2. CASE UNCHANGED vars
  BY <1>1, <1>2 DEF vars, rmvars, pool, server, queues
<1>3. CASE Gwd(Listen)
  <2>1. CASE Accept
    BY <1>1, <2>1 DEF Accept, pool, queues
  <2> QED BY <1>0, <1>3, <2>1, ReadCount DEF Gwd, Listen
<1>4. CASE Gwd(Server)
  <2>1. ASSUME NEW t \in threads, Thread(t) PROVE CountInv'
    <3>1. t \in Task /\ Work(t) /\ UNCHANGED pool
      BY <1>0, <2>1 DEF Types, Task, Thread
    <3> QED BY <1>0, <3>1, WorkCount
  <2> QED BY <1>0, <1>4, <2>1, DMStepCount, RMStepCount DEF Gwd, Server
<1>5. CASE Gwd(\E j \in Jobs : JobStep(j))
  BY <1>0, <1>5, JobStepCount DEF Gwd
<1>6. ASSUME NEW c \in Clients, Client(c) PROVE CountInv'
  <2>1. UNCHANGED gwdv
    BY <1>6 DEF Client, RunJob, WaitAny, ControlAll, Synchronize, WaitJob, JobPs, Control,
                Async, Returns, Timeout, Start
  <2> QED BY <1>1, <2>1 DEF gwdv, pool, server
<1> QED
  BY <1>2, <1>3, <1>4, <1>5, <1>6 DEF Next

\* With no administrator: when gwd has nothing left to do, the counter of a job
\* in the pool is at least the number of the waits registered for it, however
\* late the threads are.  gw_dm_wait counts a wait that a thread has registered
\* before, and no handler of the RM counts down a wait that it leaves in the list.
THEOREM WaitsCounted == Admins = {} /\ Spec => []WaitingCounted
<1>1. TypeInv /\ CountInv => WaitingCounted
  <2> SUFFICES ASSUME TypeInv, CountInv, AtRest, NEW j \in Jobs, InPool(j)
               PROVE  client_waiting[j] >= Cardinality(Waiting("WAIT", j))
    BY DEF WaitingCounted
  <2>1. Pending(j) = {}
    BY DEF AtRest, Pending
  <2>2. Cardinality({}) = 0
    BY FS_EmptySet
  <2>3. client_waiting[j] \in Int
    BY DEF TypeInv, Types
  <2> QED BY <2>1, <2>2, <2>3 DEF CountInv, Counted
<1>2. Admins = {} /\ Init => TypeInv /\ CountInv /\ Admins = {}
  BY InitTypes, InitCount
<1>3. (TypeInv /\ CountInv /\ Admins = {}) /\ [Next]_vars => (TypeInv /\ CountInv /\ Admins = {})'
  BY NextTypes, NextCount
<1> QED
  BY <1>1, <1>2, <1>3, PTL DEF Spec
=============================================================================
