--------------------------- MODULE RestartProofs ---------------------------
(***************************************************************************)
(* A theorem about the restart of gwd, for every value of the constants:   *)
(* the files that gwd left when it died for the first time agree, and      *)
(* every job is recovered.                                                 *)
(*                                                                         *)
(* The records are added to job.history by the listener thread and the     *)
(* states that need them are written to job.state later, by the DM thread. *)
(* In between the message that leads from one to the other is in the DM    *)
(* queue, so the argument counts messages.                                 *)
(***************************************************************************)
EXTENDS Recovery, DispatchProofs

-----------------------------------------------------------------------------
(* Messages whose handler may write a state that needs a record.           *)

\* The handling of m may bring job k into a state that reads a record.
Needy(m, k) == m \in {<<"PROLOG", k>>, <<"MIGR_CANCEL", k>>}

NeedyAt(q, k) == {i \in DOMAIN q : Needy(q[i], k)}

\* The records of job k that messages of the queue q are about to use.
Unread(q, k) == Cardinality(NeedyAt(q, k))

\* A queue has a number of messages that need a record.
LEMMA UnreadType ==
  ASSUME NEW S, NEW q \in Seq(S), NEW k
  PROVE  IsFiniteSet(NeedyAt(q, k)) /\ Unread(q, k) \in Nat
<1>1. IsFiniteSet(1..Len(q)) /\ NeedyAt(q, k) \subseteq 1..Len(q)
  BY FS_Interval DEF NeedyAt
<1>2. IsFiniteSet(NeedyAt(q, k))
  BY <1>1, FS_Subset
<1> QED
  BY <1>2, FS_CardinalityType DEF Unread

\* A message that is posted counts if it needs a record.
LEMMA UnreadAppend ==
  ASSUME NEW S, NEW q \in Seq(S), NEW m \in S, NEW k
  PROVE  Unread(Append(q, m), k) = Unread(q, k) + One(Needy(m, k))
<1> DEFINE n == Len(q) + 1
<1>1. /\ n \in Nat /\ n \notin DOMAIN q
      /\ DOMAIN Append(q, m) = DOMAIN q \union {n}
      /\ Append(q, m)[n] = m
      /\ \A i \in DOMAIN q : Append(q, m)[i] = q[i]
  OBVIOUS
<1>2. NeedyAt(Append(q, m), k) = IF Needy(m, k) THEN NeedyAt(q, k) \union {n}
                                                ELSE NeedyAt(q, k)
  BY <1>1 DEF NeedyAt
<1>3. n \notin NeedyAt(q, k)
  BY <1>1 DEF NeedyAt
<1>4. CASE Needy(m, k)
  <2>1. Cardinality(NeedyAt(q, k) \union {n}) = Cardinality(NeedyAt(q, k)) + 1
    BY <1>3, UnreadType, FS_AddElement
  <2> QED
    BY <1>2, <1>4, <2>1 DEF Unread, One
<1>5. CASE ~Needy(m, k)
  BY <1>2, <1>5, UnreadType DEF Unread, One
<1> QED
  BY <1>4, <1>5

\* A message that is taken no longer counts.
LEMMA UnreadTail ==
  ASSUME NEW S, NEW q \in Seq(S), q # <<>>, NEW k
  PROVE  Unread(Tail(q), k) = Unread(q, k) - One(Needy(Head(q), k))
<1> DEFINE A == NeedyAt(Tail(q), k)
           B == NeedyAt(q, k) \ {1}
           f == [i \in A |-> i + 1]
<1>1. /\ Len(q) \in Nat \ {0} /\ DOMAIN q = 1..Len(q)
      /\ Tail(q) \in Seq(S) /\ DOMAIN Tail(q) = 1..(Len(q) - 1)
      /\ \A i \in 1..(Len(q) - 1) : Tail(q)[i] = q[i + 1]
      /\ Head(q) = q[1]
  OBVIOUS
<1>2. f \in [A -> B]
  BY <1>1 DEF NeedyAt
<1>3. \A i, j \in A : f[i] = f[j] => i = j
  BY <1>1 DEF NeedyAt
<1>4. ASSUME NEW j \in B
      PROVE  \E i \in A : f[i] = j
  <2>1. j \in Nat /\ j - 1 \in A
    BY <1>1 DEF NeedyAt
  <2>2. f[j - 1] = j
    BY <2>1
  <2> QED
    BY <2>1, <2>2, Zenon
<1>5. f \in Bijection(A, B)
  BY <1>2, <1>3, <1>4 DEF Bijection, Injection, IsInjective, Surjection
<1>6. IsFiniteSet(A)
  BY <1>1, UnreadType
<1>7. Cardinality(B) = Cardinality(A)
  BY <1>5, <1>6, FS_Bijection DEF ExistsBijection
<1>8. Cardinality(B) = IF 1 \in NeedyAt(q, k) THEN Cardinality(NeedyAt(q, k)) - 1
                                              ELSE Cardinality(NeedyAt(q, k))
  BY UnreadType, FS_RemoveElement
<1>9. 1 \in NeedyAt(q, k) <=> Needy(Head(q), k)
  BY <1>1 DEF NeedyAt
<1>10. Cardinality(NeedyAt(q, k)) \in Nat
  BY UnreadType DEF Unread
<1> QED
  BY <1>7, <1>8, <1>9, <1>10 DEF Unread, One

-----------------------------------------------------------------------------
(* The files before the first crash.                                       *)

\* This step brings job k into a state that reads a record, or adds a record.
Reads(k) == job_state'[k] # job_state[k] /\ ReadsRecord(job_state'[k])
Adds(k)  == records'[k] > records[k]

\* Each state of job k that was written to job.state has its record in job.history,
\* and so will the states that queued messages lead to.
LinesOf(k) ==
  /\ recs[k] \in Seq(Hosts \union {NoHost})
  /\ log[k].needs \in Nat
  /\ log[k].needs + Unread(dmq, k) <= Len(recs[k])

LinesInv == \A k \in Jobs : LinesOf(k)

\* What a step may do to the queue and the records so that the lines agree.
Balanced(k) == One(Reads(k)) + Unread(dmq', k) <= Unread(dmq, k) + One(Adds(k))

\* gw_job_set_state and gw_job_history_add write what the step did.
LEMMA LinesStep ==
  ASSUME LinesInv, Save, HistoryTyped', QueueTyped, QueueTyped',
         NEW k \in Jobs, Balanced(k)
  PROVE  LinesOf(k)'
<1>1. Unread(dmq, k) \in Nat /\ Unread(dmq', k) \in Nat
  BY UnreadType DEF QueueTyped
<1>2. recs[k] \in Seq(Hosts \union {NoHost}) /\ log[k].needs \in Nat
      /\ log[k].needs + Unread(dmq, k) <= Len(recs[k])
  BY DEF LinesInv, LinesOf
<1>3. One(Reads(k)) \in {0, 1} /\ One(Adds(k)) \in {0, 1}
  BY OneType
<1>4. log'[k].needs \in Nat /\ log'[k].needs <= log[k].needs + One(Reads(k))
  <2>1. log'[k] = IF InPool(job_state', k) /\ (job_state'[k] # job_state[k] \/ SetAgain(k))
                    THEN AddLine(log[k], job_state'[k]) ELSE log[k]
    BY DEF Save, SaveStates
  <2>2. AddLine(log[k], job_state'[k]).needs
          = log[k].needs + One(ReadsRecord(job_state'[k]))
    BY DEF AddLine
  <2>3. job_state'[k] = job_state[k] /\ SetAgain(k) => ~ReadsRecord(job_state'[k])
    BY DEF SetAgain, AlwaysSet, ReadsRecord
  <2> QED
    BY <1>2, <2>1, <2>2, <2>3 DEF Reads, One
<1>5. /\ recs'[k] \in Seq(Hosts \union {NoHost})
      /\ Len(recs'[k]) = Len(recs[k]) + One(Adds(k))
  <2>1. recs'[k] = IF Adds(k) THEN Append(recs[k], host'[k]) ELSE recs[k]
    BY DEF Save, SaveRecords, Adds
  <2>2. host'[k] \in Hosts \union {NoHost}
    BY DEF HistoryTyped
  <2>3. CASE Adds(k)
    <3>1. recs'[k] = Append(recs[k], host'[k]) /\ One(Adds(k)) = 1
      BY <2>1, <2>3 DEF One
    <3> QED
      BY <1>2, <2>2, <3>1
  <2>4. CASE ~Adds(k)
    <3>1. recs'[k] = recs[k] /\ One(Adds(k)) = 0
      BY <2>1, <2>4 DEF One
    <3> QED
      BY <1>2, <3>1
  <2> QED
    BY <2>3, <2>4
<1>6. Len(recs[k]) \in Nat
  BY <1>2
<1>7. log'[k].needs + Unread(dmq', k) <= Len(recs'[k])
  <2> DEFINE r == One(Reads(k))
             a == One(Adds(k))
  <2>1. r + Unread(dmq', k) <= Unread(dmq, k) + a
    BY DEF Balanced
  <2>2. r \in Int /\ a \in Int
    BY <1>3
  <2>3. log'[k].needs <= log[k].needs + r /\ Len(recs'[k]) = Len(recs[k]) + a
    BY <1>4, <1>5
  <2> HIDE DEF r, a
  <2>4. Unread(dmq', k) \in Int /\ Unread(dmq, k) \in Int
    BY <1>1
  <2>5. log[k].needs + Unread(dmq, k) <= Len(recs[k])
    BY <1>2
  <2>6. log[k].needs \in Int
    BY <1>2
  <2>7. log[k].needs + (r + Unread(dmq', k)) <= Len(recs[k]) + a
    BY <1>6, <2>1, <2>2, <2>4, <2>5, <2>6
  <2>8. log'[k].needs + Unread(dmq', k) <= log[k].needs + (r + Unread(dmq', k))
    BY <1>4, <2>2, <2>3, <2>4, <2>6
  <2>9. log'[k].needs + Unread(dmq', k) <= Len(recs[k]) + a
    BY <1>4, <1>6, <2>2, <2>4, <2>6, <2>7, <2>8
  <2> QED
    BY <2>3, <2>9, Zenon
<1> QED
  BY <1>4, <1>5, <1>7 DEF LinesOf

\* The step posts one message, m, or none, and may take one.
Posts(m) ==
  \/ dmq' \in {dmq, Append(dmq, m)}
  \/ dmq # <<>> /\ dmq' \in {Tail(dmq), Append(Tail(dmq), m)}

\* A step that posts no message of a dispatch, and brings no job into a state that
\* reads a record, keeps the lines in agreement.
LEMMA QuietStep ==
  ASSUME QueueTyped, NEW j \in Jobs,
         NEW b \in DMActions \ {"PROLOG", "MIGR_CANCEL"}, Posts(<<b, j>>),
         NEW k \in Jobs, ~Reads(k)
  PROVE  Balanced(k)
<1> DEFINE S == DMActions \X Jobs
<1>1. dmq \in Seq(S) /\ <<b, j>> \in S /\ (dmq # <<>> => Tail(dmq) \in Seq(S))
  BY DEF QueueTyped
<1>2. One(Needy(<<b, j>>, k)) = 0
  BY DEF Needy, One
<1>3. /\ One(Reads(k)) = 0 /\ One(Adds(k)) \in {0, 1}
      /\ \A m : One(m) \in {0, 1}
  BY OneType DEF One
<1>4. Unread(dmq, k) \in Nat
  BY <1>1, UnreadType
<1>5. Unread(dmq', k) \in Int /\ Unread(dmq', k) <= Unread(dmq, k)
  <2>1. CASE dmq' = dmq
    BY <1>4, <2>1
  <2>2. CASE dmq' = Append(dmq, <<b, j>>)
    BY <1>1, <1>2, <1>4, <2>2, UnreadAppend
  <2>3. CASE dmq # <<>> /\ dmq' = Tail(dmq)
    BY <1>1, <1>3, <1>4, <2>3, UnreadTail
  <2>4. CASE dmq # <<>> /\ dmq' = Append(Tail(dmq), <<b, j>>)
    <3>1. Unread(dmq', k) = Unread(Tail(dmq), k) + 0
      BY <1>1, <1>2, <2>4, UnreadAppend
    <3>2. Unread(Tail(dmq), k) = Unread(dmq, k) - One(Needy(Head(dmq), k))
      BY <1>1, <2>4, UnreadTail
    <3> QED
      BY <1>3, <1>4, <3>1, <3>2
  <2> QED
    BY <2>1, <2>2, <2>3, <2>4 DEF Posts
<1> QED
  BY <1>3, <1>4, <1>5 DEF Balanced

\* The messages that no dispatch posts.
Other == DMActions \ {"PROLOG", "MIGR_CANCEL"}

\* A step that posts such a message at most, on job j.
Calm(j) ==
  /\ \E b \in Other : Posts(<<b, j>>)
  /\ \A k \in Jobs : ~Reads(k)

\* A handler that takes its job to a state that reads no record reads none.
LEMMA ReadsNone ==
  ASSUME StatesTyped, NEW j \in Jobs, NEW s, ~ReadsRecord(s),
         job_state' \in {job_state, [job_state EXCEPT ![j] = s]}
  PROVE  \A k \in Jobs : ~Reads(k)
  BY DEF StatesTyped, Reads

\* A handler that takes its message and posts at most the message <<b, j>>.
LEMMA PostsOther ==
  ASSUME NEW j \in Jobs, NEW b \in Other, dmq # <<>>,
         Done \/ DoneAndTrigger(b, j)
  PROVE  \E c \in Other : Posts(<<c, j>>)
  BY DEF Posts, Done, DoneAndTrigger

\* A step that leaves the queue alone posts nothing.
LEMMA WaitPosted ==
  ASSUME NEW j \in Jobs, dmq' = dmq
  PROVE  \E c \in Other : Posts(<<c, j>>)
  BY DEF Posts, Other, DMActions, ClientOps

\* Calm steps: every handler but those of the messages of a dispatch, the clients, the
\* EM and the TM post no such message and bring no job into a state that reads a record.
LEMMA CalmSteps ==
  ASSUME StatesTyped, NEW i \in Jobs,
         \/ Submit(i) \/ DMStep(i) \/ EMStep(i) \/ TMStep(i)
         \/ \E op \in UserOps : Request(op, i)
  PROVE  Calm(i) \/ Prolog(i, "PROLOG") \/ MigrCancel(i)
<1>1. ASSUME NEW j \in Jobs, NEW a \in DMActions, MissingJob(a, j)
      PROVE  Calm(j)
  <2>1. \E b \in Other : Posts(<<b, j>>)
    BY <1>1, PostsOther DEF MissingJob, Handle, StateActions, EpilogStates, ClientOps, Callbacks, DMActions, Other
  <2>2. \A k \in Jobs : ~Reads(k)
    BY <1>1 DEF MissingJob, Reads
  <2> QED
    BY <2>1, <2>2 DEF Calm
<1>2. ASSUME NEW j \in Jobs, Hold(j)
      PROVE  Calm(j)
  <2>1. \E b \in Other : Posts(<<b, j>>)
    BY <1>2, PostsOther DEF Hold, Handle, StateActions, EpilogStates, ClientOps, Callbacks, DMActions, Other
  <2>2. \A k \in Jobs : ~Reads(k)
    BY <1>2, ReadsNone DEF Hold, SetState, ReadsRecord
  <2> QED
    BY <2>1, <2>2 DEF Calm
<1>3. ASSUME NEW j \in Jobs, Release(j)
      PROVE  Calm(j)
  <2>1. \E b \in Other : Posts(<<b, j>>)
    BY <1>3, PostsOther DEF Release, Handle, StateActions, EpilogStates, ClientOps, Callbacks, DMActions, Other
  <2>2. \A k \in Jobs : ~Reads(k)
    BY <1>3, ReadsNone DEF Release, SetState, ReadsRecord
  <2> QED
    BY <2>1, <2>2 DEF Calm
<1>4. ASSUME NEW j \in Jobs, Kill(j)
      PROVE  Calm(j)
  <2>1. \E b \in Other : Posts(<<b, j>>)
    <3>1. dmq # <<>> /\ Done
      BY <1>4 DEF Kill, PoolFree, Handle
    <3>2. "WAIT" \in Other
      BY DEF DMActions, ClientOps, Other
    <3> QED
      BY <3>1, <3>2, PostsOther
  <2>2. \A k \in Jobs : ~Reads(k)
    <3>1. \E s \in {"FREED", "KILL_CANCEL"} : job_state' \in {job_state, [job_state EXCEPT ![j] = s]}
      BY <1>4 DEF Kill, PoolFree, SetState
    <3>2. \A s \in {"FREED", "KILL_CANCEL"} : ~ReadsRecord(s)
      BY DEF ReadsRecord
    <3> QED
      BY <3>1, <3>2, ReadsNone
  <2> QED
    BY <2>1, <2>2 DEF Calm
<1>5. ASSUME NEW j \in Jobs, KillHard(j)
      PROVE  Calm(j)
  <2>1. \E b \in Other : Posts(<<b, j>>)
    <3>1. dmq # <<>> /\ Done
      BY <1>5 DEF KillHard, PoolFree, Handle
    <3>2. "WAIT" \in Other
      BY DEF DMActions, ClientOps, Other
    <3> QED
      BY <3>1, <3>2, PostsOther
  <2>2. \A k \in Jobs : ~Reads(k)
    <3>1. job_state' \in {job_state, [job_state EXCEPT ![j] = "FREED"]}
      BY <1>5 DEF KillHard, PoolFree, SetState
    <3>2. ~ReadsRecord("FREED")
      BY DEF ReadsRecord
    <3> QED
      BY <3>1, <3>2, ReadsNone
  <2> QED
    BY <2>1, <2>2 DEF Calm
<1>6. ASSUME NEW j \in Jobs, Stop(j)
      PROVE  Calm(j)
  <2>1. \E b \in Other : Posts(<<b, j>>)
    BY <1>6, PostsOther DEF Stop, Handle, StateActions, EpilogStates, ClientOps, Callbacks, DMActions, Other
  <2>2. \A k \in Jobs : ~Reads(k)
    BY <1>6, ReadsNone DEF Stop, SetState, ReadsRecord
  <2> QED
    BY <2>1, <2>2 DEF Calm
<1>7. ASSUME NEW j \in Jobs, Resume(j)
      PROVE  Calm(j)
  <2>1. \E b \in Other : Posts(<<b, j>>)
    BY <1>7, PostsOther DEF Resume, Handle, StateActions, EpilogStates, ClientOps, Callbacks, DMActions, Other
  <2>2. \A k \in Jobs : ~Reads(k)
    BY <1>7, ReadsNone DEF Resume, SetState, ReadsRecord
  <2> QED
    BY <2>1, <2>2 DEF Calm
<1>8. ASSUME NEW j \in Jobs, Reschedule(j)
      PROVE  Calm(j)
  <2>1. \E b \in Other : Posts(<<b, j>>)
    BY <1>8, PostsOther DEF Reschedule, Handle, StateActions, EpilogStates, ClientOps, Callbacks, DMActions, Other
  <2>2. \A k \in Jobs : ~Reads(k)
    BY <1>8, ReadsNone DEF Reschedule, SetState, ReadsRecord
  <2> QED
    BY <2>1, <2>2 DEF Calm
<1>9. ASSUME NEW j \in Jobs, Wait(j)
      PROVE  Calm(j)
  <2>1. \E b \in Other : Posts(<<b, j>>)
    BY <1>9, PostsOther DEF Wait, Handle, StateActions, EpilogStates, ClientOps, Callbacks, DMActions, Other
  <2>2. \A k \in Jobs : ~Reads(k)
    BY <1>9 DEF Wait, Reads
  <2> QED
    BY <2>1, <2>2 DEF Calm
<1>10. ASSUME NEW j \in Jobs, Prolog(j, "MIGR_PROLOG")
      PROVE  Calm(j)
  <2>1. \E b \in Other : Posts(<<b, j>>)
    BY <1>10, PostsOther DEF Prolog, Handle, StateActions, EpilogStates, ClientOps, Callbacks, DMActions, Other
  <2>2. \A k \in Jobs : ~Reads(k)
    <3>1. job_state' \in {job_state, [job_state EXCEPT ![j] = "MIGR_PROLOG"]}
      BY <1>10 DEF Prolog, SetState
    <3>2. ~ReadsRecord("MIGR_PROLOG")
      BY DEF ReadsRecord
    <3> QED
      BY <3>1, <3>2, ReadsNone
  <2> QED
    BY <2>1, <2>2 DEF Calm
<1>11. ASSUME NEW j \in Jobs, PrologDone(j)
      PROVE  Calm(j)
  <2>1. \E b \in Other : Posts(<<b, j>>)
    BY <1>11, PostsOther DEF PrologDone, Handle, StateActions, EpilogStates, ClientOps, Callbacks, DMActions, Other
  <2>2. \A k \in Jobs : ~Reads(k)
    BY <1>11 DEF PrologDone, Reads
  <2> QED
    BY <2>1, <2>2 DEF Calm
<1>12. ASSUME NEW j \in Jobs, PrologFailed(j)
      PROVE  Calm(j)
  <2>1. \E b \in Other : Posts(<<b, j>>)
    BY <1>12, PostsOther DEF PrologFailed, OnFailure, Handle, StateActions, EpilogStates, ClientOps, Callbacks, DMActions, Other
  <2>2. \A k \in Jobs : ~Reads(k)
    BY <1>12 DEF PrologFailed, OnFailure, Reads
  <2> QED
    BY <2>1, <2>2 DEF Calm
<1>13. ASSUME NEW j \in Jobs, NEW s \in {"PRE_WRAPPER", "WRAPPER"}, Wrapper(j, s)
      PROVE  Calm(j)
  <2>1. \E b \in Other : Posts(<<b, j>>)
    BY <1>13, PostsOther DEF Wrapper, Handle, StateActions, EpilogStates, ClientOps, Callbacks, DMActions, Other
  <2>2. \A k \in Jobs : ~Reads(k)
    BY <1>13, ReadsNone DEF Wrapper, SetState, ReadsRecord
  <2> QED
    BY <2>1, <2>2 DEF Calm
<1>14. ASSUME NEW j \in Jobs, WrapperDone(j)
      PROVE  Calm(j)
  <2>1. \E b \in Other : Posts(<<b, j>>)
    BY <1>14, PostsOther DEF WrapperDone, Handle, StateActions, EpilogStates, ClientOps, Callbacks, DMActions, Other
  <2>2. \A k \in Jobs : ~Reads(k)
    BY <1>14 DEF WrapperDone, Reads
  <2> QED
    BY <2>1, <2>2 DEF Calm
<1>15. ASSUME NEW j \in Jobs, WrapperFailed(j)
      PROVE  Calm(j)
  <2>1. \E b \in Other : Posts(<<b, j>>)
    BY <1>15, PostsOther DEF WrapperFailed, Handle, StateActions, EpilogStates, ClientOps, Callbacks, DMActions, Other
  <2>2. \A k \in Jobs : ~Reads(k)
    BY <1>15 DEF WrapperFailed, Reads
  <2> QED
    BY <2>1, <2>2 DEF Calm
<1>16. ASSUME NEW j \in Jobs, NEW s \in EpilogStates, Epilog(j, s)
      PROVE  Calm(j)
  <2>1. \E b \in Other : Posts(<<b, j>>)
    BY <1>16, PostsOther DEF Epilog, EpilogStates, Handle, StateActions, EpilogStates, ClientOps, Callbacks, DMActions, Other
  <2>2. \A k \in Jobs : ~Reads(k)
    BY <1>16, ReadsNone DEF Epilog, EpilogStates, SetState, ReadsRecord
  <2> QED
    BY <2>1, <2>2 DEF Calm
<1>17. ASSUME NEW j \in Jobs, EpilogDoneStd(j)
      PROVE  Calm(j)
  <2>1. \E b \in Other : Posts(<<b, j>>)
    BY <1>17, PostsOther DEF EpilogDoneStd, Handle, StateActions, EpilogStates, ClientOps, Callbacks, DMActions, Other
  <2>2. \A k \in Jobs : ~Reads(k)
    BY <1>17 DEF EpilogDoneStd, Reads
  <2> QED
    BY <2>1, <2>2 DEF Calm
<1>18. ASSUME NEW j \in Jobs, EpilogFailedStd(j)
      PROVE  Calm(j)
  <2>1. \E b \in Other : Posts(<<b, j>>)
    BY <1>18, PostsOther DEF EpilogFailedStd, Handle, StateActions, EpilogStates, ClientOps, Callbacks, DMActions, Other
  <2>2. \A k \in Jobs : ~Reads(k)
    BY <1>18 DEF EpilogFailedStd, Reads
  <2> QED
    BY <2>1, <2>2 DEF Calm
<1>19. ASSUME NEW j \in Jobs, EpilogEnded(j)
      PROVE  Calm(j)
  <2>1. \E b \in Other : Posts(<<b, j>>)
    BY <1>19, PostsOther DEF EpilogEnded, OnFailure, Handle, StateActions, EpilogStates, ClientOps, Callbacks, DMActions, Other
  <2>2. \A k \in Jobs : ~Reads(k)
    BY <1>19 DEF EpilogEnded, OnFailure, Reads
  <2> QED
    BY <2>1, <2>2 DEF Calm
<1>20. ASSUME NEW j \in Jobs, EpilogDone(j)
      PROVE  Calm(j)
  <2>1. \E b \in Other : Posts(<<b, j>>)
    BY <1>20, PostsOther DEF EpilogDone, OnFailure, Handle, StateActions, EpilogStates, ClientOps, Callbacks, DMActions, Other
  <2>2. \A k \in Jobs : ~Reads(k)
    BY <1>20 DEF EpilogDone, OnFailure, Reads
  <2> QED
    BY <2>1, <2>2 DEF Calm
<1>21. ASSUME NEW j \in Jobs, EpilogFailed(j)
      PROVE  Calm(j)
  <2>1. \E b \in Other : Posts(<<b, j>>)
    BY <1>21, PostsOther DEF EpilogFailed, OnFailure, Handle, StateActions, EpilogStates, ClientOps, Callbacks, DMActions, Other
  <2>2. \A k \in Jobs : ~Reads(k)
    BY <1>21 DEF EpilogFailed, OnFailure, Reads
  <2> QED
    BY <2>1, <2>2 DEF Calm
<1>22. ASSUME NEW j \in Jobs, Pending(j)
      PROVE  Calm(j)
  <2>1. \E b \in Other : Posts(<<b, j>>)
    BY <1>22, PostsOther DEF Pending, Handle, StateActions, EpilogStates, ClientOps, Callbacks, DMActions, Other
  <2>2. \A k \in Jobs : ~Reads(k)
    <3>1. job_state' \in {job_state, [job_state EXCEPT ![j] = "PENDING"]}
      BY <1>22 DEF Pending, SetState
    <3>2. ~ReadsRecord("PENDING")
      BY DEF ReadsRecord
    <3> QED
      BY <3>1, <3>2, ReadsNone
  <2> QED
    BY <2>1, <2>2 DEF Calm
<1>23. ASSUME NEW j \in Jobs, Stopped(j)
      PROVE  Calm(j)
  <2>1. \E b \in Other : Posts(<<b, j>>)
    <3>1. dmq # <<>> /\ Done
      BY <1>23 DEF Stopped, Handle
    <3>2. "WAIT" \in Other
      BY DEF DMActions, ClientOps, Other
    <3> QED
      BY <3>1, <3>2, PostsOther
  <2>2. \A k \in Jobs : ~Reads(k)
    <3>1. job_state' \in {job_state, [job_state EXCEPT ![j] = "STOPPED"]}
      BY <1>23 DEF Stopped, SetState
    <3>2. ~ReadsRecord("STOPPED")
      BY DEF ReadsRecord
    <3> QED
      BY <3>1, <3>2, ReadsNone
  <2> QED
    BY <2>1, <2>2 DEF Calm
<1>24. ASSUME NEW j \in Jobs, Failed(j)
      PROVE  Calm(j)
  <2>1. \E b \in Other : Posts(<<b, j>>)
    <3>1. dmq # <<>> /\ Done
      BY <1>24 DEF Failed, Handle
    <3>2. "WAIT" \in Other
      BY DEF DMActions, ClientOps, Other
    <3> QED
      BY <3>1, <3>2, PostsOther
  <2>2. \A k \in Jobs : ~Reads(k)
    <3>1. job_state' \in {job_state, [job_state EXCEPT ![j] = "FAILED"]}
      BY <1>24 DEF Failed, SetState
    <3>2. ~ReadsRecord("FAILED")
      BY DEF ReadsRecord
    <3> QED
      BY <3>1, <3>2, ReadsNone
  <2> QED
    BY <2>1, <2>2 DEF Calm
<1>25. ASSUME NEW j \in Jobs, Zombie(j)
      PROVE  Calm(j)
  <2>1. \E b \in Other : Posts(<<b, j>>)
    <3>1. dmq # <<>> /\ (Done \/ DoneAndTrigger("KILL", j))
      BY <1>25 DEF Zombie, Handle
    <3>2. "KILL" \in Other
      BY DEF DMActions, ClientOps, Other
    <3> QED
      BY <3>1, <3>2, PostsOther
  <2>2. \A k \in Jobs : ~Reads(k)
    <3>1. CASE job_state' = job_state
      BY <3>1 DEF Reads
    <3>2. CASE DepCheck(j)
      <4>1. \A k \in Jobs : job_state'[k] \in {"ZOMBIE", "PENDING", job_state[k]}
        BY <3>2 DEF DepCheck
      <4> QED
        BY <4>1 DEF Reads, ReadsRecord
    <3>3. CASE PoolFree(j)
      <4>1. job_state' = [job_state EXCEPT ![j] = "FREED"] /\ ~ReadsRecord("FREED")
        BY <3>3 DEF PoolFree, SetState, ReadsRecord
      <4> QED
        BY <4>1, ReadsNone
    <3> QED
      BY <1>25, <3>1, <3>2, <3>3 DEF Zombie
  <2> QED
    BY <2>1, <2>2 DEF Calm
<1>26. ASSUME NEW j \in Jobs, Submit(j)
      PROVE  Calm(j)
  <2>1. \E b \in Other : Posts(<<b, j>>)
    BY <1>26, WaitPosted DEF Submit
  <2>2. \A k \in Jobs : ~Reads(k)
    BY <1>26, ReadsNone DEF Submit, SetState, ReadsRecord
  <2> QED
    BY <2>1, <2>2 DEF Calm
<1>27. ASSUME NEW j \in Jobs, NEW op \in UserOps, Request(op, j)
      PROVE  Calm(j)
  <2>1. \E b \in Other : Posts(<<b, j>>)
    BY <1>27, DMAssumption DEF Posts, Request, Other, DMActions, ClientOps
  <2>2. \A k \in Jobs : ~Reads(k)
    BY <1>27 DEF Request, Reads
  <2> QED
    BY <2>1, <2>2 DEF Calm
<1>28. ASSUME NEW j \in Jobs, EMSubmit(j)
      PROVE  Calm(j)
  <2>1. \E b \in Other : Posts(<<b, j>>)
    BY <1>28, DMAssumption DEF Posts, EMSubmit, Other, DMActions, Callbacks
  <2>2. \A k \in Jobs : ~Reads(k)
    BY <1>28 DEF EMSubmit, Reads
  <2> QED
    BY <2>1, <2>2 DEF Calm
<1>29. ASSUME NEW j \in Jobs, NEW s \in Submitted, EMState(j, s)
      PROVE  Calm(j)
  <2>1. \E b \in Other : Posts(<<b, j>>)
    BY <1>29, WaitPosted DEF EMState
  <2>2. \A k \in Jobs : ~Reads(k)
    BY <1>29 DEF EMState, Reads
  <2> QED
    BY <2>1, <2>2 DEF Calm
<1>30. ASSUME NEW j \in Jobs, NEW h \in Hosts, EMDone(j, h)
      PROVE  Calm(j)
  <2>1. \E b \in Other : Posts(<<b, j>>)
    BY <1>30, DMAssumption DEF Posts, EMDone, Other, DMActions, Callbacks
  <2>2. \A k \in Jobs : ~Reads(k)
    BY <1>30 DEF EMDone, Reads
  <2> QED
    BY <2>1, <2>2 DEF Calm
<1>31. ASSUME NEW j \in Jobs, NEW h \in Hosts, EMFailed(j, h)
      PROVE  Calm(j)
  <2>1. \E b \in Other : Posts(<<b, j>>)
    BY <1>31, DMAssumption DEF Posts, EMFailed, Other, DMActions, Callbacks
  <2>2. \A k \in Jobs : ~Reads(k)
    BY <1>31 DEF EMFailed, Reads
  <2> QED
    BY <2>1, <2>2 DEF Calm
<1>32. ASSUME NEW j \in Jobs, EMRetry(j)
      PROVE  Calm(j)
  <2>1. \E b \in Other : Posts(<<b, j>>)
    BY <1>32, WaitPosted DEF EMRetry
  <2>2. \A k \in Jobs : ~Reads(k)
    BY <1>32 DEF EMRetry, Reads
  <2> QED
    BY <2>1, <2>2 DEF Calm
<1>33. ASSUME NEW j \in Jobs, NEW a \in Callbacks, TMAnswer(j, a)
      PROVE  Calm(j)
  <2>1. \E b \in Other : Posts(<<b, j>>)
    BY <1>33, DMAssumption DEF Posts, TMAnswer, Other, DMActions, Callbacks
  <2>2. \A k \in Jobs : ~Reads(k)
    BY <1>33 DEF TMAnswer, Reads
  <2> QED
    BY <2>1, <2>2 DEF Calm
<1> QED
  BY <1>1, <1>2, <1>3, <1>4, <1>5, <1>6, <1>7, <1>8, <1>9, <1>10, <1>11, <1>12, <1>13,
     <1>14, <1>15, <1>16, <1>17, <1>18, <1>19, <1>20, <1>21, <1>22, <1>23, <1>24, <1>25,
     <1>26, <1>27, <1>28, <1>29, <1>30, <1>31, <1>32, <1>33, Zenon DEF DMStep, EMStep, TMStep

\* A message that needs a record takes its job to a state that reads one, or nowhere.
LEMMA TakesOne ==
  ASSUME StatesTyped, QueueTyped, NEW j \in Jobs, NEW a \in {"PROLOG", "MIGR_CANCEL"},
         dmq # <<>>, Head(dmq) = <<a, j>>,
         job_state' \in {job_state, [job_state EXCEPT ![j] = a]},
         \/ Done
         \/ \E b \in Other : DoneAndTrigger(b, j),
         NEW k \in Jobs
  PROVE  Balanced(k)
<1> DEFINE S == DMActions \X Jobs
<1>1. dmq \in Seq(S) /\ Tail(dmq) \in Seq(S)
  BY DEF QueueTyped
<1>2. Unread(Tail(dmq), k) = Unread(dmq, k) - One(Needy(Head(dmq), k))
  BY <1>1, UnreadTail
<1>3. Unread(dmq', k) = Unread(Tail(dmq), k)
  <2>1. CASE Done
    BY <2>1 DEF Done
  <2>2. ASSUME NEW b \in Other, DoneAndTrigger(b, j)
        PROVE  Unread(dmq', k) = Unread(Tail(dmq), k)
    <3>1. One(Needy(<<b, j>>, k)) = 0
      BY DEF Needy, One, Other
    <3>2. <<b, j>> \in S
      BY DEF Other
    <3>3. Unread(Append(Tail(dmq), <<b, j>>), k)
            = Unread(Tail(dmq), k) + One(Needy(<<b, j>>, k))
      <4> DEFINE q == Tail(dmq)
      <4>1. q \in Seq(S)
        BY <1>1
      <4> HIDE DEF q
      <4>2. Unread(Append(q, <<b, j>>), k) = Unread(q, k) + One(Needy(<<b, j>>, k))
        BY <3>2, <4>1, UnreadAppend
      <4> QED
        BY <4>2 DEF q
    <3>4. Unread(Tail(dmq), k) \in Nat
      BY <1>1, UnreadType
    <3> QED
      BY <2>2, <3>1, <3>3, <3>4 DEF DoneAndTrigger
  <2> QED
    BY <2>1, <2>2
<1>4. Needy(Head(dmq), k) <=> k = j
  BY DEF Needy
<1>5. Reads(k) => k = j
  BY DEF StatesTyped, Reads
<1>6. One(Reads(k)) <= One(Needy(Head(dmq), k))
  BY <1>4, <1>5 DEF One
<1>7. Unread(dmq, k) \in Nat
  BY <1>1, UnreadType
<1>8. One(Adds(k)) \in {0, 1} /\ One(Reads(k)) \in {0, 1} /\ One(Needy(Head(dmq), k)) \in {0, 1}
  BY OneType
<1> QED
  BY <1>2, <1>3, <1>6, <1>7, <1>8 DEF Balanced

\* gw_dm_dispatch_job adds a record and posts the message whose handler will use it.
LEMMA DispatchAdds ==
  ASSUME HistoryTyped, QueueTyped, NEW j \in Jobs, NEW a \in {"PROLOG", "MIGR_CANCEL"}, NEW h,
         HistoryAdd(j, h), dmq' = Append(dmq, <<a, j>>), UNCHANGED job_state, NEW k \in Jobs
  PROVE  Balanced(k)
<1>1. dmq \in Seq(DMActions \X Jobs) /\ <<a, j>> \in DMActions \X Jobs
  BY DEF QueueTyped, DMActions, StateActions
<1>2. Unread(dmq', k) = Unread(dmq, k) + One(Needy(<<a, j>>, k))
  BY <1>1, UnreadAppend
<1>3. One(Needy(<<a, j>>, k)) = One(Adds(k))
  BY DEF Needy, Adds, HistoryAdd, HistoryTyped, One
<1>4. One(Reads(k)) = 0
  BY DEF Reads, One
<1>5. Unread(dmq, k) \in Nat /\ One(Adds(k)) \in {0, 1}
  BY <1>1, UnreadType, OneType
<1> QED
  BY <1>2, <1>3, <1>4, <1>5 DEF Balanced

\* Every step of the clients and of the threads of gwd keeps the lines in agreement.
LEMMA BalancedStep ==
  ASSUME TypeOK, ClientStep \/ DaemonStep, NEW k \in Jobs
  PROVE  Balanced(k)
<1> USE DEF TypeOK
<1>1. ASSUME NEW j \in Jobs, Calm(j)
      PROVE  Balanced(k)
  BY <1>1, QuietStep DEF Calm, Other
<1>2. ASSUME NEW j \in Jobs, Prolog(j, "PROLOG")
      PROVE  Balanced(k)
  <2>1. "PROLOG_FAILED" \in Other
    BY DEF Other, DMActions, Callbacks
  <2> QED
    BY <1>2, <2>1, TakesOne DEF Prolog, Handle, SetState
<1>3. ASSUME NEW j \in Jobs, MigrCancel(j)
      PROVE  Balanced(k)
  BY <1>3, TakesOne DEF MigrCancel, Handle, SetState
<1>4. ASSUME NEW j \in Jobs, NEW h \in Hosts \union {NoHost}, DispatchPending(j, h)
      PROVE  Balanced(k)
  BY <1>4, DispatchAdds DEF DispatchPending
<1>5. ASSUME NEW j \in Jobs, NEW h \in Hosts \union {NoHost}, DispatchMigration(j, h)
      PROVE  Balanced(k)
  BY <1>5, DispatchAdds DEF DispatchMigration
<1>6. ASSUME UNCHANGED <<job_state, dmq>>
      PROVE  Calm(k)
  BY <1>6, WaitPosted DEF Calm, Reads
<1>7. ASSUME NEW j \in Jobs, NEW h \in Hosts \union {NoHost},
             UncheckJob(j, h) \/ DispatchRefused(j, h) \/ DispatchUnsaved(j, h)
      PROVE  Balanced(k)
  BY <1>1, <1>6, <1>7 DEF UncheckJob, DispatchRefused, DispatchUnsaved
<1>8. CASE Schedule \/ ScheduleEnd
  BY <1>1, <1>6, <1>8 DEF Schedule, ScheduleEnd
<1>9. CASE ListenerStep
  BY <1>4, <1>5, <1>7, <1>8, <1>9 DEF ListenerStep
<1>10. ASSUME NEW j \in Jobs, \/ Submit(j) \/ DMStep(j) \/ EMStep(j) \/ TMStep(j)
                              \/ \E op \in UserOps : Request(op, j)
       PROVE  Balanced(k)
  BY <1>1, <1>2, <1>3, <1>10, CalmSteps
<1> QED
  BY <1>8, <1>9, <1>10, Zenon DEF ClientStep, DaemonStep

-----------------------------------------------------------------------------
(* A job that is not in the pool does not come back by itself.             *)

Absent(k) == job_state[k] = "FREED" /\ records[k] = 0

Kept == /\ DOMAIN job_state' = Jobs /\ DOMAIN records' = Jobs
        /\ \A k \in Jobs : Absent(k) => Absent(k)'

\* The step sets the state and the records of job j at most, and j is in the pool.
Own(j) ==
  /\ job_state[j] # "FREED"
  /\ \E s : job_state' \in {job_state, [job_state EXCEPT ![j] = s]}
  /\ \E n : records' \in {records, [records EXCEPT ![j] = n]}

\* What a step sets for a job in the pool leaves the others alone.
LEMMA OwnKeeps ==
  ASSUME DOMAIN job_state = Jobs, DOMAIN records = Jobs, NEW j \in Jobs, Own(j)
  PROVE  Kept
  BY DEF Own, Kept, Absent

\* The handlers, the clients and the dispatches: one step per action that sets a state or a record.
LEMMA KeptSteps ==
  ASSUME DOMAIN job_state = Jobs, DOMAIN records = Jobs, ClientStep \/ DaemonStep
  PROVE  Kept
<1>1. ASSUME NEW j \in Jobs, Hold(j)
      PROVE  Own(j)
  BY <1>1 DEF Hold, Own, Handle, SetState, jobv
<1>2. ASSUME NEW j \in Jobs, Release(j)
      PROVE  Own(j)
  BY <1>2 DEF Release, Own, Handle, SetState, jobv
<1>3. ASSUME NEW j \in Jobs, Kill(j)
      PROVE  Own(j)
  BY <1>3 DEF Kill, PoolFree, Own, Handle, SetState, jobv
<1>4. ASSUME NEW j \in Jobs, KillHard(j)
      PROVE  Own(j)
  BY <1>4 DEF KillHard, PoolFree, Own, Handle, SetState, jobv
<1>5. ASSUME NEW j \in Jobs, Stop(j)
      PROVE  Own(j)
  BY <1>5 DEF Stop, Own, Handle, SetState, jobv
<1>6. ASSUME NEW j \in Jobs, Resume(j)
      PROVE  Own(j)
  BY <1>6 DEF Resume, Own, Handle, SetState, jobv
<1>7. ASSUME NEW j \in Jobs, Reschedule(j)
      PROVE  Own(j)
  BY <1>7 DEF Reschedule, Own, Handle, SetState, jobv
<1>8. ASSUME NEW j \in Jobs, Wait(j)
      PROVE  Own(j)
  BY <1>8 DEF Wait, Own, Handle, SetState, jobv
<1>9. ASSUME NEW j \in Jobs, NEW s \in {"PROLOG", "MIGR_PROLOG"}, Prolog(j, s)
      PROVE  Own(j)
  BY <1>9 DEF Prolog, Own, Handle, SetState, jobv
<1>10. ASSUME NEW j \in Jobs, PrologDone(j)
      PROVE  Own(j)
  BY <1>10 DEF PrologDone, Own, Handle, SetState, jobv
<1>11. ASSUME NEW j \in Jobs, PrologFailed(j)
      PROVE  Own(j)
  BY <1>11 DEF PrologFailed, Own, Handle, SetState, jobv
<1>12. ASSUME NEW j \in Jobs, NEW s \in {"PRE_WRAPPER", "WRAPPER"}, Wrapper(j, s)
      PROVE  Own(j)
  BY <1>12 DEF Wrapper, Own, Handle, SetState, jobv
<1>13. ASSUME NEW j \in Jobs, WrapperDone(j)
      PROVE  Own(j)
  BY <1>13 DEF WrapperDone, Own, Handle, SetState, jobv
<1>14. ASSUME NEW j \in Jobs, WrapperFailed(j)
      PROVE  Own(j)
  BY <1>14 DEF WrapperFailed, Own, Handle, SetState, jobv
<1>15. ASSUME NEW j \in Jobs, MigrCancel(j)
      PROVE  Own(j)
  BY <1>15 DEF MigrCancel, Own, Handle, SetState, jobv
<1>16. ASSUME NEW j \in Jobs, NEW s \in EpilogStates, Epilog(j, s)
      PROVE  Own(j)
  BY <1>16 DEF Epilog, Own, Handle, SetState, jobv
<1>17. ASSUME NEW j \in Jobs, EpilogDoneStd(j)
      PROVE  Own(j)
  BY <1>17 DEF EpilogDoneStd, Own, Handle, SetState, jobv
<1>18. ASSUME NEW j \in Jobs, EpilogFailedStd(j)
      PROVE  Own(j)
  BY <1>18 DEF EpilogFailedStd, Own, Handle, SetState, jobv
<1>19. ASSUME NEW j \in Jobs, EpilogEnded(j)
      PROVE  Own(j)
  BY <1>19 DEF EpilogEnded, Own, Handle, SetState, jobv
<1>20. ASSUME NEW j \in Jobs, EpilogDone(j)
      PROVE  Own(j)
  BY <1>20 DEF EpilogDone, Own, Handle, SetState, jobv
<1>21. ASSUME NEW j \in Jobs, EpilogFailed(j)
      PROVE  Own(j)
  BY <1>21 DEF EpilogFailed, Own, Handle, SetState, jobv
<1>22. ASSUME NEW j \in Jobs, Pending(j)
      PROVE  Own(j)
  BY <1>22 DEF Pending, Own, Handle, SetState, jobv
<1>23. ASSUME NEW j \in Jobs, Stopped(j)
      PROVE  Own(j)
  BY <1>23 DEF Stopped, Own, Handle, SetState, jobv
<1>24. ASSUME NEW j \in Jobs, Failed(j)
      PROVE  Own(j)
  BY <1>24 DEF Failed, Own, Handle, SetState, jobv
<1>25. ASSUME NEW j \in Jobs, Submit(j)
      PROVE  Own(j)
  BY <1>25 DEF Submit, Own, Handle, SetState, jobv
<1>26. ASSUME NEW j \in Jobs, NEW h, DispatchPending(j, h)
      PROVE  Own(j)
  BY <1>26 DEF DispatchPending, HistoryAdd, Own, Handle, SetState, jobv
<1>27. ASSUME NEW j \in Jobs, NEW h, DispatchMigration(j, h)
      PROVE  Own(j)
  BY <1>27 DEF DispatchMigration, HistoryAdd, Own, Handle, SetState, jobv
<1>28. ASSUME NEW j \in Jobs, NEW h, DispatchUnsaved(j, h)
      PROVE  Own(j)
  BY <1>28 DEF DispatchUnsaved, HistoryAdd, Own, Handle, SetState, jobv
<1>29. ASSUME NEW j \in Jobs, Zombie(j)
       PROVE  Kept
  <2>1. CASE Own(j)
    BY <2>1, OwnKeeps
  <2>2. CASE DepCheck(j) /\ UNCHANGED records
    BY <1>29, <2>2 DEF DepCheck, MeetsDep, Kept, Absent, Handle, Zombie
  <2> QED
    BY <1>29, <2>1, <2>2 DEF Zombie, PoolFree, Own, SetState, Handle, jobv
<1>30. ASSUME UNCHANGED <<job_state, records>>
       PROVE  Kept
  BY <1>30 DEF Kept, Absent
<1>31. ASSUME NEW j \in Jobs, NEW h,
              UncheckJob(j, h) \/ DispatchRefused(j, h) \/ Schedule \/ ScheduleEnd
       PROVE  UNCHANGED <<job_state, records>>
  BY <1>31 DEF UncheckJob, DispatchRefused, Schedule, ScheduleEnd, jobv
<1>32. ASSUME NEW j \in Jobs, EMStep(j) \/ TMStep(j) \/ \E a \in DMActions : MissingJob(a, j)
       PROVE  UNCHANGED <<job_state, records>>
  BY <1>32 DEF EMStep, TMStep, EMSubmit, EMState, EMDone, EMFailed, EMRetry, TMAnswer,
     MissingJob, jobv
<1>33. ASSUME NEW j \in Jobs, NEW op, Request(op, j)
       PROVE  UNCHANGED <<job_state, records>>
  BY <1>33 DEF Request, jobv
<1>34. CASE Schedule \/ ScheduleEnd
  BY <1>30, <1>34 DEF Schedule, ScheduleEnd, jobv
<1>35. CASE ListenerStep
  BY <1>26, <1>27, <1>28, <1>30, <1>31, <1>34, <1>35, OwnKeeps DEF ListenerStep
<1>36. ASSUME NEW j \in Jobs, DMStep(j)
       PROVE  Kept
  BY <1>1, <1>2, <1>3, <1>4, <1>5, <1>6, <1>7, <1>8, <1>9, <1>10, <1>11, <1>12, <1>13,
     <1>14, <1>15, <1>16, <1>17, <1>18, <1>19, <1>20, <1>21, <1>22, <1>23, <1>24,
     <1>29, <1>30, <1>32, <1>36, OwnKeeps DEF DMStep
<1> QED
  BY <1>25, <1>30, <1>32, <1>33, <1>34, <1>35, <1>36, OwnKeeps DEF ClientStep, DaemonStep

-----------------------------------------------------------------------------
(* The theorem.                                                            *)

\* What makes Recoverable inductive: before the first crash the files agree, and the
\* jobs that wait for their recovery are not in the pool, so that nothing is written
\* for them.
RInv ==
  /\ DOMAIN job_state = Jobs /\ DOMAIN records = Jobs
  /\ waits \subseteq Jobs
  /\ crashes \in Nat
  /\ \A k \in waits : Absent(k)
  /\ crashes = 0 => waits = {} /\ ~recovering /\ TypeOK /\ HistoryInv /\ LinesInv
  /\ crashes <= 1 => \A k \in waits : ~RecordMissing(k)

\* At the start the files are empty and nothing waits.
LEMMA RInvInit == RInit => RInv
<1> SUFFICES ASSUME RInit
             PROVE  RInv
  OBVIOUS
<1>1. TypeOK /\ HistoryInv
  BY TypeInit, HistoryInit DEF RInit
<1>2. ASSUME NEW k \in Jobs
      PROVE  LinesOf(k)
  <2>1. Unread(<<>>, k) = 0
    <3>1. NeedyAt(<<>>, k) = {}
      BY DEF NeedyAt
    <3> QED
      BY <3>1, FS_EmptySet DEF Unread
  <2>2. recs[k] = <<>> /\ log[k].needs = 0 /\ dmq = <<>>
    BY DEF RInit, Init, NoLines
  <2> QED
    BY <2>1, <2>2, EmptySeq DEF LinesOf
<1> QED
  BY <1>1, <1>2 DEF RInv, LinesInv, RInit, Init

\* The threads of gwd write no line for a job that is not in the pool.
LEMMA RInvWork ==
  ASSUME RInv, ClientStep \/ DaemonStep, Save, UNCHANGED recv
  PROVE  RInv'
<1>1. Kept /\ UNCHANGED <<waits, recovering, crashes>>
  BY KeptSteps DEF RInv, recv
<1>2. \A k \in waits : log'[k] = log[k] /\ recs'[k] = recs[k]
  <2> SUFFICES ASSUME NEW k \in waits
               PROVE  log'[k] = log[k] /\ recs'[k] = recs[k]
    OBVIOUS
  <2>1. k \in Jobs /\ Absent(k) /\ Absent(k)'
    BY <1>1 DEF RInv, Kept
  <2>2. ~InPool(job_state', k) /\ ~(records'[k] > records[k])
    BY <2>1 DEF Absent, InPool
  <2> QED
    BY <2>1, <2>2 DEF Save, SaveStates, SaveRecords
<1>3. CASE crashes = 0
  <2>1. TypeOK' /\ HistoryInv'
    BY <1>3, TypeStep, HistoryStep DEF RInv, ClientStep, DaemonStep, Next
  <2>2. ASSUME NEW k \in Jobs
        PROVE  LinesOf(k)'
    BY <1>3, <2>1, BalancedStep, LinesStep DEF RInv, TypeOK
  <2> QED
    BY <1>1, <1>2, <1>3, <2>1, <2>2 DEF RInv, Kept, LinesInv, RecordMissing
<1>4. CASE crashes # 0
  BY <1>1, <1>2, <1>4 DEF RInv, Kept, RecordMissing
<1> QED
  BY <1>3, <1>4

\* The crash: the files agree for each job that was in the pool.
LEMMA RInvCrash ==
  ASSUME RInv, Crash
  PROVE  RInv'
<1>1. /\ DOMAIN job_state' = Jobs /\ DOMAIN records' = Jobs
      /\ waits' \subseteq Jobs
      /\ crashes' = crashes + 1
      /\ UNCHANGED <<log, recs>>
  BY DEF Crash, filev
<1>2. \A k \in waits' : Absent(k)'
  BY DEF Crash, Absent, InPool
<1>3. ASSUME crashes' <= 1, NEW k \in waits'
      PROVE  ~RecordMissing(k)'
  <2>1. crashes = 0 /\ k \in Jobs
    BY <1>1, <1>3 DEF RInv
  <2>2. LinesOf(k) /\ QueueTyped
    BY <2>1 DEF RInv, LinesInv, TypeOK
  <2>3. Unread(dmq, k) \in Nat
    BY <2>2, UnreadType DEF QueueTyped
  <2> QED
    BY <1>1, <2>2, <2>3 DEF LinesOf, RecordMissing
<1> QED
  BY <1>1, <1>2, <1>3 DEF RInv

\* The recovery of a job concerns no other one.
LEMMA RInvRecover ==
  ASSUME RInv, NEW j \in Jobs, Recover(j) \/ NotRecovered(j)
  PROVE  RInv'
<1>1. /\ waits' = waits \ {j} /\ j \in waits
      /\ UNCHANGED <<log, recs, recovering, crashes>>
  BY DEF Recover, NotRecovered, filev
<1>2. /\ \E s : job_state' \in {job_state, [job_state EXCEPT ![j] = s]}
      /\ \E n : records' \in {records, [records EXCEPT ![j] = n]}
  BY DEF Recover, NotRecovered, SetState, vars, jobv
<1> QED
  BY <1>1, <1>2 DEF RInv, Absent, RecordMissing

\* The dependencies are looked at when no job waits any more.
LEMMA RInvDeps ==
  ASSUME RInv, DepConsistency
  PROVE  RInv'
<1>1. /\ DOMAIN job_state' = Jobs /\ UNCHANGED <<records, waits, crashes>>
      /\ waits = {} /\ recovering
  BY DEF DepConsistency, jobv
<1> QED
  BY <1>1 DEF RInv

\* The first restart of gwd recovers every job, whatever gwd was doing when it died:
\* the message between gw_job_history_add and gw_job_set_state loses a state, never
\* a record.
THEOREM FirstRestart == RSpec => []Recoverable
<1>1. RInv /\ [RNext]_allv => RInv'
  <2>1. RInv /\ RNext => RInv'
    BY RInvWork, RInvCrash, RInvRecover, RInvDeps DEF RNext
  <2>2. ASSUME RInv, UNCHANGED allv
        PROVE  RInv'
    <3>1. UNCHANGED vars /\ UNCHANGED <<job_state, records, log, recs, waits, recovering, crashes>>
          /\ dmq' = dmq
      BY <2>2 DEF allv, vars, jobv, filev, recv
    <3>2. TypeOK /\ HistoryInv => (TypeOK /\ HistoryInv)'
      BY <3>1, TypeStep, HistoryStep
    <3>3. LinesInv => LinesInv'
      BY <3>1 DEF LinesInv, LinesOf, Unread, NeedyAt
    <3> QED
      BY <2>2, <3>1, <3>2, <3>3 DEF RInv, Absent, RecordMissing
  <2> QED
    BY <2>1, <2>2
<1>2. RInv => Recoverable
  BY DEF RInv, Recoverable
<1> QED
  BY <1>1, <1>2, RInvInit, PTL DEF RSpec

=============================================================================
