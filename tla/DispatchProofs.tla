--------------------------- MODULE DispatchProofs ---------------------------
(***************************************************************************)
(* Theorems about the dispatch manager, for every value of the constants.  *)
(***************************************************************************)
EXTENDS DispatchProperties, TLAPS, FiniteSetTheorems

-----------------------------------------------------------------------------
(* Lemmas about the helpers.                                               *)

\* The number of answers of a round that send a job somewhere is a number.
LEMMA SentNat ==
  ASSUME NEW S, NEW n \in Nat, NEW s \in [1..n -> S], NEW J
  PROVE  Sent(s, J) \in Nat
<1> DEFINE T == {i \in DOMAIN s : s[i][1] \in J /\ s[i][2] # NoHost}
<1>1. IsFiniteSet(1..n)
  BY FS_Interval
<1>2. T \subseteq 1..n
  OBVIOUS
<1>3. IsFiniteSet(T)
  BY <1>1, <1>2, FS_Subset
<1> QED
  BY <1>3, FS_CardinalityType DEF Sent

\* A round is a sequence of answers that asks no more of a job than its entries.
LEMMA RoundType ==
  ASSUME NEW e \in [Jobs -> Nat], NEW resched \in [Jobs -> BOOLEAN],
         NEW s \in Rounds(e, resched)
  PROVE  /\ s \in Seq(Jobs \X (Hosts \union {NoHost}))
         /\ [j \in Jobs |-> e[j] - Sent(s, {j})] \in [Jobs -> Nat]
<1> DEFINE A == Jobs \X (Hosts \union {NoHost})
<1>1. PICK n \in 0..DISPATCH_CHUNK : s \in [1..n -> A]
  BY DEF Rounds
<1>2. n \in Nat
  BY DMAssumption
<1>3. s \in Seq(A)
  BY <1>1, <1>2
<1>4. ASSUME NEW j \in Jobs
      PROVE  Sent(s, {j}) \in Nat /\ Sent(s, {j}) <= e[j]
  BY <1>1, <1>2, SentNat DEF Rounds
<1>5. \A j \in Jobs : e[j] - Sent(s, {j}) \in Nat
  BY <1>4
<1> QED
  BY <1>3, <1>5

\* A counter of the hosts stays an integer, also when a job has no host.
LEMMA CounterType ==
  ASSUME NEW f \in [Hosts -> Int], NEW h
  PROVE  /\ [f EXCEPT ![h] = @ + 1] \in [Hosts -> Int]
         /\ [f EXCEPT ![h] = @ - 1] \in [Hosts -> Int]
<1>1. \A x \in Hosts : [f EXCEPT ![h] = @ + 1][x] \in Int /\ [f EXCEPT ![h] = @ - 1][x] \in Int
  <2>1. TAKE x \in Hosts
  <2>2. f[x] + 1 \in Int /\ f[x] - 1 \in Int
    OBVIOUS
  <2>3. [f EXCEPT ![h] = @ + 1][x] = IF x = h THEN f[x] + 1 ELSE f[x]
    OBVIOUS
  <2>4. [f EXCEPT ![h] = @ - 1][x] = IF x = h THEN f[x] - 1 ELSE f[x]
    OBVIOUS
  <2> QED
    BY <2>2, <2>3, <2>4
<1> QED
  BY <1>1, Zenon

\* A truth value counts for zero or one.
LEMMA OneType == ASSUME NEW b PROVE One(b) \in {0, 1}
  BY DEF One

\* JobSchedule and JobDel keep the numbers of entries natural.
LEMMA EntriesType ==
  ASSUME entries \in [Jobs -> Nat], NEW j \in Jobs
  PROVE  /\ [entries EXCEPT ![j] = @ + 1] \in [Jobs -> Nat]
         /\ [entries EXCEPT ![j] = @ - One(@ > 0)] \in [Jobs -> Nat]
<1>1. entries[j] + 1 \in Nat /\ entries[j] - One(entries[j] > 0) \in Nat
  BY DEF One
<1> QED
  BY <1>1

\* The empty sequence is a sequence over any set.
LEMMA EmptySeq == ASSUME NEW S PROVE <<>> \in Seq(S)
  OBVIOUS

\* A handler takes the head of the queue and posts at most one message.
LEMMA QueueType ==
  ASSUME QueueTyped, NEW a \in DMActions, NEW j \in Jobs
  PROVE  /\ Append(dmq, <<a, j>>) \in Seq(DMActions \X Jobs)
         /\ dmq # <<>> => /\ Tail(dmq) \in Seq(DMActions \X Jobs)
                          /\ Append(Tail(dmq), <<a, j>>) \in Seq(DMActions \X Jobs)
  BY DEF QueueTyped

\* The daemon starts well typed: every pool, queue and list is empty.
LEMMA TypeInit == Init => TypeOK
<1> SUFFICES ASSUME Init
             PROVE  TypeOK
  OBVIOUS
<1> USE DMAssumption DEF Init
<1>1. StatesTyped
  BY DEF StatesTyped, JobStates
<1>2. HistoryTyped
  BY DEF HistoryTyped, Reasons
<1>3. HostsTyped
  BY DEF HostsTyped
<1>4. QueueTyped /\ ClientsTyped
  BY DEF QueueTyped, ClientsTyped
<1>5. ManagersTyped
  BY DEF ManagersTyped, EMStates
<1>6. SchedulerTyped
  BY EmptySeq DEF SchedulerTyped
<1> QED
  BY <1>1, <1>2, <1>3, <1>4, <1>5, <1>6 DEF TypeOK

\* Every handler and thread of the daemon keeps the types; one step per action.
LEMMA TypeStep ==
  ASSUME TypeOK, HistoryInv, [Next]_vars
  PROVE  TypeOK'
<1> USE DEF TypeOK, jobv, depv, hostv, rmv, emv, schv, SetState, SetReason, Answer
<1>1. CASE UNCHANGED vars
  BY <1>1 DEF vars, StatesTyped, HistoryTyped, HostsTyped, QueueTyped,
     ClientsTyped, ManagersTyped, SchedulerTyped
<1>2. ASSUME NEW j \in Jobs, Submit(j)
      PROVE  TypeOK'
  <2>1. StatesTyped'
    BY <1>2, DMAssumption DEF Submit, StatesTyped, JobStates, IdleStates,
       BusyStates, ExecStates, CancelStates, EpilogStates
  <2>2. SchedulerTyped'
    BY <1>2, EntriesType, DMAssumption DEF Submit, SchedulerTyped, JobSchedule
  <2>3. HistoryTyped' /\ HostsTyped' /\ QueueTyped' /\ ClientsTyped' /\
     ManagersTyped'
    BY <1>2 DEF Submit, HistoryTyped, HostsTyped, QueueTyped, ClientsTyped,
       ManagersTyped
  <2> QED
    BY <2>1, <2>2, <2>3
<1>3. ASSUME NEW j \in Jobs, NEW op \in UserOps, Request(op, j)
      PROVE  TypeOK'
  <2>1. QueueTyped'
    BY <1>3, QueueType, DMAssumption DEF Request, QueueTyped, DMActions,
       ClientOps, StateActions, Callbacks, EpilogStates
  <2>2. ClientsTyped'
    BY <1>3, DMAssumption DEF Request, ClientsTyped, ClientOps
  <2>3. StatesTyped' /\ HistoryTyped' /\ HostsTyped' /\ ManagersTyped' /\
     SchedulerTyped'
    BY <1>3 DEF Request, StatesTyped, HistoryTyped, HostsTyped, ManagersTyped,
       SchedulerTyped
  <2> QED
    BY <2>1, <2>2, <2>3
<1>4. ASSUME NEW j \in Jobs, NEW a \in DMActions, MissingJob(a, j)
      PROVE  TypeOK'
  <2>1. QueueTyped'
    BY <1>4, QueueType DEF MissingJob, QueueTyped, Done, DMActions, ClientOps,
       StateActions, Callbacks, EpilogStates
  <2>2. ClientsTyped'
    BY <1>4 DEF MissingJob, ClientsTyped, ClientOps
  <2>3. StatesTyped' /\ HistoryTyped' /\ HostsTyped' /\ ManagersTyped' /\
     SchedulerTyped'
    BY <1>4 DEF MissingJob, StatesTyped, HistoryTyped, HostsTyped,
       ManagersTyped, SchedulerTyped
  <2> QED
    BY <2>1, <2>2, <2>3
<1>5. ASSUME NEW j \in Jobs, Hold(j)
      PROVE  TypeOK'
  <2>1. StatesTyped'
    BY <1>5 DEF Hold, StatesTyped, JobStates, IdleStates, BusyStates,
       ExecStates, CancelStates, EpilogStates
  <2>2. QueueTyped'
    BY <1>5, QueueType DEF Hold, QueueTyped, Done, DMActions, ClientOps,
       StateActions, Callbacks, EpilogStates, Handle
  <2>3. ClientsTyped'
    BY <1>5 DEF Hold, ClientsTyped, ClientOps
  <2>4. SchedulerTyped'
    BY <1>5, EntriesType DEF Hold, SchedulerTyped, JobDel, One
  <2>5. HistoryTyped' /\ HostsTyped' /\ ManagersTyped'
    BY <1>5 DEF Hold, HistoryTyped, HostsTyped, ManagersTyped
  <2> QED
    BY <2>1, <2>2, <2>3, <2>4, <2>5
<1>6. ASSUME NEW j \in Jobs, Release(j)
      PROVE  TypeOK'
  <2>1. StatesTyped'
    BY <1>6 DEF Release, StatesTyped, JobStates, IdleStates, BusyStates,
       ExecStates, CancelStates, EpilogStates
  <2>2. QueueTyped'
    BY <1>6, QueueType DEF Release, QueueTyped, Done, DMActions, ClientOps,
       StateActions, Callbacks, EpilogStates, Handle
  <2>3. ClientsTyped'
    BY <1>6 DEF Release, ClientsTyped, ClientOps
  <2>4. SchedulerTyped'
    BY <1>6, EntriesType DEF Release, SchedulerTyped, JobSchedule
  <2>5. HistoryTyped' /\ HostsTyped' /\ ManagersTyped'
    BY <1>6 DEF Release, HistoryTyped, HostsTyped, ManagersTyped
  <2> QED
    BY <2>1, <2>2, <2>3, <2>4, <2>5
<1>7. ASSUME NEW j \in Jobs, Kill(j)
      PROVE  TypeOK'
  <2>1. StatesTyped'
    BY <1>7 DEF Kill, StatesTyped, ClearReschedule, PoolFree, JobStates,
       IdleStates, BusyStates, ExecStates, CancelStates, EpilogStates
  <2>2. HistoryTyped'
    BY <1>7 DEF Kill, HistoryTyped, PoolFree, Reasons
  <2>3. QueueTyped'
    BY <1>7, QueueType DEF Kill, QueueTyped, Done, DMActions, ClientOps,
       StateActions, Callbacks, EpilogStates, Handle
  <2>4. ClientsTyped'
    BY <1>7 DEF Kill, ClientsTyped, PoolFree, ClientOps
  <2>5. ManagersTyped'
    BY <1>7 DEF Kill, ManagersTyped, PoolFree, EMStates
  <2>6. SchedulerTyped'
    BY <1>7, EntriesType DEF Kill, SchedulerTyped, JobDel, ClearReschedule,
       PoolFree, One
  <2>7. HostsTyped'
    BY <1>7 DEF Kill, HostsTyped
  <2> QED
    BY <2>1, <2>2, <2>3, <2>4, <2>5, <2>6, <2>7
<1>8. ASSUME NEW j \in Jobs, KillHard(j)
      PROVE  TypeOK'
  <2>1. StatesTyped'
    BY <1>8 DEF KillHard, StatesTyped, PoolFree, JobStates, IdleStates,
       BusyStates, ExecStates, CancelStates, EpilogStates
  <2>2. HistoryTyped'
    BY <1>8 DEF KillHard, HistoryTyped, PoolFree, Reasons
  <2>3. HostsTyped'
    BY <1>8 DEF KillHard, HostsTyped, One
  <2>4. QueueTyped'
    BY <1>8, QueueType DEF KillHard, QueueTyped, Done, DMActions, ClientOps,
       StateActions, Callbacks, EpilogStates, Handle
  <2>5. ClientsTyped'
    BY <1>8 DEF KillHard, ClientsTyped, PoolFree, ClientOps
  <2>6. ManagersTyped'
    BY <1>8 DEF KillHard, ManagersTyped, PoolFree, EMStates
  <2>7. SchedulerTyped'
    BY <1>8, EntriesType DEF KillHard, SchedulerTyped, JobDel, PoolFree, One
  <2> QED
    BY <2>1, <2>2, <2>3, <2>4, <2>5, <2>6, <2>7
<1>9. ASSUME NEW j \in Jobs, Stop(j)
      PROVE  TypeOK'
  <2>1. StatesTyped'
    BY <1>9 DEF Stop, StatesTyped, ClearReschedule, JobStates, IdleStates,
       BusyStates, ExecStates, CancelStates, EpilogStates
  <2>2. HistoryTyped'
    BY <1>9 DEF Stop, HistoryTyped, Reasons
  <2>3. QueueTyped'
    BY <1>9, QueueType DEF Stop, QueueTyped, Done, DMActions, ClientOps,
       StateActions, Callbacks, EpilogStates, Handle
  <2>4. ClientsTyped'
    BY <1>9 DEF Stop, ClientsTyped, ClientOps
  <2>5. SchedulerTyped'
    BY <1>9, EntriesType DEF Stop, SchedulerTyped, JobDel, ClearReschedule,
       One
  <2>6. HostsTyped' /\ ManagersTyped'
    BY <1>9 DEF Stop, HostsTyped, ManagersTyped
  <2> QED
    BY <2>1, <2>2, <2>3, <2>4, <2>5, <2>6
<1>10. ASSUME NEW j \in Jobs, Resume(j)
       PROVE  TypeOK'
  <2>1. StatesTyped'
    BY <1>10 DEF Resume, StatesTyped, JobStates, IdleStates, BusyStates,
       ExecStates, CancelStates, EpilogStates
  <2>2. QueueTyped'
    BY <1>10, QueueType DEF Resume, QueueTyped, Done, DMActions, ClientOps,
       StateActions, Callbacks, EpilogStates, Handle
  <2>3. ClientsTyped'
    BY <1>10 DEF Resume, ClientsTyped, ClientOps
  <2>4. ManagersTyped'
    BY <1>10 DEF Resume, ManagersTyped, EMStates
  <2>5. SchedulerTyped'
    BY <1>10, EntriesType DEF Resume, SchedulerTyped, JobSchedule
  <2>6. HistoryTyped' /\ HostsTyped'
    BY <1>10 DEF Resume, HistoryTyped, HostsTyped
  <2> QED
    BY <2>1, <2>2, <2>3, <2>4, <2>5, <2>6
<1>11. ASSUME NEW j \in Jobs, Reschedule(j)
       PROVE  TypeOK'
  <2>1. StatesTyped'
    BY <1>11 DEF Reschedule, StatesTyped, JobStates, IdleStates, BusyStates,
       ExecStates, CancelStates, EpilogStates
  <2>2. HistoryTyped'
    BY <1>11 DEF Reschedule, HistoryTyped, Reasons
  <2>3. QueueTyped'
    BY <1>11, QueueType DEF Reschedule, QueueTyped, Done, DMActions,
       ClientOps, StateActions, Callbacks, EpilogStates, Handle
  <2>4. ClientsTyped'
    BY <1>11 DEF Reschedule, ClientsTyped, ClientOps
  <2>5. ManagersTyped'
    BY <1>11 DEF Reschedule, ManagersTyped, EMStates
  <2>6. SchedulerTyped'
    BY <1>11, EntriesType DEF Reschedule, SchedulerTyped, JobSchedule
  <2>7. HostsTyped'
    BY <1>11 DEF Reschedule, HostsTyped
  <2> QED
    BY <2>1, <2>2, <2>3, <2>4, <2>5, <2>6, <2>7
<1>12. ASSUME NEW j \in Jobs, Wait(j)
       PROVE  TypeOK'
  <2>1. QueueTyped'
    BY <1>12, QueueType DEF Wait, QueueTyped, Done, DMActions, ClientOps,
       StateActions, Callbacks, EpilogStates, Handle
  <2>2. ClientsTyped'
    BY <1>12 DEF Wait, ClientsTyped, ClientOps
  <2>3. StatesTyped' /\ HistoryTyped' /\ HostsTyped' /\ ManagersTyped' /\
     SchedulerTyped'
    BY <1>12 DEF Wait, StatesTyped, HistoryTyped, HostsTyped, ManagersTyped,
       SchedulerTyped
  <2> QED
    BY <2>1, <2>2, <2>3
<1>13. ASSUME Schedule
       PROVE  TypeOK'
  <2>1. StatesTyped'
    BY <1>13 DEF Schedule, StatesTyped
  <2>2. HistoryTyped'
    BY <1>13 DEF Schedule, HistoryTyped, Reasons
  <2>3. SchedulerTyped'
    <3>1. PICK susp \in SUBSET SuspensionTimeout, late \in SUBSET ReschedulingInterval :
            \E s \in Rounds(CheckedEntries(susp, late), reschedule') :
              /\ inflight' = s
              /\ entries' = [j \in Jobs |-> CheckedEntries(susp, late)[j] - Sent(s, {j})]
      BY <1>13 DEF Schedule
    <3>2. CheckedEntries(susp, late) \in [Jobs -> Nat]
      BY DEF SchedulerTyped, CheckedEntries, One
    <3>3. reschedule' \in [Jobs -> BOOLEAN]
      BY <2>1 DEF StatesTyped
    <3>4. /\ inflight' \in Seq(Jobs \X (Hosts \union {NoHost}))
          /\ entries' \in [Jobs -> Nat]
      BY <3>1, <3>2, <3>3, RoundType
    <3> QED
      BY <1>13, <3>4 DEF Schedule, SchedulerTyped
  <2>4. HostsTyped' /\ QueueTyped' /\ ClientsTyped' /\ ManagersTyped'
    BY <1>13 DEF Schedule, HostsTyped, QueueTyped, ClientsTyped, ManagersTyped
  <2> QED
    BY <2>1, <2>2, <2>3, <2>4
<1>14. ASSUME NEW j \in Jobs, NEW h \in Hosts \union {NoHost}, DispatchPending(j, h)
       PROVE  TypeOK'
  <2>1. HistoryTyped'
    BY <1>14 DEF DispatchPending, HistoryTyped, HistoryAdd, Reasons
  <2>2. HostsTyped'
    BY <1>14, CounterType DEF DispatchPending, HostsTyped, IncSlots, IncUser
  <2>3. QueueTyped'
    BY <1>14, QueueType DEF DispatchPending, QueueTyped, DMActions, ClientOps,
       StateActions, Callbacks, EpilogStates
  <2>4. ManagersTyped'
    BY <1>14 DEF DispatchPending, ManagersTyped, HistoryAdd
  <2>5. SchedulerTyped'
    BY <1>14 DEF DispatchPending, SchedulerTyped, Receive
  <2>6. StatesTyped' /\ ClientsTyped'
    BY <1>14 DEF DispatchPending, StatesTyped, ClientsTyped
  <2> QED
    BY <2>1, <2>2, <2>3, <2>4, <2>5, <2>6
<1>15. ASSUME NEW j \in Jobs, NEW h \in Hosts \union {NoHost}, DispatchMigration(j, h)
       PROVE  TypeOK'
  <2>1. StatesTyped'
    BY <1>15 DEF DispatchMigration, StatesTyped
  <2>2. HistoryTyped'
    BY <1>15 DEF DispatchMigration, HistoryTyped, HistoryAdd, Reasons
  <2>3. HostsTyped'
    BY <1>15, CounterType DEF DispatchMigration, HostsTyped, IncSlots
  <2>4. QueueTyped'
    BY <1>15, QueueType DEF DispatchMigration, QueueTyped, DMActions,
       ClientOps, StateActions, Callbacks, EpilogStates
  <2>5. ManagersTyped'
    BY <1>15 DEF DispatchMigration, ManagersTyped, HistoryAdd
  <2>6. SchedulerTyped'
    BY <1>15 DEF DispatchMigration, SchedulerTyped, Receive
  <2>7. ClientsTyped'
    BY <1>15 DEF DispatchMigration, ClientsTyped
  <2> QED
    BY <2>1, <2>2, <2>3, <2>4, <2>5, <2>6, <2>7
<1>16. ASSUME NEW j \in Jobs, NEW h \in Hosts \union {NoHost}, UncheckJob(j, h)
       PROVE  TypeOK'
  <2>1. StatesTyped'
    BY <1>16 DEF UncheckJob, StatesTyped
  <2>2. HistoryTyped'
    BY <1>16 DEF UncheckJob, HistoryTyped, Reasons
  <2>3. SchedulerTyped'
    <3>1. inflight' \in Seq(Jobs \X (Hosts \union {NoHost}))
      BY <1>16 DEF UncheckJob, SchedulerTyped, Receive
    <3> QED
      BY <1>16, <3>1, EntriesType DEF UncheckJob, SchedulerTyped, JobDel
  <2>4. HostsTyped' /\ QueueTyped' /\ ClientsTyped' /\ ManagersTyped'
    BY <1>16 DEF UncheckJob, HostsTyped, QueueTyped, ClientsTyped,
       ManagersTyped
  <2> QED
    BY <2>1, <2>2, <2>3, <2>4
<1>17. ASSUME NEW j \in Jobs, NEW h \in Hosts \union {NoHost}, DispatchRefused(j, h)
       PROVE  TypeOK'
  <2>1. SchedulerTyped'
    BY <1>17 DEF DispatchRefused, SchedulerTyped, Receive
  <2>2. StatesTyped' /\ HistoryTyped' /\ HostsTyped' /\ QueueTyped' /\
     ClientsTyped' /\ ManagersTyped'
    BY <1>17 DEF DispatchRefused, StatesTyped, HistoryTyped, HostsTyped,
       QueueTyped, ClientsTyped, ManagersTyped
  <2> QED
    BY <2>1, <2>2
<1>18. ASSUME ScheduleEnd
       PROVE  TypeOK'
  <2>1. SchedulerTyped'
    BY <1>18 DEF ScheduleEnd, SchedulerTyped
  <2>2. StatesTyped' /\ HistoryTyped' /\ HostsTyped' /\ QueueTyped' /\
     ClientsTyped' /\ ManagersTyped'
    BY <1>18 DEF ScheduleEnd, StatesTyped, HistoryTyped, HostsTyped,
       QueueTyped, ClientsTyped, ManagersTyped
  <2> QED
    BY <2>1, <2>2
<1>19. ASSUME SchedulerReload
       PROVE  TypeOK'
  <2>1. SchedulerTyped'
    BY <1>19, EmptySeq DEF SchedulerReload, SchedulerTyped, RecoveredEntries, One
  <2>2. StatesTyped' /\ HistoryTyped' /\ HostsTyped' /\ QueueTyped' /\
     ClientsTyped' /\ ManagersTyped'
    BY <1>19 DEF SchedulerReload, StatesTyped, HistoryTyped, HostsTyped,
       QueueTyped, ClientsTyped, ManagersTyped
  <2> QED
    BY <2>1, <2>2
<1>20. ASSUME NEW j \in Jobs, NEW s \in {"PROLOG", "MIGR_PROLOG"}, Prolog(j, s)
       PROVE  TypeOK'
  <2>1. StatesTyped'
    BY <1>20 DEF Prolog, StatesTyped, JobStates, IdleStates, BusyStates,
       ExecStates, CancelStates, EpilogStates
  <2>2. QueueTyped'
    BY <1>20, QueueType DEF Prolog, QueueTyped, Done, DoneAndTrigger,
       DMActions, ClientOps, StateActions, Callbacks, EpilogStates, Handle
  <2>3. ManagersTyped'
    BY <1>20 DEF Prolog, ManagersTyped
  <2>4. HistoryTyped' /\ HostsTyped' /\ ClientsTyped' /\ SchedulerTyped'
    BY <1>20 DEF Prolog, HistoryTyped, HostsTyped, ClientsTyped,
       SchedulerTyped
  <2> QED
    BY <2>1, <2>2, <2>3, <2>4
<1>21. ASSUME NEW j \in Jobs, PrologDone(j)
       PROVE  TypeOK'
  <2>1. QueueTyped'
    BY <1>21, QueueType DEF PrologDone, QueueTyped, Done, DoneAndTrigger,
       DMActions, ClientOps, StateActions, Callbacks, EpilogStates, Handle
  <2>2. StatesTyped' /\ HistoryTyped' /\ HostsTyped' /\ ClientsTyped' /\
     ManagersTyped' /\ SchedulerTyped'
    BY <1>21 DEF PrologDone, StatesTyped, HistoryTyped, HostsTyped,
       ClientsTyped, ManagersTyped, SchedulerTyped
  <2> QED
    BY <2>1, <2>2
<1>22. ASSUME NEW j \in Jobs, PrologFailed(j)
       PROVE  TypeOK'
  <2>1. HistoryTyped'
    BY <1>22 DEF PrologFailed, HistoryTyped, Reasons
  <2>2. HostsTyped'
    BY <1>22, CounterType DEF PrologFailed, HostsTyped, DecUslots, DecRjobs
  <2>3. QueueTyped'
    BY <1>22, QueueType DEF PrologFailed, QueueTyped, DoneAndTrigger,
       DMActions, ClientOps, StateActions, Callbacks, EpilogStates, Handle,
       OnFailure
  <2>4. StatesTyped' /\ ClientsTyped' /\ ManagersTyped' /\ SchedulerTyped'
    BY <1>22 DEF PrologFailed, StatesTyped, ClientsTyped, ManagersTyped,
       SchedulerTyped
  <2> QED
    BY <2>1, <2>2, <2>3, <2>4
<1>23. ASSUME NEW j \in Jobs, NEW s \in {"PRE_WRAPPER", "WRAPPER"}, Wrapper(j, s)
       PROVE  TypeOK'
  <2>1. StatesTyped'
    BY <1>23 DEF Wrapper, StatesTyped, JobStates, IdleStates, BusyStates,
       ExecStates, CancelStates, EpilogStates
  <2>2. QueueTyped'
    BY <1>23, QueueType DEF Wrapper, QueueTyped, Done, DMActions, ClientOps,
       StateActions, Callbacks, EpilogStates, Handle
  <2>3. ManagersTyped'
    BY <1>23 DEF Wrapper, ManagersTyped, EMStates
  <2>4. HistoryTyped' /\ HostsTyped' /\ ClientsTyped' /\ SchedulerTyped'
    BY <1>23 DEF Wrapper, HistoryTyped, HostsTyped, ClientsTyped,
       SchedulerTyped
  <2> QED
    BY <2>1, <2>2, <2>3, <2>4
<1>24. ASSUME NEW j \in Jobs, WrapperDone(j)
       PROVE  TypeOK'
  <2>1. StatesTyped'
    BY <1>24 DEF WrapperDone, StatesTyped, ClearReschedule
  <2>2. HostsTyped'
    BY <1>24, CounterType DEF WrapperDone, HostsTyped, DecUslots
  <2>3. QueueTyped'
    BY <1>24, QueueType DEF WrapperDone, QueueTyped, Done, DoneAndTrigger,
       DMActions, ClientOps, StateActions, Callbacks, EpilogStates, Handle
  <2>4. ManagersTyped'
    BY <1>24 DEF WrapperDone, ManagersTyped, EMStates
  <2>5. SchedulerTyped'
    BY <1>24, EntriesType DEF WrapperDone, SchedulerTyped, JobDel,
       ClearReschedule, One
  <2>6. HistoryTyped' /\ ClientsTyped'
    BY <1>24 DEF WrapperDone, HistoryTyped, ClientsTyped
  <2> QED
    BY <2>1, <2>2, <2>3, <2>4, <2>5, <2>6
<1>25. ASSUME NEW j \in Jobs, WrapperFailed(j)
       PROVE  TypeOK'
  <2>1. StatesTyped'
    BY <1>25 DEF WrapperFailed, StatesTyped, ClearReschedule
  <2>2. HistoryTyped'
    BY <1>25 DEF WrapperFailed, HistoryTyped, Reasons
  <2>3. HostsTyped'
    BY <1>25, CounterType DEF WrapperFailed, HostsTyped, DecUslots
  <2>4. QueueTyped'
    BY <1>25, QueueType DEF WrapperFailed, QueueTyped, DoneAndTrigger,
       DMActions, ClientOps, StateActions, Callbacks, EpilogStates, Handle
  <2>5. ManagersTyped'
    BY <1>25 DEF WrapperFailed, ManagersTyped, EMStates
  <2>6. SchedulerTyped'
    BY <1>25, EntriesType DEF WrapperFailed, SchedulerTyped, JobDel,
       ClearReschedule, One
  <2>7. ClientsTyped'
    BY <1>25 DEF WrapperFailed, ClientsTyped
  <2> QED
    BY <2>1, <2>2, <2>3, <2>4, <2>5, <2>6, <2>7
<1>26. ASSUME NEW j \in Jobs, MigrCancel(j)
       PROVE  TypeOK'
  <2>1. StatesTyped'
    BY <1>26 DEF MigrCancel, StatesTyped, JobStates, IdleStates, BusyStates,
       ExecStates, CancelStates, EpilogStates
  <2>2. QueueTyped'
    BY <1>26, QueueType DEF MigrCancel, QueueTyped, Done, DMActions,
       ClientOps, StateActions, Callbacks, EpilogStates, Handle
  <2>3. HistoryTyped' /\ HostsTyped' /\ ClientsTyped' /\ ManagersTyped' /\
     SchedulerTyped'
    BY <1>26 DEF MigrCancel, HistoryTyped, HostsTyped, ClientsTyped,
       ManagersTyped, SchedulerTyped
  <2> QED
    BY <2>1, <2>2, <2>3
<1>27. ASSUME NEW j \in Jobs, NEW s \in EpilogStates, Epilog(j, s)
       PROVE  TypeOK'
  <2>1. StatesTyped'
    BY <1>27 DEF Epilog, StatesTyped, JobStates, IdleStates, BusyStates,
       ExecStates, CancelStates, EpilogStates
  <2>2. QueueTyped'
    BY <1>27, QueueType DEF Epilog, QueueTyped, Done, DMActions, ClientOps,
       StateActions, Callbacks, EpilogStates, Handle
  <2>3. ManagersTyped'
    BY <1>27 DEF Epilog, ManagersTyped
  <2>4. HistoryTyped' /\ HostsTyped' /\ ClientsTyped' /\ SchedulerTyped'
    BY <1>27 DEF Epilog, HistoryTyped, HostsTyped, ClientsTyped,
       SchedulerTyped
  <2> QED
    BY <2>1, <2>2, <2>3, <2>4
<1>28. ASSUME NEW j \in Jobs, EpilogDoneStd(j)
       PROVE  TypeOK'
  <2>1. HistoryTyped'
    BY <1>28 DEF EpilogDoneStd, HistoryTyped, Reasons
  <2>2. QueueTyped'
    <3>1. \E a \in StateActions : DoneAndTrigger(a, j)
      BY <1>28 DEF EpilogDoneStd, StateActions, EpilogStates
    <3> QED
      BY <1>28, <3>1, QueueType DEF EpilogDoneStd, Handle, DoneAndTrigger,
         QueueTyped, DMActions
  <2>3. StatesTyped' /\ HostsTyped' /\ ClientsTyped' /\ ManagersTyped' /\
     SchedulerTyped'
    BY <1>28 DEF EpilogDoneStd, StatesTyped, HostsTyped, ClientsTyped,
       ManagersTyped, SchedulerTyped
  <2> QED
    BY <2>1, <2>2, <2>3
<1>29. ASSUME NEW j \in Jobs, EpilogFailedStd(j)
       PROVE  TypeOK'
  <2>1. HistoryTyped'
    BY <1>29 DEF EpilogFailedStd, HistoryTyped, Reasons
  <2>2. QueueTyped'
    BY <1>29, QueueType DEF EpilogFailedStd, QueueTyped, DoneAndTrigger,
       DMActions, ClientOps, StateActions, Callbacks, EpilogStates, Handle
  <2>3. StatesTyped' /\ HostsTyped' /\ ClientsTyped' /\ ManagersTyped' /\
     SchedulerTyped'
    BY <1>29 DEF EpilogFailedStd, StatesTyped, HostsTyped, ClientsTyped,
       ManagersTyped, SchedulerTyped
  <2> QED
    BY <2>1, <2>2, <2>3
<1>30. ASSUME NEW j \in Jobs, EpilogEnded(j)
       PROVE  TypeOK'
  <2>1. HostsTyped'
    BY <1>30, CounterType DEF EpilogEnded, HostsTyped, DecRjobs
  <2>2. QueueTyped'
    BY <1>30, QueueType DEF EpilogEnded, QueueTyped, Done, DoneAndTrigger,
       DMActions, ClientOps, StateActions, Callbacks, EpilogStates, Handle,
       OnFailure
  <2>3. StatesTyped' /\ HistoryTyped' /\ ClientsTyped' /\ ManagersTyped' /\
     SchedulerTyped'
    BY <1>30 DEF EpilogEnded, StatesTyped, HistoryTyped, ClientsTyped,
       ManagersTyped, SchedulerTyped
  <2> QED
    BY <2>1, <2>2, <2>3
<1>31. ASSUME NEW j \in Jobs, EpilogDone(j)
       PROVE  TypeOK'
  <2>1. QueueTyped'
    BY <1>31, QueueType DEF EpilogDone, QueueTyped, DoneAndTrigger, DMActions,
       ClientOps, StateActions, Callbacks, EpilogStates, Handle, OnFailure
  <2>2. StatesTyped' /\ HistoryTyped' /\ HostsTyped' /\ ClientsTyped' /\
     ManagersTyped' /\ SchedulerTyped'
    BY <1>31 DEF EpilogDone, StatesTyped, HistoryTyped, HostsTyped,
       ClientsTyped, ManagersTyped, SchedulerTyped
  <2> QED
    BY <2>1, <2>2
<1>32. ASSUME NEW j \in Jobs, EpilogFailed(j)
       PROVE  TypeOK'
  <2>1. HistoryTyped'
    BY <1>32 DEF EpilogFailed, HistoryTyped, Reasons
  <2>2. QueueTyped'
    BY <1>32, QueueType DEF EpilogFailed, QueueTyped, DoneAndTrigger,
       DMActions, ClientOps, StateActions, Callbacks, EpilogStates, Handle,
       OnFailure
  <2>3. StatesTyped' /\ HostsTyped' /\ ClientsTyped' /\ ManagersTyped' /\
     SchedulerTyped'
    BY <1>32 DEF EpilogFailed, StatesTyped, HostsTyped, ClientsTyped,
       ManagersTyped, SchedulerTyped
  <2> QED
    BY <2>1, <2>2, <2>3
<1>33. ASSUME NEW j \in Jobs, Pending(j)
       PROVE  TypeOK'
  <2>1. StatesTyped'
    BY <1>33 DEF Pending, StatesTyped, JobStates, IdleStates, BusyStates,
       ExecStates, CancelStates, EpilogStates
  <2>2. HostsTyped'
    BY <1>33, CounterType DEF Pending, HostsTyped, DecRjobs, LeaveHost
  <2>3. QueueTyped'
    BY <1>33, QueueType DEF Pending, QueueTyped, Done, DMActions, ClientOps,
       StateActions, Callbacks, EpilogStates, Handle
  <2>4. SchedulerTyped'
    BY <1>33, EntriesType DEF Pending, SchedulerTyped, JobSchedule
  <2>5. HistoryTyped' /\ ClientsTyped' /\ ManagersTyped'
    BY <1>33 DEF Pending, HistoryTyped, ClientsTyped, ManagersTyped
  <2> QED
    BY <2>1, <2>2, <2>3, <2>4, <2>5
<1>34. ASSUME NEW j \in Jobs, Stopped(j)
       PROVE  TypeOK'
  <2>1. StatesTyped'
    BY <1>34 DEF Stopped, StatesTyped, JobStates, IdleStates, BusyStates,
       ExecStates, CancelStates, EpilogStates
  <2>2. HostsTyped'
    BY <1>34, CounterType DEF Stopped, HostsTyped, DecRjobs, LeaveHost
  <2>3. QueueTyped'
    BY <1>34, QueueType DEF Stopped, QueueTyped, Done, DMActions, ClientOps,
       StateActions, Callbacks, EpilogStates, Handle
  <2>4. ClientsTyped'
    BY <1>34 DEF Stopped, ClientsTyped, ClientOps
  <2>5. HistoryTyped' /\ ManagersTyped' /\ SchedulerTyped'
    BY <1>34 DEF Stopped, HistoryTyped, ManagersTyped, SchedulerTyped
  <2> QED
    BY <2>1, <2>2, <2>3, <2>4, <2>5
<1>35. ASSUME NEW j \in Jobs, Failed(j)
       PROVE  TypeOK'
  <2>1. StatesTyped'
    BY <1>35 DEF Failed, StatesTyped, JobStates, IdleStates, BusyStates,
       ExecStates, CancelStates, EpilogStates
  <2>2. HostsTyped'
    BY <1>35, CounterType DEF Failed, HostsTyped, DecRjobs, LeaveHost
  <2>3. QueueTyped'
    BY <1>35, QueueType DEF Failed, QueueTyped, Done, DMActions, ClientOps,
       StateActions, Callbacks, EpilogStates, Handle
  <2>4. ClientsTyped'
    BY <1>35 DEF Failed, ClientsTyped, ClientOps
  <2>5. HistoryTyped' /\ ManagersTyped' /\ SchedulerTyped'
    BY <1>35 DEF Failed, HistoryTyped, ManagersTyped, SchedulerTyped
  <2> QED
    BY <2>1, <2>2, <2>3, <2>4, <2>5
<1>36. ASSUME NEW j \in Jobs, Zombie(j)
       PROVE  TypeOK'
  <2>1. StatesTyped'
    <3>1. CASE job_state[j] = "EPILOG"
      <4>1. DepCheck(j) /\ UNCHANGED <<exit_ok, reschedule>>
        BY <1>36, <3>1 DEF Zombie
      <4>2. job_state' \in [Jobs -> JobStates]
        BY <4>1 DEF DepCheck, StatesTyped, JobStates, IdleStates
      <4>3. deps' \in [Jobs -> SUBSET Jobs]
        BY <4>1 DEF DepCheck, StatesTyped
      <4> QED
        BY <4>1, <4>2, <4>3 DEF StatesTyped
    <3>2. CASE job_state[j] = "KILL_EPILOG"
      <4>1. PoolFree(j)
        BY <1>36, <3>2 DEF Zombie
      <4> QED
        BY <4>1 DEF StatesTyped, PoolFree, JobStates
    <3>3. CASE job_state[j] \notin {"EPILOG", "KILL_EPILOG"}
      BY <1>36, <3>3 DEF Zombie, StatesTyped
    <3> QED
      BY <3>1, <3>2, <3>3
  <2>2. HistoryTyped'
    BY <1>36 DEF Zombie, HistoryTyped, PoolFree, Reasons
  <2>3. HostsTyped'
    BY <1>36, CounterType DEF Zombie, HostsTyped, DecRjobs, LeaveHost
  <2>4. QueueTyped'
    <3>1. dmq # <<>> /\ (Done \/ DoneAndTrigger("KILL", j))
      BY <1>36 DEF Zombie, Handle
    <3>2. "KILL" \in DMActions
      BY DEF DMActions, ClientOps
    <3> QED
      BY <3>1, <3>2, QueueType DEF Done, DoneAndTrigger, QueueTyped
  <2>5. ClientsTyped'
    <3>1. CASE job_state[j] = "EPILOG"
      BY <1>36, <3>1 DEF Zombie, ClientsTyped
    <3>2. CASE job_state[j] = "KILL_EPILOG"
      BY <1>36, <3>2 DEF Zombie, ClientsTyped, PoolFree
    <3>3. CASE job_state[j] \notin {"EPILOG", "KILL_EPILOG"}
      BY <1>36, <3>3 DEF Zombie, ClientsTyped
    <3> QED
      BY <3>1, <3>2, <3>3
  <2>6. ManagersTyped'
    BY <1>36 DEF Zombie, ManagersTyped, PoolFree, EMStates
  <2>7. SchedulerTyped'
    <3>1. CASE job_state[j] = "EPILOG"
      <4>1. DepCheck(j)
        BY <1>36, <3>1 DEF Zombie
      <4>2. entries' \in [Jobs -> Nat]
        BY <4>1, OneType DEF DepCheck, SchedulerTyped
      <4> QED
        BY <1>36, <3>1, <4>2 DEF Zombie, SchedulerTyped
    <3>2. CASE job_state[j] = "KILL_EPILOG"
      BY <1>36, <3>2, EntriesType DEF Zombie, SchedulerTyped, PoolFree, JobDel
    <3>3. CASE job_state[j] \notin {"EPILOG", "KILL_EPILOG"}
      BY <1>36, <3>3 DEF Zombie, SchedulerTyped
    <3> QED
      BY <3>1, <3>2, <3>3
  <2> QED
    BY <2>1, <2>2, <2>3, <2>4, <2>5, <2>6, <2>7
<1>37. ASSUME NEW j \in Jobs, EMSubmit(j)
       PROVE  TypeOK'
  <2>1. QueueTyped'
    BY <1>37, QueueType DEF EMSubmit, QueueTyped, DMActions, ClientOps,
       StateActions, Callbacks, EpilogStates
  <2>2. ManagersTyped'
    <3>1. host[j] \in Hosts
      BY <1>37 DEF EMSubmit, HistoryInv, NeedsRecord, HistoryTyped
    <3> QED
      BY <1>37, <3>1 DEF EMSubmit, ManagersTyped, EMStates
  <2>3. StatesTyped' /\ HistoryTyped' /\ HostsTyped' /\ ClientsTyped' /\
     SchedulerTyped'
    BY <1>37 DEF EMSubmit, StatesTyped, HistoryTyped, HostsTyped,
       ClientsTyped, SchedulerTyped
  <2> QED
    BY <2>1, <2>2, <2>3
<1>38. ASSUME NEW j \in Jobs, NEW s \in Submitted, EMState(j, s)
       PROVE  TypeOK'
  <2>1. ManagersTyped'
    BY <1>38 DEF EMState, ManagersTyped, EMStates, Submitted
  <2>2. StatesTyped' /\ HistoryTyped' /\ HostsTyped' /\ QueueTyped' /\
     ClientsTyped' /\ SchedulerTyped'
    BY <1>38 DEF EMState, StatesTyped, HistoryTyped, HostsTyped, QueueTyped,
       ClientsTyped, SchedulerTyped
  <2> QED
    BY <2>1, <2>2
<1>39. ASSUME NEW j \in Jobs, NEW h \in Hosts, EMDone(j, h)
       PROVE  TypeOK'
  <2>1. QueueTyped'
    BY <1>39, QueueType DEF EMDone, QueueTyped, DMActions, ClientOps,
       StateActions, Callbacks, EpilogStates
  <2>2. ManagersTyped'
    BY <1>39 DEF EMDone, ManagersTyped, EMStates
  <2>3. StatesTyped' /\ HistoryTyped' /\ HostsTyped' /\ ClientsTyped' /\
     SchedulerTyped'
    BY <1>39 DEF EMDone, StatesTyped, HistoryTyped, HostsTyped, ClientsTyped,
       SchedulerTyped
  <2> QED
    BY <2>1, <2>2, <2>3
<1>40. ASSUME NEW j \in Jobs, NEW h \in Hosts, EMFailed(j, h)
       PROVE  TypeOK'
  <2>1. QueueTyped'
    BY <1>40, QueueType DEF EMFailed, QueueTyped, DMActions, ClientOps,
       StateActions, Callbacks, EpilogStates
  <2>2. ManagersTyped'
    BY <1>40 DEF EMFailed, ManagersTyped, EMStates
  <2>3. StatesTyped' /\ HistoryTyped' /\ HostsTyped' /\ ClientsTyped' /\
     SchedulerTyped'
    BY <1>40 DEF EMFailed, StatesTyped, HistoryTyped, HostsTyped,
       ClientsTyped, SchedulerTyped
  <2> QED
    BY <2>1, <2>2, <2>3
<1>41. ASSUME NEW j \in Jobs, EMRetry(j)
       PROVE  TypeOK'
  <2>1. ManagersTyped'
    BY <1>41 DEF EMRetry, ManagersTyped
  <2>2. StatesTyped' /\ HistoryTyped' /\ HostsTyped' /\ QueueTyped' /\
     ClientsTyped' /\ SchedulerTyped'
    BY <1>41 DEF EMRetry, StatesTyped, HistoryTyped, HostsTyped, QueueTyped,
       ClientsTyped, SchedulerTyped
  <2> QED
    BY <2>1, <2>2
<1>42. ASSUME NEW j \in Jobs, NEW a \in Callbacks, TMAnswer(j, a)
       PROVE  TypeOK'
  <2>1. QueueTyped'
    BY <1>42, QueueType DEF TMAnswer, QueueTyped, DMActions, ClientOps,
       StateActions, Callbacks, EpilogStates
  <2>2. ManagersTyped'
    BY <1>42 DEF TMAnswer, ManagersTyped
  <2>3. StatesTyped' /\ HistoryTyped' /\ HostsTyped' /\ ClientsTyped' /\
     SchedulerTyped'
    BY <1>42 DEF TMAnswer, StatesTyped, HistoryTyped, HostsTyped,
       ClientsTyped, SchedulerTyped
  <2> QED
    BY <2>1, <2>2, <2>3
<1>43. ASSUME NEW j \in Jobs, NEW h \in Hosts \union {NoHost}, DispatchUnsaved(j, h)
       PROVE  TypeOK'
  <2>1. HistoryTyped'
    BY <1>43 DEF DispatchUnsaved, HistoryTyped, HistoryAdd, Reasons
  <2>2. ManagersTyped'
    BY <1>43 DEF DispatchUnsaved, ManagersTyped, HistoryAdd
  <2>3. SchedulerTyped'
    BY <1>43 DEF DispatchUnsaved, SchedulerTyped, Receive
  <2>4. StatesTyped' /\ HostsTyped' /\ QueueTyped' /\ ClientsTyped'
    BY <1>43 DEF DispatchUnsaved, StatesTyped, HostsTyped, QueueTyped, ClientsTyped
  <2> QED
    BY <2>1, <2>2, <2>3, <2>4
<1> QED
  BY <1>1, <1>2, <1>3, <1>4, <1>5, <1>6, <1>7, <1>8, <1>9, <1>10, <1>11,
     <1>12, <1>13, <1>14, <1>15, <1>16, <1>17, <1>18, <1>19, <1>20, <1>21,
     <1>22, <1>23, <1>24, <1>25, <1>26, <1>27, <1>28, <1>29, <1>30, <1>31,
     <1>32, <1>33, <1>34, <1>35, <1>36, <1>37, <1>38, <1>39, <1>40, <1>41,
     <1>42, <1>43 DEF Next, DMStep, EMStep, TMStep, ListenerStep

-----------------------------------------------------------------------------
(* The history records.                                                    *)

\* Every message of the next queue is an old one or m.
NewMessage(m) == \A a, k : Queued(a, k)' => Queued(a, k) \/ <<a, k>> = m

\* The message that the DM thread handles was in its queue.
LEMMA HeadQueued ==
  ASSUME QueueTyped, NEW a, NEW j, Handle(a, j)
  PROVE  Queued(a, j)
  BY DEF QueueTyped, Handle, Queued

\* Taking a message from the queue adds none.
LEMMA QueuedDone ==
  ASSUME QueueTyped, dmq # <<>>, Done, NEW m
  PROVE  NewMessage(m)
  BY DEF QueueTyped, Done, Queued, NewMessage

\* A handler that triggers an action adds just that message.
LEMMA QueuedTrigger ==
  ASSUME QueueTyped, dmq # <<>>, NEW b \in DMActions, NEW j \in Jobs, DoneAndTrigger(b, j)
  PROVE  NewMessage(<<b, j>>)
<1> SUFFICES ASSUME NEW a, NEW k, NEW i \in 1..Len(dmq'), dmq'[i] = <<a, k>>
             PROVE  Queued(a, k) \/ <<a, k>> = <<b, j>>
  BY DEF NewMessage, Queued
<1>1. Len(dmq) \in Nat \ {0} /\ Len(dmq') = Len(dmq)
  BY DEF QueueTyped, DoneAndTrigger
<1>2. CASE i = Len(dmq)
  BY <1>1, <1>2 DEF QueueTyped, DoneAndTrigger
<1>3. CASE i # Len(dmq)
  <2>1. i \in 1..(Len(dmq) - 1) /\ i + 1 \in 1..Len(dmq)
    BY <1>1, <1>3
  <2>2. dmq'[i] = dmq[i + 1]
    BY <1>1, <2>1 DEF QueueTyped, DoneAndTrigger
  <2> QED
    BY <2>1, <2>2 DEF Queued
<1> QED
  BY <1>2, <1>3

\* Another thread that triggers an action adds just that message.
LEMMA QueuedAppend ==
  ASSUME QueueTyped, NEW b \in DMActions, NEW j \in Jobs, dmq' = Append(dmq, <<b, j>>)
  PROVE  NewMessage(<<b, j>>)
<1> SUFFICES ASSUME NEW a, NEW k, NEW i \in 1..Len(dmq'), dmq'[i] = <<a, k>>
             PROVE  Queued(a, k) \/ <<a, k>> = <<b, j>>
  BY DEF NewMessage, Queued
<1>1. Len(dmq) \in Nat /\ Len(dmq') = Len(dmq) + 1
  BY DEF QueueTyped
<1>2. CASE i = Len(dmq) + 1
  BY <1>1, <1>2 DEF QueueTyped
<1>3. CASE i \in 1..Len(dmq)
  BY <1>1, <1>3 DEF QueueTyped, Queued
<1> QED
  BY <1>1, <1>2, <1>3

\* Leaving the queue alone adds no message.
LEMMA QueuedSame ==
  ASSUME UNCHANGED dmq, NEW m
  PROVE  NewMessage(m)
  BY DEF Queued, NewMessage

\* A message of the DM, EM or TM is only handled for a job with a record.
LEMMA RecordedHead ==
  ASSUME TypeOK, HistoryInv, NEW j \in Jobs,
         NEW a \in StateActions \union Callbacks, Handle(a, j)
  PROVE  host[j] # NoHost /\ (a \in MigrStates => prev[j] # NoHost)
<1>1. Queued(a, j) /\ job_state[j] # "FREED"
  BY HeadQueued DEF TypeOK, Handle
<1> QED
  BY <1>1 DEF HistoryInv, NeedsRecord, NeedsNextRecord

\* Whatever happens to a job that has its records keeps the invariant.
LEMMA HistoryFrame ==
  ASSUME HistoryInv, NEW j \in Jobs, host[j] # NoHost, UNCHANGED <<host, prev>>,
         NEW b, NewMessage(<<b, j>>),
         b \in MigrStates \/ job_state'[j] \in MigrStates => prev[j] # NoHost,
         job_state[j] = "FREED" => job_state'[j] = "FREED",
         \A k \in Jobs \ {j} :
           /\ \/ job_state'[k] = job_state[k]
              \/ job_state'[k] = "PENDING" /\ job_state[k] = "HOLD"
           /\ em_sub'[k] = em_sub[k] /\ em_retry'[k] = em_retry[k]
           /\ runs'[k] = runs[k] /\ tm_req'[k] = tm_req[k]
  PROVE  HistoryInv'
<1> SUFFICES ASSUME NEW k \in Jobs
             PROVE  /\ NeedsRecord(k)' => host[k] # NoHost
                    /\ NeedsNextRecord(k)' => prev[k] # NoHost
  BY DEF HistoryInv
<1>1. CASE k = j
  BY <1>1 DEF HistoryInv, NeedsRecord, NeedsNextRecord, NewMessage
<1>2. CASE k # j
  <2>1. \A a : Queued(a, k)' => Queued(a, k)
    BY <1>2 DEF NewMessage
  <2>2. job_state'[k] # "FREED" => job_state[k] # "FREED"
    BY <1>2
  <2>3. /\ job_state'[k] \in BusyStates => job_state[k] \in BusyStates
        /\ job_state'[k] \in MigrStates => job_state[k] \in MigrStates
    BY <1>2 DEF BusyStates, MigrStates, ExecStates, CancelStates, EpilogStates
  <2>4. NeedsRecord(k)' => NeedsRecord(k)
    BY <1>2, <2>1, <2>2, <2>3 DEF NeedsRecord
  <2>5. NeedsNextRecord(k)' => NeedsNextRecord(k)
    BY <2>1, <2>2, <2>3 DEF NeedsNextRecord
  <2> QED
    BY <2>4, <2>5 DEF HistoryInv
<1> QED
  BY <1>1, <1>2

\* So does all that only puts jobs into idle states and posts clients' requests.
LEMMA HistoryIdle ==
  ASSUME HistoryInv, UNCHANGED <<host, prev, em_sub, em_retry, runs, tm_req>>,
         NEW j, NEW b \in ClientOps, NewMessage(<<b, j>>),
         \A k \in Jobs :
           \/ job_state'[k] = job_state[k]
           \/ job_state'[k] \in IdleStates /\ job_state[k] # "FREED"
  PROVE  HistoryInv'
<1> SUFFICES ASSUME NEW k \in Jobs
             PROVE  /\ NeedsRecord(k)' => host[k] # NoHost
                    /\ NeedsNextRecord(k)' => prev[k] # NoHost
  BY DEF HistoryInv
<1>1. \A a \in StateActions \union Callbacks : Queued(a, k)' => Queued(a, k)
  <2>1. b \notin StateActions \union Callbacks
    BY DEF ClientOps, StateActions, Callbacks, EpilogStates
  <2> QED
    BY <2>1 DEF NewMessage
<1>2. MigrStates \subseteq StateActions
  BY DEF MigrStates, StateActions, EpilogStates
<1>3. /\ job_state'[k] \in BusyStates => job_state[k] \in BusyStates
      /\ job_state'[k] \in MigrStates => job_state[k] \in MigrStates
      /\ job_state'[k] # "FREED" => job_state[k] # "FREED"
  BY DEF BusyStates, MigrStates, ExecStates, CancelStates, EpilogStates, IdleStates
<1>4. NeedsRecord(k)' => NeedsRecord(k)
  BY <1>1, <1>3 DEF NeedsRecord
<1>5. NeedsNextRecord(k)' => NeedsNextRecord(k)
  BY <1>1, <1>2, <1>3 DEF NeedsNextRecord
<1> QED
  BY <1>4, <1>5 DEF HistoryInv

\* gw_job_pool_free destroys the records with all that needs them.
LEMMA HistoryFree ==
  ASSUME TypeOK, HistoryInv, NEW j \in Jobs, PoolFree(j), NewMessage(<<"KILL", j>>)
  PROVE  HistoryInv'
<1> SUFFICES ASSUME NEW k \in Jobs
             PROVE  /\ NeedsRecord(k)' => host'[k] # NoHost
                    /\ NeedsNextRecord(k)' => prev'[k] # NoHost
  BY DEF HistoryInv
<1> USE DEF TypeOK, StatesTyped, HistoryTyped, ManagersTyped, PoolFree, SetState
<1>1. CASE k = j
  <2>1. job_state'[k] = "FREED" /\ prev'[k] = NoHost
    BY <1>1
  <2>2. ~em_sub'[k] /\ ~em_retry'[k] /\ runs'[k] = {} /\ tm_req'[k] = "NONE"
    BY <1>1
  <2>3. "FREED" \notin BusyStates /\ "FREED" \notin MigrStates
    BY DEF BusyStates, MigrStates, ExecStates, CancelStates, EpilogStates
  <2> QED
    BY <2>1, <2>2, <2>3 DEF NeedsRecord, NeedsNextRecord
<1>2. CASE k # j
  <2>1. \A a : Queued(a, k)' => Queued(a, k)
    BY <1>2 DEF NewMessage
  <2>2. job_state'[k] = job_state[k] /\ host'[k] = host[k] /\ prev'[k] = prev[k]
    BY <1>2
  <2>3. /\ em_sub'[k] = em_sub[k] /\ em_retry'[k] = em_retry[k]
        /\ runs'[k] = runs[k] /\ tm_req'[k] = tm_req[k]
    BY <1>2
  <2>4. NeedsRecord(k)' => NeedsRecord(k)
    BY <2>1, <2>2, <2>3 DEF NeedsRecord
  <2>5. NeedsNextRecord(k)' => NeedsNextRecord(k)
    BY <2>1, <2>2 DEF NeedsNextRecord
  <2> QED
    BY <2>2, <2>4, <2>5 DEF HistoryInv
<1> QED
  BY <1>1, <1>2

\* No step breaks HistoryInv: a job gets a record with the dispatch that makes it
\* need one, and loses its records only when it is freed.
LEMMA HistoryStep ==
  ASSUME TypeOK, HistoryInv, [Next]_vars
  PROVE  HistoryInv'
<1> USE DEF jobv, depv, hostv, rmv, emv, schv, SetState
<1> QueueTyped /\ StatesTyped /\ HistoryTyped /\ ManagersTyped
  BY DEF TypeOK
<1>1. CASE UNCHANGED vars
  BY <1>1 DEF vars, HistoryInv, NeedsRecord, NeedsNextRecord, Queued
<1>2. ASSUME NEW j \in Jobs, Submit(j)
      PROVE  HistoryInv'
  <2>1. NewMessage(<<"WAIT", j>>)
    BY <1>2, QueuedSame DEF Submit
  <2>2. "WAIT" \in ClientOps
    BY DEF ClientOps
  <2> QED
    BY <1>2, <2>1, <2>2, HistoryIdle DEF Submit, IdleStates, StatesTyped
<1>3. ASSUME NEW j \in Jobs, NEW op \in UserOps, Request(op, j)
      PROVE  HistoryInv'
  <2>1. op \in ClientOps /\ op \in DMActions
    BY DMAssumption DEF DMActions
  <2>2. NewMessage(<<op, j>>)
    BY <1>3, <2>1, QueuedAppend DEF Request
  <2> QED
    BY <1>3, <2>1, <2>2, HistoryIdle DEF Request
<1>4. ASSUME NEW j \in Jobs, NEW a \in DMActions, MissingJob(a, j)
      PROVE  HistoryInv'
  <2>1. NewMessage(<<"WAIT", j>>)
    BY <1>4, QueuedDone DEF MissingJob, Handle
  <2>2. "WAIT" \in ClientOps
    BY DEF ClientOps
  <2> QED
    BY <1>4, <2>1, <2>2, HistoryIdle DEF MissingJob
<1>5. ASSUME NEW j \in Jobs, Hold(j)
      PROVE  HistoryInv'
  <2>1. NewMessage(<<"WAIT", j>>)
    BY <1>5, QueuedDone DEF Hold, Handle
  <2>2. "WAIT" \in ClientOps
    BY DEF ClientOps
  <2> QED
    BY <1>5, <2>1, <2>2, HistoryIdle DEF Hold, IdleStates, Handle, StatesTyped
<1>6. ASSUME NEW j \in Jobs, Release(j)
      PROVE  HistoryInv'
  <2>1. NewMessage(<<"WAIT", j>>)
    BY <1>6, QueuedDone DEF Release, Handle
  <2>2. "WAIT" \in ClientOps
    BY DEF ClientOps
  <2> QED
    BY <1>6, <2>1, <2>2, HistoryIdle DEF Release, IdleStates, Handle,
       StatesTyped
<1>7. ASSUME NEW j \in Jobs, Resume(j)
      PROVE  HistoryInv'
  <2>1. NewMessage(<<"WAIT", j>>)
    BY <1>7, QueuedDone DEF Resume, Handle
  <2>2. "WAIT" \in ClientOps
    BY DEF ClientOps
  <2> QED
    BY <1>7, <2>1, <2>2, HistoryIdle DEF Resume, IdleStates, Handle,
       StatesTyped
<1>8. ASSUME NEW j \in Jobs, Reschedule(j)
      PROVE  HistoryInv'
  <2>1. NewMessage(<<"WAIT", j>>)
    BY <1>8, QueuedDone DEF Reschedule, Handle
  <2>2. "WAIT" \in ClientOps
    BY DEF ClientOps
  <2> QED
    BY <1>8, <2>1, <2>2, HistoryIdle DEF Reschedule, IdleStates, Handle,
       StatesTyped
<1>9. ASSUME NEW j \in Jobs, Wait(j)
      PROVE  HistoryInv'
  <2>1. NewMessage(<<"WAIT", j>>)
    BY <1>9, QueuedDone DEF Wait, Handle
  <2>2. "WAIT" \in ClientOps
    BY DEF ClientOps
  <2> QED
    BY <1>9, <2>1, <2>2, HistoryIdle DEF Wait
<1>10. ASSUME Schedule
       PROVE  HistoryInv'
  <2>1. NewMessage(<<"WAIT", NoHost>>)
    BY <1>10, QueuedSame DEF Schedule
  <2>2. "WAIT" \in ClientOps
    BY DEF ClientOps
  <2> QED
    BY <1>10, <2>1, <2>2, HistoryIdle DEF Schedule
<1>11. ASSUME NEW j \in Jobs, NEW h \in Hosts \union {NoHost}, UncheckJob(j, h)
       PROVE  HistoryInv'
  <2>1. NewMessage(<<"WAIT", j>>)
    BY <1>11, QueuedSame DEF UncheckJob
  <2>2. "WAIT" \in ClientOps
    BY DEF ClientOps
  <2> QED
    BY <1>11, <2>1, <2>2, HistoryIdle DEF UncheckJob
<1>12. ASSUME NEW j \in Jobs, NEW h \in Hosts \union {NoHost}, DispatchRefused(j, h)
       PROVE  HistoryInv'
  <2>1. NewMessage(<<"WAIT", j>>)
    BY <1>12, QueuedSame DEF DispatchRefused
  <2>2. "WAIT" \in ClientOps
    BY DEF ClientOps
  <2> QED
    BY <1>12, <2>1, <2>2, HistoryIdle DEF DispatchRefused
<1>13. ASSUME ScheduleEnd
       PROVE  HistoryInv'
  <2>1. NewMessage(<<"WAIT", NoHost>>)
    BY <1>13, QueuedSame DEF ScheduleEnd
  <2>2. "WAIT" \in ClientOps
    BY DEF ClientOps
  <2> QED
    BY <1>13, <2>1, <2>2, HistoryIdle DEF ScheduleEnd
<1>14. ASSUME SchedulerReload
       PROVE  HistoryInv'
  <2>1. NewMessage(<<"WAIT", NoHost>>)
    BY <1>14, QueuedSame DEF SchedulerReload
  <2>2. "WAIT" \in ClientOps
    BY DEF ClientOps
  <2> QED
    BY <1>14, <2>1, <2>2, HistoryIdle DEF SchedulerReload
<1>15. ASSUME NEW j \in Jobs, NEW s \in Submitted, EMState(j, s)
       PROVE  HistoryInv'
  <2>1. NewMessage(<<"WAIT", j>>)
    BY <1>15, QueuedSame DEF EMState
  <2>2. "WAIT" \in ClientOps
    BY DEF ClientOps
  <2> QED
    BY <1>15, <2>1, <2>2, HistoryIdle DEF EMState
<1>16. ASSUME NEW j \in Jobs, NEW s \in {"PROLOG", "MIGR_PROLOG"}, Prolog(j, s)
       PROVE  HistoryInv'
  <2>1. host[j] # NoHost /\ job_state[j] # "FREED"
    BY <1>16, RecordedHead DEF Prolog, Handle, StateActions, Callbacks,
       EpilogStates
  <2>2. s \in MigrStates => prev[j] # NoHost
    BY <1>16, RecordedHead DEF Prolog, StateActions
  <2>3. \E b \in {"WAIT", "PROLOG_FAILED"} : NewMessage(<<b, j>>)
    BY <1>16, QueuedDone, QueuedTrigger DEF Prolog, Handle, DMActions, Callbacks
  <2>4. "WAIT" \notin MigrStates /\ "PROLOG_FAILED" \notin MigrStates
    BY DEF MigrStates
  <2> QED
    BY <1>16, <2>1, <2>2, <2>3, <2>4, HistoryFrame DEF Prolog, StatesTyped, ManagersTyped
<1>17. ASSUME NEW j \in Jobs, PrologDone(j)
       PROVE  HistoryInv'
  <2>1. host[j] # NoHost /\ job_state[j] # "FREED"
    BY <1>17, RecordedHead DEF PrologDone, Handle, StateActions, Callbacks,
       EpilogStates
  <2>2. PICK b \in {"PRE_WRAPPER", "WRAPPER", "MIGR_EPILOG", "WAIT"} :
          NewMessage(<<b, j>>) /\ (b = "MIGR_EPILOG" => job_state[j] = "MIGR_PROLOG")
    BY <1>17, QueuedDone, QueuedTrigger DEF PrologDone, Handle, DMActions,
       StateActions, EpilogStates
  <2>3. b \in MigrStates => job_state[j] \in MigrStates
    BY <2>2 DEF MigrStates
  <2>4. job_state[j] \in MigrStates => prev[j] # NoHost
    BY DEF HistoryInv, NeedsNextRecord
  <2> QED
    BY <1>17, <2>1, <2>2, <2>3, <2>4, HistoryFrame DEF PrologDone
<1>18. ASSUME NEW j \in Jobs, PrologFailed(j)
       PROVE  HistoryInv'
  <2>1. host[j] # NoHost /\ job_state[j] # "FREED"
    BY <1>18, RecordedHead DEF PrologFailed, Handle, StateActions, Callbacks,
       EpilogStates
  <2>2. \E b \in {"PENDING", "FAILED"} : NewMessage(<<b, j>>)
    BY <1>18, QueuedTrigger DEF PrologFailed, Handle, DMActions, ClientOps,
       StateActions, Callbacks, EpilogStates, OnFailure
  <2>3. \A b \in {"PENDING", "FAILED"} : b \notin MigrStates
    BY DEF MigrStates
  <2>4. job_state[j] \in MigrStates => prev[j] # NoHost
    BY DEF HistoryInv, NeedsNextRecord
  <2> QED
    BY <1>18, <2>1, <2>2, <2>3, <2>4, HistoryFrame DEF PrologFailed
<1>19. ASSUME NEW j \in Jobs, NEW s \in {"PRE_WRAPPER", "WRAPPER"}, Wrapper(j, s)
       PROVE  HistoryInv'
  <2>1. host[j] # NoHost /\ job_state[j] # "FREED"
    BY <1>19, RecordedHead DEF Wrapper, Handle, StateActions, Callbacks,
       EpilogStates
  <2>2. \E b \in {"WAIT"} : NewMessage(<<b, j>>)
    BY <1>19, QueuedDone DEF Wrapper, Handle
  <2>3. \A b \in {"WAIT"} : b \notin MigrStates
    BY DEF MigrStates
  <2>4. job_state'[j] \notin MigrStates
    BY <1>19 DEF Wrapper, StatesTyped, MigrStates
  <2> QED
    BY <1>19, <2>1, <2>2, <2>3, <2>4, HistoryFrame DEF Wrapper, StatesTyped, ManagersTyped
<1>20. ASSUME NEW j \in Jobs, WrapperDone(j)
       PROVE  HistoryInv'
  <2>1. host[j] # NoHost /\ job_state[j] # "FREED"
    BY <1>20, RecordedHead DEF WrapperDone, Handle, StateActions, Callbacks,
       EpilogStates
  <2>2. PICK b \in {"WRAPPER", "EPILOG", "EPILOG_STD", "STOP_EPILOG", "KILL_EPILOG",
                   "MIGR_PROLOG", "WAIT"} :
          NewMessage(<<b, j>>) /\ (b = "MIGR_PROLOG" => job_state[j] = "MIGR_CANCEL")
    BY <1>20, QueuedDone, QueuedTrigger DEF WrapperDone, Handle, DMActions,
       StateActions, EpilogStates
  <2>3. b \in MigrStates => job_state[j] \in MigrStates
    BY <2>2 DEF MigrStates
  <2>4. job_state[j] \in MigrStates => prev[j] # NoHost
    BY DEF HistoryInv, NeedsNextRecord
  <2> QED
    BY <1>20, <2>1, <2>2, <2>3, <2>4, HistoryFrame DEF WrapperDone
<1>21. ASSUME NEW j \in Jobs, WrapperFailed(j)
       PROVE  HistoryInv'
  <2>1. host[j] # NoHost /\ job_state[j] # "FREED"
    BY <1>21, RecordedHead DEF WrapperFailed, Handle, StateActions, Callbacks,
       EpilogStates
  <2>2. \E b \in {"EPILOG_FAIL"} : NewMessage(<<b, j>>)
    BY <1>21, QueuedTrigger DEF WrapperFailed, Handle, DMActions, ClientOps,
       StateActions, Callbacks, EpilogStates
  <2>3. \A b \in {"EPILOG_FAIL"} : b \notin MigrStates
    BY DEF MigrStates
  <2>4. job_state[j] \in MigrStates => prev[j] # NoHost
    BY DEF HistoryInv, NeedsNextRecord
  <2> QED
    BY <1>21, <2>1, <2>2, <2>3, <2>4, HistoryFrame DEF WrapperFailed
<1>22. ASSUME NEW j \in Jobs, MigrCancel(j)
       PROVE  HistoryInv'
  <2>1. host[j] # NoHost /\ job_state[j] # "FREED"
    BY <1>22, RecordedHead DEF MigrCancel, Handle, StateActions, Callbacks,
       EpilogStates
  <2>2. NewMessage(<<"WAIT", j>>) /\ "WAIT" \notin MigrStates
    BY <1>22, QueuedDone DEF MigrCancel, Handle, MigrStates
  <2>3. prev[j] # NoHost
    BY <1>22, RecordedHead DEF MigrCancel, StateActions, MigrStates
  <2> QED
    BY <1>22, <2>1, <2>2, <2>3, HistoryFrame DEF MigrCancel, StatesTyped,
       ManagersTyped
<1>23. ASSUME NEW j \in Jobs, NEW s \in EpilogStates, Epilog(j, s)
       PROVE  HistoryInv'
  <2>1. host[j] # NoHost /\ job_state[j] # "FREED"
    BY <1>23, RecordedHead DEF Epilog, Handle, StateActions
  <2>2. NewMessage(<<"WAIT", j>>) /\ "WAIT" \notin MigrStates
    BY <1>23, QueuedDone DEF Epilog, Handle, MigrStates
  <2>3. s \in MigrStates => prev[j] # NoHost
    BY <1>23, RecordedHead DEF Epilog, StateActions
  <2> QED
    BY <1>23, <2>1, <2>2, <2>3, HistoryFrame DEF Epilog, StatesTyped, ManagersTyped
<1>24. ASSUME NEW j \in Jobs, EpilogDoneStd(j)
       PROVE  HistoryInv'
  <2>1. host[j] # NoHost /\ job_state[j] # "FREED"
    BY <1>24, RecordedHead DEF EpilogDoneStd, Handle, StateActions, Callbacks,
       EpilogStates
  <2>2. \E b \in {"EPILOG", "EPILOG_RESTART"} : NewMessage(<<b, j>>)
    BY <1>24, QueuedTrigger DEF EpilogDoneStd, Handle, DMActions, ClientOps,
       StateActions, Callbacks, EpilogStates
  <2>3. \A b \in {"EPILOG", "EPILOG_RESTART"} : b \notin MigrStates
    BY DEF MigrStates
  <2>4. job_state[j] \in MigrStates => prev[j] # NoHost
    BY DEF HistoryInv, NeedsNextRecord
  <2> QED
    BY <1>24, <2>1, <2>2, <2>3, <2>4, HistoryFrame DEF EpilogDoneStd
<1>25. ASSUME NEW j \in Jobs, EpilogFailedStd(j)
       PROVE  HistoryInv'
  <2>1. host[j] # NoHost /\ job_state[j] # "FREED"
    BY <1>25, RecordedHead DEF EpilogFailedStd, Handle, StateActions, Callbacks,
       EpilogStates
  <2>2. \E b \in {"EPILOG_RESTART"} : NewMessage(<<b, j>>)
    BY <1>25, QueuedTrigger DEF EpilogFailedStd, Handle, DMActions, ClientOps,
       StateActions, Callbacks, EpilogStates
  <2>3. \A b \in {"EPILOG_RESTART"} : b \notin MigrStates
    BY DEF MigrStates
  <2>4. job_state[j] \in MigrStates => prev[j] # NoHost
    BY DEF HistoryInv, NeedsNextRecord
  <2> QED
    BY <1>25, <2>1, <2>2, <2>3, <2>4, HistoryFrame DEF EpilogFailedStd
<1>26. ASSUME NEW j \in Jobs, EpilogEnded(j)
       PROVE  HistoryInv'
  <2>1. host[j] # NoHost /\ job_state[j] # "FREED"
    BY <1>26, RecordedHead DEF EpilogEnded, Handle, StateActions, Callbacks,
       EpilogStates
  <2>2. \E b \in {"ZOMBIE", "WRAPPER", "STOPPED", "PENDING", "FAILED", "WAIT"}
     : NewMessage(<<b, j>>)
    BY <1>26, QueuedDone, QueuedTrigger DEF EpilogEnded, Handle, DMActions,
       ClientOps, StateActions, Callbacks, EpilogStates, OnFailure
  <2>3. \A b \in {"ZOMBIE", "WRAPPER", "STOPPED", "PENDING", "FAILED", "WAIT"}
     : b \notin MigrStates
    BY DEF MigrStates
  <2>4. job_state[j] \in MigrStates => prev[j] # NoHost
    BY DEF HistoryInv, NeedsNextRecord
  <2> QED
    BY <1>26, <2>1, <2>2, <2>3, <2>4, HistoryFrame DEF EpilogEnded
<1>27. ASSUME NEW j \in Jobs, EpilogDone(j)
       PROVE  HistoryInv'
  <2>1. host[j] # NoHost /\ job_state[j] # "FREED"
    BY <1>27, RecordedHead DEF EpilogDone, Handle, StateActions, Callbacks,
       EpilogStates
  <2>2. \E b \in {"ZOMBIE", "PENDING", "FAILED"} : NewMessage(<<b, j>>)
    BY <1>27, QueuedTrigger DEF EpilogDone, Handle, DMActions, ClientOps,
       StateActions, Callbacks, EpilogStates, OnFailure
  <2>3. \A b \in {"ZOMBIE", "PENDING", "FAILED"} : b \notin MigrStates
    BY DEF MigrStates
  <2>4. job_state[j] \in MigrStates => prev[j] # NoHost
    BY DEF HistoryInv, NeedsNextRecord
  <2> QED
    BY <1>27, <2>1, <2>2, <2>3, <2>4, HistoryFrame DEF EpilogDone
<1>28. ASSUME NEW j \in Jobs, EpilogFailed(j)
       PROVE  HistoryInv'
  <2>1. host[j] # NoHost /\ job_state[j] # "FREED"
    BY <1>28, RecordedHead DEF EpilogFailed, Handle, StateActions, Callbacks,
       EpilogStates
  <2>2. \E b \in {"PENDING", "FAILED"} : NewMessage(<<b, j>>)
    BY <1>28, QueuedTrigger DEF EpilogFailed, Handle, DMActions, ClientOps,
       StateActions, Callbacks, EpilogStates, OnFailure
  <2>3. \A b \in {"PENDING", "FAILED"} : b \notin MigrStates
    BY DEF MigrStates
  <2>4. job_state[j] \in MigrStates => prev[j] # NoHost
    BY DEF HistoryInv, NeedsNextRecord
  <2> QED
    BY <1>28, <2>1, <2>2, <2>3, <2>4, HistoryFrame DEF EpilogFailed
<1>29. ASSUME NEW j \in Jobs, Pending(j)
       PROVE  HistoryInv'
  <2>1. host[j] # NoHost /\ job_state[j] # "FREED"
    BY <1>29, RecordedHead DEF Pending, Handle, StateActions, Callbacks,
       EpilogStates
  <2>2. \E b \in {"WAIT"} : NewMessage(<<b, j>>)
    BY <1>29, QueuedDone DEF Pending, Handle
  <2>3. \A b \in {"WAIT"} : b \notin MigrStates
    BY DEF MigrStates
  <2>4. job_state'[j] \notin MigrStates
    BY <1>29 DEF Pending, StatesTyped, MigrStates
  <2> QED
    BY <1>29, <2>1, <2>2, <2>3, <2>4, HistoryFrame DEF Pending
<1>30. ASSUME NEW j \in Jobs, Stopped(j)
       PROVE  HistoryInv'
  <2>1. host[j] # NoHost /\ job_state[j] # "FREED"
    BY <1>30, RecordedHead DEF Stopped, Handle, StateActions, Callbacks,
       EpilogStates
  <2>2. \E b \in {"WAIT"} : NewMessage(<<b, j>>)
    BY <1>30, QueuedDone DEF Stopped, Handle
  <2>3. \A b \in {"WAIT"} : b \notin MigrStates
    BY DEF MigrStates
  <2>4. job_state'[j] \notin MigrStates
    BY <1>30 DEF Stopped, StatesTyped, MigrStates
  <2> QED
    BY <1>30, <2>1, <2>2, <2>3, <2>4, HistoryFrame DEF Stopped
<1>31. ASSUME NEW j \in Jobs, Failed(j)
       PROVE  HistoryInv'
  <2>1. host[j] # NoHost /\ job_state[j] # "FREED"
    BY <1>31, RecordedHead DEF Failed, Handle, StateActions, Callbacks,
       EpilogStates
  <2>2. \E b \in {"WAIT"} : NewMessage(<<b, j>>)
    BY <1>31, QueuedDone DEF Failed, Handle
  <2>3. \A b \in {"WAIT"} : b \notin MigrStates
    BY DEF MigrStates
  <2>4. job_state'[j] \notin MigrStates
    BY <1>31 DEF Failed, StatesTyped, MigrStates
  <2> QED
    BY <1>31, <2>1, <2>2, <2>3, <2>4, HistoryFrame DEF Failed
<1>32. ASSUME NEW j \in Jobs, EMSubmit(j)
       PROVE  HistoryInv'
  <2>1. host[j] # NoHost
    BY <1>32 DEF EMSubmit, HistoryInv, NeedsRecord
  <2>2. \E b \in {"WAIT", "WRAPPER_FAILED"} : NewMessage(<<b, j>>)
    BY <1>32, QueuedSame, QueuedAppend DEF EMSubmit, DMActions, Callbacks
  <2>3. \A b \in {"WAIT", "WRAPPER_FAILED"} : b \notin MigrStates
    BY DEF MigrStates
  <2>4. job_state[j] \in MigrStates => prev[j] # NoHost
    BY DEF HistoryInv, NeedsNextRecord
  <2> QED
    BY <1>32, <2>1, <2>2, <2>3, <2>4, HistoryFrame DEF EMSubmit, ManagersTyped
<1>33. ASSUME NEW j \in Jobs, NEW h \in Hosts, EMDone(j, h)
       PROVE  HistoryInv'
  <2>1. host[j] # NoHost
    BY <1>33 DEF EMDone, HistoryInv, NeedsRecord
  <2>2. \E b \in {"WRAPPER_DONE"} : NewMessage(<<b, j>>)
    BY <1>33, QueuedAppend DEF EMDone, DMActions, Callbacks
  <2>3. \A b \in {"WRAPPER_DONE"} : b \notin MigrStates
    BY DEF MigrStates
  <2>4. job_state[j] \in MigrStates => prev[j] # NoHost
    BY DEF HistoryInv, NeedsNextRecord
  <2> QED
    BY <1>33, <2>1, <2>2, <2>3, <2>4, HistoryFrame DEF EMDone, ManagersTyped
<1>34. ASSUME NEW j \in Jobs, NEW h \in Hosts, EMFailed(j, h)
       PROVE  HistoryInv'
  <2>1. host[j] # NoHost
    BY <1>34 DEF EMFailed, HistoryInv, NeedsRecord
  <2>2. \E b \in {"WAIT", "WRAPPER_FAILED"} : NewMessage(<<b, j>>)
    BY <1>34, QueuedSame, QueuedAppend DEF EMFailed, DMActions, Callbacks
  <2>3. \A b \in {"WAIT", "WRAPPER_FAILED"} : b \notin MigrStates
    BY DEF MigrStates
  <2>4. job_state[j] \in MigrStates => prev[j] # NoHost
    BY DEF HistoryInv, NeedsNextRecord
  <2> QED
    BY <1>34, <2>1, <2>2, <2>3, <2>4, HistoryFrame DEF EMFailed, ManagersTyped
<1>35. ASSUME NEW j \in Jobs, EMRetry(j)
       PROVE  HistoryInv'
  <2>1. host[j] # NoHost
    BY <1>35 DEF EMRetry, HistoryInv, NeedsRecord
  <2>2. \E b \in {"WAIT"} : NewMessage(<<b, j>>)
    BY <1>35, QueuedSame DEF EMRetry, DMActions, Callbacks
  <2>3. \A b \in {"WAIT"} : b \notin MigrStates
    BY DEF MigrStates
  <2>4. job_state[j] \in MigrStates => prev[j] # NoHost
    BY DEF HistoryInv, NeedsNextRecord
  <2> QED
    BY <1>35, <2>1, <2>2, <2>3, <2>4, HistoryFrame DEF EMRetry, ManagersTyped
<1>36. ASSUME NEW j \in Jobs, NEW a \in Callbacks, TMAnswer(j, a)
       PROVE  HistoryInv'
  <2>1. host[j] # NoHost
    BY <1>36 DEF TMAnswer, HistoryInv, NeedsRecord
  <2>2. \E b \in {"PROLOG_DONE", "PROLOG_FAILED", "EPILOG_DONE",
     "EPILOG_FAILED"} : NewMessage(<<b, j>>)
    BY <1>36, QueuedAppend DEF TMAnswer, DMActions, Callbacks
  <2>3. \A b \in {"PROLOG_DONE", "PROLOG_FAILED", "EPILOG_DONE",
     "EPILOG_FAILED"} : b \notin MigrStates
    BY DEF MigrStates
  <2>4. job_state[j] \in MigrStates => prev[j] # NoHost
    BY DEF HistoryInv, NeedsNextRecord
  <2> QED
    BY <1>36, <2>1, <2>2, <2>3, <2>4, HistoryFrame DEF TMAnswer, ManagersTyped
<1>37. ASSUME NEW j \in Jobs, KillHard(j)
       PROVE  HistoryInv'
  <2>1. NewMessage(<<"KILL", j>>)
    BY <1>37, QueuedDone DEF KillHard, Handle
  <2> QED
    BY <1>37, <2>1, HistoryFree DEF KillHard
<1>38. ASSUME NEW j \in Jobs, Kill(j)
       PROVE  HistoryInv'
  <2>1. NewMessage(<<"KILL", j>>)
    BY <1>38, QueuedDone DEF Kill, Handle
  <2>2. CASE PoolFree(j)
    BY <2>1, <2>2, HistoryFree
  <2>3. CASE job_state[j] = "WRAPPER" /\ job_state' = [job_state EXCEPT ![j] = "KILL_CANCEL"]
               /\ UNCHANGED <<host, prev, em_sub, em_retry, runs, tm_req>>
    <3>1. host[j] # NoHost
      BY <2>3 DEF HistoryInv, NeedsRecord, BusyStates, ExecStates
    <3>2. job_state'[j] \notin MigrStates /\ "KILL" \notin MigrStates
      BY <2>3 DEF StatesTyped, MigrStates
    <3> QED
      BY <2>1, <2>3, <3>1, <3>2, HistoryFrame
  <2>4. CASE UNCHANGED <<job_state, host, prev, em_sub, em_retry, runs, tm_req>>
    BY <2>1, <2>4, HistoryIdle DEF ClientOps
  <2> QED
    BY <1>38, <2>2, <2>3, <2>4 DEF Kill
<1>39. ASSUME NEW j \in Jobs, Stop(j)
       PROVE  HistoryInv'
  <2>1. NewMessage(<<"STOP", j>>)
    BY <1>39, QueuedDone DEF Stop, Handle
  <2>2. CASE job_state[j] = "WRAPPER" /\ job_state' = [job_state EXCEPT ![j] = "STOP_CANCEL"]
    <3>1. host[j] # NoHost
      BY <2>2 DEF HistoryInv, NeedsRecord, BusyStates, ExecStates
    <3>2. job_state'[j] \notin MigrStates /\ "STOP" \notin MigrStates
      BY <2>2 DEF StatesTyped, MigrStates
    <3> QED
      BY <1>39, <2>1, <2>2, <3>1, <3>2, HistoryFrame DEF Stop
  <2>3. CASE UNCHANGED job_state
    BY <1>39, <2>1, <2>3, HistoryIdle DEF Stop, ClientOps
  <2> QED
    BY <1>39, <2>2, <2>3 DEF Stop
<1>40. ASSUME NEW j \in Jobs, Zombie(j)
       PROVE  HistoryInv'
  <2>1. host[j] # NoHost /\ job_state[j] # "FREED"
    BY <1>40, RecordedHead DEF Zombie, Handle, StateActions
  <2>2. NewMessage(<<"KILL", j>>)
    BY <1>40, QueuedDone, QueuedTrigger DEF Zombie, Handle, DMActions, ClientOps
  <2>3. "KILL" \notin MigrStates /\ "ZOMBIE" \notin MigrStates
    BY DEF MigrStates
  <2>4. CASE job_state[j] = "EPILOG"
    <3>1. DepCheck(j)
      BY <1>40, <2>4 DEF Zombie
    <3>2. job_state' = [k \in Jobs |->
                          IF k = j THEN "ZOMBIE"
                          ELSE IF MeetsDep(k, j) /\ LastDep(k, j) THEN "PENDING"
                          ELSE job_state[k]]
      BY <3>1, Zenon DEF DepCheck
    <3>3. \A k \in Jobs \ {j} :
            \/ job_state'[k] = job_state[k]
            \/ job_state'[k] = "PENDING" /\ job_state[k] = "HOLD"
      BY <3>2 DEF MeetsDep
    <3>4. job_state'[j] = "ZOMBIE"
      BY <3>2
    <3>5. UNCHANGED <<host, prev, em_sub, em_retry, runs, tm_req>>
      BY <1>40, <2>4 DEF Zombie
    <3> QED
      BY <2>1, <2>2, <2>3, <3>3, <3>4, <3>5, HistoryFrame
  <2>5. CASE job_state[j] = "KILL_EPILOG"
    BY <1>40, <2>2, <2>5, HistoryFree DEF Zombie
  <2>6. CASE job_state[j] \notin {"EPILOG", "KILL_EPILOG"}
    BY <1>40, <2>2, <2>6, HistoryIdle DEF Zombie, ClientOps
  <2> QED
    BY <2>4, <2>5, <2>6
<1>41. ASSUME NEW j \in Jobs, NEW h \in Hosts \union {NoHost}, DispatchPending(j, h)
       PROVE  HistoryInv'
  <2>1. NewMessage(<<"PROLOG", j>>)
    BY <1>41, QueuedAppend DEF DispatchPending, DMActions, StateActions
  <2>2. h # NoHost /\ HistoryAdd(j, h) /\ job_state[j] # "FREED"
    BY <1>41 DEF DispatchPending
  <2>3. UNCHANGED <<job_state, em_sub, runs, tm_req>>
    BY <1>41 DEF DispatchPending
  <2>4. "PROLOG" \notin MigrStates
    BY <1>41 DEF DispatchPending, MigrStates, HistoryInv, NeedsRecord, BusyStates,
       ExecStates
  <2> SUFFICES ASSUME NEW k \in Jobs
               PROVE  /\ NeedsRecord(k)' => host'[k] # NoHost
                      /\ NeedsNextRecord(k)' => prev'[k] # NoHost
    BY DEF HistoryInv
  <2>5. CASE k = j
    <3>1. host'[j] = h /\ prev'[j] = host[j]
      BY <2>2 DEF HistoryAdd, HistoryTyped
    <3>2. NeedsNextRecord(j)' => NeedsNextRecord(j) \/ host[j] # NoHost
      BY <2>1, <2>3, <2>4 DEF NewMessage, NeedsNextRecord
    <3>3. NeedsNextRecord(j) => host[j] # NoHost
      BY DEF HistoryInv, NeedsRecord
    <3> QED
      BY <2>2, <2>5, <3>1, <3>2, <3>3
  <2>6. CASE k # j
    <3>1. \A a : Queued(a, k)' => Queued(a, k)
      BY <2>1, <2>6 DEF NewMessage
    <3>2. host'[k] = host[k] /\ prev'[k] = prev[k] /\ em_retry'[k] = em_retry[k]
      BY <2>2, <2>6 DEF HistoryAdd, HistoryTyped, ManagersTyped
    <3>3. NeedsRecord(k)' => NeedsRecord(k)
      BY <2>3, <3>1, <3>2 DEF NeedsRecord
    <3>4. NeedsNextRecord(k)' => NeedsNextRecord(k)
      BY <2>3, <3>1 DEF NeedsNextRecord
    <3> QED
      BY <3>2, <3>3, <3>4 DEF HistoryInv
  <2> QED
    BY <2>5, <2>6
<1>42. ASSUME NEW j \in Jobs, NEW h \in Hosts \union {NoHost}, DispatchMigration(j, h)
       PROVE  HistoryInv'
  <2>1. NewMessage(<<"MIGR_CANCEL", j>>)
    BY <1>42, QueuedAppend DEF DispatchMigration, DMActions, StateActions
  <2>2. h # NoHost /\ HistoryAdd(j, h) /\ job_state[j] # "FREED"
    BY <1>42 DEF DispatchMigration
  <2>3. UNCHANGED <<job_state, em_sub, runs, tm_req>>
    BY <1>42 DEF DispatchMigration
  <2>4. host[j] # NoHost
    BY <1>42 DEF DispatchMigration, MigrStates, HistoryInv, NeedsRecord, BusyStates,
       ExecStates
  <2> SUFFICES ASSUME NEW k \in Jobs
               PROVE  /\ NeedsRecord(k)' => host'[k] # NoHost
                      /\ NeedsNextRecord(k)' => prev'[k] # NoHost
    BY DEF HistoryInv
  <2>5. CASE k = j
    <3>1. host'[j] = h /\ prev'[j] = host[j]
      BY <2>2 DEF HistoryAdd, HistoryTyped
    <3>2. NeedsNextRecord(j)' => NeedsNextRecord(j) \/ host[j] # NoHost
      BY <2>1, <2>3, <2>4 DEF NewMessage, NeedsNextRecord
    <3>3. NeedsNextRecord(j) => host[j] # NoHost
      BY DEF HistoryInv, NeedsRecord
    <3> QED
      BY <2>2, <2>5, <3>1, <3>2, <3>3
  <2>6. CASE k # j
    <3>1. \A a : Queued(a, k)' => Queued(a, k)
      BY <2>1, <2>6 DEF NewMessage
    <3>2. host'[k] = host[k] /\ prev'[k] = prev[k] /\ em_retry'[k] = em_retry[k]
      BY <2>2, <2>6 DEF HistoryAdd, HistoryTyped, ManagersTyped
    <3>3. NeedsRecord(k)' => NeedsRecord(k)
      BY <2>3, <3>1, <3>2 DEF NeedsRecord
    <3>4. NeedsNextRecord(k)' => NeedsNextRecord(k)
      BY <2>3, <3>1 DEF NeedsNextRecord
    <3> QED
      BY <3>2, <3>3, <3>4 DEF HistoryInv
  <2> QED
    BY <2>5, <2>6
<1>43. ASSUME NEW j \in Jobs, NEW h \in Hosts \union {NoHost}, DispatchUnsaved(j, h)
       PROVE  HistoryInv'
  <2>1. NewMessage(<<"WAIT", j>>)
    BY <1>43, QueuedSame DEF DispatchUnsaved
  <2>2. h # NoHost /\ HistoryAdd(j, h) /\ job_state[j] # "FREED"
    BY <1>43 DEF DispatchUnsaved
  <2>3. UNCHANGED <<job_state, em_sub, runs, tm_req>>
    BY <1>43 DEF DispatchUnsaved
  <2>4. "WAIT" \notin MigrStates /\ "WAIT" \notin StateActions \union Callbacks
    BY DEF MigrStates, StateActions, Callbacks, EpilogStates
  <2> SUFFICES ASSUME NEW k \in Jobs
               PROVE  /\ NeedsRecord(k)' => host'[k] # NoHost
                      /\ NeedsNextRecord(k)' => prev'[k] # NoHost
    BY DEF HistoryInv
  <2>5. CASE k = j
    <3>1. host'[j] = h /\ prev'[j] = host[j]
      BY <2>2 DEF HistoryAdd, HistoryTyped
    <3>2. NeedsNextRecord(j)' => NeedsNextRecord(j) \/ host[j] # NoHost
      BY <2>1, <2>3, <2>4 DEF NewMessage, NeedsNextRecord
    <3>3. NeedsNextRecord(j) => host[j] # NoHost
      BY DEF HistoryInv, NeedsRecord
    <3> QED
      BY <2>2, <2>5, <3>1, <3>2, <3>3
  <2>6. CASE k # j
    <3>1. \A a : Queued(a, k)' => Queued(a, k)
      BY <2>1, <2>6 DEF NewMessage
    <3>2. host'[k] = host[k] /\ prev'[k] = prev[k] /\ em_retry'[k] = em_retry[k]
      BY <2>2, <2>6 DEF HistoryAdd, HistoryTyped, ManagersTyped
    <3>3. NeedsRecord(k)' => NeedsRecord(k)
      BY <2>3, <3>1, <3>2 DEF NeedsRecord
    <3>4. NeedsNextRecord(k)' => NeedsNextRecord(k)
      BY <2>3, <3>1 DEF NeedsNextRecord
    <3> QED
      BY <3>2, <3>3, <3>4 DEF HistoryInv
  <2> QED
    BY <2>5, <2>6
<1> QED
  BY <1>1, <1>2, <1>3, <1>4, <1>5, <1>6, <1>7, <1>8, <1>9, <1>10, <1>11,
     <1>12, <1>13, <1>14, <1>15, <1>16, <1>17, <1>18, <1>19, <1>20, <1>21,
     <1>22, <1>23, <1>24, <1>25, <1>26, <1>27, <1>28, <1>29, <1>30, <1>31,
     <1>32, <1>33, <1>34, <1>35, <1>36, <1>37, <1>38, <1>39, <1>40, <1>41,
     <1>42, <1>43 DEF Next, DMStep, EMStep, TMStep, ListenerStep

-----------------------------------------------------------------------------
(* The theorems.                                                           *)

\* At the start no job has a record, and nothing needs one.
LEMMA HistoryInit == Init => HistoryInv
  BY DEF Init, HistoryInv, NeedsRecord, NeedsNextRecord, Queued, BusyStates,
     MigrStates, ExecStates, CancelStates, EpilogStates

\* The inductive invariant of the dispatch manager.
LEMMA Invariance == Spec => [](TypeOK /\ HistoryInv)
<1>1. Init => TypeOK /\ HistoryInv
  BY TypeInit, HistoryInit
<1>2. TypeOK /\ HistoryInv /\ [Next]_vars => (TypeOK /\ HistoryInv)'
  BY TypeStep, HistoryStep
<1> QED
  BY <1>1, <1>2, PTL DEF Spec

\* The variables keep their types: the handlers of the DM, the answers of EM, TM
\* and scheduler and a reload of the scheduler leave a well formed state; a
\* wrapper is only submitted to a host of the pool.
THEOREM TypeCorrect == Spec => []TypeOK
  BY Invariance, PTL

\* No handler of the DM follows a null history pointer, in whatever order the
\* messages, the scheduler's answers and the clients' requests arrive.
THEOREM HistoryCorrect == Spec => []HistoryExists
<1>1. TypeOK /\ HistoryInv => HistoryExists
  BY DEF HistoryInv, HistoryExists, NeedsRecord, NeedsNextRecord
<1> QED
  BY <1>1, Invariance, PTL

-----------------------------------------------------------------------------
(***************************************************************************)
(* No PENDING job is forgotten, where histories can be saved               *)
(* (HistoryFaults = {}).  First the frame lemmas.                          *)
(***************************************************************************)

\* The job's GW_DM_STATE_PROLOG stays in the queue.
PrologKept(k) == Queued("PROLOG", k) => Queued("PROLOG", k)'

\* The handler of a message removes this message only.
LEMMA KeptByHandler ==
  ASSUME QueueTyped, dmq # <<>>, Done \/ \E m : dmq' = Append(Tail(dmq), m),
         NEW k, Head(dmq) # <<"PROLOG", k>>
  PROVE  PrologKept(k)
<1> SUFFICES ASSUME NEW i \in 1..Len(dmq), dmq[i] = <<"PROLOG", k>>
             PROVE  Queued("PROLOG", k)'
  BY DEF PrologKept, Queued
<1>1. i \in 2..Len(dmq)
  BY DEF QueueTyped
<1>2. i - 1 \in 1..Len(dmq') /\ dmq'[i - 1] = dmq[i]
  <2>1. CASE Done
    BY <1>1, <2>1 DEF QueueTyped, Done
  <2>2. ASSUME NEW m, dmq' = Append(Tail(dmq), m)
        PROVE  i - 1 \in 1..Len(dmq') /\ dmq'[i - 1] = dmq[i]
    <3>1. Tail(dmq) \in Seq(DMActions \X Jobs) /\ Len(Tail(dmq)) = Len(dmq) - 1
      BY DEF QueueTyped
    <3>2. Len(dmq') = Len(dmq)
      BY <2>2, <3>1 DEF QueueTyped
    <3>3. dmq'[i - 1] = Tail(dmq)[i - 1] /\ Tail(dmq)[i - 1] = dmq[i]
      BY <1>1, <2>2, <3>1 DEF QueueTyped
    <3> QED
      BY <1>1, <3>2, <3>3
  <2> QED
    BY <2>1, <2>2
<1> QED
  BY <1>2 DEF Queued

\* A message that another thread posts removes none.
LEMMA KeptByAppend ==
  ASSUME QueueTyped, NEW m, dmq' = Append(dmq, m), NEW k
  PROVE  PrologKept(k)
<1> SUFFICES ASSUME NEW i \in 1..Len(dmq), dmq[i] = <<"PROLOG", k>>
             PROVE  Queued("PROLOG", k)'
  BY DEF PrologKept, Queued
<1>1. i \in 1..Len(dmq') /\ dmq'[i] = dmq[i]
  BY DEF QueueTyped
<1> QED
  BY <1>1 DEF Queued

\* A step that takes no entry and no answer from a PENDING job loses none.
LEMMA PendingFrame ==
  ASSUME NotLost, inflight' = inflight,
         \A k \in Jobs : job_state'[k] = "PENDING" =>
           \/ entries'[k] > 0
           \/ job_state[k] = "PENDING" /\ entries'[k] = entries[k] /\ PrologKept(k)
  PROVE  NotLost'
  BY DEF NotLost, PrologKept

\* A handler of the DM loses no job if it takes no entry from a PENDING one: only
\* gw_dm_prolog handles the job's GW_DM_STATE_PROLOG.
LEMMA NotLostFrame ==
  ASSUME QueueTyped, NotLost, inflight' = inflight,
         NEW j \in Jobs, NEW a, dmq # <<>>, Head(dmq) = <<a, j>>,
         Done \/ \E m : dmq' = Append(Tail(dmq), m),
         \A k \in Jobs \ {j} : job_state'[k] = "PENDING" =>
           entries'[k] > 0 \/ (job_state[k] = "PENDING" /\ entries'[k] = entries[k]),
         job_state'[j] = "PENDING" =>
           entries'[j] > 0 \/ (job_state[j] = "PENDING" /\ entries'[j] = entries[j] /\ a # "PROLOG")
  PROVE  NotLost'
<1>1. ASSUME NEW k \in Jobs, k # j \/ a # "PROLOG"
      PROVE  PrologKept(k)
  BY <1>1, KeptByHandler
<1> QED
  BY <1>1, PendingFrame

-----------------------------------------------------------------------------
(* The steps.                                                              *)

\* gw_dm_mad_job_schedule adds an entry of the job.
LEMMA ScheduledEntry ==
  ASSUME entries \in [Jobs -> Nat], NEW j \in Jobs, JobSchedule(j)
  PROVE  entries'[j] > 0 /\ \A k \in Jobs \ {j} : entries'[k] = entries[k]
<1>1. entries'[j] = entries[j] + 1 /\ entries[j] \in Nat
  BY DEF JobSchedule
<1>2. \A k \in Jobs \ {j} : entries'[k] = entries[k]
  BY DEF JobSchedule
<1> QED
  BY <1>1, <1>2

\* gw_job_pool_dep_check tells the scheduler of each job that it releases.
LEMMA ReleasedEntry ==
  ASSUME entries \in [Jobs -> Nat], NEW j \in Jobs, DepCheck(j)
  PROVE  /\ job_state'[j] = "ZOMBIE"
         /\ \A k \in Jobs : job_state'[k] = "PENDING" =>
              entries'[k] > 0 \/ (job_state[k] = "PENDING" /\ entries'[k] = entries[k])
<1> DEFINE freed(k) == MeetsDep(k, j) /\ LastDep(k, j)
<1>1. job_state'[j] = "ZOMBIE"
  BY DEF DepCheck
<1>2. ASSUME NEW k \in Jobs, job_state'[k] = "PENDING"
      PROVE  entries'[k] > 0 \/ (job_state[k] = "PENDING" /\ entries'[k] = entries[k])
  <2>1. entries'[k] = entries[k] + One(freed(k)) /\ entries[k] \in Nat
    BY DEF DepCheck
  <2>2. CASE freed(k)
    <3>1. One(freed(k)) = 1
      BY <2>2 DEF One
    <3>2. entries'[k] = entries[k] + 1
      BY <2>1, <3>1, Zenon
    <3> QED
      BY <2>1, <3>2
  <2>3. CASE ~freed(k)
    <3>1. job_state[k] = "PENDING"
      BY <1>2, <2>3 DEF DepCheck
    <3> QED
      BY <2>1, <2>3, <3>1 DEF One
  <2> QED
    BY <2>2, <2>3
<1> QED
  BY <1>1, <1>2

\* A handler that tells the scheduler of its job loses no job.
LEMMA ScheduleFrame ==
  ASSUME QueueTyped, entries \in [Jobs -> Nat], NotLost, inflight' = inflight,
         NEW j \in Jobs, NEW a, dmq # <<>>, Head(dmq) = <<a, j>>, Done, JobSchedule(j),
         \A k \in Jobs \ {j} : job_state'[k] = job_state[k]
  PROVE  NotLost'
<1>1. entries'[j] > 0 /\ \A k \in Jobs \ {j} : entries'[k] = entries[k]
  BY ScheduledEntry
<1>2. \A k \in Jobs \ {j} : job_state'[k] = "PENDING" =>
        entries'[k] > 0 \/ (job_state[k] = "PENDING" /\ entries'[k] = entries[k])
  BY <1>1
<1>3. \A k \in Jobs \ {j} : PrologKept(k)
  BY KeptByHandler
<1> QED
  BY <1>1, <1>2, <1>3, PendingFrame

\* No handler of the DM loses a PENDING job: a handler that makes a job PENDING
\* tells the scheduler, and one that deletes an entry takes the job elsewhere.
LEMMA PendingHandlers ==
  ASSUME TypeOK, NotLost, NEW j \in Jobs, DMStep(j)
  PROVE  NotLost'
<1> USE DEF Handle, SetState, jobv, depv, hostv, rmv, emv, schv
<1> QueueTyped /\ job_state \in [Jobs -> JobStates] /\ entries \in [Jobs -> Nat]
  BY DEF TypeOK, StatesTyped, SchedulerTyped
<1>1. ASSUME NEW a \in DMActions, MissingJob(a, j)
      PROVE  NotLost'
  BY <1>1, NotLostFrame DEF MissingJob, Done, DoneAndTrigger
<1>2. ASSUME Hold(j)
      PROVE  NotLost'
  BY <1>2, NotLostFrame DEF Hold, Done, DoneAndTrigger, JobDel
<1>3. ASSUME Release(j)
      PROVE  NotLost'
  <2>1. CASE job_state[j] = "HOLD"
    BY <1>3, <2>1, ScheduleFrame DEF Release
  <2>2. CASE job_state[j] # "HOLD"
    BY <1>3, <2>2, NotLostFrame DEF Release
  <2> QED
    BY <2>1, <2>2
<1>4. ASSUME Kill(j)
      PROVE  NotLost'
  BY <1>4, NotLostFrame DEF Kill, Done, DoneAndTrigger, PoolFree,
     ClearReschedule, JobDel, Answer, IdleStates
<1>5. ASSUME KillHard(j)
      PROVE  NotLost'
  BY <1>5, NotLostFrame DEF KillHard, Done, DoneAndTrigger, PoolFree, JobDel, Answer
<1>6. ASSUME Stop(j)
      PROVE  NotLost'
  BY <1>6, NotLostFrame DEF Stop, Done, DoneAndTrigger, ClearReschedule, JobDel
<1>7. ASSUME Resume(j)
      PROVE  NotLost'
  <2>1. CASE job_state[j] = "STOPPED"
    BY <1>7, <2>1, ScheduleFrame DEF Resume
  <2>2. CASE job_state[j] # "STOPPED"
    BY <1>7, <2>2, NotLostFrame DEF Resume
  <2> QED
    BY <2>1, <2>2
<1>8. ASSUME Reschedule(j)
      PROVE  NotLost'
  <2>1. CASE job_state[j] \in {"WRAPPER", "FAILED"}
    BY <1>8, <2>1, ScheduleFrame DEF Reschedule
  <2>2. CASE job_state[j] \notin {"WRAPPER", "FAILED"}
    BY <1>8, <2>2, NotLostFrame DEF Reschedule
  <2> QED
    BY <2>1, <2>2
<1>9. ASSUME Wait(j)
      PROVE  NotLost'
  BY <1>9, NotLostFrame DEF Wait, Done, DoneAndTrigger
<1>10. ASSUME NEW s \in {"PROLOG", "MIGR_PROLOG"}, Prolog(j, s)
       PROVE  NotLost'
  BY <1>10, NotLostFrame DEF Prolog, Done, DoneAndTrigger
<1>11. ASSUME PrologDone(j)
       PROVE  NotLost'
  BY <1>11, NotLostFrame DEF PrologDone, Done, DoneAndTrigger
<1>12. ASSUME PrologFailed(j)
       PROVE  NotLost'
  BY <1>12, NotLostFrame DEF PrologFailed, Done, DoneAndTrigger
<1>13. ASSUME NEW s \in {"PRE_WRAPPER", "WRAPPER"}, Wrapper(j, s)
       PROVE  NotLost'
  BY <1>13, NotLostFrame DEF Wrapper, Done, DoneAndTrigger
<1>14. ASSUME WrapperDone(j)
       PROVE  NotLost'
  BY <1>14, NotLostFrame DEF WrapperDone, Done, DoneAndTrigger,
     ClearReschedule, JobDel, ExecStates, CancelStates
<1>15. ASSUME WrapperFailed(j)
       PROVE  NotLost'
  BY <1>15, NotLostFrame DEF WrapperFailed, Done, DoneAndTrigger, ClearReschedule, JobDel
<1>16. ASSUME MigrCancel(j)
       PROVE  NotLost'
  BY <1>16, NotLostFrame DEF MigrCancel, Done, DoneAndTrigger
<1>17. ASSUME NEW s \in EpilogStates, Epilog(j, s)
       PROVE  NotLost'
  BY <1>17, NotLostFrame DEF Epilog, Done, DoneAndTrigger, EpilogStates
<1>18. ASSUME EpilogDoneStd(j)
       PROVE  NotLost'
  BY <1>18, NotLostFrame DEF EpilogDoneStd, Done, DoneAndTrigger
<1>19. ASSUME EpilogFailedStd(j)
       PROVE  NotLost'
  BY <1>19, NotLostFrame DEF EpilogFailedStd, Done, DoneAndTrigger
<1>20. ASSUME EpilogEnded(j)
       PROVE  NotLost'
  BY <1>20, NotLostFrame DEF EpilogEnded, Done, DoneAndTrigger
<1>21. ASSUME EpilogDone(j)
       PROVE  NotLost'
  BY <1>21, NotLostFrame DEF EpilogDone, Done, DoneAndTrigger
<1>22. ASSUME EpilogFailed(j)
       PROVE  NotLost'
  BY <1>22, NotLostFrame DEF EpilogFailed, Done, DoneAndTrigger
<1>23. ASSUME Pending(j)
       PROVE  NotLost'
  BY <1>23, ScheduleFrame DEF Pending
<1>24. ASSUME Stopped(j)
       PROVE  NotLost'
  BY <1>24, NotLostFrame DEF Stopped, Done, DoneAndTrigger
<1>25. ASSUME Failed(j)
       PROVE  NotLost'
  BY <1>25, NotLostFrame DEF Failed, Done, DoneAndTrigger
<1>26. ASSUME Zombie(j)
       PROVE  NotLost'
  <2>1. CASE job_state[j] = "EPILOG"
    <3>1. DepCheck(j) /\ inflight' = inflight
      BY <1>26, <2>1 DEF Zombie
    <3>2. Done \/ \E m : dmq' = Append(Tail(dmq), m)
      BY <1>26, <2>1 DEF Zombie, DoneAndTrigger
    <3> QED
      BY <1>26, <3>1, <3>2, ReleasedEntry, NotLostFrame DEF Zombie
  <2>2. CASE job_state[j] # "EPILOG"
    BY <1>26, <2>2, NotLostFrame DEF Zombie, Done, PoolFree, JobDel, Answer
  <2> QED
    BY <2>1, <2>2
<1> QED
  BY <1>1, <1>2, <1>3, <1>4, <1>5, <1>6, <1>7, <1>8, <1>9, <1>10, <1>11,
     <1>12, <1>13, <1>14, <1>15, <1>16, <1>17, <1>18, <1>19, <1>20, <1>21, <1>22, <1>23,
     <1>24, <1>25, <1>26 DEF DMStep

\* The other threads of gwd and the clients only append messages, or touch
\* neither the entries nor the answers of a PENDING job.
LEMMA PendingManagers ==
  ASSUME TypeOK, NotLost, NEW j \in Jobs,
         \/ Submit(j) \/ EMStep(j) \/ TMStep(j)
         \/ \E op \in UserOps : Request(op, j)
  PROVE  NotLost'
<1> USE DEF emv, schv
<1> QueueTyped /\ job_state \in [Jobs -> JobStates] /\ entries \in [Jobs -> Nat]
  BY DEF TypeOK, StatesTyped, SchedulerTyped
<1> DEFINE posted == UNCHANGED dmq \/ \E m : dmq' = Append(dmq, m)
<1>1. ASSUME posted
      PROVE  \A k : PrologKept(k)
  BY <1>1, KeptByAppend DEF PrologKept, Queued
<1>2. ASSUME posted, UNCHANGED <<job_state, entries, inflight>>
      PROVE  NotLost'
  BY <1>1, <1>2, PendingFrame
<1>3. ASSUME Submit(j)
      PROVE  NotLost'
  <2>1. UNCHANGED dmq /\ inflight' = inflight
    BY <1>3 DEF Submit
  <2>2. \A k \in Jobs : PrologKept(k)
    BY <1>1, <2>1
  <2>3. CASE j \in InitHold
    BY <1>3, <2>1, <2>2, <2>3, PendingFrame DEF Submit, SetState
  <2>4. CASE j \notin InitHold
    <3>1. JobSchedule(j) /\ SetState(j, "PENDING")
      BY <1>3, <2>4 DEF Submit
    <3>2. entries'[j] > 0 /\ \A k \in Jobs \ {j} : entries'[k] = entries[k]
      BY <3>1, ScheduledEntry
    <3>3. \A k \in Jobs \ {j} : job_state'[k] = job_state[k]
      BY <3>1 DEF SetState
    <3> QED
      BY <2>1, <2>2, <3>2, <3>3, PendingFrame
  <2> QED
    BY <2>3, <2>4
<1>4. ASSUME NEW op \in UserOps, Request(op, j)
      PROVE  NotLost'
  BY <1>2, <1>4 DEF Request
<1>5. ASSUME EMStep(j)
      PROVE  NotLost'
  BY <1>2, <1>5 DEF EMStep, EMSubmit, EMRetry, EMState, EMDone, EMFailed
<1>6. ASSUME TMStep(j)
      PROVE  NotLost'
  BY <1>2, <1>6 DEF TMStep, TMAnswer
<1> QED
  BY <1>3, <1>4, <1>5, <1>6

\* A round of the scheduler starts when the last one has ended, so that no answer
\* is dropped; an entry that it takes from a job comes back as an answer.
LEMMA PendingSchedule ==
  ASSUME TypeOK, NotLost, RoundOpen, Schedule
  PROVE  NotLost' /\ RoundOpen'
<1> DEFINE A == Jobs \X (Hosts \union {NoHost})
<1>1. scheduling' = TRUE /\ UNCHANGED <<job_state, dmq>> /\ inflight = <<>>
  BY DEF Schedule, RoundOpen
<1>2. PICK susp, late :
        /\ reschedule' = [j \in Jobs |-> reschedule[j] \/ j \in susp \union late]
        /\ \E s \in Rounds(CheckedEntries(susp, late), reschedule') :
             /\ inflight' = s
             /\ entries' = [j \in Jobs |-> CheckedEntries(susp, late)[j] - Sent(s, {j})]
  BY DEF Schedule
<1> DEFINE e == CheckedEntries(susp, late)
<1>3. e \in [Jobs -> Nat] /\ \A j \in Jobs : e[j] >= entries[j]
  BY OneType DEF TypeOK, SchedulerTyped, CheckedEntries
<1>4. reschedule' \in [Jobs -> BOOLEAN]
  BY <1>2 DEF TypeOK, StatesTyped
<1>5. PICK s \in Rounds(e, reschedule') :
        inflight' = s /\ entries' = [j \in Jobs |-> e[j] - Sent(s, {j})]
  BY <1>2
<1>6. PICK n \in 0..DISPATCH_CHUNK : s \in [1..n -> A]
  BY DEF Rounds
<1>7. s \in Seq(A) /\ n \in Nat
  BY <1>3, <1>4, <1>6, RoundType, DMAssumption
<1>8. ASSUME NEW j \in Jobs, job_state'[j] = "PENDING", entries'[j] = 0
      PROVE  (\E i \in 1..Len(inflight) : inflight[i][1] = j /\ inflight[i][2] # NoHost)'
             \/ Queued("PROLOG", j)'
  <2>1. CASE entries[j] > 0
    <3> DEFINE T == {i \in DOMAIN s : s[i][1] \in {j} /\ s[i][2] # NoHost}
    <3>1. Sent(s, {j}) # 0
      <4>1. Sent(s, {j}) \in Nat
        BY <1>6, <1>7, SentNat
      <4>2. e[j] - Sent(s, {j}) = 0 /\ e[j] \in Nat /\ e[j] >= entries[j]
        BY <1>3, <1>5, <1>8
      <4>3. entries[j] \in Nat
        BY DEF TypeOK, SchedulerTyped
      <4> QED
        BY <2>1, <4>1, <4>2, <4>3
    <3>2. T # {}
      BY <3>1, FS_EmptySet DEF Sent
    <3>3. PICK i \in DOMAIN s : s[i][1] = j /\ s[i][2] # NoHost
      BY <3>2
    <3>4. i \in 1..Len(s)
      BY <1>7
    <3> QED
      BY <1>5, <3>3, <3>4
  <2>2. CASE ~(entries[j] > 0)
    <3>1. job_state[j] = "PENDING" /\ Len(inflight) = 0
      BY <1>1, <1>8
    <3>2. Queued("PROLOG", j)
      BY <2>2, <3>1 DEF NotLost
    <3> QED
      BY <1>1, <3>2 DEF Queued
  <2> QED
    BY <2>1, <2>2
<1>9. entries' \in [Jobs -> Nat]
  BY <1>3, <1>4, <1>5, RoundType
<1>10. ASSUME NEW j \in Jobs, job_state'[j] = "PENDING", ~(entries'[j] > 0)
       PROVE  entries'[j] = 0
  BY <1>9, <1>10
<1>11. NotLost'
  BY <1>8, <1>10 DEF NotLost
<1> QED
  BY <1>1, <1>11 DEF RoundOpen

\* The listener takes a job's answer only to post its GW_DM_STATE_PROLOG, or
\* when the job is not PENDING.
LEMMA PendingListener ==
  ASSUME TypeOK, NotLost, RoundOpen, HistoryFaults = {}, ListenerStep
  PROVE  NotLost' /\ RoundOpen'
<1> USE DEF jobv, depv, hostv, rmv, emv, schv
<1> QueueTyped /\ job_state \in [Jobs -> JobStates] /\ entries \in [Jobs -> Nat]
    /\ inflight \in Seq(Jobs \X (Hosts \union {NoHost}))
  BY DEF TypeOK, StatesTyped, SchedulerTyped
<1>1. ASSUME ScheduleEnd
      PROVE  NotLost' /\ RoundOpen'
  BY <1>1 DEF ScheduleEnd, NotLost, RoundOpen, Queued
<1>2. ASSUME NEW j \in Jobs, NEW h \in Hosts \union {NoHost}, Receive(j, h),
             UNCHANGED <<job_state, scheduling>>,
             \A k \in Jobs : job_state[k] = "PENDING" => entries'[k] = entries[k],
             UNCHANGED dmq \/ \E m : dmq' = Append(dmq, m),
             h = NoHost \/ job_state[j] # "PENDING" \/ Queued("PROLOG", j)'
      PROVE  NotLost' /\ RoundOpen'
  <2>1. RoundOpen'
    BY <1>2 DEF RoundOpen, Receive
  <2>2. \A k : PrologKept(k)
    BY <1>2, KeptByAppend DEF PrologKept, Queued
  <2>3. ASSUME NEW k \in Jobs, job_state[k] = "PENDING", ~Queued("PROLOG", k)',
               NEW i \in 1..Len(inflight), inflight[i][1] = k, inflight[i][2] # NoHost
        PROVE  \E x \in 1..Len(inflight') : inflight'[x][1] = k /\ inflight'[x][2] # NoHost
    <3>1. i # 1
      BY <1>2, <2>3 DEF Receive
    <3>2. i - 1 \in 1..Len(inflight') /\ inflight'[i - 1] = inflight[i]
      BY <1>2, <3>1 DEF Receive
    <3> QED
      BY <2>3, <3>2
  <2>4. NotLost'
    BY <1>2, <2>2, <2>3 DEF NotLost, PrologKept
  <2> QED
    BY <2>1, <2>4
<1>3. ASSUME NEW j \in Jobs, NEW h \in Hosts \union {NoHost}, DispatchPending(j, h)
      PROVE  NotLost' /\ RoundOpen'
  <2>1. dmq' = Append(dmq, <<"PROLOG", j>>)
    BY <1>3 DEF DispatchPending
  <2>2. Queued("PROLOG", j)'
    <3>1. Len(dmq) + 1 \in 1..Len(dmq') /\ dmq'[Len(dmq) + 1] = <<"PROLOG", j>>
      BY <2>1 DEF QueueTyped
    <3> QED
      BY <3>1 DEF Queued
  <2> QED
    BY <1>2, <1>3, <2>1, <2>2 DEF DispatchPending
<1>4. ASSUME NEW j \in Jobs, NEW h \in Hosts \union {NoHost}, DispatchMigration(j, h)
      PROVE  NotLost' /\ RoundOpen'
  <2>1. job_state[j] # "PENDING" /\ \E m : dmq' = Append(dmq, m)
    BY <1>4 DEF DispatchMigration
  <2> QED
    BY <1>2, <1>4, <2>1 DEF DispatchMigration
<1>5. ASSUME NEW j \in Jobs, NEW h \in Hosts \union {NoHost}, UncheckJob(j, h)
      PROVE  NotLost' /\ RoundOpen'
  <2>1. \A k \in Jobs : job_state[k] = "PENDING" => entries'[k] = entries[k]
    BY <1>5 DEF UncheckJob, JobDel
  <2>2. h = NoHost \/ job_state[j] # "PENDING"
    BY <1>5 DEF UncheckJob, MigrationAborted
  <2> QED
    BY <1>2, <1>5, <2>1, <2>2 DEF UncheckJob
<1>6. ASSUME NEW j \in Jobs, NEW h \in Hosts \union {NoHost}, DispatchRefused(j, h)
      PROVE  NotLost' /\ RoundOpen'
  <2>1. job_state[j] # "PENDING"
    BY <1>6 DEF DispatchRefused
  <2> QED
    BY <1>2, <1>6, <2>1 DEF DispatchRefused
<1>7. ASSUME NEW j \in Jobs, NEW h \in Hosts \union {NoHost}, DispatchUnsaved(j, h)
      PROVE  FALSE
  BY <1>7 DEF DispatchUnsaved
<1> QED
  BY <1>1, <1>3, <1>4, <1>5, <1>6, <1>7 DEF ListenerStep

\* A reloaded scheduler is given every PENDING job.
LEMMA PendingReload ==
  ASSUME SchedulerReload
  PROVE  NotLost' /\ RoundOpen'
<1>1. \A j \in Jobs : job_state'[j] = "PENDING" => entries'[j] = 1
  BY DEF SchedulerReload, RecoveredEntries, One
<1>2. inflight' = <<>>
  BY DEF SchedulerReload
<1> QED
  BY <1>1, <1>2 DEF NotLost, RoundOpen

\* The answers of a round are only touched by the listener, by the next round
\* and by a reload of the scheduler.
LEMMA RoundFrame ==
  ASSUME RoundOpen, NEW j \in Jobs,
         \/ Submit(j) \/ DMStep(j) \/ EMStep(j) \/ TMStep(j)
         \/ \E op \in UserOps : Request(op, j)
  PROVE  RoundOpen'
<1>1. UNCHANGED <<inflight, scheduling>>
  BY DEF Submit, DMStep, EMStep, TMStep, Request, schv, MissingJob, Hold, Release, Kill,
     KillHard, Stop, Resume, Reschedule, Wait, Prolog, PrologDone, PrologFailed, Wrapper,
     WrapperDone, WrapperFailed, MigrCancel, Epilog, EpilogDoneStd, EpilogFailedStd,
     EpilogEnded, EpilogDone, EpilogFailed, Pending, Stopped, Failed, Zombie, EMSubmit,
     EMRetry, EMState, EMDone, EMFailed, TMAnswer
<1> QED
  BY <1>1 DEF RoundOpen

\* Every step keeps the inductive invariant.
LEMMA PendingStep ==
  ASSUME HistoryFaults = {}, TypeOK, NotLost, RoundOpen, [Next]_vars
  PROVE  NotLost' /\ RoundOpen'
<1>1. CASE UNCHANGED vars
  BY <1>1 DEF vars, schv, NotLost, RoundOpen, Queued
<1>2. ASSUME NEW j \in Jobs,
             \/ Submit(j) \/ DMStep(j) \/ EMStep(j) \/ TMStep(j)
             \/ \E op \in UserOps : Request(op, j)
      PROVE  NotLost' /\ RoundOpen'
  BY <1>2, RoundFrame, PendingHandlers, PendingManagers
<1> QED
  BY <1>1, <1>2, PendingSchedule, PendingListener, PendingReload DEF Next

-----------------------------------------------------------------------------
\* Where histories can be saved, a PENDING job is in the scheduler's list, in an
\* answer of the scheduler that sends it to a host, or about to enter PROLOG,
\* whatever the clients ask and whenever the scheduler is reloaded.
THEOREM PendingNotLost ==
  ASSUME HistoryFaults = {}
  PROVE  Spec => []NotLost
<1>1. Init => NotLost /\ RoundOpen
  BY DEF Init, NotLost, RoundOpen
<1>2. TypeOK /\ NotLost /\ RoundOpen /\ [Next]_vars => (NotLost /\ RoundOpen)'
  BY PendingStep
<1> QED
  BY <1>1, <1>2, TypeCorrect, PTL DEF Spec

=============================================================================
