---------------------------- MODULE ChargeProofs ----------------------------
(***************************************************************************)
(* What hosts and user are charged: a slot and a running job for each job  *)
(* that was sent to a host and has not left it, for every value of the     *)
(* constants in which the jobs stay on their host (StaysOnHost).           *)
(***************************************************************************)
EXTENDS ActivityProofs

-----------------------------------------------------------------------------
(* Counting.                                                               *)

\* One more job, and one more charged.
LEMMA CountAdd ==
  ASSUME NEW S, IsFiniteSet(S), NEW n \in Int, Counts(n, S), NEW j, j \notin S
  PROVE  Counts(n + 1, S \union {j})
<1>1. Cardinality(S) \in Nat /\ Cardinality(S \union {j}) = Cardinality(S) + 1
  BY FS_AddElement, FS_CardinalityType
<1> QED
  BY <1>1 DEF Counts

\* One less, and one less charged.
LEMMA CountRemove ==
  ASSUME NEW S, IsFiniteSet(S), NEW n \in Int, Counts(n, S), NEW j \in S
  PROVE  Counts(n - 1, S \ {j})
<1>1. Cardinality(S) \in Nat /\ Cardinality(S \ {j}) = Cardinality(S) - 1
  BY FS_RemoveElement, FS_CardinalityType
<1> QED
  BY <1>1 DEF Counts

\* One less, and charged all the same.
LEMMA CountDrop ==
  ASSUME NEW S, IsFiniteSet(S), NEW n \in Int, Counts(n, S), NEW j, "KILL" \in UserOps
  PROVE  Counts(n, S \ {j})
<1>1. CASE j \in S
  <2>1. Cardinality(S) \in Nat /\ Cardinality(S \ {j}) = Cardinality(S) - 1
    BY <1>1, FS_RemoveElement, FS_CardinalityType
  <2> QED
    BY <2>1 DEF Counts
<1>2. CASE j \notin S
  <2>1. S \ {j} = S
    BY <1>2
  <2> QED
    BY <2>1
<1> QED
  BY <1>1, <1>2

\* A job that holds a slot is on its host.
LEMMA SlotOnHost ==
  ASSUME NEW j, HoldsSlot(j)
  PROVE  OnHost(j)
  BY DEF HoldsSlot, OnHost, BusyStates

\* Job k stays where it is.
Steady(k) ==
  /\ HoldsSlot(k)' <=> HoldsSlot(k)
  /\ OnHost(k)' <=> OnHost(k)
  /\ OnHost(k) => host'[k] = host[k]

\* The jobs other than j stay where they are.
Apart(j) == \A k \in Jobs \ {j} : Steady(k)

\* No job moves and nothing is charged.
NoCharge == (\A k \in Jobs : Steady(k)) /\ UNCHANGED hostv

\* A step that charges nothing and gives nothing back keeps the counts right.
LEMMA ChargeKept ==
  ASSUME ChargesCounted, NoCharge
  PROVE  ChargesCounted'
<1>1. \A h : SlotJobs(h)' = SlotJobs(h) /\ HostJobs(h)' = HostJobs(h)
  BY SlotOnHost DEF SlotJobs, HostJobs, NoCharge, Steady
<1>2. UserJobs' = UserJobs
  BY DEF UserJobs, NoCharge, Steady
<1> QED
  BY <1>1, <1>2 DEF ChargesCounted, NoCharge, hostv, Counts

\* gw_host_inc_slots_nb and gw_user_pool_inc_running_jobs: job j is sent to host h.
Taken(j, h) ==
  /\ Apart(j)
  /\ ~OnHost(j)
  /\ OnHost(j)' /\ HoldsSlot(j)' /\ host'[j] = h
  /\ IncSlots(h) /\ IncUser

\* So does a dispatch: host and user have one more job, and the host one slot less.
LEMMA ChargeTaken ==
  ASSUME IsFiniteSet(Jobs), HostsTyped, ChargesCounted, NEW j \in Jobs, NEW h \in Hosts, Taken(j, h)
  PROVE  ChargesCounted'
<1> USE DEF HostsTyped, IncSlots, IncUser
<1>1. ~HoldsSlot(j)
  BY SlotOnHost DEF Taken
<1>2. SlotJobs(h)' = SlotJobs(h) \union {j} /\ HostJobs(h)' = HostJobs(h) \union {j}
  BY <1>1, SlotOnHost DEF Taken, Apart, Steady, SlotJobs, HostJobs
<1>3. \A g \in Hosts \ {h} : SlotJobs(g)' = SlotJobs(g) /\ HostJobs(g)' = HostJobs(g)
  BY <1>1, SlotOnHost DEF Taken, Apart, Steady, SlotJobs, HostJobs
<1>4. UserJobs' = UserJobs \union {j}
  BY DEF Taken, Apart, Steady, UserJobs
<1>5. j \notin SlotJobs(h) /\ j \notin HostJobs(h) /\ j \notin UserJobs
  BY <1>1 DEF Taken, SlotJobs, HostJobs, UserJobs
<1>6. IsFiniteSet(SlotJobs(h)) /\ IsFiniteSet(HostJobs(h)) /\ IsFiniteSet(UserJobs)
  BY FS_Subset DEF SlotJobs, HostJobs, UserJobs
<1>7. Counts(used_slots[h] + 1, SlotJobs(h)') /\ Counts(running_jobs[h] + 1, HostJobs(h)')
      /\ Counts(user_running + 1, UserJobs')
  BY <1>2, <1>4, <1>5, <1>6, CountAdd DEF ChargesCounted
<1>8. \A g \in Hosts : Counts(used_slots'[g], SlotJobs(g)') /\ Counts(running_jobs'[g], HostJobs(g)')
  BY <1>3, <1>7 DEF Taken, ChargesCounted
<1> QED
  BY <1>7, <1>8 DEF Taken, ChargesCounted, Counts

\* gw_host_dec_uslots: job j, which stays on its host, gives its slot back.
Returned(j) ==
  /\ Apart(j)
  /\ HoldsSlot(j) /\ ~HoldsSlot(j)'
  /\ OnHost(j)' /\ host'[j] = host[j]
  /\ DecUslots(host[j])
  /\ UNCHANGED <<running_jobs, user_running>>

\* A slot is given back while its job still counts as running at the host.
LEMMA SlotReturned ==
  ASSUME IsFiniteSet(Jobs), HostsTyped, ChargesCounted, NEW j \in Jobs, host[j] \in Hosts, Returned(j)
  PROVE  ChargesCounted'
<1> USE DEF HostsTyped, DecUslots
<1>1. \A g \in Hosts : HostJobs(g)' = HostJobs(g)
  BY SlotOnHost DEF Returned, Apart, Steady, HostJobs
<1>2. UserJobs' = UserJobs
  BY SlotOnHost DEF Returned, Apart, Steady, UserJobs
<1>3. SlotJobs(host[j])' = SlotJobs(host[j]) \ {j} /\ j \in SlotJobs(host[j])
  BY SlotOnHost DEF Returned, Apart, Steady, SlotJobs
<1>4. \A g \in Hosts \ {host[j]} : SlotJobs(g)' = SlotJobs(g)
  BY SlotOnHost DEF Returned, Apart, Steady, SlotJobs
<1>5. IsFiniteSet(SlotJobs(host[j]))
  BY FS_Subset DEF SlotJobs
<1>6. Counts(used_slots[host[j]] - 1, SlotJobs(host[j])')
  BY <1>3, <1>5, CountRemove DEF ChargesCounted
<1>7. \A g \in Hosts : Counts(used_slots'[g], SlotJobs(g)')
  BY <1>4, <1>6 DEF Returned, ChargesCounted
<1> QED
  BY <1>1, <1>2, <1>7 DEF Returned, ChargesCounted, Counts

\* gw_host_dec_rjobs and gw_user_pool_dec_running_jobs: job j leaves its host.
Left(j) ==
  /\ Apart(j)
  /\ OnHost(j) /\ ~HoldsSlot(j) /\ ~OnHost(j)'
  /\ LeaveHost(j)

\* A job that has given its slot back leaves host and user.
LEMMA HostLeft ==
  ASSUME IsFiniteSet(Jobs), HostsTyped, ChargesCounted, NEW j \in Jobs, host[j] \in Hosts, Left(j)
  PROVE  ChargesCounted'
<1> USE DEF HostsTyped, LeaveHost, DecRjobs
<1> PICK h \in Hosts : host[j] = h
  OBVIOUS
<1>1. ~HoldsSlot(j)'
  BY DEF Left, HoldsSlot, OnHost, BusyStates
<1>2. \A g \in Hosts : SlotJobs(g)' = SlotJobs(g)
  BY <1>1, SlotOnHost DEF Left, Apart, Steady, SlotJobs
<1>3. HostJobs(h)' = HostJobs(h) \ {j} /\ j \in HostJobs(h)
  BY DEF Left, Apart, Steady, HostJobs
<1>4. \A g \in Hosts \ {h} : HostJobs(g)' = HostJobs(g)
  BY DEF Left, Apart, Steady, HostJobs
<1>5. UserJobs' = UserJobs \ {j} /\ j \in UserJobs
  BY DEF Left, Apart, Steady, UserJobs
<1>6. IsFiniteSet(HostJobs(h)) /\ IsFiniteSet(UserJobs)
  BY FS_Subset DEF HostJobs, UserJobs
<1>7. Counts(running_jobs[h] - 1, HostJobs(h)') /\ Counts(user_running - 1, UserJobs')
  BY <1>3, <1>5, <1>6, CountRemove DEF ChargesCounted
<1>8. \A g \in Hosts : Counts(running_jobs'[g], HostJobs(g)')
  BY <1>4, <1>7 DEF Left, ChargesCounted
<1> QED
  BY <1>2, <1>7, <1>8 DEF Left, ChargesCounted, Counts

\* gw_dm_kill: job j, which may have been sent to a host, is freed as it is.
Dropped(j) ==
  /\ Apart(j)
  /\ ~OnHost(j)'
  /\ "KILL" \in UserOps
  /\ UNCHANGED hostv

\* A kill that gives nothing back leaves the counters at least what they should be.
LEMMA ChargeDropped ==
  ASSUME IsFiniteSet(Jobs), HostsTyped, ChargesCounted, NEW j \in Jobs, Dropped(j)
  PROVE  ChargesCounted'
<1> USE DEF HostsTyped, hostv
<1>1. ~HoldsSlot(j)'
  BY DEF Dropped, HoldsSlot, OnHost, BusyStates
<1>2. \A g \in Hosts : SlotJobs(g)' = SlotJobs(g) \ {j} /\ HostJobs(g)' = HostJobs(g) \ {j}
  BY <1>1, SlotOnHost DEF Dropped, Apart, Steady, SlotJobs, HostJobs
<1>3. UserJobs' = UserJobs \ {j}
  BY DEF Dropped, Apart, Steady, UserJobs
<1>4. \A g \in Hosts : IsFiniteSet(SlotJobs(g)) /\ IsFiniteSet(HostJobs(g)) /\ IsFiniteSet(UserJobs)
  BY FS_Subset DEF SlotJobs, HostJobs, UserJobs
<1>5. ASSUME NEW g \in Hosts
      PROVE  Counts(used_slots[g], SlotJobs(g)') /\ Counts(running_jobs[g], HostJobs(g)')
  <2>1. Counts(used_slots[g], SlotJobs(g)) /\ Counts(running_jobs[g], HostJobs(g))
    BY DEF ChargesCounted
  <2>2. IsFiniteSet(SlotJobs(g)) /\ IsFiniteSet(HostJobs(g))
    BY <1>4
  <2>3. used_slots[g] \in Int /\ running_jobs[g] \in Int /\ "KILL" \in UserOps
    BY DEF Dropped
  <2>4. Counts(used_slots[g], SlotJobs(g) \ {j})
    BY <2>1, <2>2, <2>3, CountDrop
  <2>5. Counts(running_jobs[g], HostJobs(g) \ {j})
    BY <2>1, <2>2, <2>3, CountDrop
  <2>6. SlotJobs(g)' = SlotJobs(g) \ {j} /\ HostJobs(g)' = HostJobs(g) \ {j}
    BY <1>2
  <2> QED
    BY <2>4, <2>5, <2>6
<1>6. Counts(user_running, UserJobs')
  <2>1. IsFiniteSet(UserJobs)
    BY FS_Subset DEF UserJobs
  <2> QED
    BY <1>3, <2>1, CountDrop DEF ChargesCounted, Dropped
<1> QED
  BY <1>5, <1>6 DEF Dropped, ChargesCounted, Counts

-----------------------------------------------------------------------------
(* The moves of a job and what it is charged for.                          *)

\* The inductive invariant of the charges.
Charged ==
  /\ StaysOnHost
  /\ IsFiniteSet(Jobs)
  /\ HandsInv
  /\ ChargeInv

\* A job with the moves that it had, in the state and on the host that it had.
LEMMA SameMessages ==
  ASSUME NEW k, job_state'[k] = job_state[k], host'[k] = host[k] \/ ~OnHost(k),
         \A a \in SlotBack \union {"PROLOG"} : Queued(a, k)' <=> Queued(a, k)
  PROVE  Steady(k)
<1>1. "PROLOG" \in MoveActions /\ SlotBack \subseteq MoveActions
  BY DEF SlotBack, MoveActions, StateActions, EpilogStates
<1>2. /\ "PROLOG" \in Moves(k)' <=> "PROLOG" \in Moves(k)
      /\ Moves(k)' \intersect SlotBack = {} <=> Moves(k) \intersect SlotBack = {}
  BY <1>1 DEF Moves
<1> QED
  BY <1>2 DEF Steady, HoldsSlot, OnHost

\* A handler leaves the other jobs their messages.
LEMMA OthersKept ==
  ASSUME QueueTyped, NEW j, NEW a, dmq # <<>>, Head(dmq) = <<a, j>>, NEW b,
         Done \/ DoneAndTrigger(b, j), NEW k, k # j, NEW c
  PROVE  Queued(c, k)' <=> Queued(c, k)
<1>1. Queued(c, k)' => Queued(c, k)
  <2>1. (OneMove(k) => OneMove(k)') /\ \A d : Queued(d, k)' => Queued(d, k)
    BY OthersHandled
  <2> QED
    BY <2>1
<1>2. ASSUME NEW i \in 1..Len(dmq), dmq[i] = <<c, k>>
      PROVE  Queued(c, k)'
  <2>1. Len(dmq) \in Nat \ {0} /\ dmq[1] = <<a, j>>
    BY DEF QueueTyped
  <2>2. i - 1 \in 1..(Len(dmq) - 1) /\ i = (i - 1) + 1
    BY <1>2, <2>1
  <2>3. Len(Tail(dmq)) = Len(dmq) - 1 /\ Tail(dmq)[i - 1] = dmq[(i - 1) + 1]
    BY <2>2 DEF QueueTyped
  <2>4. Len(dmq') >= Len(dmq) - 1 /\ Len(dmq') \in Nat /\ dmq'[i - 1] = Tail(dmq)[i - 1]
    <3>1. CASE Done
      BY <2>1, <2>3, <3>1 DEF Done
    <3>2. CASE DoneAndTrigger(b, j)
      <4>1. Tail(dmq) \in Seq(DMActions \X Jobs)
        BY DEF QueueTyped
      <4> QED
        BY <2>1, <2>2, <2>3, <3>2, <4>1 DEF DoneAndTrigger
    <3> QED
      BY <3>1, <3>2
  <2>5. i - 1 \in 1..Len(dmq')
    BY <2>1, <2>2, <2>4
  <2> QED
    BY <1>2, <2>2, <2>3, <2>4, <2>5 DEF Queued
<1> QED
  BY <1>1, <1>2 DEF Queued

\* The handler of a move leaves its job just the move that it posts.
LEMMA MoveLeaves ==
  ASSUME TypeOK, ActivityInv, NEW j \in Jobs, NEW a \in MoveActions, Handle(a, j),
         NEW b, MoveOn(b, j)
  PROVE  Moves(j) = {a} /\ Moves(j)' = {b} \ {"KILL"}
<1>1. dmq # <<>> /\ QueueTyped /\ (Done \/ DoneAndTrigger(b, j)) /\ dmq[1] = <<a, j>>
      /\ Len(dmq) \in Nat \ {0}
  BY DEF Handle, MoveOn, TypeOK, QueueTyped
<1>2. OneMove(j) /\ a \in Moves(j)
  BY MoveTaken DEF Activity, OneHand
<1>3. Moves(j) = {a}
  <2> SUFFICES ASSUME NEW c \in Moves(j)
               PROVE  c = a
    BY <1>2
  <2>1. PICK i \in 1..Len(dmq) : dmq[i] = <<c, j>>
    BY DEF Moves, Queued
  <2>2. i = 1
    BY <1>1, <1>2, <2>1 DEF OneMove, Moves
  <2> QED
    BY <1>1, <2>1, <2>2
<1>4. \A c \in MoveActions : Queued(c, j)' => DoneAndTrigger(b, j) /\ c = b
  BY <1>1, <1>2, MoveHandled
<1>5. "KILL" \notin MoveActions
  BY MoveTypes DEF ClientOps
<1>6. b # "KILL" => b \in Moves(j)'
  <2> SUFFICES ASSUME b # "KILL"
               PROVE  b \in Moves(j)'
    OBVIOUS
  <2>1. b \in MoveActions /\ DoneAndTrigger(b, j)
    BY DEF MoveOn
  <2>2. Tail(dmq) \in Seq(DMActions \X Jobs) /\ Len(Tail(dmq)) = Len(dmq) - 1
    BY <1>1 DEF QueueTyped
  <2>3. Len(dmq') = Len(dmq) /\ dmq'[Len(dmq)] = <<b, j>>
    BY <1>1, <2>1, <2>2 DEF DoneAndTrigger
  <2> QED
    BY <1>1, <2>1, <2>3 DEF Moves, Queued
<1> QED
  BY <1>3, <1>4, <1>5, <1>6 DEF Moves

\* Job j in state s, with move m on its way ("KILL": none), holds a slot; is on its host.
SlotWith(m, s) == m = "PROLOG" \/ (s \in {"PROLOG"} \union ExecStates /\ m \notin SlotBack)

HostWith(m, s) == m = "PROLOG" \/ s \in BusyStates

\* What the handler of the move a, which posts b, changes of what is charged for its job.
LEMMA MoveCharge ==
  ASSUME TypeOK, ActivityInv, NEW j \in Jobs, NEW a \in MoveActions, Handle(a, j),
         NEW b, MoveOn(b, j), host' = host, \A k \in Jobs \ {j} : job_state'[k] = job_state[k]
  PROVE  /\ Apart(j)
         /\ HoldsSlot(j) <=> SlotWith(a, job_state[j])
         /\ OnHost(j) <=> HostWith(a, job_state[j])
         /\ HoldsSlot(j)' <=> job_state'[j] # "FREED" /\ SlotWith(b, job_state'[j])
         /\ OnHost(j)' <=> job_state'[j] # "FREED" /\ HostWith(b, job_state'[j])
<1>1. Moves(j) = {a} /\ Moves(j)' = {b} \ {"KILL"}
  BY MoveLeaves
<1>2. job_state[j] # "FREED" /\ dmq # <<>> /\ QueueTyped /\ Head(dmq) = <<a, j>>
      /\ (Done \/ DoneAndTrigger(b, j))
  BY DEF Handle, TypeOK, MoveOn
<1>3. "KILL" \notin SlotBack
  BY DEF SlotBack, EpilogStates
<1>4. Apart(j)
  <2> SUFFICES ASSUME NEW k \in Jobs, k # j
               PROVE  Steady(k)
    BY DEF Apart
  <2>1. \A c : Queued(c, k)' <=> Queued(c, k)
    BY <1>2, OthersKept
  <2> QED
    BY <2>1, SameMessages
<1>5. /\ HoldsSlot(j) <=> SlotWith(a, job_state[j])
      /\ OnHost(j) <=> HostWith(a, job_state[j])
  BY <1>1, <1>2 DEF HoldsSlot, OnHost, SlotWith, HostWith
<1>6. /\ HoldsSlot(j)' <=> job_state'[j] # "FREED" /\ SlotWith(b, job_state'[j])
      /\ OnHost(j)' <=> job_state'[j] # "FREED" /\ HostWith(b, job_state'[j])
  BY <1>1, <1>3 DEF HoldsSlot, OnHost, SlotWith, HostWith
<1> QED
  BY <1>4, <1>5, <1>6

\* Job k, as far as its home goes: it is not migrated, and what ended stays ended.
HomeState(k) ==
  \/ job_state'[k] = job_state[k]
  \/ /\ job_state'[k] \notin MigrStates
     /\ job_state[k] # "FREED"
     /\ job_state[k] = "ZOMBIE" => job_state'[k] = "FREED"

\* Its wrapper runs on its host, or it has none.
HomeRuns(k) == runs'[k] = {} \/ (host'[k] = host[k] /\ runs'[k] \subseteq runs[k] \union {host[k]})

\* A step that posts one message about a job, which is no migration.
LEMMA HomeFrame ==
  ASSUME ChargeInv, NEW b, b \notin MigrStates, NEW j, NewMessage(<<b, j>>),
         b = "KILL" => "KILL" \in UserOps \/ job_state'[j] \in {"ZOMBIE", "FREED"},
         \A k \in Jobs : HomeState(k) /\ HomeRuns(k)
  PROVE  \A k \in Jobs : FreedAtEnd(k)' /\ OnOneHost(k)'
<1> SUFFICES ASSUME NEW k \in Jobs
             PROVE  FreedAtEnd(k)' /\ OnOneHost(k)'
  OBVIOUS
<1>1. FreedAtEnd(k) /\ OnOneHost(k) /\ HomeState(k) /\ HomeRuns(k)
  BY DEF ChargeInv
<1>2. \A c : Queued(c, k)' => Queued(c, k) \/ (c = b /\ k = j)
  BY DEF NewMessage
<1>3. FreedAtEnd(k)'
  BY <1>1, <1>2 DEF FreedAtEnd, HomeState
<1>4. job_state'[k] \notin MigrStates
  BY <1>1 DEF HomeState, OnOneHost
<1>5. \A c \in MigrStates : job_state'[k] # "FREED" => ~Queued(c, k)'
  BY <1>1, <1>2 DEF OnOneHost, HomeState
<1>6. runs'[k] \subseteq {host'[k]}
  BY <1>1 DEF OnOneHost, HomeRuns
<1> QED
  BY <1>3, <1>4, <1>5, <1>6 DEF OnOneHost

\* The handler of a move that keeps the job's charges, gives its slot back, or
\* takes it from its host.
LEMMA ChargeMove ==
  ASSUME Charged, NEW j \in Jobs, NEW a \in MoveActions, Handle(a, j),
         NEW b, MoveOn(b, j), b = "KILL" => Done, b \notin MigrStates \union {"PROLOG"},
         UNCHANGED <<runs, host>>, \A k \in Jobs \ {j} : job_state'[k] = job_state[k],
         job_state'[j] \notin MigrStates \union {"FREED"},
         \/ /\ UNCHANGED hostv
            /\ SlotWith(a, job_state[j]) <=> SlotWith(b, job_state'[j])
            /\ HostWith(a, job_state[j]) <=> HostWith(b, job_state'[j])
         \/ /\ DecUslots(host[j]) /\ UNCHANGED <<running_jobs, user_running>>
            /\ SlotWith(a, job_state[j]) /\ ~SlotWith(b, job_state'[j])
            /\ HostWith(b, job_state'[j])
         \/ /\ LeaveHost(j)
            /\ ~SlotWith(a, job_state[j]) /\ HostWith(a, job_state[j])
            /\ ~HostWith(b, job_state'[j])
  PROVE  ChargeInv'
<1> USE DEF Charged, HandsInv, TypeOK
<1>1. dmq # <<>> /\ host[j] \in Hosts
  <2>1. host[j] # NoHost
    BY RecordedHead DEF MoveActions
  <2> QED
    BY <2>1 DEF Handle, HistoryTyped
<1>2. ChargesCounted'
  <2>1. /\ Apart(j)
        /\ HoldsSlot(j) <=> SlotWith(a, job_state[j])
        /\ OnHost(j) <=> HostWith(a, job_state[j])
        /\ HoldsSlot(j)' <=> SlotWith(b, job_state'[j])
        /\ OnHost(j)' <=> HostWith(b, job_state'[j])
    BY MoveCharge
  <2>2. ChargesCounted
    BY DEF ChargeInv
  <2>3. CASE /\ UNCHANGED hostv
             /\ SlotWith(a, job_state[j]) <=> SlotWith(b, job_state'[j])
             /\ HostWith(a, job_state[j]) <=> HostWith(b, job_state'[j])
    <3>1. NoCharge
      BY <2>1, <2>3 DEF NoCharge, Apart, Steady
    <3> QED
      BY <2>2, <3>1, ChargeKept
  <2>4. CASE /\ DecUslots(host[j]) /\ UNCHANGED <<running_jobs, user_running>>
             /\ SlotWith(a, job_state[j]) /\ ~SlotWith(b, job_state'[j])
             /\ HostWith(b, job_state'[j])
    <3>1. Returned(j)
      BY <2>1, <2>4 DEF Returned
    <3> QED
      BY <1>1, <2>2, <3>1, SlotReturned
  <2>5. CASE /\ LeaveHost(j)
             /\ ~SlotWith(a, job_state[j]) /\ HostWith(a, job_state[j])
             /\ ~HostWith(b, job_state'[j])
    <3>1. Left(j)
      BY <2>1, <2>5 DEF Left
    <3> QED
      BY <1>1, <2>2, <3>1, HostLeft
  <2> QED
    BY <2>3, <2>4, <2>5
<1>3. \A k \in Jobs : HomeState(k) /\ HomeRuns(k)
  <2>1. job_state[j] \notin {"ZOMBIE", "FREED"}
    BY MoveFinds
  <2> QED
    BY <2>1 DEF HomeState, HomeRuns
<1>4. \A k \in Jobs : FreedAtEnd(k)' /\ OnOneHost(k)'
  <2>1. CASE Done
    <3>1. NewMessage(<<"WAIT", j>>) /\ "WAIT" \notin MigrStates
      BY <1>1, <2>1, QueuedDone DEF MigrStates
    <3> QED
      BY <1>3, <3>1, HomeFrame
  <2>2. CASE DoneAndTrigger(b, j) /\ b # "KILL"
    <3>1. b \in DMActions
      BY <2>2, MoveTypes DEF MoveOn
    <3>2. NewMessage(<<b, j>>)
      BY <1>1, <2>2, <3>1, QueuedTrigger
    <3> QED
      BY <1>3, <2>2, <3>2, HomeFrame
  <2> QED
    BY <2>1, <2>2 DEF MoveOn
<1> QED
  BY <1>2, <1>4 DEF ChargeInv

\* When the DM thread takes a move of a job, the job does not migrate.
LEMMA StayingMove ==
  ASSUME Charged, NEW j \in Jobs, NEW a \in MoveActions, Handle(a, j)
  PROVE  /\ Fits(a, job_state[j])
         /\ job_state[j] \notin MigrStates \union {"FREED"} /\ a \notin MigrStates
<1>1. job_state[j] # "FREED" /\ a \in Moves(j) /\ Fits(a, job_state[j])
  BY MoveTaken DEF Charged, HandsInv
<1>2. OnOneHost(j)
  BY DEF Charged, ChargeInv
<1> QED
  BY <1>1, <1>2 DEF OnOneHost, Moves

\* gw_dm_prolog
LEMMA PrologCharge ==
  ASSUME Charged, NEW j \in Jobs, NEW s \in {"PROLOG", "MIGR_PROLOG"}, Prolog(j, s)
  PROVE  ChargeInv'
<1> USE DEF Prolog, MoveActions, StateActions, Callbacks, MigrStates, MoveOn, jobv, emv
<1>1. Handle(s, j) /\ s \in MoveActions
  OBVIOUS
<1>2. s = "PROLOG"
  BY <1>1, StayingMove
<1>3. job_state' = [job_state EXCEPT ![j] = "PROLOG"] /\ job_state'[j] = "PROLOG"
  BY <1>2 DEF SetState, Charged, HandsInv, TypeOK, StatesTyped
<1>4. \E b \in {"KILL", "PROLOG_FAILED"} : MoveOn(b, j) /\ (b = "KILL" => Done)
  OBVIOUS
<1>5. \A b \in {"KILL", "PROLOG_FAILED"} :
        /\ SlotWith(s, job_state[j]) /\ SlotWith(b, "PROLOG")
        /\ HostWith(s, job_state[j]) /\ HostWith(b, "PROLOG")
  BY <1>2 DEF SlotWith, HostWith, SlotBack, EpilogStates, BusyStates
<1> QED
  BY <1>1, <1>3, <1>4, <1>5, ChargeMove

\* gw_dm_prolog_done_cb
LEMMA PrologDoneCharge ==
  ASSUME Charged, NEW j \in Jobs, PrologDone(j)
  PROVE  ChargeInv'
<1> USE DEF PrologDone, MoveActions, StateActions, Callbacks, MigrStates, MoveOn, jobv, emv
<1>1. Handle("PROLOG_DONE", j) /\ "PROLOG_DONE" \in MoveActions
  OBVIOUS
<1>2. job_state[j] = "PROLOG"
  BY <1>1, StayingMove DEF Fits
<1>3. \E b \in {"PRE_WRAPPER", "WRAPPER"} : MoveOn(b, j)
  BY <1>2
<1>4. \A b \in {"PROLOG_DONE", "PRE_WRAPPER", "WRAPPER"} :
        SlotWith(b, "PROLOG") /\ HostWith(b, "PROLOG")
  BY DEF SlotWith, HostWith, SlotBack, EpilogStates, BusyStates
<1> QED
  BY <1>1, <1>2, <1>3, <1>4, ChargeMove

\* gw_dm_prolog_failed_cb gives the slot back.
LEMMA PrologFailedCharge ==
  ASSUME Charged, NEW j \in Jobs, PrologFailed(j)
  PROVE  ChargeInv'
<1> USE DEF PrologFailed, MoveActions, StateActions, Callbacks, MigrStates, MoveOn, OnFailure, emv
<1>1. Handle("PROLOG_FAILED", j) /\ "PROLOG_FAILED" \in MoveActions
  OBVIOUS
<1>2. job_state[j] = "PROLOG"
  BY <1>1, StayingMove DEF Fits
<1>3. MoveOn(OnFailure(j), j) /\ OnFailure(j) \in {"PENDING", "FAILED"}
  OBVIOUS
<1>4. /\ SlotWith("PROLOG_FAILED", "PROLOG")
      /\ \A b \in {"PENDING", "FAILED"} : ~SlotWith(b, "PROLOG") /\ HostWith(b, "PROLOG")
  BY DEF SlotWith, HostWith, SlotBack, EpilogStates, BusyStates
<1>5. DecUslots(host[j]) /\ UNCHANGED <<running_jobs, user_running>>
  BY <1>2
<1> QED
  BY <1>1, <1>2, <1>3, <1>4, <1>5, ChargeMove

\* gw_dm_pre_wrapper, gw_dm_wrapper
LEMMA WrapperCharge ==
  ASSUME Charged, NEW j \in Jobs, NEW s \in {"PRE_WRAPPER", "WRAPPER"}, Wrapper(j, s)
  PROVE  ChargeInv'
<1> USE DEF Wrapper, MoveActions, StateActions, MigrStates, MoveOn, jobv
<1>1. Handle(s, j) /\ s \in MoveActions
  OBVIOUS
<1>2. job_state[j] \in {"PROLOG", "PRE_WRAPPER"}
  BY <1>1, StayingMove DEF Fits
<1>3. job_state' = [job_state EXCEPT ![j] = s] /\ job_state'[j] = s
  BY DEF SetState, Charged, HandsInv, TypeOK, StatesTyped
<1>4. /\ SlotWith(s, job_state[j]) /\ SlotWith("KILL", s)
      /\ HostWith(s, job_state[j]) /\ HostWith("KILL", s)
  BY <1>2 DEF SlotWith, HostWith, SlotBack, EpilogStates, BusyStates, ExecStates
<1> QED
  BY <1>1, <1>3, <1>4, ChargeMove

\* gw_dm_wrapper_done_cb and gw_dm_wrapper_failed_cb: the slot is given back when the
\* job goes to its epilog.
LEMMA WrapperEndCharge ==
  ASSUME Charged, NEW j \in Jobs, WrapperDone(j) \/ WrapperFailed(j)
  PROVE  ChargeInv'
<1> USE DEF WrapperDone, WrapperFailed, MoveActions, StateActions, Callbacks, MigrStates, MoveOn,
        EpilogStates
<1>1. PICK a \in {"WRAPPER_DONE", "WRAPPER_FAILED"} : Handle(a, j)
  OBVIOUS
<1>2. a \in MoveActions
  OBVIOUS
<1>3. job_state[j] \in ExecStates /\ job_state[j] \notin MigrStates \union {"FREED"}
  BY <1>1, <1>2, StayingMove DEF Fits, ExecStates
<1>4. SlotWith(a, job_state[j]) /\ HostWith(a, job_state[j])
  BY <1>3 DEF SlotWith, HostWith, SlotBack, BusyStates
<1>5. \A b \in SlotBack : ~SlotWith(b, job_state[j]) /\ HostWith(b, job_state[j])
  BY <1>3 DEF SlotWith, HostWith, SlotBack, BusyStates
<1>6. UNCHANGED <<job_state, runs, host, running_jobs, user_running>>
  OBVIOUS
<1>7. CASE WrapperDone(j) /\ job_state[j] = "PRE_WRAPPER"
  <2>1. SlotWith("WRAPPER", job_state[j]) /\ HostWith("WRAPPER", job_state[j])
    BY <1>3 DEF SlotWith, HostWith, SlotBack, BusyStates
  <2>2. MoveOn("WRAPPER", j) /\ UNCHANGED hostv
    BY <1>7 DEF hostv, ExecStates
  <2> QED
    BY <1>1, <1>2, <1>3, <1>4, <1>6, <2>1, <2>2, ChargeMove
<1>8. CASE WrapperFailed(j) \/ job_state[j] # "PRE_WRAPPER"
  <2>1. \E b \in EpilogStates \ MigrStates : MoveOn(b, j)
    BY <1>3, <1>8 DEF ExecStates
  <2>2. DecUslots(host[j])
    BY <1>3, <1>8
  <2>3. \A b \in EpilogStates : b \in SlotBack /\ b # "KILL" /\ b # "PROLOG"
    BY DEF SlotBack
  <2> QED
    BY <1>1, <1>2, <1>3, <1>4, <1>5, <1>6, <2>1, <2>2, <2>3, ChargeMove
<1> QED
  BY <1>7, <1>8

\* gw_dm_epilog and its variants
LEMMA EpilogCharge ==
  ASSUME Charged, NEW j \in Jobs, NEW s \in EpilogStates, Epilog(j, s)
  PROVE  ChargeInv'
<1> USE DEF Epilog, MoveActions, StateActions, MoveOn, jobv, emv
<1>1. Handle(s, j) /\ s \in MoveActions
  BY DEF EpilogStates
<1>2. s \notin MigrStates /\ Fits(s, job_state[j]) /\ job_state[j] \notin MigrStates
  BY <1>1, StayingMove
<1>3. job_state[j] \in BusyStates /\ job_state[j] # "PROLOG"
  BY <1>2 DEF Fits, BusyStates, EpilogStates, ExecStates, CancelStates
<1>4. job_state' = [job_state EXCEPT ![j] = s] /\ job_state'[j] = s
  BY DEF SetState, Charged, HandsInv, TypeOK, StatesTyped
<1>5. s \notin ExecStates \union {"PROLOG", "KILL", "FREED"}
  BY DEF ExecStates, CancelStates, EpilogStates
<1>6. /\ ~SlotWith(s, job_state[j]) /\ ~SlotWith("KILL", s)
      /\ HostWith(s, job_state[j]) /\ HostWith("KILL", s)
  BY <1>3, <1>5 DEF SlotWith, HostWith, SlotBack, BusyStates
<1> QED
  BY <1>1, <1>2, <1>4, <1>5, <1>6, ChargeMove DEF MigrStates

\* gw_dm_epilog_done_cb and gw_dm_epilog_failed_cb
LEMMA EpilogEndCharge ==
  ASSUME Charged, NEW j \in Jobs,
         \/ EpilogDoneStd(j) \/ EpilogFailedStd(j) \/ EpilogEnded(j)
         \/ EpilogDone(j) \/ EpilogFailed(j)
  PROVE  ChargeInv'
<1> USE DEF MoveActions, StateActions, Callbacks, MoveOn, OnFailure, EpilogDoneStd,
        EpilogFailedStd, EpilogEnded, EpilogDone, EpilogFailed
<1>1. PICK a \in {"EPILOG_DONE", "EPILOG_FAILED"} : Handle(a, j)
  OBVIOUS
<1>2. a \in MoveActions
  OBVIOUS
<1>3. job_state[j] \in EpilogStates /\ job_state[j] \notin MigrStates \union {"FREED"}
  BY <1>1, <1>2, StayingMove DEF Fits
<1>4. \E b \in {"EPILOG", "EPILOG_RESTART", "ZOMBIE", "STOPPED", "PENDING", "FAILED"} : MoveOn(b, j)
  BY <1>3 DEF MigrStates, EpilogStates
<1>5. \A b \in {"EPILOG", "EPILOG_RESTART", "ZOMBIE", "STOPPED", "PENDING", "FAILED", a} :
        /\ ~SlotWith(b, job_state[j]) /\ HostWith(b, job_state[j])
        /\ b \notin MigrStates \union {"PROLOG", "KILL"}
  BY <1>3 DEF SlotWith, HostWith, BusyStates, ExecStates, CancelStates, EpilogStates, MigrStates
<1>6. UNCHANGED <<job_state, runs, host, hostv>>
  BY <1>3 DEF MigrStates, EpilogStates, jobv, emv, hostv
<1> QED
  BY <1>1, <1>2, <1>3, <1>4, <1>5, <1>6, ChargeMove

\* gw_dm_pending, gw_dm_stopped, gw_dm_failed: the job leaves its host.
LEMMA LeaveCharge ==
  ASSUME Charged, NEW j \in Jobs, Pending(j) \/ Stopped(j) \/ Failed(j)
  PROVE  ChargeInv'
<1> USE DEF MoveActions, StateActions, MoveOn, Pending, Stopped, Failed, jobv, emv
<1>1. PICK a \in {"PENDING", "STOPPED", "FAILED"} : Handle(a, j) /\ SetState(j, a)
  OBVIOUS
<1>2. a \in MoveActions
  OBVIOUS
<1>3. Fits(a, job_state[j])
  BY <1>1, <1>2, StayingMove
<1>4. job_state' = [job_state EXCEPT ![j] = a] /\ job_state'[j] = a
  BY <1>1 DEF SetState, Charged, HandsInv, TypeOK, StatesTyped
<1>5. /\ ~SlotWith(a, job_state[j]) /\ HostWith(a, job_state[j]) /\ ~HostWith("KILL", a)
      /\ a \notin MigrStates \union {"FREED"}
  BY <1>3 DEF Fits, SlotWith, HostWith, SlotBack, BusyStates, ExecStates, CancelStates,
              EpilogStates, MigrStates
<1> QED
  BY <1>1, <1>2, <1>4, <1>5, ChargeMove DEF MigrStates

\* gw_dm_zombie: the job leaves its host; the jobs that depend on it are on none.
LEMMA ZombieCharge ==
  ASSUME Charged, NEW j \in Jobs, Zombie(j)
  PROVE  ChargeInv'
<1> USE DEF Charged, HandsInv, TypeOK
<1>1. Handle("ZOMBIE", j) /\ "ZOMBIE" \in MoveActions
  BY DEF Zombie, MoveActions, StateActions
<1>2. job_state[j] \in {"EPILOG", "KILL_EPILOG"}
  BY <1>1, StayingMove DEF Fits
<1>3. host[j] \in Hosts /\ dmq # <<>> /\ Head(dmq) = <<"ZOMBIE", j>>
  BY <1>1, RecordedHead DEF Handle, StateActions, HistoryTyped
<1>4. MoveOn("KILL", j) /\ (Done \/ DoneAndTrigger("KILL", j)) /\ LeaveHost(j)
  BY <1>2 DEF Zombie, MoveOn
<1>5. Moves(j) = {"ZOMBIE"} /\ Moves(j)' = {}
  BY <1>1, <1>4, MoveLeaves
<1>6. job_state'[j] \in {"ZOMBIE", "FREED"}
  BY <1>2 DEF Zombie, DepCheck, PoolFree, SetState, StatesTyped
<1>7. OnHost(j) /\ ~HoldsSlot(j) /\ ~OnHost(j)'
  BY <1>2, <1>5, <1>6
  DEF OnHost, HoldsSlot, BusyStates, ExecStates, CancelStates, EpilogStates
<1>8. ASSUME NEW k \in Jobs, k # j
      PROVE  /\ host'[k] = host[k] /\ runs'[k] = runs[k]
             /\ job_state'[k] = job_state[k] \/ (job_state[k] = "HOLD" /\ job_state'[k] = "PENDING")
  BY <1>2, <1>8 DEF Zombie, DepCheck, MeetsDep, PoolFree, SetState, StatesTyped, HistoryTyped,
                    ManagersTyped, emv
<1>9. ASSUME NEW k \in Jobs, k # j
      PROVE  Steady(k)
  <2>1. \A c : Queued(c, k)' <=> Queued(c, k)
    BY <1>3, <1>4, <1>9, OthersKept
  <2>2. CASE job_state'[k] = job_state[k]
    BY <1>8, <1>9, <2>1, <2>2, SameMessages
  <2>3. CASE job_state[k] = "HOLD" /\ job_state'[k] = "PENDING"
    <3>1. Moves(k) = {} /\ Moves(k)' = {}
      BY <2>1, <2>3, IdleHands DEF ActivityInv, JobActivity, Moves
    <3>2. ~OnHost(k) /\ ~OnHost(k)'
      BY <2>3, <3>1 DEF OnHost, BusyStates, ExecStates, CancelStates, EpilogStates
    <3> QED
      BY <3>2, SlotOnHost DEF Steady, HoldsSlot, OnHost, BusyStates
  <2> QED
    BY <1>8, <1>9, <2>2, <2>3
<1>10. ChargesCounted'
  <2>1. Left(j)
    BY <1>4, <1>7, <1>9 DEF Left, Apart
  <2> QED
    BY <1>3, <2>1, HostLeft DEF ChargeInv
<1>11. \A k \in Jobs : HomeState(k)
  BY <1>2, <1>6, <1>8 DEF HomeState, MigrStates
<1>12. \A k \in Jobs : HomeRuns(k)
  <2>1. runs[j] = {}
    BY <1>1, MoveTaken
  <2>2. runs'[j] = {}
    BY <1>2, <2>1 DEF Zombie, PoolFree, ManagersTyped, emv
  <2> QED
    BY <1>8, <2>2 DEF HomeRuns
<1>13. NewMessage(<<"KILL", j>>)
  <2>1. "KILL" \in DMActions
    BY DEF DMActions, ClientOps
  <2> QED
    BY <1>3, <1>4, <2>1, QueuedDone, QueuedTrigger
<1>14. \A k \in Jobs : FreedAtEnd(k)' /\ OnOneHost(k)'
  BY <1>6, <1>11, <1>12, <1>13, HomeFrame DEF MigrStates
<1> QED
  BY <1>10, <1>14 DEF ChargeInv

-----------------------------------------------------------------------------
(* The requests and the other threads.                                     *)

\* A handler that leaves the job where it is, has its wrapper cancelled, or makes an
\* idle job PENDING.
LEMMA OpCharge ==
  ASSUME Charged, NEW j \in Jobs, NEW a, dmq # <<>>, Head(dmq) = <<a, j>>, Done,
         a \notin MoveActions \/ job_state[j] = "FREED",
         UNCHANGED <<runs, host, hostv>>, \A k \in Jobs \ {j} : job_state'[k] = job_state[k],
         \/ job_state'[j] = job_state[j]
         \/ job_state[j] = "WRAPPER" /\ job_state'[j] \in {"KILL_CANCEL", "STOP_CANCEL"}
         \/ job_state[j] \in {"HOLD", "STOPPED"} /\ job_state'[j] = "PENDING"
  PROVE  ChargeInv'
<1> USE DEF Charged, HandsInv, TypeOK
<1>1. ASSUME NEW k \in Jobs, k # j
      PROVE  Steady(k)
  <2>1. \A c : Queued(c, k)' <=> Queued(c, k)
    BY <1>1, OthersKept
  <2> QED
    BY <1>1, <2>1, SameMessages
<1>2. Steady(j)
  <2>1. CASE job_state[j] = "FREED"
    BY <2>1 DEF Steady, HoldsSlot, OnHost
  <2>2. CASE job_state[j] # "FREED"
    <3>1. Moves(j)' = Moves(j)
      <4>1. \A c : Queued(c, j)' => Queued(c, j)
        BY OtherHandled
      <4>2. ASSUME NEW c \in MoveActions, NEW i \in 1..Len(dmq), dmq[i] = <<c, j>>
            PROVE  Queued(c, j)'
        <5>1. Len(dmq) \in Nat \ {0} /\ dmq[1] = <<a, j>> /\ a # c
          BY <2>2, <4>2 DEF QueueTyped
        <5>2. i - 1 \in 1..(Len(dmq) - 1) /\ i = (i - 1) + 1
          BY <4>2, <5>1
        <5>3. Len(dmq') = Len(dmq) - 1 /\ dmq'[i - 1] = dmq[(i - 1) + 1]
          BY <5>2 DEF QueueTyped, Done
        <5> QED
          BY <4>2, <5>2, <5>3 DEF Queued
      <4> QED
        BY <4>1, <4>2 DEF Moves, Queued
    <3>2. job_state[j] \in {"HOLD", "STOPPED"} => Moves(j) = {}
      BY <2>2, IdleHands DEF ActivityInv, JobActivity
    <3> QED
      BY <2>2, <3>1, <3>2
      DEF Steady, HoldsSlot, OnHost, BusyStates, ExecStates, CancelStates, EpilogStates
  <2> QED
    BY <2>1, <2>2
<1>3. ChargesCounted'
  <2>1. NoCharge
    BY <1>1, <1>2 DEF NoCharge
  <2> QED
    BY <2>1, ChargeKept DEF ChargeInv
<1>4. \A k \in Jobs : HomeState(k) /\ HomeRuns(k)
  BY DEF HomeState, HomeRuns, MigrStates
<1>5. NewMessage(<<"WAIT", j>>) /\ "WAIT" \notin MigrStates
  BY QueuedDone DEF MigrStates
<1>6. \A k \in Jobs : FreedAtEnd(k)' /\ OnOneHost(k)'
  BY <1>4, <1>5, HomeFrame
<1> QED
  BY <1>3, <1>6 DEF ChargeInv

\* gw_dm_kill of an idle job frees it.
LEMMA KillCharge ==
  ASSUME Charged, NEW j \in Jobs, Kill(j)
  PROVE  ChargeInv'
<1> USE DEF Charged, HandsInv, TypeOK, SetState
<1>1. /\ dmq # <<>> /\ Head(dmq) = <<"KILL", j>> /\ Done /\ job_state[j] # "FREED"
      /\ Queued("KILL", j) /\ "KILL" \notin MoveActions
  BY HeadQueued, MoveTypes DEF Kill, Handle, ClientOps
<1>2. CASE job_state[j] \notin IdleStates
  <2>1. /\ UNCHANGED <<runs, host, hostv>> /\ \A k \in Jobs \ {j} : job_state'[k] = job_state[k]
        /\ \/ job_state'[j] = job_state[j]
           \/ job_state[j] = "WRAPPER" /\ job_state'[j] = "KILL_CANCEL"
    BY <1>2 DEF Kill, StatesTyped, jobv, emv
  <2> QED
    BY <1>1, <2>1, OpCharge
<1>3. CASE job_state[j] \in IdleStates
  <2>1. PoolFree(j) /\ UNCHANGED hostv /\ job_state'[j] = "FREED"
    BY <1>3 DEF Kill, PoolFree, IdleStates, StatesTyped
  <2>2. \A k \in Jobs \ {j} : /\ job_state'[k] = job_state[k] /\ host'[k] = host[k]
                              /\ runs'[k] = runs[k]
    BY <2>1 DEF PoolFree
  <2>3. Apart(j)
    <3> SUFFICES ASSUME NEW k \in Jobs, k # j
                 PROVE  Steady(k)
      BY DEF Apart
    <3>1. \A c : Queued(c, k)' <=> Queued(c, k)
      BY <1>1, OthersKept
    <3> QED
      BY <2>2, <3>1, SameMessages
  <2>4. ~OnHost(j)' /\ ~HoldsSlot(j)'
    BY <2>1 DEF OnHost, HoldsSlot
  <2>5. ChargesCounted'
    <3>1. CASE "KILL" \in UserOps
      <4>1. Dropped(j)
        BY <2>1, <2>3, <2>4, <3>1 DEF Dropped
      <4> QED
        BY <4>1, ChargeDropped DEF ChargeInv
    <3>2. CASE "KILL" \notin UserOps
      <4>1. job_state[j] = "ZOMBIE"
        BY <1>1, <3>2 DEF ChargeInv, FreedAtEnd
      <4>2. Moves(j) = {}
        BY <1>1, <4>1, IdleHands DEF ActivityInv, JobActivity
      <4>3. ~OnHost(j) /\ ~HoldsSlot(j)
        BY <4>1, <4>2 DEF OnHost, HoldsSlot, BusyStates, ExecStates, CancelStates, EpilogStates
      <4>4. NoCharge
        BY <2>1, <2>3, <2>4, <4>3 DEF NoCharge, Apart, Steady
      <4> QED
        BY <4>4, ChargeKept DEF ChargeInv
    <3> QED
      BY <3>1, <3>2
  <2>6. \A k \in Jobs : HomeState(k) /\ HomeRuns(k)
    <3>1. runs'[j] = {}
      BY <2>1 DEF PoolFree, ManagersTyped
    <3> QED
      BY <1>1, <2>1, <2>2, <3>1 DEF HomeState, HomeRuns, MigrStates
  <2>7. NewMessage(<<"WAIT", j>>) /\ "WAIT" \notin MigrStates
    BY <1>1, QueuedDone DEF MigrStates
  <2>8. \A k \in Jobs : FreedAtEnd(k)' /\ OnOneHost(k)'
    BY <2>6, <2>7, HomeFrame
  <2> QED
    BY <2>5, <2>8 DEF ChargeInv
<1> QED
  BY <1>2, <1>3

\* The other handlers of requests, and gw_dm_migr_cancel, which is not asked for.
LEMMA RequestsCharge ==
  ASSUME Charged, NEW j \in Jobs,
         \/ \E a \in DMActions : MissingJob(a, j)
         \/ Hold(j) \/ Release(j) \/ KillHard(j) \/ Stop(j) \/ Resume(j) \/ Reschedule(j)
         \/ Wait(j) \/ MigrCancel(j)
  PROVE  ChargeInv'
<1> USE DEF Charged, HandsInv, TypeOK, StatesTyped, SetState, jobv, emv
<1>1. ASSUME Hold(j) \/ Reschedule(j) \/ KillHard(j)
      PROVE  FALSE
  BY <1>1, AskedFor DEF Hold, Reschedule, KillHard, StaysOnHost, OneOffer, ClientOps
<1>2. ASSUME MigrCancel(j)
      PROVE  FALSE
  <2>1. Queued("MIGR_CANCEL", j) /\ job_state[j] # "FREED"
    BY <1>2, HeadQueued DEF MigrCancel, Handle
  <2> QED
    BY <2>1 DEF ChargeInv, OnOneHost, MigrStates
<1>3. CASE \E a \in DMActions : MissingJob(a, j)
  BY <1>3, OpCharge DEF MissingJob
<1>4. \A op \in ClientOps : op \notin MoveActions
  BY MoveTypes
<1>5. CASE Release(j)
  BY <1>4, <1>5, OpCharge DEF Release, Handle, ClientOps
<1>6. CASE Stop(j)
  BY <1>4, <1>6, OpCharge DEF Stop, Handle, ClientOps
<1>7. CASE Resume(j)
  BY <1>4, <1>7, OpCharge DEF Resume, Handle, ClientOps
<1>8. CASE Wait(j)
  BY <1>4, <1>8, OpCharge DEF Wait, Handle, ClientOps
<1> QED
  BY <1>1, <1>2, <1>3, <1>5, <1>6, <1>7, <1>8

\* Another thread posts a message that gives nothing back, or none.
LEMMA PostCharge ==
  ASSUME Charged, NEW j \in Jobs, NEW b \in DMActions,
         b \notin SlotBack \union MigrStates \union {"PROLOG"}, b = "KILL" => "KILL" \in UserOps,
         UNCHANGED dmq \/ dmq' = Append(dmq, <<b, j>>),
         UNCHANGED job_state, UNCHANGED hostv,
         \A k \in Jobs : HomeRuns(k) /\ (host'[k] = host[k] \/ ~OnHost(k))
  PROVE  ChargeInv'
<1> USE DEF Charged, HandsInv, TypeOK
<1>1. NewMessage(<<b, j>>)
  BY QueuedSame, QueuedAppend
<1>2. ASSUME NEW c, NEW k, Queued(c, k)
      PROVE  Queued(c, k)'
  <2>1. CASE UNCHANGED dmq
    BY <1>2, <2>1 DEF Queued
  <2>2. CASE dmq' = Append(dmq, <<b, j>>)
    <3>1. Len(dmq) \in Nat /\ Len(dmq') = Len(dmq) + 1 /\ \A i \in 1..Len(dmq) : dmq'[i] = dmq[i]
      BY <2>2 DEF QueueTyped
    <3> QED
      BY <1>2, <3>1 DEF Queued
  <2> QED
    BY <2>1, <2>2
<1>3. ASSUME NEW k \in Jobs
      PROVE  Steady(k)
  <2>1. \A c \in SlotBack \union {"PROLOG"} : Queued(c, k)' <=> Queued(c, k)
    BY <1>1, <1>2 DEF NewMessage
  <2> QED
    BY <2>1, SameMessages
<1>4. ChargesCounted'
  BY <1>3, ChargeKept DEF ChargeInv, NoCharge
<1>5. \A k \in Jobs : HomeState(k)
  BY DEF HomeState
<1>6. \A k \in Jobs : FreedAtEnd(k)' /\ OnOneHost(k)'
  BY <1>1, <1>5, HomeFrame
<1> QED
  BY <1>4, <1>6 DEF ChargeInv

\* gw_dm_jalloc: a new job is on no host.
LEMMA SubmitCharge ==
  ASSUME Charged, NEW j \in Jobs, Submit(j)
  PROVE  ChargeInv'
<1> USE DEF Charged, HandsInv, TypeOK, StatesTyped, Submit, SetState, jobv, emv
<1>1. job_state[j] = "NEW" /\ job_state'[j] \in {"HOLD", "PENDING"} /\ dmq' = dmq
  OBVIOUS
<1>2. Moves(j) = {} /\ Moves(j)' = {}
  BY <1>1, IdleHands DEF ActivityInv, JobActivity, Moves, Queued
<1>3. Steady(j)
  BY <1>1, <1>2 DEF Steady, HoldsSlot, OnHost, BusyStates, ExecStates, CancelStates, EpilogStates
<1>4. ASSUME NEW k \in Jobs, k # j
      PROVE  Steady(k)
  BY <1>4, SameMessages DEF Queued
<1>5. ChargesCounted'
  <2>1. NoCharge
    BY <1>3, <1>4 DEF NoCharge
  <2> QED
    BY <2>1, ChargeKept DEF ChargeInv
<1>6. \A k \in Jobs : HomeState(k) /\ HomeRuns(k)
  BY DEF HomeState, HomeRuns, MigrStates
<1>7. NewMessage(<<"WAIT", j>>) /\ "WAIT" \notin MigrStates
  BY <1>1, QueuedSame DEF MigrStates
<1>8. \A k \in Jobs : FreedAtEnd(k)' /\ OnOneHost(k)'
  BY <1>6, <1>7, HomeFrame
<1> QED
  BY <1>5, <1>8 DEF ChargeInv

\* A job that the scheduler sends to a host is PENDING and on none.
LEMMA SentFromNowhere ==
  ASSUME Charged, NEW j \in Jobs, NEW h \in Hosts, Receive(j, h), job_state[j] # "FREED"
  PROVE  job_state[j] = "PENDING" /\ Moves(j) = {} /\ runs[j] = {} /\ ~OnHost(j)
<1> USE DEF Charged, HandsInv, TypeOK, StatesTyped, SchedulerTyped, Receive
<1>1. Activity(j) /\ h # NoHost
  BY DMAssumption DEF ActivityInv, JobActivity
<1>2. Offered(1, j) /\ 1 \in 1..Len(inflight)
  BY <1>1 DEF Offered
<1>3. ~NoAnswer(j)
  BY <1>2 DEF NoAnswer
<1>4. job_state[j] = "PENDING" /\ OfferedOnce(j)
  BY <1>1, <1>3 DEF Activity, Offers, NotOffered, StaysOnHost
<1>5. "PROLOG" \notin Moves(j)
  BY <1>3, <1>4 DEF OfferedOnce, NotOffered
<1>6. Moves(j) = {} /\ ~InEM(j)
  BY <1>1, <1>4, <1>5 DEF Activity, StateFits, Fits, ExecStates, CancelStates, EpilogStates
<1> QED
  BY <1>4, <1>6 DEF OnHost, InEM, BusyStates, ExecStates, CancelStates, EpilogStates

\* gw_dm_dispatch_job, first branch: the job, its host and the user are charged.
LEMMA DispatchCharge ==
  ASSUME Charged, NEW j \in Jobs, NEW h \in Hosts, DispatchPending(j, h)
  PROVE  ChargeInv'
<1> USE DEF Charged, HandsInv, TypeOK, DispatchPending, HistoryAdd, emv
<1>1. Moves(j) = {} /\ runs[j] = {} /\ ~OnHost(j) /\ job_state[j] = "PENDING"
  BY SentFromNowhere
<1>2. Len(dmq) \in Nat /\ Len(dmq') = Len(dmq) + 1 /\ dmq'[Len(dmq) + 1] = <<"PROLOG", j>>
      /\ \A i \in 1..Len(dmq) : dmq'[i] = dmq[i]
  BY DEF QueueTyped
<1>3. "PROLOG" \in DMActions /\ "PROLOG" \in MoveActions /\ "PROLOG" \notin MigrStates \union {"KILL"}
  BY DEF DMActions, MoveActions, StateActions, MigrStates
<1>4. NewMessage(<<"PROLOG", j>>)
  BY <1>3, QueuedAppend
<1>5. "PROLOG" \in Moves(j)'
  <2>1. Len(dmq) + 1 \in 1..Len(dmq')
    BY <1>2
  <2>2. Queued("PROLOG", j)'
    BY <1>2, <2>1 DEF Queued
  <2> QED
    BY <1>3, <2>2 DEF Moves
<1>6. ASSUME NEW k \in Jobs, k # j
      PROVE  Steady(k) /\ host'[k] = host[k]
  <2>1. \A c : Queued(c, k)' <=> Queued(c, k)
    <3>1. \A c : Queued(c, k)' => Queued(c, k)
      BY <1>4, <1>6 DEF NewMessage
    <3>2. \A i \in 1..Len(dmq) : i \in 1..Len(dmq')
      BY <1>2
    <3>3. \A c : Queued(c, k) => Queued(c, k)'
      BY <1>2, <3>2 DEF Queued
    <3> QED
      BY <3>1, <3>3
  <2>2. host'[k] = host[k]
    BY <1>6 DEF HistoryTyped
  <2> QED
    BY <2>1, <2>2, SameMessages
<1>7. OnHost(j)' /\ HoldsSlot(j)' /\ host'[j] = h
  BY <1>1, <1>5 DEF OnHost, HoldsSlot, HistoryTyped
<1>8. ChargesCounted'
  <2>1. Taken(j, h)
    BY <1>1, <1>6, <1>7 DEF Taken, Apart
  <2> QED
    BY <2>1, ChargeTaken DEF ChargeInv
<1>9. \A k \in Jobs : HomeState(k) /\ HomeRuns(k)
  BY <1>1, <1>6 DEF HomeState, HomeRuns
<1>10. \A k \in Jobs : FreedAtEnd(k)' /\ OnOneHost(k)'
  BY <1>3, <1>4, <1>9, HomeFrame
<1> QED
  BY <1>8, <1>10 DEF ChargeInv

\* The other answers of the scheduler charge nothing.
LEMMA AnswersCharge ==
  ASSUME Charged, NEW j \in Jobs, NEW h \in Hosts \union {NoHost},
         \/ DispatchMigration(j, h) \/ UncheckJob(j, h)
         \/ DispatchRefused(j, h) \/ DispatchUnsaved(j, h)
  PROVE  ChargeInv'
<1> USE DEF Charged, HandsInv, TypeOK, emv, jobv, HomeRuns
<1>1. "WAIT" \in DMActions /\ "WAIT" \notin SlotBack \union MigrStates \union {"PROLOG", "KILL"}
  BY DEF DMActions, ClientOps, SlotBack, MigrStates, EpilogStates
<1>2. ASSUME DispatchMigration(j, h)
      PROVE  FALSE
  BY <1>2, SentFromNowhere DEF DispatchMigration
<1>3. CASE UncheckJob(j, h)
  BY <1>1, <1>3, PostCharge DEF UncheckJob
<1>4. CASE DispatchRefused(j, h)
  BY <1>1, <1>4, PostCharge DEF DispatchRefused
<1>5. CASE DispatchUnsaved(j, h)
  <2>1. runs[j] = {} /\ ~OnHost(j)
    BY <1>5, SentFromNowhere DEF DispatchUnsaved
  <2>2. UNCHANGED <<dmq, job_state, hostv, runs>> /\ \A k \in Jobs \ {j} : host'[k] = host[k]
    BY <1>5 DEF DispatchUnsaved, HistoryAdd, HistoryTyped
  <2> QED
    BY <1>1, <2>1, <2>2, PostCharge
<1> QED
  BY <1>2, <1>3, <1>4, <1>5

\* The EM, the TM and the clients.
LEMMA ThreadsCharge ==
  ASSUME Charged, NEW j \in Jobs,
         EMStep(j) \/ TMStep(j) \/ \E op \in UserOps : Request(op, j)
  PROVE  ChargeInv'
<1> USE DEF Charged, HandsInv, TypeOK, emv, jobv, HomeRuns
<1>1. \A b \in Callbacks : b \in DMActions /\ b \notin SlotBack \union MigrStates \union {"PROLOG", "KILL"}
  BY DEF DMActions, Callbacks, SlotBack, MigrStates, EpilogStates
<1>2. CASE EMStep(j)
  <2>1. \A k \in Jobs : HomeRuns(k)
    BY <1>2 DEF EMStep, EMSubmit, EMRetry, EMState, EMDone, EMFailed, ManagersTyped
  <2>2. \E b \in Callbacks : UNCHANGED dmq \/ dmq' = Append(dmq, <<b, j>>)
    BY <1>2 DEF EMStep, EMSubmit, EMRetry, EMState, EMDone, EMFailed, Callbacks
  <2>3. UNCHANGED <<job_state, host, hostv>>
    BY <1>2 DEF EMStep, EMSubmit, EMRetry, EMState, EMDone, EMFailed
  <2> QED
    BY <1>1, <2>1, <2>2, <2>3, PostCharge
<1>3. CASE TMStep(j)
  BY <1>1, <1>3, PostCharge DEF TMStep, TMAnswer
<1>4. ASSUME NEW op \in UserOps, Request(op, j)
      PROVE  ChargeInv'
  <2>1. op \in DMActions /\ op \notin SlotBack \union MigrStates \union {"PROLOG"}
    <3>1. op \in ClientOps
      BY DMAssumption
    <3> QED
      BY <3>1 DEF DMActions, ClientOps, SlotBack, MigrStates, EpilogStates
  <2> QED
    BY <1>4, <2>1, PostCharge DEF Request
<1> QED
  BY <1>2, <1>3, <1>4

-----------------------------------------------------------------------------
(* The invariant.                                                          *)

\* At the start nothing is charged.
LEMMA ChargeInit == Init => ChargeInv
<1> SUFFICES ASSUME Init
             PROVE  ChargeInv
  OBVIOUS
<1>1. \A j \in Jobs : ~Queued("KILL", j) /\ (\A a \in MoveActions \union MigrStates : ~Queued(a, j))
                      /\ job_state[j] = "NEW" /\ runs[j] = {}
  BY DEF Init, Queued
<1>2. \A j \in Jobs : ~OnHost(j) /\ ~HoldsSlot(j)
  BY <1>1 DEF OnHost, HoldsSlot, Moves, MoveActions, StateActions, BusyStates, ExecStates,
              CancelStates, EpilogStates
<1>3. UserJobs = {} /\ \A h \in Hosts : SlotJobs(h) = {} /\ HostJobs(h) = {}
  BY <1>2 DEF UserJobs, SlotJobs, HostJobs
<1>4. Counts(0, {})
  BY FS_EmptySet DEF Counts
<1>5. ChargesCounted
  BY <1>3, <1>4 DEF Init, ChargesCounted
<1>6. \A j \in Jobs : FreedAtEnd(j) /\ OnOneHost(j)
  BY <1>1 DEF FreedAtEnd, OnOneHost, MigrStates
<1> QED
  BY <1>5, <1>6 DEF ChargeInv

\* A step that changes nothing of the jobs' states, hosts and messages.
LEMMA QuietCharge ==
  ASSUME Charged, UNCHANGED <<job_state, host, runs, dmq, hostv>>
  PROVE  ChargeInv'
<1>1. \A k \in Jobs : Steady(k)
  BY SameMessages DEF Queued
<1>2. ChargesCounted'
  BY <1>1, ChargeKept DEF Charged, ChargeInv, NoCharge
<1>3. \A k \in Jobs : FreedAtEnd(k)' /\ OnOneHost(k)'
  BY DEF Charged, ChargeInv, FreedAtEnd, OnOneHost, Queued
<1> QED
  BY <1>2, <1>3 DEF ChargeInv

\* Every step charges what it sends to a host, and gives back what leaves it.
LEMMA ChargeStep ==
  ASSUME Charged, [Next]_vars
  PROVE  ChargeInv'
<1>1. CASE UNCHANGED vars \/ Schedule \/ SchedulerReload \/ ScheduleEnd
  BY <1>1, QuietCharge DEF vars, jobv, emv, Schedule, SchedulerReload, ScheduleEnd
<1>2. CASE \E j \in Jobs : \/ Submit(j) \/ EMStep(j) \/ TMStep(j)
                           \/ \E op \in UserOps : Request(op, j)
  BY <1>2, SubmitCharge, ThreadsCharge
<1>3. ASSUME NEW j \in Jobs, DMStep(j)
      PROVE  ChargeInv'
  <2>1. CASE \/ \E a \in DMActions : MissingJob(a, j)
             \/ Hold(j) \/ Release(j) \/ KillHard(j) \/ Stop(j) \/ Resume(j) \/ Reschedule(j)
             \/ Wait(j) \/ MigrCancel(j) \/ Kill(j)
    BY <2>1, RequestsCharge, KillCharge
  <2>2. CASE \/ \E s \in {"PROLOG", "MIGR_PROLOG"} : Prolog(j, s)
             \/ PrologDone(j) \/ PrologFailed(j)
             \/ \E s \in {"PRE_WRAPPER", "WRAPPER"} : Wrapper(j, s)
             \/ WrapperDone(j) \/ WrapperFailed(j)
    BY <2>2, PrologCharge, PrologDoneCharge, PrologFailedCharge, WrapperCharge, WrapperEndCharge
  <2>3. CASE \/ \E s \in EpilogStates : Epilog(j, s)
             \/ EpilogDoneStd(j) \/ EpilogFailedStd(j) \/ EpilogEnded(j)
             \/ EpilogDone(j) \/ EpilogFailed(j)
    BY <2>3, EpilogCharge, EpilogEndCharge
  <2>4. CASE Pending(j) \/ Stopped(j) \/ Failed(j) \/ Zombie(j)
    BY <2>4, LeaveCharge, ZombieCharge
  <2> QED
    BY <1>3, <2>1, <2>2, <2>3, <2>4 DEF DMStep
<1>4. ASSUME NEW j \in Jobs, NEW h \in Hosts \union {NoHost},
             \/ DispatchPending(j, h) \/ DispatchMigration(j, h)
             \/ UncheckJob(j, h) \/ DispatchRefused(j, h) \/ DispatchUnsaved(j, h)
      PROVE  ChargeInv'
  <2>1. CASE DispatchPending(j, h)
    BY <2>1, DispatchCharge DEF DispatchPending
  <2> QED
    BY <1>4, <2>1, AnswersCharge
<1> QED
  BY <1>1, <1>2, <1>3, <1>4 DEF Next, ListenerStep

\* Every behaviour without migrations and hard kills keeps the counts.
LEMMA ChargeInvariance == Spec /\ StaysOnHost /\ IsFiniteSet(Jobs) => []Charged
<1> DEFINE Hyp == StaysOnHost /\ IsFiniteSet(Jobs)
<1> DEFINE Inv == Hyp /\ ChargeInv
<1>1. Init /\ Hyp => Inv
  BY ChargeInit
<1>2. HandsInv /\ Inv /\ [Next]_vars => Inv'
  <2> SUFFICES ASSUME HandsInv, Hyp, ChargeInv, [Next]_vars
               PROVE  Hyp' /\ ChargeInv'
    OBVIOUS
  <2>1. Hyp'
    BY DEF StaysOnHost, OneOffer, Migrating
  <2>2. ChargeInv'
    BY ChargeStep DEF Charged
  <2> QED
    BY <2>1, <2>2
<1>3. HandsInv /\ Inv => Charged
  BY DEF Charged
<1>4. Hyp => OneOffer
  BY DEF StaysOnHost
<1>5. Spec /\ OneOffer => []HandsInv
  BY HandsInvariance
<1> HIDE DEF Hyp
<1>6. Spec /\ Hyp => []Charged
  BY <1>1, <1>2, <1>3, <1>4, <1>5, PTL DEF Spec
<1> QED
  BY <1>6 DEF Hyp

\* A wrapper that runs on a host holds one of its slots, for any number of jobs and
\* hosts: the slot charged when the job was sent there is given back once, after the
\* wrapper has ended.
THEOREM WrappersCharged == Spec /\ StaysOnHost /\ IsFiniteSet(Jobs) => []SlotsCharged
<1>1. Charged => SlotsCharged
  <2> SUFFICES ASSUME Charged, NEW h \in Hosts
               PROVE  used_slots[h] >= Cardinality({j \in Jobs : h \in runs[j]})
    BY DEF SlotsCharged
  <2> DEFINE R == {j \in Jobs : h \in runs[j]}
  <2>1. R \subseteq SlotJobs(h)
    <3> SUFFICES ASSUME NEW j \in Jobs, h \in runs[j]
                 PROVE  HoldsSlot(j) /\ host[j] = h
      BY DEF SlotJobs
    <3>1. host[j] = h
      BY DEF Charged, ChargeInv, OnOneHost
    <3>2. InEM(j) /\ job_state[j] # "FREED" /\ Activity(j)
      BY DEF Charged, HandsInv, ActivityInv, JobActivity, InEM
    <3>3. Moves(j) = {} /\ job_state[j] \in ExecStates
      BY <3>2 DEF Activity, OneHand, StateFits
    <3> QED
      BY <3>1, <3>2, <3>3 DEF HoldsSlot
  <2>2. IsFiniteSet(SlotJobs(h))
    BY FS_Subset DEF Charged, SlotJobs
  <2>3. Cardinality(R) <= Cardinality(SlotJobs(h))
    BY <2>1, <2>2, FS_Subset
  <2>4. IsFiniteSet(R) /\ Cardinality(R) \in Nat /\ Cardinality(SlotJobs(h)) \in Nat
    BY <2>1, <2>2, FS_Subset, FS_CardinalityType
  <2>5. used_slots[h] >= Cardinality(SlotJobs(h)) /\ used_slots[h] \in Int
    BY DEF Charged, ChargeInv, ChargesCounted, Counts, HandsInv, TypeOK, HostsTyped
  <2> HIDE DEF R
  <2>6. used_slots[h] >= Cardinality(R)
    BY <2>3, <2>4, <2>5
  <2> QED
    BY <2>6 DEF R
<1> QED
  BY <1>1, ChargeInvariance, PTL

\* Once no job is on a host and no message on its way, every counter is zero.
LEMMA QuietCounters ==
  ASSUME Charged, "KILL" \notin UserOps, Quiet
  PROVE  user_running = 0 /\ \A h \in Hosts : used_slots[h] = 0 /\ running_jobs[h] = 0
<1>1. \A j \in Jobs : ~OnHost(j)
  BY DEF Quiet, OnHost, Moves, Queued
<1>2. UserJobs = {} /\ \A h \in Hosts : SlotJobs(h) = {} /\ HostJobs(h) = {}
  BY <1>1, SlotOnHost DEF UserJobs, SlotJobs, HostJobs
<1>3. Cardinality({}) = 0
  BY FS_EmptySet
<1> QED
  BY <1>2, <1>3 DEF Charged, ChargeInv, ChargesCounted, Counts

\* When no client kills a job either, hosts get back what they were charged for:
\* once no job is on a host and no message on its way, no slot is used and no job
\* counted, whatever the ends, failures, retries and restarts that led there.
THEOREM ChargesReturned ==
  Spec /\ StaysOnHost /\ IsFiniteSet(Jobs) /\ "KILL" \notin UserOps => []AllReturned
<1> DEFINE Hyp    == StaysOnHost /\ IsFiniteSet(Jobs)
           NoKill == "KILL" \notin UserOps
<1>1. Charged /\ NoKill => AllReturned
  BY QuietCounters DEF AllReturned
<1>2. NoKill /\ [Next]_vars => NoKill'
  OBVIOUS
<1>3. Spec /\ Hyp => []Charged
  BY ChargeInvariance
<1> HIDE DEF Hyp, NoKill
<1>4. Spec /\ Hyp /\ NoKill => []AllReturned
  BY <1>1, <1>2, <1>3, PTL DEF Spec
<1> QED
  BY <1>4 DEF Hyp, NoKill

\* And so does their user, whose running jobs the scheduler limits.
THEOREM UserChargesReturned ==
  Spec /\ StaysOnHost /\ IsFiniteSet(Jobs) /\ "KILL" \notin UserOps => []UserReturned
<1> DEFINE Hyp    == StaysOnHost /\ IsFiniteSet(Jobs)
           NoKill == "KILL" \notin UserOps
<1>1. Charged /\ NoKill => UserReturned
  BY QuietCounters DEF UserReturned
<1>2. NoKill /\ [Next]_vars => NoKill'
  OBVIOUS
<1>3. Spec /\ Hyp => []Charged
  BY ChargeInvariance
<1> HIDE DEF Hyp, NoKill
<1>4. Spec /\ Hyp /\ NoKill => []UserReturned
  BY <1>1, <1>2, <1>3, PTL DEF Spec
<1> QED
  BY <1>4 DEF Hyp, NoKill

=============================================================================
