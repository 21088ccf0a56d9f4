------------------------- MODULE DispatchInvariants -------------------------
(***************************************************************************)
(* The inductive invariants of the dispatch manager: a job is in the hands *)
(* of one thing at a time, a DM message, the EM or the TM.                 *)
(***************************************************************************)
EXTENDS DispatchProperties

\* Jobs that the daemon asks the scheduler to migrate on its own.
Migrating == SuspensionTimeout \union ReschedulingInterval

\* When a PENDING job is offered to the scheduler once only.  The scheduler does
\* not look for an entry that it already has, and a job stays PENDING until its
\* GW_DM_STATE_PROLOG is handled, so that a job with a second entry (the DM
\* recovers its entries, a client holds and releases it, or it comes back to
\* PENDING with the entry of an unfinished rescheduling) may be sent to two hosts.
OneOffer ==
  /\ ~SchedulerCrash
  /\ UserOps \intersect {"HOLD", "RESCHEDULE"} = {}
  /\ Migrating \intersect (ReschedOnFailure \union WrapperBased) = {}
  /\ "RESUME" \in UserOps => Migrating = {}

-----------------------------------------------------------------------------
\* The messages that take a job further.  GW_DM_STATE_MIGR_CANCEL does not: it
\* finds the job in the hands of the EM and leaves it there.
MoveActions == (StateActions \ {"MIGR_CANCEL"}) \union Callbacks

\* The messages of job j in the queue that take it further.
Moves(j) == {a \in MoveActions : Queued(a, j)}

\* There is one such message at most.
OneMove(j) ==
  \A p, q \in 1..Len(dmq) :
    dmq[p][2] = j /\ dmq[q][2] = j /\ dmq[p][1] \in MoveActions /\ dmq[q][1] \in MoveActions
      => p = q

\* The EM has the job: it will submit the wrapper, try again, or the wrapper runs.
InEM(j) == em_sub[j] \/ em_retry[j] \/ runs[j] # {}

InTM(j) == tm_req[j] # "NONE"

\* The EM holds one promise for the job.
OneInEM(j) ==
  /\ ~(em_sub[j] /\ em_retry[j])
  /\ em_sub[j] \/ em_retry[j] => runs[j] = {}
  /\ \A g, h \in runs[j] : g = h

\* The job is in the hands of one message, of the EM, or of the TM.
OneHand(j) ==
  /\ OneMove(j)
  /\ OneInEM(j)
  /\ InEM(j) => Moves(j) = {} /\ ~InTM(j)
  /\ InTM(j) => Moves(j) = {}

\* Message a takes a job further in state s.
Fits(a, s) ==
  \/ a = "PROLOG" /\ s = "PENDING"
  \/ a \in {"PROLOG_DONE", "PROLOG_FAILED"} /\ s \in {"PROLOG", "MIGR_PROLOG"}
  \/ a = "PRE_WRAPPER" /\ s = "PROLOG"
  \/ a = "WRAPPER" /\ s \in {"PROLOG", "PRE_WRAPPER", "MIGR_EPILOG"}
  \/ a \in {"WRAPPER_DONE", "WRAPPER_FAILED"} /\ s \in ExecStates
  \/ a = "MIGR_PROLOG" /\ s = "MIGR_CANCEL"
  \/ a = "MIGR_EPILOG" /\ s = "MIGR_PROLOG"
  \/ a \in {"EPILOG", "EPILOG_STD", "EPILOG_FAIL", "STOP_EPILOG", "KILL_EPILOG"} /\ s \in ExecStates
  \/ a \in {"EPILOG", "EPILOG_RESTART"} /\ s = "EPILOG_STD"
  \/ a \in {"EPILOG_DONE", "EPILOG_FAILED"} /\ s \in EpilogStates
  \/ a \in {"PENDING", "FAILED"}
       /\ s \in {"PROLOG", "MIGR_PROLOG", "EPILOG", "EPILOG_FAIL", "EPILOG_RESTART"}
  \/ a = "ZOMBIE" /\ s \in {"EPILOG", "KILL_EPILOG"}
  \/ a = "STOPPED" /\ s = "STOP_EPILOG"

\* The job is in a state in which what holds it takes it further.
StateFits(j) ==
  /\ \A a \in Moves(j) : Fits(a, job_state[j])
  /\ InEM(j) => job_state[j] \in ExecStates
  /\ tm_req[j] = "PROLOG" => job_state[j] \in {"PROLOG", "MIGR_PROLOG"}
  /\ tm_req[j] = "EPILOG" => job_state[j] \in EpilogStates

\* The answer i of the round sends job j to a host.
Offered(i, j) == inflight[i][1] = j /\ inflight[i][2] # NoHost

NoAnswer(j) == \A i \in 1..Len(inflight) : ~Offered(i, j)

OneAnswer(j) == \A p, q \in 1..Len(inflight) : Offered(p, j) /\ Offered(q, j) => p = q

\* The scheduler has no entry of the job and no answer for it.
NotOffered(j) == entries[j] = 0 /\ NoAnswer(j)

\* A PENDING job is offered once: one entry, one answer or one GW_DM_STATE_PROLOG.
OfferedOnce(j) ==
  /\ entries[j] <= 1
  /\ OneAnswer(j)
  /\ entries[j] = 1 => NoAnswer(j)
  /\ "PROLOG" \in Moves(j) => NotOffered(j)

\* A job that is not PENDING is not offered, unless it may migrate.
Offers(j) ==
  IF job_state[j] = "PENDING"
    THEN OfferedOnce(j)
    ELSE j \notin Migrating \/ job_state[j] \in {"NEW", "HOLD"} => NotOffered(j)

\* A migrating job does not come back to PENDING; no client asks for what it may not.
NoReturn(j) ==
  /\ job_state[j] \in {"EPILOG_STD", "EPILOG_RESTART"} => j \in WrapperBased
  /\ Moves(j) \intersect {"EPILOG_STD", "EPILOG_RESTART"} # {} => j \in WrapperBased
  /\ "PENDING" \in Moves(j) => j \in ReschedOnFailure \union WrapperBased
  /\ \A op \in ClientOps \ {"KILL"} : Queued(op, j) => op \in UserOps

\* At most one thing at a time takes a job further, and it finds it as it left it.
Activity(j) ==
  /\ OneHand(j)
  /\ StateFits(j)
  /\ Offers(j)
  /\ NoReturn(j)

JobActivity(j) == IF job_state[j] = "FREED" THEN ~InEM(j) ELSE Activity(j)

ActivityInv == \A j \in Jobs : JobActivity(j)

-----------------------------------------------------------------------------
(* Dependencies.                                                           *)

\* No client releases a job, and a job with dependencies is submitted on hold.
HeldByDeps ==
  /\ "RELEASE" \notin UserOps
  /\ \A j \in Jobs : Deps[j] # {} => j \in InitHold

\* Job k has ended, with the exit code that job j asks for.
Met(j, k) ==
  /\ job_state[k] \in {"ZOMBIE", "FREED"}
  /\ TypeDep[j] = "OK" => exit_ok[k]
  /\ TypeDep[j] = "KO" => ~exit_ok[k]

\* A held job still waits for each dependency that is not met; another job has
\* none left.
DepsInv ==
  \A j \in Jobs :
    /\ job_state[j] = "HOLD" => \A k \in Deps[j] \ deps[j] : Met(j, k)
    /\ job_state[j] \notin {"NEW", "HOLD", "FREED"} => \A k \in Deps[j] : Met(j, k)

-----------------------------------------------------------------------------
(* What hosts and user are charged.                                        *)

\* No job migrates, and no client frees a job that is on a host.
StaysOnHost == OneOffer /\ Migrating = {} /\ "KILL_HARD" \notin UserOps

\* The messages sent after the slot was given back.
SlotBack == {"PENDING", "FAILED"} \union EpilogStates

\* A slot of its host is charged for job j from its dispatch to the end of its
\* prolog, if that fails, or of its wrapper.
HoldsSlot(j) ==
  /\ job_state[j] # "FREED"
  /\ \/ "PROLOG" \in Moves(j)
     \/ /\ job_state[j] \in {"PROLOG"} \union ExecStates
        /\ Moves(j) \intersect SlotBack = {}

\* Job j was sent to a host and has not left it.
OnHost(j) ==
  /\ job_state[j] # "FREED"
  /\ "PROLOG" \in Moves(j) \/ job_state[j] \in BusyStates

\* The counter n counts the jobs of S.  A kill between the dispatch of a job and
\* its GW_DM_STATE_PROLOG frees the job and leaves the counters as they are.
Counts(n, S) ==
  /\ n >= Cardinality(S)
  /\ "KILL" \notin UserOps => n = Cardinality(S)

SlotJobs(h) == {j \in Jobs : HoldsSlot(j) /\ host[j] = h}

HostJobs(h) == {j \in Jobs : OnHost(j) /\ host[j] = h}

UserJobs == {j \in Jobs : OnHost(j)}

ChargesCounted ==
  /\ \A h \in Hosts : Counts(used_slots[h], SlotJobs(h)) /\ Counts(running_jobs[h], HostJobs(h))
  /\ Counts(user_running, UserJobs)

\* A job that no client kills is only freed as a ZOMBIE (gw_conf.dispose).
FreedAtEnd(j) ==
  "KILL" \notin UserOps /\ Queued("KILL", j) => job_state[j] \in {"ZOMBIE", "FREED"}

\* Job j is not migrated, and its wrapper runs on its host.
OnOneHost(j) ==
  /\ job_state[j] \notin MigrStates
  /\ \A a \in MigrStates : job_state[j] # "FREED" => ~Queued(a, j)
  /\ runs[j] \subseteq {host[j]}

ChargeInv ==
  /\ ChargesCounted
  /\ \A j \in Jobs : FreedAtEnd(j) /\ OnOneHost(j)
=============================================================================
