------------------------------ MODULE Requests ------------------------------
(***************************************************************************)
(* The clients and gwd's request manager together, and what a client may   *)
(* rely on.                                                                *)
(***************************************************************************)
EXTENDS ClientCalls

ASSUME ClientAssumption == MaxCalls \in [Clients -> Nat] /\ SESSION_JOBS \in Nat

vars == <<rmvars, clientv>>

Init == RMInit /\ ClientInit

Gwd(A) == A /\ UNCHANGED clientv

\* When Prompt, the listener has accepted and read what it can before the
\* others go on.
Listened == Prompt => ~Readable

Next ==
  \/ Gwd(Listen)
  \/ Listened /\ Gwd(Server)
  \/ Listened /\ Gwd(\E j \in Jobs : JobStep(j))
  \/ Listened /\ \E c \in Clients : Client(c)

Spec == Init /\ [][Next]_vars

-----------------------------------------------------------------------------
(* Safety.                                                                 *)

Codes == {"SUCCESS", "PERM", "NO_MEMORY", "JOB_FAIL", "JOB_KILLED", "CONNECTION",
          "BAD_JOB_ID", "BAD_JOB_STATE"}
States == {"NONE", "RUN", "KILL_CANCEL", "STOP_CANCEL", "STOPPED", "FREED"} \cup Final

\* The types of the variables; a slot's number is what its client connects by.
TypeOK ==
  /\ up \in BOOLEAN
  /\ job_state \in [Jobs -> States]
  /\ client_waiting \in [Jobs -> Int]
  /\ restarted \subseteq Jobs
  /\ active \in [Fds -> Clients \cup {NoClient}]
  /\ \A c \in Clients : conn[c] # 0 => active[conn[c]] = c
  /\ \A t \in threads : t.fd \in Fds
  /\ \A c \in Clients : \A r \in ToSet(replies[c]) : r.rc \in Codes \cup States
  /\ ToSet(session) \subseteq Jobs
  /\ lock # NoClient => call[lock].api = "KILL_ALL"

AnswersOf(c) == ToSet(replies[c]) \ {EOF}

\* gw_client_wait_set reads one answer for a wait for any of a set and as many
\* as there are jobs for the others: gwd sends no more than that, whichever
\* jobs end, fail or are killed while the requests are registered one by one.
\* Refusals are not counted: each request gets its own, and the first is read.
OneAnswer ==
  \A c \in Clients :
    Cardinality({i \in DOMAIN replies[c] : replies[c][i].rc \notin {"PERM", EOF.rc}}) <=
                         CASE call[c].api = "IDLE" -> 0
                           [] call[c].api \in {"SYNC", "DISPOSE"} -> Len(call[c].todo)
                           [] OTHER -> 1

Waits == {"WAIT", "WAIT_ANY", "SYNC", "DISPOSE"}
Kills == {"REAP", "KILL", "KILL_ALL"}

\* What the connection of a client asks about.
Asked(c) ==
  CASE call[c].api = "RUN" -> Jobs \cup {NoJob}
    [] call[c].api \in {"REAP", "KILL_ALL"} -> {Head(call[c].todo)}
    [] OTHER -> ToSet(call[c].jobs)

\* What the requests of a client are on its connection.
AskedAs(c) ==
  CASE call[c].api = "RUN" -> "SUBMIT"
    [] call[c].api = "JOB_PS" -> "JOB_STATUS"
    [] call[c].api \in Waits -> "WAIT"
    [] call[c].api \in Kills -> "KILL"
    [] OTHER -> call[c].api

\* The answers a client reads are about what it asked on that connection, never
\* what the previous owner of the slot had asked; a wait is answered by the kill
\* of its job, too.
AnswerMine ==
  \A c \in Clients :
    \A r \in AnswersOf(c) :
      /\ call[c] # Idle /\ r.job \in Asked(c)
      /\ r.type = AskedAs(c) \/ (call[c].api \in Waits /\ r.rc = "JOB_KILLED")

\* What an answer says has happened to its job, when it is sent and as long as it
\* may be read, unless a user has the job begin again: the job of a wait did end as
\* the answer says, that of a kill is gone, that of a stop is stopped.
AnswerTrue ==
  \A c \in Clients : \A r \in AnswersOf(c) : r.job \notin restarted =>
    CASE r.rc = "JOB_FAIL" -> job_state[r.job] \in {"FAILED", "FREED"}
      [] r.rc = "JOB_KILLED" -> job_state[r.job] = "FREED"
      [] r.rc = "SUCCESS" /\ r.type = "WAIT" -> job_state[r.job] \in {"ZOMBIE", "FREED"}
      [] r.rc = "SUCCESS" /\ r.type = "KILL" -> job_state[r.job] = "FREED"
      [] r.rc = "SUCCESS" /\ r.type = "STOP" -> job_state[r.job] \in {"STOPPED", "FREED"}
      [] OTHER -> TRUE

\* gwd has nothing to do, or is gone.
AtRest == dmq = <<>> /\ rmq = <<>> /\ threads = {} /\ ~Readable

\* What a client is registered for may yet be answered: a wait when its job ends,
\* a kill or a stop, which a wrapper that failed meanwhile has had forgotten, by the
\* next one of a job in the pool.  A stop is not answered when its job is killed.
MayBeAnswered(e) ==
  /\ up
  /\ CASE e.op = "WAIT" -> InPool(e.job) /\ job_state[e.job] \notin Final
       [] e.op = "KILL" -> InPool(e.job)
       [] OTHER -> e.op = "STOP"

\* Nobody waits in vain: when gwd has nothing left to do, a client in a call can
\* read an answer or is registered for one that may come.  Whatever the order in
\* which the job ended, its waits were registered, it was stopped, failed while it
\* was cancelled and was killed, gw_rm_wait_success, _failed or gw_rm_kill_success
\* have told those who wait, and no signal but a stop is left behind.
Told ==
  (up => AtRest) =>
    \A c \in Clients :
      \/ call[c] = Idle
      \/ replies[c] # <<>>
      \/ \E e \in ToSet(connection_list) : e.fd = conn[c] /\ MayBeAnswered(e)

\* A job on which clients wait counts them, or its end would tell nobody and,
\* with DISPOSE, free it before they have its exit code.
WaitingCounted ==
  AtRest => \A j \in Jobs : InPool(j) => client_waiting[j] >= Cardinality(Waiting("WAIT", j))

\* drmaa.h, drmaa_wait: "the job id of the job that ended".  A program that
\* waits kills only jobs that are over.
Innocent ==
  \A c \in Clients : call[c].api = "REAP" => job_state[Head(call[c].todo)] # "RUN"

=============================================================================
