---------------------------- MODULE ExecutionMad ----------------------------
(***************************************************************************)
(* The execution MAD of DRM4G (core/em_mad.py) and the batch systems that  *)
(* run the wrappers.                                                       *)
(*                                                                         *)
(* The main thread reads the lines of the EM and handles SUBMIT and        *)
(* RECOVER itself; POLL and CANCEL are given to a pool of threads, so      *)
(* their answers overtake each other and those of the main thread.  The    *)
(* callback thread goes round the job list, asks the batch system for the  *)
(* state of each job and reports what changed.                             *)
(*                                                                         *)
(* A job of the list is the number of its remote job: a Job object lives   *)
(* as long as its entry.  The communicator, the resource and the RSL are   *)
(* left out: they make an operation fail, with the faults named in Faults. *)
(***************************************************************************)
EXTENDS Integers, Sequences, FiniteSets

CONSTANTS
  Jobs,
  Faults,        \* operations that may fail: "SUBMIT", "POLL", "CALLBACK",
                 \* "CANCEL", "RECOVER"; "UNKNOWN": a state GridWay has no
                 \* name for; "CRASH": the process may die; "RFAIL": a remote
                 \* job may end in the state FAILED
  Timely,        \* the 0.1 s that do_CALLBACK sleeps once it has deleted a job are
                 \* enough for the pool to print the answers it is about to
  MaxCrashes,    \* bound: crashes of the process
  MaxRuns        \* bound: remote jobs

VARIABLES
  to_mad, from_mad, mad_up,   \* see ExecutionManager
  job_list,  \* _job_list: the remote job of a key, 0 when the key is absent
  status,    \* _status of the Job object of a remote job
  tasks,     \* tasks given to the pool
  answers,   \* lines that a thread of the pool is about to print
  round,     \* what the callback thread still has to check: the items()
  callback,  \* <<>>, or <<job, remote job, old status, step>> it works on
  remote,    \* remote[r]: the job and the state of a remote job
  crashes    \* crashes so far

madvars == <<job_list, status, tasks, answers, round, callback, remote, crashes>>
pipes   == <<to_mad, from_mad, mad_up>>

LiveStates == {"PENDING", "ACTIVE"}
\* Mutant: a job in a state GridWay has no name for leaves the list as well.
EndedUnknown == {"DONE", "FAILED", "UNKNOWN"}
Ended      == {"DONE", "FAILED"}
Runs       == DOMAIN remote
Live(j)    == {r \in Runs : remote[r].job = j /\ remote[r].state \in LiveStates}

MadInit ==
  /\ job_list = [j \in Jobs |-> 0]
  /\ status = <<>> /\ remote = <<>>
  /\ tasks = {} /\ answers = {}
  /\ round = {} /\ callback = <<>>
  /\ crashes = 0

Say(line) == from_mad' = Append(from_mad, line)

-----------------------------------------------------------------------------
(* The main thread.                                                        *)

\* do_SUBMIT: a key that is in the list already gets the new job.
MadSubmit(j) ==
  \/ /\ Len(remote) < MaxRuns
     /\ LET r == Len(remote) + 1
        IN  /\ remote' = Append(remote, [job |-> j, state |-> "PENDING"])
            /\ status' = Append(status, "None")
            /\ job_list' = [job_list EXCEPT ![j] = r]
            /\ Say(<<"SUBMIT", j, TRUE, r>>)
  \/ /\ "SUBMIT" \in Faults
     /\ Say(<<"SUBMIT", j, FALSE, "-">>)
     /\ UNCHANGED <<remote, status, job_list>>

\* The states jobStatus may return for a remote job.
Seen(r) == {remote[r].state} \union
             (IF "UNKNOWN" \in Faults THEN {"UNKNOWN"} ELSE {})

\* do_RECOVER.
MadRecover(j, r) ==
  \/ \E s \in Seen(r) :
       /\ status' = [status EXCEPT ![r] = s]
       /\ job_list' = [job_list EXCEPT ![j] = r]
       /\ Say(<<"RECOVER", j, TRUE, s>>)
  \/ /\ "RECOVER" \in Faults
     /\ Say(<<"RECOVER", j, FALSE, "-">>)
     /\ UNCHANGED <<status, job_list>>

\* processLine.
MadRead ==
  /\ mad_up /\ to_mad # <<>>
  /\ to_mad' = Tail(to_mad)
  /\ LET op == Head(to_mad)[1]
         j == Head(to_mad)[2]
     IN  \/ op = "SUBMIT" /\ MadSubmit(j) /\ UNCHANGED tasks
         \/ /\ op = "RECOVER" /\ MadRecover(j, Head(to_mad)[3])
            /\ UNCHANGED <<tasks, remote>>
         \/ /\ op \in {"POLL", "CANCEL"}
            /\ tasks' = tasks \union {<<op, j>>}
            /\ UNCHANGED <<from_mad, remote, status, job_list>>
  /\ UNCHANGED <<mad_up, answers, round, callback, crashes>>

-----------------------------------------------------------------------------
(* The pool of threads.                                                    *)

\* do_POLL, up to the print: the state is the one of the last refresh.
PoolPoll(j) ==
  /\ <<"POLL", j>> \in tasks
  /\ tasks' = tasks \ {<<"POLL", j>>}
  /\ \/ /\ job_list[j] # 0
        /\ answers' = answers \union {<<"POLL", j, TRUE, status[job_list[j]]>>}
     \/ /\ job_list[j] = 0 \/ "POLL" \in Faults
        /\ answers' = answers \union {<<"POLL", j, FALSE, "-">>}
  /\ UNCHANGED <<pipes, job_list, status, round, callback, remote, crashes>>

PoolPrint(a) ==
  /\ a \in answers
  /\ answers' = answers \ {a}
  /\ Say(a)
  /\ UNCHANGED <<to_mad, mad_up, job_list, status, tasks, round, callback,
                 remote, crashes>>

\* do_CANCEL: a cancelled remote job is DONE for its batch system.
PoolCancel(j) ==
  /\ <<"CANCEL", j>> \in tasks
  /\ tasks' = tasks \ {<<"CANCEL", j>>}
  /\ \/ /\ job_list[j] # 0 /\ remote[job_list[j]].state \in LiveStates
        /\ remote' = [remote EXCEPT ![job_list[j]].state = "DONE"]
     \/ /\ \/ "CANCEL" \in Faults
           \/ job_list[j] = 0
           \/ job_list[j] # 0 /\ remote[job_list[j]].state \notin LiveStates
        /\ UNCHANGED remote
  /\ UNCHANGED <<pipes, job_list, status, answers, round, callback, crashes>>

-----------------------------------------------------------------------------
(* The callback thread, do_CALLBACK.                                       *)

Keys == {j \in Jobs : job_list[j] # 0}

\* The rounds are 30 seconds apart: the lines of the last one have been read.
CallbackRound ==
  /\ \A i \in DOMAIN from_mad : from_mad[i][1] # "CALLBACK"
  /\ round = {} /\ callback = <<>> /\ Keys # {}
  /\ round' = {<<j, job_list[j]>> : j \in Keys}
  /\ UNCHANGED <<pipes, job_list, status, tasks, answers, callback, remote,
                 crashes>>

\* refreshJobStatus of the next job of the round, or its exception.
CallbackRefresh(j, r) ==
  /\ callback = <<>> /\ <<j, r>> \in round
  /\ round' = round \ {<<j, r>>}
  /\ \/ \E s \in Seen(r) :
          /\ status' = [status EXCEPT ![r] = s]
          /\ callback' = IF s \in Ended \/ s # status[r]
                           THEN <<j, r, "refreshed">> ELSE <<>>
          /\ UNCHANGED from_mad
     \/ /\ "CALLBACK" \in Faults
        /\ Say(<<"CALLBACK", j, FALSE, "-">>)
        /\ UNCHANGED <<status, callback>>
  /\ UNCHANGED <<to_mad, mad_up, job_list, tasks, answers, remote, crashes>>

\* A job that ended leaves the list before it is reported.
CallbackDelete ==
  /\ callback # <<>> /\ callback[3] = "refreshed"
  /\ status[callback[2]] \in Ended
  /\ job_list' = [job_list EXCEPT ![callback[1]] = 0]
  /\ callback' = [callback EXCEPT ![3] = "deleted"]
  /\ UNCHANGED <<pipes, status, tasks, answers, round, remote, crashes>>

CallbackReport ==
  /\ callback # <<>>
  /\ \/ callback[3] = "deleted" /\ (Timely => answers = {})
     \/ status[callback[2]] \notin Ended
  /\ Say(<<"CALLBACK", callback[1], TRUE, status[callback[2]]>>)
  /\ callback' = <<>>
  /\ UNCHANGED <<to_mad, mad_up, job_list, status, tasks, answers, round,
                 remote, crashes>>

-----------------------------------------------------------------------------
(* The batch systems, and the end of the process.                          *)

RemoteStep(r) ==
  /\ \/ /\ remote[r].state = "PENDING"
        /\ remote' = [remote EXCEPT ![r].state = "ACTIVE"]
     \/ /\ remote[r].state = "ACTIVE"
        /\ remote' = [remote EXCEPT ![r].state = "DONE"]
     \/ /\ remote[r].state \in LiveStates /\ "RFAIL" \in Faults
        /\ remote' = [remote EXCEPT ![r].state = "FAILED"]
  /\ UNCHANGED <<pipes, job_list, status, tasks, answers, round, callback,
                 crashes>>

\* The process dies.  What it has not read and not printed is lost; a wrapper
\* it was just submitting may run all the same.
MadCrash ==
  /\ "CRASH" \in Faults /\ crashes < MaxCrashes
  /\ mad_up
  /\ mad_up' = FALSE /\ to_mad' = <<>>
  /\ crashes' = crashes + 1
  /\ job_list' = [j \in Jobs |-> 0]
  /\ tasks' = {} /\ answers' = {} /\ round' = {} /\ callback' = <<>>
  /\ \/ UNCHANGED <<remote, status>>
     \/ /\ to_mad # <<>> /\ Head(to_mad)[1] = "SUBMIT" /\ Len(remote) < MaxRuns
        /\ remote' = Append(remote, [job |-> Head(to_mad)[2], state |-> "PENDING"])
        /\ status' = Append(status, "None")
  /\ UNCHANGED from_mad

CallbackThread ==
  \/ CallbackRound \/ CallbackDelete \/ CallbackReport
  \/ \E j \in Jobs, r \in Runs : CallbackRefresh(j, r)

MadNext ==
  \/ MadRead \/ CallbackThread \/ MadCrash
  \/ \E j \in Jobs : PoolPoll(j) \/ PoolCancel(j)
  \/ \E a \in answers : PoolPrint(a)
  \/ \E r \in Runs : RemoteStep(r)

=============================================================================
