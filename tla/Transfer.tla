----------------------------- MODULE Transfer -----------------------------
(***************************************************************************)
(* The transfers of a job: the transfer manager of gwd, the DRM4G transfer *)
(* MAD, and the wrapper that runs between a prolog and an epilog in the    *)
(* directory of the job.                                                   *)
(***************************************************************************)
EXTENDS TransferManager

CONSTANTS
  Faults,         \* see TransferMad; "WRAPPER": a wrapper may fail or leave no
                  \* output
  SwallowErrors,  \* see TransferMad
  Timely,         \* see TransferMad, WrapperEnds and Gwd
  MaxCrashes

ASSUME MadAssumption ==
  /\ SwallowErrors \in BOOLEAN /\ Timely \in BOOLEAN
  /\ MaxCrashes \in Nat

VARIABLES tasks, dir, server, fetched, crashes

Inputs   == ToSet(InputFiles)
Restarts == ToSet(RestartFiles)
Products == ToSet(WrapperFiles) \union ToSet(StdFiles) \union ToSet(OutputFiles)

MAD == INSTANCE TransferMad

madv == <<tasks, dir, server, fetched, crashes>>
gwdv == <<job_state, tm_state, hist, run, lists, tmq, dmq>>
vars == <<tmvars, madv>>

Init == TMInit /\ MAD!MadInit

\* A line of the kind a, or its answer, is under way.
UnderWay(a) ==
  \/ \E l \in tasks \union ToSet(to_mad) : l[1] = a
  \/ \E l \in ToSet(from_mad) : l[1] = a

\* What happens only if gwd takes long.  When Timely, the queue of the TM is empty
\* when an answer is read, and that of the DM too when a new MAD is up, whose
\* start takes seconds; a checkpoint is neither due while the last one is ended,
\* nor retried before its START is answered; and it does not end between the end
\* of the wrapper and the next stage.
Late ==
  \/ from_mad' # from_mad /\ tmq # <<>>
  \/ ~mad_up /\ mad_up' /\ (tmq # <<>> \/ dmq # <<>>)
  \/ tm_state' = "CHECKPOINT" /\ tm_state # "CHECKPOINT" /\ UnderWay("END")
  \/ chk_xfrs' # chk_xfrs /\ from_mad' = from_mad /\ UnderWay("START")
  \/ /\ tm_state = "CHECKPOINT" /\ tm_state' = "INIT" /\ mad_up' = mad_up
     /\ run = NoHost

Gwd(A) == A /\ (Timely => ~Late) /\ UNCHANGED madv

Mad(A) == A /\ UNCHANGED gwdv

\* The wrapper writes the restart files in its directory.
WrapperWrites ==
  /\ run # NoHost
  /\ MAD!Here \in dir[run] /\ ~(Restarts \subseteq dir[run])
  /\ dir' = [dir EXCEPT ![run] = @ \union Restarts]
  /\ UNCHANGED <<tmvars, tasks, server, fetched, crashes>>

\* The wrapper ends, with its output, or without it when it was cancelled or
\* failed.  What an earlier wrapper left on the local host is of no use.  When
\* Timely, it does not end between the END of a checkpoint and the answer.
WrapperEnds ==
  /\ \E r \in {"WRAPPER_DONE", "WRAPPER_FAILED"} :
       /\ r = "WRAPPER_FAILED" => "WRAPPER" \in Faults
       /\ EMReport(r)
  /\ \E out \in {{}, Products} :
       /\ out = {} => "WRAPPER" \in Faults \/ job_state # "WRAPPER"
       /\ dir' = IF MAD!Here \in dir[run]
                   THEN [dir EXCEPT ![run] = @ \union out] ELSE dir
  /\ fetched' = {}
  /\ Timely => ~UnderWay("END")
  /\ UNCHANGED <<tasks, server, crashes>>

Next ==
  \/ Gwd(TMNext)
  \/ Mad(MAD!MadNext)
  \/ WrapperWrites \/ WrapperEnds

Spec == Init /\ [][Next]_vars

-----------------------------------------------------------------------------
(* Safety.                                                                 *)

XfrOK(x) ==
  \A i \in DOMAIN x :
    /\ x[i].tries \in 0..number_of_retries
    /\ x[i].counter \in {-1} \union 1..number_of_retries - 1
    /\ x[i].counter # -1 => ~x[i].done
    /\ ~x[i].done => x[i].tries # 0
    /\ x[i].success => x[i].done

\* The types of the variables of gwd; a transfer that waits for a new try is
\* not done, and one that is not done has a try left.
TypeOK ==
  /\ job_state \in JobStates /\ tm_state \in TMStates
  /\ host \in Hosts \union {NoHost} /\ prev \in Hosts \union {NoHost}
  /\ run \in Hosts \union {NoHost}
  /\ restarted \in BOOLEAN /\ records \in 0..MaxDispatches
  /\ mandatory \in 0..Len(xfrs)
  /\ XfrOK(xfrs) /\ XfrOK(chk_xfrs)

\* drmaa.h:139, "MIGRATING (to another host)", and gw_tm_prolog_stage_in: while
\* the wrapper runs, its directory is there with all its input files.  Neither
\* the prolog or the epilog of a migration, nor the recovery of a crashed MAD,
\* takes them away.
InputsThere ==
  run # NoHost => {MAD!Here} \union Inputs \subseteq dir[run]

StageReports == {"PROLOG_DONE", "PROLOG_FAILED", "EPILOG_DONE", "EPILOG_FAILED"}

\* Each stage the DM asks for is reported once, while the job is in it: not
\* again by a late answer, a cancelled checkpoint or a recovered MAD.
OneReport ==
  \A i \in DOMAIN dmq : dmq[i] \in StageReports =>
    /\ \A k \in DOMAIN dmq : dmq[k] \in StageReports => k = i
    /\ job_state \in (IF dmq[i] \in {"PROLOG_DONE", "PROLOG_FAILED"}
                       THEN Prologs ELSE Epilogs)
    /\ tm_state = "INIT"

\* A stage is reported done only when its files are there: the input files in
\* the new directory, the output files on the local host.
DoneIsDone ==
  /\ "PROLOG_DONE" \in ToSet(dmq) => Inputs \subseteq dir[host]
  /\ "EPILOG_DONE" \in ToSet(dmq) /\ job_state = "EPILOG" =>
       ToSet(OutputFiles) \union ToSet(StdFiles) \subseteq fetched

\* The TM and the MAD agree on the protocol: no call-back logs "Unexpected
\* transfer MAD callback", but for what a cancelled checkpoint had asked for.
AnswersExpected ==
  from_mad # <<>> =>
    LET a == Head(from_mad)[1]
    IN  \/ tm_state \in Expected(a)
        \/ a = "END" /\ tm_state = "INIT"
        \/ a \in {"START", "CP"} /\ tm_state = "CHECKPOINT_CANCEL"

\* When a job has ended without failure its directory is gone, whatever was
\* copied of it.
DirRemoved == job_state \in {"ZOMBIE", "STOPPED"} => dir[host] = {}

\* gw_tm_epilog.c:292, "Some output files were not copied, will NOT remove
\* remote directory": until the job is restarted, its output is not removed in
\* EPILOG unless the local host has it.
OutputsKept ==
  [][job_state = "EPILOG" /\ job_state' = "EPILOG" =>
       \A h \in Hosts :
         ToSet(OutputFiles) \intersect (dir[h] \ dir'[h]) \subseteq fetched]_vars

-----------------------------------------------------------------------------
(* Liveness.  The threads of gwd, the MAD and the pool keep running; a MAD *)
(* that died is loaded again.                                              *)

Fairness ==
  /\ WF_vars(Gwd(DMStep)) /\ WF_vars(Gwd(TMStep)) /\ WF_vars(Gwd(TMTimer))
  /\ WF_vars(Gwd(TMListen)) /\ WF_vars(Gwd(TMReload))
  /\ WF_vars(Mad(MAD!MadRead))
  /\ \A op \in {"START", "END", "RMDIR", "MKDIR", "CP"} :
       WF_vars(Mad(\E t \in tasks : t[1] = op /\ MAD!MadTask(t)))

FairSpec == Spec /\ Fairness

\* Each stage comes to an end, although copies fail and are tried again, and
\* the MAD dies and takes lines and tasks with it.  A migration is left out: a
\* prolog on the new host is not recovered when the MAD dies.
StageEnds ==
  \A s \in {"PROLOG"} \union Epilogs : job_state = s ~> job_state # s

=============================================================================
