-------------------------- MODULE TransferManager --------------------------
(***************************************************************************)
(* The transfer manager (TM) of gwd: it stages in the input files of a job *)
(* (prolog), stages out its output files (epilog) and copies its restart   *)
(* files while it runs (checkpoint), by means of the transfer MAD.         *)
(*                                                                         *)
(* Transfers of different jobs are independent, but for the death of the   *)
(* MAD, which recovers each job alone: this is the TM as one job sees it.  *)
(* The dispatch manager (DM) is reduced to the handlers that ask the TM    *)
(* for something or take its reports, with the files that they list; the   *)
(* execution of the wrapper is a step that starts it and one that ends it. *)
(*                                                                         *)
(* A file is <<kind, number>>.  URLs are the place they name: a host (the  *)
(* job's directory there), "local" (the job's home) or "server" (the       *)
(* directory of CHECKPOINT_URL, on the local host too).  An absolute path  *)
(* among the input files, which is skipped, and a URL that cannot be       *)
(* parsed are left out; so is a template with NUMBER_OF_RETRIES = 0, for   *)
(* which a failed copy leaves the prolog waiting for ever.                 *)
(***************************************************************************)
EXTENDS Integers, Sequences, FiniteSets, SequencesExt

CONSTANTS
  Hosts,
  NoHost,
  num_input_files,    \* with job.env, the executable, the wrapper ...
  num_output_files,
  num_std_files,      \* output and error of the execution
  num_restart_files,
  number_of_retries,
  reschedule_on_failure,
  Requests,           \* "STOP", "KILL", "MIGRATE", "CHECKPOINT": what may happen
                      \* to a job in WRAPPER
  MigrateTo,          \* MigrateTo[h]: hosts to which a job on h may migrate
  MaxDispatches       \* bound: history records of the job

ASSUME TMAssumption ==
  /\ NoHost \notin Hosts
  /\ Hosts \intersect {"local", "server", "job"} = {}
  /\ num_input_files \in Nat /\ num_output_files \in Nat
  /\ num_std_files \in Nat /\ num_restart_files \in Nat
  /\ number_of_retries \in Nat \ {0}
  /\ reschedule_on_failure \in BOOLEAN
  /\ MigrateTo \in [Hosts -> SUBSET Hosts]
  /\ MaxDispatches \in Nat

VARIABLES
  job_state, tm_state,  \* of the job
  host, prev,           \* history->host, history->next->host
  restarted,            \* restarted # 0
  records,              \* number of history records
  run,                  \* the host where the wrapper runs
  xfrs, chk_xfrs,       \* transfers: see Xfr
  mandatory,            \* the first entries of xfrs, that must be copied:
                        \* failure_limit, and 1 more in the epilogs
  tmq, dmq,             \* queues of the TM and of the DM: sequences of actions
  to_mad, from_mad,     \* lines to the MAD, and of the MAD: <<action, id, ok>>
  mad_up                \* the MAD process runs

hist   == <<host, prev, restarted, records>>
lists  == <<xfrs, chk_xfrs, mandatory>>
tmvars == <<job_state, tm_state, hist, run, lists, tmq, dmq, to_mad, from_mad,
            mad_up>>

Prologs     == {"PROLOG", "MIGR_PROLOG"}
Epilogs     == {"EPILOG_STD", "EPILOG", "EPILOG_RESTART", "EPILOG_FAIL",
                "STOP_EPILOG", "KILL_EPILOG", "MIGR_EPILOG"}
Cancels     == {"STOP_CANCEL", "KILL_CANCEL", "MIGR_CANCEL"}
JobStates   == {"PENDING", "WRAPPER", "STOPPED", "FAILED", "ZOMBIE"}
                 \union Prologs \union Epilogs \union Cancels
TMStates    == {"INIT", "PROLOG", "PROLOG_FAILED", "EPILOG", "EPILOG_FAILED",
                "CHECKPOINT", "CHECKPOINT_CANCEL"}

Files(kind, n) == [i \in 1..n |-> <<kind, i>>]
InputFiles   == Files("in", num_input_files)
OutputFiles  == Files("out", num_output_files)
StdFiles     == Files("std", num_std_files)
RestartFiles == Files("restart", num_restart_files)
WrapperFiles == Files("wrapper", 2)    \* stdout.wrapper, stderr.wrapper

\* gw_xfr_init: a transfer of file; "job" is the directory of the job.
Xfr(file, from, alt, to) ==
  [file |-> file, from |-> from, alt |-> alt, to |-> to, tries |->
   number_of_retries, done |-> FALSE, success |-> FALSE, counter |-> -1]

Xfrs(files, from, alt, to) ==
  [i \in DOMAIN files |-> Xfr(files[i], from, alt, to)]

\* gw_xfr_pending.
Pending(x) == \E i \in DOMAIN x : ~x[i].done

TMInit ==
  /\ job_state = "PENDING" /\ tm_state = "INIT"
  /\ host = NoHost /\ prev = NoHost /\ restarted = FALSE /\ records = 0
  /\ run = NoHost
  /\ xfrs = <<>> /\ chk_xfrs = <<>> /\ mandatory = 0
  /\ tmq = <<>> /\ dmq = <<>>
  /\ to_mad = <<>> /\ from_mad = <<>> /\ mad_up = TRUE

-----------------------------------------------------------------------------
(* Lines to the MAD.  What is written to a dead MAD is lost.               *)

Write(lines) == to_mad' = IF mad_up THEN to_mad \o lines ELSE to_mad

START    == <<"START">>
END      == <<"END">>
MKDIR(h) == <<"MKDIR", h>>
RMDIR(h) == <<"RMDIR", h>>

\* gw_tm_prolog_build_urls, gw_tm_epilog_build_urls: the directory of the job
\* is the one of the new record, but for the epilog of a migration.
JobDir == IF job_state = "MIGR_EPILOG" THEN prev ELSE host

Where(place) == IF place = "job" THEN JobDir ELSE place

CP(x, i) == <<"CP", i, x[i].file, Where(x[i].from), Where(x[i].to)>>

Copies(x) == [i \in DOMAIN x |-> CP(x, i)]

-----------------------------------------------------------------------------
(* The dispatch manager.                                                   *)

\* gw_dm_dispatch of a pending job.
Dispatch(h) ==
  /\ job_state = "PENDING" /\ dmq = <<>> /\ records < MaxDispatches
  /\ host' = h /\ prev' = host /\ records' = records + 1
  /\ dmq' = <<"PROLOG">>
  /\ UNCHANGED <<job_state, tm_state, restarted, run, lists, tmq, to_mad,
                 from_mad, mad_up>>

\* gw_dm_dispatch of a job in WRAPPER, with gw_dm_migr_cancel: the record of the
\* new host is there while the wrapper on the old one is cancelled.
Migrate(h) ==
  /\ "MIGRATE" \in Requests
  /\ job_state = "WRAPPER" /\ run = host /\ records < MaxDispatches
  /\ host' = h /\ prev' = host /\ records' = records + 1 /\ restarted' = TRUE
  /\ job_state' = "MIGR_CANCEL"
  /\ UNCHANGED <<tm_state, run, lists, tmq, dmq, to_mad, from_mad, mad_up>>

\* gw_dm_stop, gw_dm_kill.
Cancel(op) ==
  /\ op \in Requests \intersect {"STOP", "KILL"}
  /\ job_state = "WRAPPER" /\ run = host
  /\ job_state' = IF op = "STOP" THEN "STOP_CANCEL" ELSE "KILL_CANCEL"
  /\ UNCHANGED <<tm_state, hist, run, lists, tmq, dmq, to_mad, from_mad, mad_up>>

\* gw_dm_resume.
Resume ==
  /\ job_state = "STOPPED"
  /\ job_state' = "PENDING" /\ restarted' = TRUE
  /\ UNCHANGED <<tm_state, host, prev, records, run, lists, tmq, dmq, to_mad,
                 from_mad, mad_up>>

\* gw_dm_prolog_set_files: the restart files come from the last host, or from
\* the checkpoint server.
PrologFiles(s) ==
  /\ mandatory' = num_input_files
  /\ xfrs' = Xfrs(InputFiles, "local", FALSE, "job") \o
       (IF ~restarted THEN <<>>
        ELSE IF s = "MIGR_PROLOG" THEN Xfrs(RestartFiles, prev, TRUE, "job")
        ELSE Xfrs(RestartFiles, "server", FALSE, "job"))

\* The files of each epilog; a copy of the restart files that is in progress
\* spares another one.
EpilogList(s) ==
  LET std     == Xfrs(StdFiles, "job", FALSE, "local")
      out     == Xfrs(OutputFiles, "job", FALSE, "local")
      restart == IF tm_state = "CHECKPOINT" THEN <<>>
                 ELSE Xfrs(RestartFiles, "job", FALSE, "server")
  IN  CASE s \in {"EPILOG_STD", "KILL_EPILOG", "EPILOG_FAIL"} ->
             Xfrs(WrapperFiles, "job", FALSE, "local")
        [] s = "MIGR_EPILOG"    -> std
        [] s = "STOP_EPILOG"    -> std \o restart
        [] s = "EPILOG"         -> out \o std
        [] s = "EPILOG_RESTART" -> out \o std \o restart

\* failure_limit: the standard error of the wrapper and the restart files may
\* be missing.
EpilogMandatory(s) ==
  CASE s \in {"EPILOG_STD", "KILL_EPILOG", "EPILOG_FAIL"} -> 1
    [] s \in {"MIGR_EPILOG", "STOP_EPILOG"} -> num_std_files
    [] s \in {"EPILOG", "EPILOG_RESTART"}   -> num_output_files + num_std_files

\* gw_dm_prolog, gw_dm_migr_prolog, and the handlers of the epilogs.
DMStage(s) ==
  /\ job_state' = s
  /\ IF s \in Prologs
       THEN PrologFiles(s) /\ tmq' = Append(tmq, "PROLOG")
       ELSE /\ xfrs' = EpilogList(s) /\ mandatory' = EpilogMandatory(s)
            /\ tmq' = Append(tmq, "EPILOG")
  /\ dmq' = Tail(dmq)
  /\ UNCHANGED <<hist, run>>

\* gw_dm_wrapper, and the submission by the EM.
DMWrapper ==
  /\ job_state' = "WRAPPER"
  /\ run' = host
  /\ dmq' = Tail(dmq)
  /\ UNCHANGED <<hist, xfrs, mandatory, tmq>>

\* gw_dm_pending, gw_dm_failed, gw_dm_stopped, gw_dm_zombie.
DMRest(s) ==
  /\ job_state' = s
  /\ restarted' = (restarted \/ s = "PENDING")
  /\ dmq' = Tail(dmq)
  /\ UNCHANGED <<host, prev, records, run, xfrs, mandatory, tmq>>

AfterFailure == IF reschedule_on_failure THEN "PENDING" ELSE "FAILED"

\* The states that may follow a report to the DM; {}: the report is ignored.
After(report) ==
  CASE report = "PROLOG_DONE" ->
         (CASE job_state = "PROLOG" -> {"WRAPPER"}
            [] job_state = "MIGR_PROLOG" -> {"MIGR_EPILOG"}
            [] OTHER -> {})
    [] report = "PROLOG_FAILED" -> {AfterFailure}
    [] report = "EPILOG_DONE" ->
         (CASE job_state \in {"EPILOG", "KILL_EPILOG"} -> {"ZOMBIE"}
            [] job_state = "MIGR_EPILOG" -> {"WRAPPER"}
            [] job_state = "STOP_EPILOG" -> {"STOPPED"}
            [] job_state \in {"EPILOG_FAIL", "EPILOG_RESTART"} -> {AfterFailure}
            [] job_state = "EPILOG_STD" -> {"EPILOG", "EPILOG_RESTART"}
            [] OTHER -> {})
    [] report = "EPILOG_FAILED" ->
         (CASE job_state \in {"EPILOG", "EPILOG_FAIL", "EPILOG_RESTART"} ->
                 {AfterFailure}
            [] job_state = "KILL_EPILOG" -> {"ZOMBIE"}
            [] job_state = "MIGR_EPILOG" -> {"WRAPPER"}
            [] job_state = "STOP_EPILOG" -> {"STOPPED"}
            [] job_state = "EPILOG_STD" -> {"EPILOG_RESTART"}
            [] OTHER -> {})
    [] report = "WRAPPER_DONE" ->
         (CASE job_state = "WRAPPER" -> {"EPILOG_STD"}
            [] job_state = "STOP_CANCEL" -> {"STOP_EPILOG"}
            [] job_state = "KILL_CANCEL" -> {"KILL_EPILOG"}
            [] job_state = "MIGR_CANCEL" -> {"MIGR_PROLOG"}
            [] OTHER -> {})
    [] report = "WRAPPER_FAILED" -> {"EPILOG_FAIL"}

Reports == {"PROLOG_DONE", "PROLOG_FAILED", "EPILOG_DONE", "EPILOG_FAILED",
            "WRAPPER_DONE", "WRAPPER_FAILED"}

\* The call-backs of the DM: each queues the handler of the next state.
DMReport(r) ==
  /\ IF After(r) = {} THEN dmq' = Tail(dmq)
     ELSE \E s \in After(r) : dmq' = Append(Tail(dmq), s)
  /\ UNCHANGED <<job_state, hist, run, xfrs, mandatory, tmq>>

DMStep ==
  /\ dmq # <<>>
  /\ LET a == Head(dmq)
     IN  CASE a \in Reports -> DMReport(a)
           [] a \in Prologs \union Epilogs -> DMStage(a)
           [] a = "WRAPPER" -> DMWrapper
           [] OTHER -> DMRest(a)
  /\ UNCHANGED <<tm_state, chk_xfrs, to_mad, from_mad, mad_up>>

\* The EM reports the end of the wrapper.
EMReport(r) ==
  /\ run # NoHost
  /\ r = "WRAPPER_FAILED" => job_state = "WRAPPER"
  /\ run' = NoHost
  /\ dmq' = Append(dmq, r)
  /\ UNCHANGED <<job_state, tm_state, hist, lists, tmq, to_mad, from_mad, mad_up>>

-----------------------------------------------------------------------------
(* The actions of the TM.                                                  *)

\* Mutant: an epilog does not wait for the end of a checkpoint.
TMStageAtOnce(a) == tm_state' = a /\ Write(<<START>>)

\* gw_tm_prolog, gw_tm_epilog: a checkpoint in progress is cancelled, or waited
\* for when its files are wanted.
TMStage(a) ==
  IF tm_state = "INIT"
    THEN tm_state' = a /\ Write(<<START>>)
  ELSE IF a = "EPILOG" /\ job_state \in {"STOP_EPILOG", "EPILOG_RESTART"}
    THEN UNCHANGED <<tm_state, to_mad>>
  ELSE tm_state' = "CHECKPOINT_CANCEL" /\ Write(<<END>>)

TMStep ==
  /\ tmq # <<>>
  /\ tmq' = Tail(tmq)
  /\ IF Head(tmq) = "EPILOG" /\ job_state \notin Epilogs
       THEN UNCHANGED <<tm_state, to_mad>>
       ELSE TMStage(Head(tmq))
  /\ UNCHANGED <<job_state, hist, run, lists, dmq, from_mad, mad_up>>

\* gw_tm_timer, for a job whose checkpoint is due.
TMCheckpoint ==
  /\ "CHECKPOINT" \in Requests
  /\ tmq = <<>> /\ num_restart_files # 0
  /\ job_state = "WRAPPER" /\ tm_state = "INIT"
  /\ tm_state' = "CHECKPOINT"
  /\ Write(<<START>>)
  /\ UNCHANGED <<job_state, hist, run, lists, tmq, dmq, from_mad, mad_up>>

\* gw_tm_timer, one period of the retries of x.
Ticked(x) ==
  [i \in DOMAIN x |->
     [x[i] EXCEPT !.counter = IF @ \in {-1, 1} THEN -1 ELSE @ - 1]]

Retried(x) ==
  LET again == {i \in DOMAIN x : x[i].counter = 1}
  IN  [k \in 1..Cardinality(again) |->
         CP(x, CHOOSE i \in again : Cardinality({j \in again : j <= i}) = k)]

TMTimer ==
  /\ tmq = <<>>
  /\ \/ /\ tm_state \in {"PROLOG", "EPILOG"}
        /\ xfrs' = Ticked(xfrs) /\ Write(Retried(xfrs))
        /\ UNCHANGED chk_xfrs
     \/ /\ tm_state = "CHECKPOINT"
        /\ chk_xfrs' = Ticked(chk_xfrs) /\ Write(Retried(chk_xfrs))
        /\ UNCHANGED xfrs
  /\ <<xfrs, chk_xfrs>>' # <<xfrs, chk_xfrs>>
  /\ UNCHANGED <<job_state, tm_state, hist, run, mandatory, tmq, dmq, from_mad,
                 mad_up>>

-----------------------------------------------------------------------------
(* The listener of the TM: the answers of the MAD.                         *)

Done(s) == IF s = "PROLOG" THEN "PROLOG_DONE" ELSE "EPILOG_DONE"

Report(r) == dmq' = Append(dmq, r) /\ tm_state' = "INIT"

\* gw_tm_epilog_stage_out, once x is the list of files.
StageOut ==
  Write(IF xfrs # <<>> THEN Copies(xfrs)
        ELSE IF job_state = "EPILOG_STD" THEN <<END>> ELSE <<RMDIR(JobDir)>>)

\* gw_tm_checkpoint_cp: the restart files are listed anew.
CheckpointCp ==
  /\ chk_xfrs' = Xfrs(RestartFiles, "job", FALSE, "server")
  /\ Write(Copies(chk_xfrs'))

\* gw_tm_start_action_cb
StartAnswered(ok) ==
  /\ \/ /\ tm_state = "PROLOG"
        /\ IF ok THEN Write(<<RMDIR(host)>>) /\ UNCHANGED <<tm_state, dmq>>
           ELSE Report("PROLOG_FAILED") /\ UNCHANGED to_mad
        /\ UNCHANGED chk_xfrs
     \/ /\ tm_state = "EPILOG"
        /\ IF ok THEN StageOut /\ UNCHANGED <<tm_state, dmq>>
           ELSE Report("EPILOG_FAILED") /\ UNCHANGED to_mad
        /\ UNCHANGED chk_xfrs
     \/ /\ tm_state = "CHECKPOINT"
        /\ IF ok THEN CheckpointCp /\ UNCHANGED tm_state
           ELSE /\ tm_state' = "INIT"
                /\ UNCHANGED <<chk_xfrs, to_mad>>
        /\ UNCHANGED dmq
  /\ UNCHANGED xfrs

\* gw_tm_rmdir_action_cb: a prolog creates the directory anew.
RmdirAnswered ==
  /\ Write(IF tm_state = "PROLOG" THEN <<MKDIR(host)>> ELSE <<END>>)
  /\ UNCHANGED <<tm_state, xfrs, chk_xfrs, dmq>>

\* Mutant: a file that was not copied does not stop the prolog.
PrologEndsAnyway(x) == Write(<<END>>) /\ UNCHANGED tm_state

\* The end of a prolog: gw_tm_prolog_stage_in and gw_tm_prolog_cp_cb.
PrologEnds(x) ==
  IF \E i \in 1..mandatory : ~x[i].success
    THEN tm_state' = "PROLOG_FAILED" /\ Write(<<RMDIR(host)>>)
    ELSE Write(<<END>>) /\ UNCHANGED tm_state

\* gw_tm_mkdir_action_cb, gw_tm_prolog_stage_in.
MkdirAnswered(ok) ==
  /\ IF ~ok THEN tm_state' = "PROLOG_FAILED" /\ Write(<<END>>)
     ELSE IF xfrs = <<>> THEN PrologEnds(xfrs)
     ELSE Write(Copies(xfrs)) /\ UNCHANGED tm_state
  /\ UNCHANGED <<xfrs, chk_xfrs, dmq>>

\* Mutant: the last try sets the counter as well.
CopiedTicking(x, ok) ==
  IF ok THEN [x EXCEPT !.done = TRUE, !.success = TRUE, !.counter = -1]
  ELSE [x EXCEPT !.tries = @ - 1, !.done = (x.tries = 1),
                 !.counter = number_of_retries - (x.tries - 1)]

\* A copy was answered: it is done, or will be tried again when the timer has
\* run counter times.
Copied(x, ok) ==
  IF ok THEN [x EXCEPT !.done = TRUE, !.success = TRUE, !.counter = -1]
  ELSE IF x.tries = 1 THEN [x EXCEPT !.tries = 0, !.done = TRUE, !.counter = -1]
  ELSE [x EXCEPT !.tries = @ - 1, !.counter = number_of_retries - (x.tries - 1)]

\* gw_tm_prolog_cp_cb: the last try is followed by those of the alternate file.
PrologCopied(i, ok) ==
  LET last == ~ok /\ xfrs[i].tries = 1 /\ xfrs[i].alt
      x    == IF last THEN [xfrs EXCEPT ![i] = Xfr(@.file, "server", FALSE, @.to)]
              ELSE [xfrs EXCEPT ![i] = Copied(@, ok)]
  IN  /\ xfrs' = x
      /\ IF last THEN Write(<<CP(x, i)>>) /\ UNCHANGED tm_state
         ELSE IF Pending(x) THEN UNCHANGED <<to_mad, tm_state>>
         ELSE PrologEnds(x)
      /\ UNCHANGED <<chk_xfrs, dmq>>

\* Mutant: the directory goes whatever was copied.
EpilogEndsRemoved(x) ==
  LET failed == \E i \in 1..mandatory : ~x[i].success
  IN  /\ tm_state' = IF failed THEN "EPILOG_FAILED" ELSE tm_state
      /\ Write(IF job_state = "EPILOG_STD" THEN <<END>> ELSE <<RMDIR(JobDir)>>)

\* Mutant: a cancelled job keeps the directory as well when a copy failed.
EpilogEndsKept(x) ==
  LET failed == \E i \in 1..mandatory : ~x[i].success
  IN  /\ tm_state' = IF failed THEN "EPILOG_FAILED" ELSE tm_state
      /\ Write(IF job_state = "EPILOG_STD" \/ failed
                 THEN <<END>> ELSE <<RMDIR(JobDir)>>)

\* Mutant: the copies that failed are not told from the others.
EpilogEndsBlind(x) ==
  /\ UNCHANGED tm_state
  /\ Write(IF job_state = "EPILOG_STD" THEN <<END>> ELSE <<RMDIR(JobDir)>>)

\* The end of an epilog: the directory is kept when output files of the job are
\* still there, and until EPILOG.
EpilogEnds(x) ==
  LET failed == \E i \in 1..mandatory : ~x[i].success
  IN  /\ tm_state' = IF failed THEN "EPILOG_FAILED" ELSE tm_state
      /\ Write(IF job_state = "EPILOG_STD" \/ (failed /\ job_state = "EPILOG")
                 THEN <<END>> ELSE <<RMDIR(JobDir)>>)

\* gw_tm_epilog_cp_cb.
EpilogCopied(i, ok) ==
  LET x == [xfrs EXCEPT ![i] = Copied(@, ok)]
  IN  /\ xfrs' = x
      /\ IF (~ok /\ ~x[i].done) \/ Pending(x) THEN UNCHANGED <<to_mad, tm_state>>
         ELSE EpilogEnds(x)
      /\ UNCHANGED <<chk_xfrs, dmq>>

\* gw_tm_checkpoint_cp_cb: the epilog that waited for the checkpoint goes on.
CheckpointCopied(i, ok) ==
  LET x == [chk_xfrs EXCEPT ![i] = Copied(@, ok)]
  IN  /\ chk_xfrs' = x
      /\ IF (~ok /\ ~x[i].done) \/ Pending(x) THEN UNCHANGED <<to_mad, tm_state>>
         ELSE IF job_state \in {"STOP_EPILOG", "EPILOG_RESTART"}
           THEN tm_state' = "EPILOG" /\ StageOut
         ELSE tm_state' = "INIT" /\ Write(<<END>>)
      /\ UNCHANGED <<xfrs, dmq>>

\* gw_tm_cp_action_cb.  An id the list does not have is written past its end.
CpAnswered(i, ok) ==
  \/ tm_state = "PROLOG" /\ i \in DOMAIN xfrs /\ PrologCopied(i, ok)
  \/ tm_state = "EPILOG" /\ i \in DOMAIN xfrs /\ EpilogCopied(i, ok)
  \/ tm_state = "CHECKPOINT" /\ i \in DOMAIN chk_xfrs /\ CheckpointCopied(i, ok)

\* Mutant: the TM stays in its state once it has reported.
EndAnsweredTwice ==
  /\ \/ /\ tm_state \in {"PROLOG", "EPILOG"}
        /\ dmq' = Append(dmq, Done(tm_state)) /\ UNCHANGED <<tm_state, to_mad>>
     \/ /\ tm_state \in {"PROLOG_FAILED", "EPILOG_FAILED"}
        /\ Report(tm_state) /\ UNCHANGED to_mad
     \/ /\ tm_state = "CHECKPOINT_CANCEL"
        /\ tm_state' = IF job_state \in Prologs THEN "PROLOG" ELSE "EPILOG"
        /\ Write(<<START>>) /\ UNCHANGED dmq
  /\ UNCHANGED <<xfrs, chk_xfrs>>

\* gw_tm_end_action_cb: the end of a cancelled checkpoint starts what waits.
EndAnswered ==
  /\ \/ /\ tm_state \in {"PROLOG", "EPILOG"}
        /\ Report(Done(tm_state)) /\ UNCHANGED to_mad
     \/ /\ tm_state \in {"PROLOG_FAILED", "EPILOG_FAILED"}
        /\ Report(tm_state) /\ UNCHANGED to_mad
     \/ /\ tm_state = "CHECKPOINT_CANCEL"
        /\ tm_state' = IF job_state \in Prologs THEN "PROLOG" ELSE "EPILOG"
        /\ Write(<<START>>) /\ UNCHANGED dmq
  /\ UNCHANGED <<xfrs, chk_xfrs>>

\* The lines that the call-backs expect; any other is logged and dropped.
Expected(a) ==
  CASE a = "START" -> {"PROLOG", "EPILOG", "CHECKPOINT"}
    [] a = "RMDIR" -> {"PROLOG", "PROLOG_FAILED", "EPILOG", "EPILOG_FAILED"}
    [] a = "MKDIR" -> {"PROLOG"}
    [] a = "CP"    -> {"PROLOG", "EPILOG", "CHECKPOINT"}
    [] a = "END"   -> TMStates \ {"INIT", "CHECKPOINT"}

TMListen ==
  /\ from_mad # <<>>
  /\ from_mad' = Tail(from_mad)
  /\ LET a  == Head(from_mad)[1]
         i  == Head(from_mad)[2]
         ok == Head(from_mad)[3]
     IN  IF tm_state \notin Expected(a)
           THEN UNCHANGED <<tm_state, xfrs, chk_xfrs, dmq, to_mad>>
           ELSE \/ a = "START" /\ StartAnswered(ok)
                \/ a = "RMDIR" /\ RmdirAnswered
                \/ a = "MKDIR" /\ MkdirAnswered(ok)
                \/ a = "CP"    /\ CpAnswered(i, ok)
                \/ a = "END"   /\ EndAnswered
  /\ UNCHANGED <<job_state, hist, run, mandatory, tmq, mad_up>>

\* Mutant: only prologs are recovered.
TMReloadPrologs ==
  /\ ~mad_up /\ from_mad = <<>>
  /\ mad_up' = TRUE
  /\ tm_state' = "INIT"
  /\ dmq' = IF job_state = "PROLOG" THEN Append(dmq, job_state) ELSE dmq
  /\ UNCHANGED <<job_state, hist, run, lists, tmq, to_mad, from_mad>>

\* gw_tm_mad_reload and gw_job_pool_tm_recover: the stage of a job starts again,
\* but for MIGR_PROLOG.
TMReload ==
  /\ ~mad_up /\ from_mad = <<>>
  /\ mad_up' = TRUE
  /\ tm_state' = "INIT"
  /\ dmq' = IF job_state \in {"PROLOG"} \union Epilogs
              THEN Append(dmq, job_state) ELSE dmq
  /\ UNCHANGED <<job_state, hist, run, lists, tmq, to_mad, from_mad>>

TMNext ==
  \/ \E h \in Hosts : Dispatch(h)
  \/ run # NoHost /\ \E h \in MigrateTo[run] : Migrate(h)
  \/ \E op \in {"STOP", "KILL"} : Cancel(op)
  \/ Resume
  \/ DMStep
  \/ TMStep \/ TMCheckpoint \/ TMTimer
  \/ TMListen \/ TMReload

=============================================================================
