---------------------------- MODULE TransferMad ----------------------------
(***************************************************************************)
(* The transfer MAD of DRM4G (core/tm_mad.py), its communicators, and the  *)
(* directories that they copy from and to.                                 *)
(*                                                                         *)
(* The main thread reads the lines of the TM and hands each of them to a   *)
(* pool of threads, so that the answers come in any order.  What a task    *)
(* does and the line it prints are one step: when the process dies, some   *)
(* of the last lines may not have been printed.                            *)
(*                                                                         *)
(* With the local communicator a command that fails raises an exception,   *)
(* and the MAD answers FAILURE; the ssh one only logs it (SwallowErrors).  *)
(***************************************************************************)
EXTENDS Integers, Sequences, FiniteSets

CONSTANTS
  Hosts,
  Inputs,         \* the files of the job that are on the local host
  Faults,         \* commands that may fail: "CP", "MKDIR", "RMDIR"; "CRASH": the
                  \* process may die
  SwallowErrors,  \* the communicator does not raise the errors of its commands
  Timely,         \* END is answered after the lines that were read before it
  MaxCrashes      \* bound: crashes of the process

VARIABLES
  to_mad, from_mad, mad_up,   \* see TransferManager
  tasks,      \* lines given to the pool
  dir,        \* dir[h]: the files of the job on host h; "." is the directory
  server,     \* the files on the checkpoint server
  fetched,    \* the files of the last wrapper that are on the local host
  crashes     \* crashes so far

store == <<dir, server, fetched>>

Here == <<".", 0>>

MadInit ==
  /\ tasks = {}
  /\ dir = [h \in Hosts |-> {}]
  /\ server = {} /\ fetched = {}
  /\ crashes = 0

Answer(a, i, ok) == from_mad' = Append(from_mad, <<a, i, ok>>)

\* What is answered to a command that failed.
FailedAnswer(a, i) == Answer(a, i, SwallowErrors)

\* processLine.  A line waits while an equal one is in the pool.
MadRead ==
  /\ mad_up /\ to_mad # <<>>
  /\ Head(to_mad) \notin tasks
  /\ tasks' = tasks \union {Head(to_mad)}
  /\ to_mad' = Tail(to_mad)
  /\ UNCHANGED <<from_mad, mad_up, store, crashes>>

\* do_START, do_END.
MadStart ==
  /\ Answer("START", 0, TRUE)
  /\ UNCHANGED store

MadEnd ==
  /\ Timely => \A t \in tasks : t[1] = "END"
  /\ Answer("END", 0, TRUE)
  /\ UNCHANGED store

\* do_RMDIR; a directory with a file .lock is kept, which is a failure too.
MadRmdir(h) ==
  \/ /\ dir' = [dir EXCEPT ![h] = {}]
     /\ Answer("RMDIR", 0, TRUE)
     /\ UNCHANGED <<server, fetched>>
  \/ /\ "RMDIR" \in Faults
     /\ FailedAnswer("RMDIR", 0)
     /\ UNCHANGED store

\* do_MKDIR: the directory is removed, then created.
MadMkdir(h) ==
  \/ /\ dir' = [dir EXCEPT ![h] = {Here}]
     /\ Answer("MKDIR", 0, TRUE)
     /\ UNCHANGED <<server, fetched>>
  \/ /\ "MKDIR" \in Faults
     /\ dir' = [dir EXCEPT ![h] = {}]
     /\ FailedAnswer("MKDIR", 0)
     /\ UNCHANGED <<server, fetched>>

There(file, place) ==
  CASE place = "local"  -> file \in Inputs
    [] place = "server" -> file \in server
    [] OTHER            -> file \in dir[place]

\* A communicator copies between the local host and another one only.
Copyable(file, from, to) ==
  /\ There(file, from)
  /\ to \in Hosts => from \notin Hosts /\ Here \in dir[to]

\* do_CP.
MadCopy(i, file, from, to) ==
  \/ /\ Copyable(file, from, to)
     /\ dir' = IF to \in Hosts THEN [dir EXCEPT ![to] = @ \union {file}] ELSE dir
     /\ server' = IF to = "server" THEN server \union {file} ELSE server
     /\ fetched' = IF to = "local" THEN fetched \union {file} ELSE fetched
     /\ Answer("CP", i, TRUE)
  \/ /\ ~Copyable(file, from, to) \/ "CP" \in Faults
     /\ FailedAnswer("CP", i)
     /\ UNCHANGED store

\* A thread of the pool.
MadTask(t) ==
  /\ t \in tasks
  /\ tasks' = tasks \ {t}
  /\ \/ t[1] = "START" /\ MadStart
     \/ t[1] = "END"   /\ MadEnd
     \/ t[1] = "RMDIR" /\ MadRmdir(t[2])
     \/ t[1] = "MKDIR" /\ MadMkdir(t[2])
     \/ t[1] = "CP"    /\ MadCopy(t[2], t[3], t[4], t[5])
  /\ UNCHANGED <<to_mad, mad_up, crashes>>

\* The process dies, and with it the lines it has not read and the tasks; the
\* last lines may be missing although their tasks were done.
MadCrash ==
  /\ "CRASH" \in Faults /\ mad_up /\ crashes < MaxCrashes
  /\ crashes' = crashes + 1
  /\ mad_up' = FALSE
  /\ to_mad' = <<>> /\ tasks' = {}
  /\ \E n \in 0..Len(from_mad) : from_mad' = SubSeq(from_mad, 1, n)
  /\ UNCHANGED store

MadNext == MadRead \/ (\E t \in tasks : MadTask(t)) \/ MadCrash

=============================================================================
