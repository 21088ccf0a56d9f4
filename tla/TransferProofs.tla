--------------------------- MODULE TransferProofs ---------------------------
(***************************************************************************)
(* The transfers of a job, for every value of the constants for which the  *)
(* queues of gwd are empty when an answer comes, the MAD tells a failed    *)
(* command, and no job migrates to the host it is on (Punctual).  Copies   *)
(* fail and are tried again, wrappers fail, and the MAD dies.              *)
(***************************************************************************)
EXTENDS Transfer, FiniteSetTheorems, SequenceTheorems, WellFoundedInduction, TLAPS

Punctual ==
  /\ Timely /\ ~SwallowErrors
  /\ \A h \in Hosts : h \notin MigrateTo[h]

-----------------------------------------------------------------------------
(* Types.                                                                  *)

Here  == MAD!Here
File  == {"in", "out", "std", "restart", "wrapper"} \X Nat
Place == Hosts \union {"local", "server", "job"}

Line ==
  {START, END} \union ({"RMDIR", "MKDIR"} \X Hosts)
    \union ({"CP"} \X Nat \X File \X Place \X Place)

AnswerLine == {"START", "END", "RMDIR", "MKDIR", "CP"} \X Nat \X BOOLEAN

Message == Reports \union (JobStates \ Cancels)

XfrType ==
  [file : File, from : Place, alt : BOOLEAN, to : Place, tries : Nat,
   done : BOOLEAN, success : BOOLEAN, counter : Int]

Types ==
  /\ TypeOK
  /\ dir = [h \in Hosts |-> dir[h]]
  /\ xfrs \in Seq(XfrType) /\ chk_xfrs \in Seq(XfrType)
  /\ to_mad \in Seq(Line) /\ tasks \subseteq Line /\ from_mad \in Seq(AnswerLine)
  /\ tmq \in Seq({"PROLOG", "EPILOG"}) /\ dmq \in Seq(Message)
  /\ mad_up \in BOOLEAN
  /\ ~mad_up => to_mad = <<>> /\ tasks = {}

-----------------------------------------------------------------------------
(* The files.                                                              *)

\* No transfer of x was tried; all have come to an end.
Fresh(x)   == \A i \in 1..Len(x) : ~x[i].done /\ x[i].counter = -1
Settled(x) == \A i \in 1..Len(x) : x[i].done

\* The directory of the new record has the input files; it is gone, if no
\* failure kept it; the local host has the output files.
Staged  == {Here} \union Inputs \subseteq dir[host]
Removed == "RMDIR" \notin Faults /\ job_state # "MIGR_EPILOG" => dir[host] = {}
Saved   == ToSet(OutputFiles) \union ToSet(StdFiles) \subseteq fetched

\* The hosts of the job and what they have of it.
Placed ==
  /\ dmq # <<>> \/ job_state # "PENDING" => host \in Hosts
  /\ job_state \in {"MIGR_CANCEL", "MIGR_PROLOG", "MIGR_EPILOG"} =>
       prev \in Hosts /\ prev # host
  /\ job_state = "MIGR_EPILOG" => Staged
  /\ job_state \in {"ZOMBIE", "STOPPED"} => Removed
  /\ InputsThere

\* The transfers that are listed, and what those that ended have done.
FilesListed ==
  /\ \A i \in 1..Len(chk_xfrs) : chk_xfrs[i].to = "server"
  /\ job_state \in Prologs =>
       /\ mandatory = num_input_files
       /\ \A i \in 1..Len(xfrs) :
            xfrs[i].to = "job" /\ (i <= mandatory => xfrs[i].file = <<"in", i>>)
  /\ job_state \in Epilogs => \A i \in 1..Len(xfrs) : xfrs[i].to \in {"local", "server"}
  /\ job_state = "EPILOG" =>
       /\ mandatory = num_output_files + num_std_files
       /\ Len(xfrs) = mandatory
       /\ \A i \in 1..Len(xfrs) :
            /\ xfrs[i].to = "local"
            /\ xfrs[i].file = IF i <= num_output_files THEN <<"out", i>>
                              ELSE <<"std", i - num_output_files>>

Progress ==
  /\ \/ tmq # <<>> \/ tm_state = "CHECKPOINT_CANCEL"
     \/ tm_state = "CHECKPOINT" /\ job_state \in Prologs \union Epilogs
     => Fresh(xfrs)
  /\ tm_state = "PROLOG" => \A i \in 1..Len(xfrs) :
       /\ xfrs[i].success => xfrs[i].file \in dir[host]
       /\ xfrs[i].counter # -1 => Here \in dir[host]
  /\ tm_state = "EPILOG" => \A i \in 1..Len(xfrs) :
       xfrs[i].success /\ xfrs[i].to = "local" => xfrs[i].file \in fetched

-----------------------------------------------------------------------------
(* Whose turn it is: a message of the DM, one of the TM, the TM with the   *)
(* MAD, or the wrapper.                                                    *)

\* The DM takes message m as the states of the job and of the TM are.
Fits(m) ==
  /\ m \in StageReports \union {"PROLOG", "WRAPPER", "PENDING", "STOPPED", "FAILED", "ZOMBIE"}
       => tm_state = "INIT"
  /\ m \in Epilogs /\ job_state = m => tm_state = "INIT"
  /\ m = "PROLOG" => job_state \in {"PENDING", "PROLOG"}
  /\ m = "MIGR_PROLOG" => job_state = "MIGR_CANCEL"
  /\ m = "MIGR_EPILOG" => job_state \in {"MIGR_PROLOG", "MIGR_EPILOG"} /\ Staged
  /\ m = "WRAPPER" => job_state \in {"PROLOG", "MIGR_EPILOG"} /\ Staged
  /\ m \in {"EPILOG_STD", "EPILOG_FAIL"} => job_state \in {"WRAPPER", m}
  /\ m = "STOP_EPILOG" => job_state \in {"STOP_CANCEL", m}
  /\ m = "KILL_EPILOG" => job_state \in {"KILL_CANCEL", m}
  /\ m \in {"EPILOG", "EPILOG_RESTART"} => job_state \in {"EPILOG_STD", m}
  /\ m \in {"ZOMBIE", "STOPPED"} => job_state \in Epilogs \ {"MIGR_EPILOG"} /\ Removed
  /\ m \in {"PENDING", "FAILED"} => job_state \in Prologs \union Epilogs
  /\ m = "PROLOG_DONE" => job_state \in Prologs /\ Staged
  /\ m = "PROLOG_FAILED" => job_state \in Prologs
  /\ m = "EPILOG_DONE" =>
       /\ job_state \in Epilogs
       /\ job_state # "EPILOG_STD" => Removed
       /\ job_state = "EPILOG" => Saved
  /\ m = "EPILOG_FAILED" =>
       job_state \in Epilogs /\ (job_state \notin {"EPILOG_STD", "EPILOG"} => Removed)
  /\ m = "WRAPPER_DONE" => job_state \in {"WRAPPER"} \union Cancels
  /\ m = "WRAPPER_FAILED" => job_state = "WRAPPER"

Turn ==
  /\ Len(dmq) <= 1 /\ Len(tmq) <= 1
  /\ dmq # <<>> =>
       /\ run = NoHost /\ tmq = <<>>
       /\ tm_state \in {"INIT", "CHECKPOINT"}
       /\ Fits(dmq[1])
  /\ tmq # <<>> =>
       /\ run = NoHost /\ tm_state \in {"INIT", "CHECKPOINT"}
       /\ job_state \in (IF tmq[1] = "PROLOG" THEN Prologs ELSE Epilogs)
  /\ run # NoHost =>
       /\ tm_state \in {"INIT", "CHECKPOINT"}
       /\ job_state \in {"WRAPPER"} \union Cancels
       /\ run = IF job_state = "MIGR_CANCEL" THEN prev ELSE host
  /\ tm_state \in {"PROLOG", "PROLOG_FAILED"} => job_state \in Prologs
  /\ tm_state \in {"EPILOG", "EPILOG_FAILED"} => job_state \in Epilogs
  /\ tm_state = "CHECKPOINT_CANCEL" => job_state \in Prologs \union Epilogs
  /\ tm_state = "CHECKPOINT" =>
       job_state \in {"WRAPPER"} \union Cancels \union Prologs \union Epilogs

-----------------------------------------------------------------------------
(* The lines under way.                                                    *)

\* The TM waits for the answer to a line of the kind a, which is not a copy.
Awaited(a) ==
  \/ a = "START" /\ tm_state \in {"PROLOG", "EPILOG"} /\ Fresh(xfrs)
  \/ a = "START" /\ tm_state = "CHECKPOINT"
  \/ a \in {"RMDIR", "MKDIR"} /\ tm_state = "PROLOG" /\ Fresh(xfrs)
  \/ a = "END" /\ tm_state = "PROLOG" /\ Settled(xfrs) /\ Staged
  \/ a \in {"RMDIR", "END"} /\ tm_state = "PROLOG_FAILED"
  \/ /\ a = "RMDIR" /\ tm_state \in {"EPILOG", "EPILOG_FAILED"} /\ Settled(xfrs)
     /\ job_state # "EPILOG_STD"
     /\ job_state = "EPILOG" => tm_state = "EPILOG" /\ Saved
  \/ /\ a = "END" /\ tm_state \in {"EPILOG", "EPILOG_FAILED"} /\ Settled(xfrs)
     /\ \/ Removed \/ job_state = "EPILOG_STD"
        \/ job_state = "EPILOG" /\ tm_state = "EPILOG_FAILED"
     /\ job_state = "EPILOG" /\ tm_state = "EPILOG" => Saved
  \/ a = "END" /\ tm_state = "INIT" /\ run # NoHost

\* Line l, and answer a, is what it waits for.
Asked(l) == Awaited(l[1]) /\ (l[1] \in {"RMDIR", "MKDIR"} => l[2] = JobDir)

Answered(a) ==
  /\ Awaited(a[1])
  /\ a[1] = "START" => a[3]
  /\ a[1] = "RMDIR" /\ job_state \in Epilogs => Removed
  /\ a[1] = "MKDIR" /\ a[3] => Here \in dir[host]

\* Nothing is under way; one line that is not a copy is.
Silent == to_mad = <<>> /\ tasks = {} /\ from_mad = <<>>

Alone ==
  \/ Len(to_mad) = 1 /\ tasks = {} /\ from_mad = <<>> /\ Asked(to_mad[1])
  \/ to_mad = <<>> /\ (\E t \in tasks : tasks = {t} /\ Asked(t)) /\ from_mad = <<>>
  \/ to_mad = <<>> /\ tasks = {} /\ Len(from_mad) = 1 /\ Answered(from_mad[1])

\* Line l copies a file of the list, and answer a is about one, that is not done
\* and does not wait for a new try.
List == IF tm_state = "CHECKPOINT" THEN chk_xfrs ELSE xfrs

Open(i) == i \in 1..Len(List) /\ ~List[i].done /\ List[i].counter = -1

CopyAsked(l) ==
  /\ l[1] = "CP" /\ Open(l[2])
  /\ l[3] = List[l[2]].file
  /\ l[5] = IF tm_state = "PROLOG" THEN host ELSE List[l[2]].to

CopyAnswered(a) ==
  /\ a[1] = "CP" /\ Open(a[2])
  /\ a[3] /\ tm_state = "PROLOG" => List[a[2]].file \in dir[host]
  /\ a[3] /\ tm_state = "EPILOG" /\ List[a[2]].to = "local" =>
       List[a[2]].file \in fetched

\* Only copies are under way, and only one of each file.
Apart(q, T, f) ==
  /\ \A k, n \in 1..Len(q) : q[k][2] = q[n][2] => k = n
  /\ \A t, u \in T : t[2] = u[2] => t = u
  /\ \A k, n \in 1..Len(f) : f[k][2] = f[n][2] => k = n
  /\ \A k \in 1..Len(q), t \in T : q[k][2] # t[2]
  /\ \A k \in 1..Len(f), t \in T : f[k][2] # t[2]
  /\ \A k \in 1..Len(f), n \in 1..Len(q) : f[k][2] # q[n][2]

OnceEach == Apart(to_mad, tasks, from_mad)

Copying ==
  /\ tm_state \in {"PROLOG", "EPILOG", "CHECKPOINT"}
  /\ tm_state = "PROLOG" => Here \in dir[host]
  /\ \A k \in 1..Len(to_mad) : CopyAsked(to_mad[k])
  /\ \A t \in tasks : CopyAsked(t)
  /\ \A k \in 1..Len(from_mad) : CopyAnswered(from_mad[k])
  /\ OnceEach

\* What a cancelled checkpoint asked for is under way, and its END comes last.
Leftover(l) == l[1] \in {"START", "CP", "END"} /\ (l[1] = "CP" => l[5] \notin Hosts)

Cancelling ==
  /\ tm_state = "CHECKPOINT_CANCEL"
  /\ \A k \in 1..Len(to_mad) : Leftover(to_mad[k])
  /\ \A t \in tasks : Leftover(t)
  /\ \A k \in 1..Len(from_mad) : from_mad[k][1] \in {"START", "CP", "END"}
  /\ \A k \in 1..Len(to_mad) : to_mad[k][1] = "END" =>
       k = Len(to_mad) /\ (\A t \in tasks : t[1] # "END")
         /\ \A n \in 1..Len(from_mad) : from_mad[n][1] # "END"
  /\ \A t \in tasks : t[1] = "END" =>
       to_mad = <<>> /\ \A n \in 1..Len(from_mad) : from_mad[n][1] # "END"
  /\ \A k \in 1..Len(from_mad) : from_mad[k][1] = "END" =>
       k = Len(from_mad) /\ to_mad = <<>> /\ tasks = {}

Traffic == Silent \/ Alone \/ Copying \/ Cancelling

\* The inductive invariant.
StageInv == Types /\ Placed /\ FilesListed /\ Progress /\ Turn /\ Traffic

-----------------------------------------------------------------------------
(* Sequences.                                                              *)

LEMMA SeqFacts ==
  ASSUME NEW S, NEW s \in Seq(S)
  PROVE  /\ Len(s) \in Nat /\ DOMAIN s = 1..Len(s)
         /\ \A k \in 1..Len(s) : s[k] \in S
         /\ s = <<>> <=> Len(s) = 0
  OBVIOUS

LEMMA ListSeq ==
  ASSUME NEW S, NEW n \in Nat, NEW f, f = [i \in 1..n |-> f[i]], \A i \in 1..n : f[i] \in S
  PROVE  f \in Seq(S) /\ Len(f) = n
  OBVIOUS

LEMMA TailFacts ==
  ASSUME NEW S, NEW s \in Seq(S), s # <<>>
  PROVE  /\ Head(s) = s[1] /\ s[1] \in S
         /\ Tail(s) \in Seq(S) /\ Len(Tail(s)) = Len(s) - 1
         /\ \A k \in 1..Len(Tail(s)) : k + 1 \in 1..Len(s) /\ Tail(s)[k] = s[k + 1]
  OBVIOUS

LEMMA AppendFacts ==
  ASSUME NEW S, NEW s \in Seq(S), NEW e \in S
  PROVE  /\ Append(s, e) \in Seq(S) /\ Len(Append(s, e)) = Len(s) + 1
         /\ \A k \in 1..Len(s) : Append(s, e)[k] = s[k]
         /\ Append(s, e)[Len(s) + 1] = e
  OBVIOUS

LEMMA ConcatFacts ==
  ASSUME NEW S, NEW s \in Seq(S), NEW t \in Seq(S)
  PROVE  /\ s \o t \in Seq(S) /\ Len(s \o t) = Len(s) + Len(t)
         /\ \A k \in 1..Len(s) : (s \o t)[k] = s[k]
         /\ \A k \in 1..Len(t) : (s \o t)[Len(s) + k] = t[k]
         /\ \A k \in 1..Len(s \o t) : k > Len(s) =>
              k - Len(s) \in 1..Len(t) /\ (s \o t)[k] = t[k - Len(s)]
  OBVIOUS

LEMMA OneFacts ==
  ASSUME NEW S, NEW e \in S
  PROVE  <<e>> \in Seq(S) /\ Len(<<e>>) = 1 /\ <<e>>[1] = e /\ <<e>> # <<>>
  OBVIOUS

\* A sequence of at most one element has its head only.
LEMMA ShortFacts ==
  ASSUME NEW S, NEW s \in Seq(S), Len(s) <= 1, s # <<>>
  PROVE  Len(s) = 1 /\ Head(s) = s[1] /\ s[1] \in S /\ Tail(s) = <<>>
<1>1. Len(s) = 1 /\ Head(s) = s[1] /\ s[1] \in S
  OBVIOUS
<1>2. Tail(s) \in Seq(S) /\ Len(Tail(s)) = 0
  BY <1>1
<1> QED
  BY <1>1, <1>2, SeqFacts

LEMMA LineTypes ==
  /\ START \in Line /\ END \in Line
  /\ \A h \in Hosts : MKDIR(h) \in Line /\ RMDIR(h) \in Line
  /\ \A i \in Nat, f \in File, p \in Place, q \in Place : <<"CP", i, f, p, q>> \in Line
  BY DEF Line, START, END, MKDIR, RMDIR

\* The kinds of the lines and where their fields are.
LEMMA LineFields ==
  /\ START[1] = "START" /\ END[1] = "END"
  /\ \A h : MKDIR(h)[1] = "MKDIR" /\ MKDIR(h)[2] = h /\ RMDIR(h)[1] = "RMDIR" /\ RMDIR(h)[2] = h
  BY DEF START, END, MKDIR, RMDIR

LEMMA InitInv == Init => StageInv
<1> SUFFICES ASSUME Init PROVE StageInv
  OBVIOUS
<1> USE TMAssumption, MadAssumption DEF Init, TMInit, MAD!MadInit
<1>1. TypeOK
  <2>1. XfrOK(<<>>)
    BY DEF XfrOK
  <2>2. Len(<<>>) = 0
    OBVIOUS
  <2>3. XfrOK(xfrs) /\ XfrOK(chk_xfrs)
    BY <2>1
  <2>4. job_state \in JobStates /\ tm_state \in TMStates
    BY DEF JobStates, TMStates
  <2>5. records \in 0..MaxDispatches
    OBVIOUS
  <2>6. mandatory \in 0..Len(xfrs)
    BY <2>2
  <2> QED
    BY <2>3, <2>4, <2>5, <2>6 DEF TypeOK
<1>2. Types
  BY <1>1 DEF Types
<1>3. Placed
  BY DEF Placed, InputsThere
<1>4. FilesListed
  BY DEF FilesListed, Prologs, Epilogs
<1>5. Progress
  BY DEF Progress
<1>6. Turn
  BY DEF Turn
<1>7. Traffic
  BY DEF Traffic, Silent
<1> QED
  BY <1>2, <1>3, <1>4, <1>5, <1>6, <1>7 DEF StageInv

-----------------------------------------------------------------------------
(* Steps of the DM and of its clients.                                     *)

\* What is under way does not depend on the job's state or host while the TM has no
\* stage of the job.
LEMMA TrafficFrame ==
  ASSUME Traffic, tm_state \in {"INIT", "CHECKPOINT"},
         UNCHANGED <<tm_state, to_mad, tasks, from_mad, chk_xfrs>>,
         tm_state = "INIT" /\ run # NoHost => run' # NoHost
  PROVE  Traffic'
<1>1. CASE Silent
  BY <1>1 DEF Traffic, Silent
<1>2. CASE Alone
  <2>1. \A a : Awaited(a) => Awaited(a)' /\ a \in {"START", "END"}
    BY DEF Awaited
  <2>2. \A l : Asked(l) => Asked(l)'
    BY <2>1 DEF Asked
  <2>3. \A a : Answered(a) => Answered(a)'
    BY <2>1 DEF Answered
  <2>4. Alone'
    BY <1>2, <2>2, <2>3 DEF Alone
  <2> QED
    BY <2>4 DEF Traffic
<1>3. CASE Copying
  <2>1. tm_state = "CHECKPOINT" /\ tm_state' = "CHECKPOINT" /\ List' = List
    BY <1>3 DEF Copying, List
  <2>2. \A i : Open(i) => Open(i)'
    BY <2>1 DEF Open
  <2>3. \A l : CopyAsked(l) => CopyAsked(l)'
    BY <2>1, <2>2 DEF CopyAsked
  <2>4. \A a : CopyAnswered(a) => CopyAnswered(a)'
    BY <2>1, <2>2 DEF CopyAnswered
  <2>5. OnceEach'
    BY <1>3 DEF Copying, OnceEach, Apart
  <2>6. Copying'
    BY <1>3, <2>1, <2>3, <2>4, <2>5 DEF Copying
  <2> QED
    BY <2>6 DEF Traffic
<1>4. CASE Cancelling
  BY <1>4 DEF Cancelling
<1> QED
  BY <1>1, <1>2, <1>3, <1>4 DEF Traffic

\* When neither the TM nor a wrapper has the job nothing is under way.
LEMMA InitSilent ==
  ASSUME Traffic, tm_state = "INIT", run = NoHost
  PROVE  Silent
<1>1. ~Alone
  BY DEF Alone, Asked, Answered, Awaited
<1>2. ~Copying /\ ~Cancelling
  BY DEF Copying, Cancelling
<1> QED
  BY <1>1, <1>2 DEF Traffic

LEMMA DispatchStep ==
  ASSUME StageInv, NEW h \in Hosts, Dispatch(h), UNCHANGED madv
  PROVE  StageInv'
<1> USE DEF StageInv, Dispatch, madv
<1>1. run = NoHost /\ tmq = <<>> /\ tm_state = "INIT"
  BY DEF Turn, Types, TypeOK, Prologs, Epilogs, Cancels, TMStates
<1>2. dmq' = <<"PROLOG">> /\ dmq' # <<>> /\ Len(dmq') = 1 /\ dmq'[1] = "PROLOG" /\ dmq' \in Seq(Message)
  BY OneFacts DEF Message, JobStates, Prologs, Cancels
<1>3. Types'
  <2>1. TypeOK'
    BY TMAssumption DEF Types, TypeOK, lists
  <2> QED
    BY <1>2, <2>1 DEF Types, lists
<1>4. Placed'
  BY <1>1 DEF Placed, InputsThere
<1>5. FilesListed'
  BY DEF FilesListed, Prologs, Epilogs, lists
<1>6. Progress'
  BY <1>1 DEF Progress, lists
<1>7. Turn'
  <2>1. Fits("PROLOG")'
    BY <1>1 DEF Fits
  <2> QED
    BY <1>1, <1>2, <2>1 DEF Turn
<1>8. Traffic'
  BY <1>1, TrafficFrame DEF lists
<1> QED
  BY <1>3, <1>4, <1>5, <1>6, <1>7, <1>8

LEMMA MigrateStep ==
  ASSUME StageInv, Punctual, run # NoHost, NEW h \in MigrateTo[run], Migrate(h), UNCHANGED madv
  PROVE  StageInv'
<1> USE DEF StageInv, Migrate, madv
<1>1. run \in Hosts /\ run = host /\ h \in Hosts /\ h # host
  BY TMAssumption DEF Types, TypeOK, Punctual
<1>2. dmq = <<>> /\ tmq = <<>> /\ tm_state \in {"INIT", "CHECKPOINT"}
  BY DEF Turn
<1>3. Types'
  <2>1. TypeOK'
    <3>1. job_state' \in JobStates
      BY DEF JobStates, Cancels
    <3> QED
      BY <1>1, <3>1, TMAssumption DEF Types, TypeOK, lists
  <2> QED
    BY <2>1 DEF Types, lists
<1>4. Placed'
  BY <1>1, <1>2 DEF Placed, InputsThere
<1>5. FilesListed'
  BY DEF FilesListed, Prologs, Epilogs, lists
<1>6. Progress'
  BY <1>2 DEF Progress, Prologs, Epilogs, lists
<1>7. Turn'
  BY <1>1, <1>2 DEF Turn, Cancels
<1>8. Traffic'
  BY <1>2, TrafficFrame DEF lists
<1> QED
  BY <1>3, <1>4, <1>5, <1>6, <1>7, <1>8

LEMMA CancelStep ==
  ASSUME StageInv, NEW op, Cancel(op), UNCHANGED madv
  PROVE  StageInv'
<1> USE DEF StageInv, Cancel, madv
<1>1. run # NoHost
  <2>1. host \in Hosts
    BY DEF Placed
  <2> QED
    BY <2>1, TMAssumption
<1>2. dmq = <<>> /\ tmq = <<>> /\ tm_state \in {"INIT", "CHECKPOINT"}
  BY <1>1 DEF Turn
<1>3. Types'
  <2>1. TypeOK'
    <3>1. job_state' \in JobStates
      BY DEF JobStates, Cancels
    <3> QED
      BY <3>1 DEF Types, TypeOK, lists, hist
  <2> QED
    BY <2>1 DEF Types, lists
<1>4. Placed'
  BY <1>1, <1>2 DEF Placed, InputsThere, hist
<1>5. FilesListed'
  BY DEF FilesListed, Prologs, Epilogs, lists
<1>6. Progress'
  BY <1>2 DEF Progress, Prologs, Epilogs, lists
<1>7. Turn'
  BY <1>1, <1>2 DEF Turn, Cancels, hist
<1>8. Traffic'
  BY <1>2, TrafficFrame DEF lists
<1> QED
  BY <1>3, <1>4, <1>5, <1>6, <1>7, <1>8

LEMMA ResumeStep ==
  ASSUME StageInv, Resume, UNCHANGED madv
  PROVE  StageInv'
<1> USE DEF StageInv, Resume, madv
<1>1. run = NoHost /\ tmq = <<>> /\ tm_state = "INIT"
  BY DEF Turn, Types, TypeOK, Prologs, Epilogs, Cancels, TMStates
<1>2. Types'
  <2>1. TypeOK'
    <3>1. job_state' \in JobStates
      BY DEF JobStates
    <3> QED
      BY <3>1 DEF Types, TypeOK, lists
  <2> QED
    BY <2>1 DEF Types, lists
<1>3. Placed'
  BY <1>1 DEF Placed, InputsThere
<1>4. FilesListed'
  BY DEF FilesListed, Prologs, Epilogs, lists
<1>5. Progress'
  BY <1>1 DEF Progress, lists
<1>6. dmq = <<>>
  <2> SUFFICES ASSUME dmq # <<>> PROVE FALSE
    OBVIOUS
  <2>1. dmq[1] \in Message /\ Fits(dmq[1])
    BY SeqFacts DEF Types, Turn
  <2> QED
    BY <2>1 DEF Message, Fits, Reports, JobStates, Prologs, Epilogs, Cancels, StageReports
<1>7. Turn'
  BY <1>1, <1>6 DEF Turn
<1>8. Traffic'
  BY <1>1, TrafficFrame DEF lists
<1> QED
  BY <1>2, <1>3, <1>4, <1>5, <1>7, <1>8

-----------------------------------------------------------------------------
(* The lists of transfers.                                                 *)

\* A list of transfers that has just been made.
NewList(x) ==
  /\ x \in Seq(XfrType)
  /\ \A i \in 1..Len(x) : /\ ~x[i].done /\ ~x[i].success /\ x[i].counter = -1
                          /\ x[i].tries = number_of_retries

LEMMA FilesFacts ==
  ASSUME NEW kind \in {"in", "out", "std", "restart", "wrapper"}, NEW n \in Nat
  PROVE  /\ Files(kind, n) \in Seq(File) /\ Len(Files(kind, n)) = n
         /\ \A i \in 1..n : Files(kind, n)[i] = <<kind, i>>
<1>1. \A i \in 1..n : <<kind, i>> \in File
  BY DEF File
<1> QED
  BY <1>1 DEF Files

LEMMA XfrFacts ==
  ASSUME NEW f \in File, NEW from \in Place, NEW alt \in BOOLEAN, NEW to \in Place
  PROVE  /\ Xfr(f, from, alt, to) \in XfrType
         /\ Xfr(f, from, alt, to).file = f /\ Xfr(f, from, alt, to).to = to
         /\ ~Xfr(f, from, alt, to).done /\ ~Xfr(f, from, alt, to).success
         /\ Xfr(f, from, alt, to).counter = -1
         /\ Xfr(f, from, alt, to).tries = number_of_retries
  BY TMAssumption DEF Xfr, XfrType

\* x is a new list of transfers of the files to the place to.
ListOf(x, files, to) ==
  /\ NewList(x) /\ Len(x) = Len(files)
  /\ \A i \in 1..Len(files) : x[i].file = files[i] /\ x[i].to = to

LEMMA XfrsFacts ==
  ASSUME NEW files \in Seq(File), NEW from \in Place, NEW alt \in BOOLEAN, NEW to \in Place
  PROVE  ListOf(Xfrs(files, from, alt, to), files, to)
<1> DEFINE x == Xfrs(files, from, alt, to)
<1>1. x = [i \in 1..Len(files) |-> Xfr(files[i], from, alt, to)]
  BY DEF Xfrs
<1>2. \A i \in 1..Len(files) : files[i] \in File
  OBVIOUS
<1>3. \A i \in 1..Len(files) : x[i] = Xfr(files[i], from, alt, to) /\ x[i] \in XfrType
  BY <1>1, <1>2, XfrFacts
<1>4. x \in Seq(XfrType) /\ Len(x) = Len(files)
  BY <1>1, <1>3
<1> HIDE DEF x
<1>5. \A i \in 1..Len(files) : /\ x[i].file = files[i] /\ x[i].to = to
                               /\ ~x[i].done /\ ~x[i].success /\ x[i].counter = -1
                               /\ x[i].tries = number_of_retries
  BY <1>2, <1>3, XfrFacts
<1>6. NewList(x)
  BY <1>4, <1>5 DEF NewList
<1>7. ListOf(x, files, to)
  BY <1>4, <1>5, <1>6 DEF ListOf
<1> QED
  BY <1>7 DEF x

LEMMA NewFacts ==
  ASSUME NEW x, NewList(x)
  PROVE  /\ x \in Seq(XfrType) /\ Fresh(x) /\ XfrOK(x)
         /\ \A i \in 1..Len(x) : ~x[i].success /\ x[i].counter = -1
<1>1. DOMAIN x = 1..Len(x)
  BY SeqFacts DEF NewList
<1> QED
  BY <1>1, TMAssumption DEF NewList, Fresh, XfrOK

LEMMA NewConcat ==
  ASSUME NEW x, NEW y, NewList(x), NewList(y)
  PROVE  NewList(x \o y)
<1>1. x \in Seq(XfrType) /\ y \in Seq(XfrType)
  BY DEF NewList
<1>2. x \o y \in Seq(XfrType)
  BY <1>1
<1>3. ASSUME NEW i \in 1..Len(x \o y)
      PROVE  \/ i \in 1..Len(x) /\ (x \o y)[i] = x[i]
             \/ i - Len(x) \in 1..Len(y) /\ (x \o y)[i] = y[i - Len(x)]
  <2>1. i \in Nat /\ Len(x) \in Nat /\ 1 <= i
    BY <1>1, <1>2
  <2>2. CASE i <= Len(x)
    BY <1>1, <2>1, <2>2, ConcatFacts
  <2>3. CASE i > Len(x)
    BY <1>1, <2>3, ConcatFacts
  <2> QED
    BY <2>1, <2>2, <2>3
<1> QED
  BY <1>2, <1>3 DEF NewList

LEMMA NewEmpty == NewList(<<>>)
  BY DEF NewList

AllTo(x, places) == \A i \in 1..Len(x) : x[i].to \in places

LEMMA ConcatTo ==
  ASSUME NEW x, NEW y, NEW P, NewList(x), NewList(y), AllTo(x, P), AllTo(y, P)
  PROVE  /\ NewList(x \o y) /\ AllTo(x \o y, P)
         /\ Len(x) \in Nat /\ Len(y) \in Nat /\ Len(x \o y) = Len(x) + Len(y)
         /\ \A i \in 1..Len(x) : (x \o y)[i] = x[i]
         /\ \A i \in 1..Len(x \o y) : i > Len(x) =>
              i - Len(x) \in 1..Len(y) /\ (x \o y)[i] = y[i - Len(x)]
<1>1. x \in Seq(XfrType) /\ y \in Seq(XfrType)
  BY DEF NewList
<1>2. /\ Len(x) \in Nat /\ Len(y) \in Nat /\ Len(x \o y) = Len(x) + Len(y)
      /\ \A i \in 1..Len(x) : (x \o y)[i] = x[i]
      /\ \A i \in 1..Len(x \o y) : i > Len(x) =>
           i - Len(x) \in 1..Len(y) /\ (x \o y)[i] = y[i - Len(x)]
  BY <1>1, ConcatFacts
<1>3. AllTo(x \o y, P)
  <2> SUFFICES ASSUME NEW i \in 1..Len(x \o y) PROVE (x \o y)[i].to \in P
    BY DEF AllTo
  <2>1. CASE i <= Len(x)
    <3>1. i \in 1..Len(x)
      BY <1>2, <2>1
    <3> QED
      BY <3>1, <1>2 DEF AllTo
  <2>2. CASE i > Len(x)
    BY <1>2, <2>2 DEF AllTo
  <2> QED
    BY <1>2, <2>1, <2>2
<1> QED
  BY <1>2, <1>3, NewConcat

\* The prolog copies the input files, which must be there, and the restart files.
LEMMA PrologList ==
  ASSUME NEW s \in Prologs, s = "MIGR_PROLOG" => prev \in Hosts, PrologFiles(s)
  PROVE  /\ NewList(xfrs') /\ mandatory' = num_input_files
         /\ num_input_files <= Len(xfrs')
         /\ \A i \in 1..Len(xfrs') : /\ xfrs'[i].to = "job"
                                     /\ i <= num_input_files => xfrs'[i].file = <<"in", i>>
<1> DEFINE x == Xfrs(InputFiles, "local", FALSE, "job")
           m == Xfrs(RestartFiles, prev, TRUE, "job")
           c == Xfrs(RestartFiles, "server", FALSE, "job")
<1>0. num_input_files \in Nat /\ num_restart_files \in Nat
  BY TMAssumption
<1>1. /\ InputFiles \in Seq(File) /\ Len(InputFiles) = num_input_files
      /\ \A i \in 1..num_input_files : InputFiles[i] = <<"in", i>>
  BY <1>0, FilesFacts DEF InputFiles
<1>2. RestartFiles \in Seq(File)
  BY <1>0, FilesFacts DEF RestartFiles
<1>a. "local" \in Place /\ "job" \in Place /\ "server" \in Place
  BY DEF Place
<1>b. FALSE \in BOOLEAN /\ TRUE \in BOOLEAN
  OBVIOUS
<1>3. /\ NewList(x) /\ Len(x) = num_input_files
      /\ \A i \in 1..Len(x) : x[i].to = "job" /\ x[i].file = <<"in", i>>
  <2>1. ListOf(x, InputFiles, "job")
    BY <1>1, <1>a, <1>b, XfrsFacts, Zenon
  <2> HIDE DEF x
  <2> QED
    BY <1>1, <2>1 DEF ListOf
<1>4. s = "MIGR_PROLOG" => NewList(m) /\ \A i \in 1..Len(m) : m[i].to = "job"
  <2> SUFFICES ASSUME s = "MIGR_PROLOG"
               PROVE  NewList(m) /\ \A i \in 1..Len(m) : m[i].to = "job"
    OBVIOUS
  <2>1. prev \in Place
    BY DEF Place
  <2>2. ListOf(m, RestartFiles, "job")
    BY <1>2, <1>a, <1>b, <2>1, XfrsFacts, Zenon
  <2> HIDE DEF m
  <2> QED
    BY <2>2 DEF ListOf
<1>5. NewList(c) /\ \A i \in 1..Len(c) : c[i].to = "job"
  <2>1. ListOf(c, RestartFiles, "job")
    BY <1>2, <1>a, <1>b, XfrsFacts, Zenon
  <2> HIDE DEF c
  <2> QED
    BY <2>1 DEF ListOf
<1>6. /\ mandatory' = num_input_files
      /\ \/ xfrs' = x \o <<>>
         \/ xfrs' = x \o c
         \/ s = "MIGR_PROLOG" /\ xfrs' = x \o m
  <2>1. mandatory' = num_input_files
    BY DEF PrologFiles
  <2>2. xfrs' = x \o (IF ~restarted THEN <<>> ELSE IF s = "MIGR_PROLOG" THEN m ELSE c)
    BY Zenon DEF PrologFiles
  <2> HIDE DEF x, m, c
  <2> QED
    BY <2>1, <2>2
<1> HIDE DEF x, m, c
<1>7. PICK y : xfrs' = x \o y /\ NewList(y) /\ AllTo(y, {"job"})
  <2>1. NewList(<<>>) /\ AllTo(<<>>, {"job"})
    BY NewEmpty DEF AllTo
  <2> QED
    BY <1>4, <1>5, <1>6, <2>1 DEF AllTo
<1>8. AllTo(x, {"job"})
  BY <1>3 DEF AllTo
<1>9. /\ NewList(xfrs') /\ AllTo(xfrs', {"job"})
      /\ Len(xfrs') = Len(x) + Len(y) /\ Len(x) \in Nat /\ Len(y) \in Nat
      /\ \A i \in 1..Len(x) : xfrs'[i] = x[i]
  BY <1>3, <1>7, <1>8, ConcatTo
<1>10. \A i \in 1..Len(xfrs') : i <= num_input_files => xfrs'[i].file = <<"in", i>>
  BY <1>3, <1>9
<1> QED
  BY <1>0, <1>3, <1>6, <1>9, <1>10 DEF AllTo

\* The epilogs copy to the local host and to the checkpoint server; what must be
\* there comes first.
LEMMA EpilogFacts ==
  ASSUME NEW s \in Epilogs
  PROVE  /\ NewList(EpilogList(s)) /\ AllTo(EpilogList(s), {"local", "server"})
         /\ EpilogMandatory(s) \in 0..Len(EpilogList(s))
         /\ s = "EPILOG" =>
              /\ EpilogMandatory(s) = num_output_files + num_std_files
              /\ Len(EpilogList(s)) = EpilogMandatory(s)
              /\ \A i \in 1..Len(EpilogList(s)) :
                   /\ EpilogList(s)[i].to = "local"
                   /\ EpilogList(s)[i].file = IF i <= num_output_files THEN <<"out", i>>
                                              ELSE <<"std", i - num_output_files>>
<1> DEFINE std == Xfrs(StdFiles, "job", FALSE, "local")
           out == Xfrs(OutputFiles, "job", FALSE, "local")
           wrp == Xfrs(WrapperFiles, "job", FALSE, "local")
           chk == Xfrs(RestartFiles, "job", FALSE, "server")
           P   == {"local", "server"}
<1>1. /\ num_output_files \in Nat /\ num_std_files \in Nat /\ num_restart_files \in Nat
      /\ "local" \in Place /\ "job" \in Place /\ "server" \in Place
      /\ FALSE \in BOOLEAN
  BY TMAssumption DEF Place
<1>2. /\ StdFiles \in Seq(File) /\ Len(StdFiles) = num_std_files
      /\ \A i \in 1..num_std_files : StdFiles[i] = <<"std", i>>
  BY <1>1, FilesFacts DEF StdFiles
<1>3. /\ OutputFiles \in Seq(File) /\ Len(OutputFiles) = num_output_files
      /\ \A i \in 1..num_output_files : OutputFiles[i] = <<"out", i>>
  BY <1>1, FilesFacts DEF OutputFiles
<1>4. WrapperFiles \in Seq(File) /\ Len(WrapperFiles) = 2
  BY FilesFacts DEF WrapperFiles
<1>5. RestartFiles \in Seq(File)
  BY <1>1, FilesFacts DEF RestartFiles
<1>6. ListOf(std, StdFiles, "local") /\ ListOf(out, OutputFiles, "local")
  BY <1>1, <1>2, <1>3, XfrsFacts, Zenon
<1>7. ListOf(wrp, WrapperFiles, "local") /\ ListOf(chk, RestartFiles, "server")
  BY <1>1, <1>4, <1>5, XfrsFacts, Zenon
<1>8. /\ EpilogList(s) =
            CASE s \in {"EPILOG_STD", "KILL_EPILOG", "EPILOG_FAIL"} -> wrp
              [] s = "MIGR_EPILOG"    -> std
              [] s = "STOP_EPILOG"    -> std \o (IF tm_state = "CHECKPOINT" THEN <<>> ELSE chk)
              [] s = "EPILOG"         -> out \o std
              [] s = "EPILOG_RESTART" -> (out \o std) \o (IF tm_state = "CHECKPOINT" THEN <<>> ELSE chk)
  BY Zenon DEF EpilogList
<1> HIDE DEF std, out, wrp, chk
<1>9. /\ NewList(std) /\ AllTo(std, P) /\ Len(std) = num_std_files
      /\ \A i \in 1..num_std_files : std[i].to = "local" /\ std[i].file = <<"std", i>>
  BY <1>2, <1>6 DEF ListOf, AllTo
<1>10. /\ NewList(out) /\ AllTo(out, P) /\ Len(out) = num_output_files
       /\ \A i \in 1..num_output_files : out[i].to = "local" /\ out[i].file = <<"out", i>>
  BY <1>3, <1>6 DEF ListOf, AllTo
<1>11. NewList(wrp) /\ AllTo(wrp, P) /\ Len(wrp) = 2
  BY <1>4, <1>7 DEF ListOf, AllTo
<1>12. NewList(chk) /\ AllTo(chk, P)
  BY <1>7 DEF ListOf, AllTo
<1> DEFINE rst == IF tm_state = "CHECKPOINT" THEN <<>> ELSE chk
<1>13. NewList(rst) /\ AllTo(rst, P)
  BY <1>12, NewEmpty DEF AllTo
<1> HIDE DEF rst, P
<1>14. /\ NewList(out \o std) /\ AllTo(out \o std, P)
       /\ Len(out \o std) = num_output_files + num_std_files
       /\ \A i \in 1..num_output_files : (out \o std)[i] = out[i]
       /\ \A i \in 1..Len(out \o std) : i > num_output_files =>
            i - num_output_files \in 1..num_std_files /\ (out \o std)[i] = std[i - num_output_files]
  BY <1>9, <1>10, ConcatTo
<1>15. /\ NewList(std \o rst) /\ AllTo(std \o rst, P) /\ num_std_files <= Len(std \o rst)
  BY <1>1, <1>9, <1>13, ConcatTo
<1>16. /\ NewList((out \o std) \o rst) /\ AllTo((out \o std) \o rst, P)
       /\ num_output_files + num_std_files <= Len((out \o std) \o rst)
  BY <1>1, <1>14, <1>13, ConcatTo
<1>17. /\ s \in {"EPILOG_STD", "KILL_EPILOG", "EPILOG_FAIL"} => EpilogList(s) = wrp
       /\ s = "MIGR_EPILOG"    => EpilogList(s) = std
       /\ s = "STOP_EPILOG"    => EpilogList(s) = std \o rst
       /\ s = "EPILOG"         => EpilogList(s) = out \o std
       /\ s = "EPILOG_RESTART" => EpilogList(s) = (out \o std) \o rst
  BY <1>8 DEF rst
<1>18. /\ s \in {"EPILOG_STD", "KILL_EPILOG", "EPILOG_FAIL"} => EpilogMandatory(s) = 1
       /\ s \in {"MIGR_EPILOG", "STOP_EPILOG"} => EpilogMandatory(s) = num_std_files
       /\ s \in {"EPILOG", "EPILOG_RESTART"} => EpilogMandatory(s) = num_output_files + num_std_files
  BY DEF EpilogMandatory
<1>19. s = "EPILOG" =>
         \A i \in 1..Len(out \o std) :
           /\ (out \o std)[i].to = "local"
           /\ (out \o std)[i].file = IF i <= num_output_files THEN <<"out", i>>
                                     ELSE <<"std", i - num_output_files>>
  BY <1>1, <1>9, <1>10, <1>14
<1>20. s \in {"EPILOG_STD", "KILL_EPILOG", "EPILOG_FAIL", "MIGR_EPILOG", "STOP_EPILOG", "EPILOG", "EPILOG_RESTART"}
  BY DEF Epilogs
<1>21. /\ NewList(EpilogList(s)) /\ AllTo(EpilogList(s), P)
       /\ EpilogMandatory(s) \in 0..Len(EpilogList(s))
  <2> DEFINE y == std \o rst
             z == out \o std
             w == (out \o std) \o rst
  <2>1. \A x : NewList(x) => Len(x) \in Nat
    BY DEF NewList
  <2>a. NewList(y) /\ AllTo(y, P) /\ num_std_files <= Len(y)
    BY <1>15
  <2>b. NewList(z) /\ AllTo(z, P) /\ Len(z) = num_output_files + num_std_files
    BY <1>14
  <2>c. NewList(w) /\ AllTo(w, P) /\ num_output_files + num_std_files <= Len(w)
    BY <1>16
  <2>d. /\ s = "STOP_EPILOG"    => EpilogList(s) = y
        /\ s = "EPILOG"         => EpilogList(s) = z
        /\ s = "EPILOG_RESTART" => EpilogList(s) = w
    BY <1>17
  <2> HIDE DEF y, z, w
  <2>2. CASE s \in {"EPILOG_STD", "KILL_EPILOG", "EPILOG_FAIL"}
    BY <2>2, <1>11, <1>17, <1>18
  <2>3. CASE s = "MIGR_EPILOG"
    BY <2>3, <1>1, <1>9, <1>17, <1>18
  <2>4. CASE s = "STOP_EPILOG"
    BY <2>1, <2>4, <2>a, <2>d, <1>1, <1>18
  <2>5. CASE s = "EPILOG"
    BY <2>1, <2>5, <2>b, <2>d, <1>1, <1>18
  <2>6. CASE s = "EPILOG_RESTART"
    BY <2>1, <2>6, <2>c, <2>d, <1>1, <1>18
  <2> QED
    BY <1>20, <2>2, <2>3, <2>4, <2>5, <2>6
<1> QED
  BY <1>14, <1>17, <1>18, <1>19, <1>21 DEF P

-----------------------------------------------------------------------------
(* The handlers of the DM.                                                 *)

\* While the DM has a message it is the only one, and nothing else has the job.
LEMMA DMFacts ==
  ASSUME StageInv, dmq # <<>>
  PROVE  /\ Head(dmq) \in Message /\ Fits(Head(dmq)) /\ Tail(dmq) = <<>>
         /\ run = NoHost /\ tmq = <<>> /\ tm_state \in {"INIT", "CHECKPOINT"}
         /\ host \in Hosts
<1>1. dmq \in Seq(Message) /\ Len(dmq) <= 1
  BY DEF StageInv, Types, Turn
<1>2. Head(dmq) = dmq[1] /\ Head(dmq) \in Message /\ Tail(dmq) = <<>>
  BY <1>1, ShortFacts
<1> QED
  BY <1>2 DEF StageInv, Turn, Placed

\* A report: the next state fits what was reported.
LEMMA ReportFits ==
  ASSUME StageInv, dmq # <<>>, Head(dmq) \in Reports, NEW s \in After(Head(dmq))
  PROVE  s \in JobStates \ Cancels /\ Fits(s)
<1> DEFINE r == Head(dmq)
<1>1. Fits(r) /\ tm_state \in {"INIT", "CHECKPOINT"}
  BY DMFacts
<1>2. r \in {"PROLOG_DONE", "PROLOG_FAILED", "EPILOG_DONE", "EPILOG_FAILED", "WRAPPER_DONE", "WRAPPER_FAILED"}
  BY DEF Reports
<1> HIDE DEF r
<1>3. job_state \in JobStates /\ AfterFailure \in {"PENDING", "FAILED"}
  BY TMAssumption DEF StageInv, Types, TypeOK, AfterFailure
<1>4. job_state = "MIGR_EPILOG" => Staged
  BY DEF StageInv, Placed
<1> USE DEF Fits, After, StageReports, Prologs, Epilogs, Cancels, JobStates
<1>5. CASE r = "PROLOG_DONE"
  BY <1>1, <1>3, <1>5 DEF r
<1>6. CASE r = "PROLOG_FAILED"
  BY <1>1, <1>3, <1>6 DEF r
<1>7. CASE r = "EPILOG_DONE"
  BY <1>1, <1>3, <1>4, <1>7 DEF r
<1>8. CASE r = "EPILOG_FAILED"
  BY <1>1, <1>3, <1>4, <1>8 DEF r
<1>9. CASE r = "WRAPPER_DONE"
  BY <1>1, <1>3, <1>9 DEF r
<1>10. CASE r = "WRAPPER_FAILED"
  BY <1>1, <1>3, <1>10 DEF r
<1> QED
  BY <1>2, <1>5, <1>6, <1>7, <1>8, <1>9, <1>10

LEMMA DMReportStep ==
  ASSUME StageInv, dmq # <<>>, Head(dmq) \in Reports, DMReport(Head(dmq)),
         UNCHANGED <<tm_state, chk_xfrs, to_mad, from_mad, mad_up, madv>>
  PROVE  StageInv'
<1>1. /\ Fits(Head(dmq)) /\ Tail(dmq) = <<>> /\ host \in Hosts
      /\ run = NoHost /\ tmq = <<>> /\ tm_state \in {"INIT", "CHECKPOINT"}
  BY DMFacts
<1>2. \/ dmq' = <<>>
      \/ \E s : s \in JobStates \ Cancels /\ Fits(s) /\ dmq' = <<s>>
  <2>1. \/ dmq' = Tail(dmq)
        \/ \E s \in After(Head(dmq)) : dmq' = Append(Tail(dmq), s)
    BY DEF DMReport
  <2>2. ASSUME NEW s \in After(Head(dmq)), dmq' = Append(Tail(dmq), s)
        PROVE  s \in JobStates \ Cancels /\ Fits(s) /\ dmq' = <<s>>
    <3>1. s \in JobStates \ Cancels /\ Fits(s)
      BY ReportFits
    <3>2. Append(<<>>, s) = <<s>>
      OBVIOUS
    <3> QED
      BY <1>1, <2>2, <3>1, <3>2
  <2> QED
    BY <1>1, <2>1, <2>2
<1>3. UNCHANGED <<job_state, tm_state, host, prev, restarted, records, run, xfrs, chk_xfrs,
                  mandatory, tmq, to_mad, from_mad, mad_up, tasks, dir, fetched>>
  BY DEF DMReport, hist, madv
<1>4. /\ Len(dmq') <= 1 /\ dmq' \in Seq(Message)
      /\ dmq' # <<>> => Fits(dmq'[1])
  <2>1. CASE dmq' = <<>>
    BY <2>1
  <2>2. ASSUME NEW s, s \in JobStates \ Cancels, Fits(s), dmq' = <<s>>
        PROVE  Len(dmq') <= 1 /\ dmq' \in Seq(Message) /\ Fits(dmq'[1])
    BY <2>2, OneFacts DEF Message
  <2> QED
    BY <1>2, <2>1, <2>2
<1>5. \A m : Fits(m) => Fits(m)'
  BY <1>3 DEF Fits, Staged, Removed, Saved
<1>6. Types'
  BY <1>3, <1>4 DEF StageInv, Types, TypeOK
<1>7. Placed'
  BY <1>1, <1>3 DEF StageInv, Placed, InputsThere, Staged, Removed
<1>8. FilesListed'
  BY <1>3 DEF StageInv, FilesListed
<1>9. Progress'
  BY <1>3 DEF StageInv, Progress, Fresh
<1>10. Turn'
  <2>1. (dmq # <<>> => Fits(dmq[1]))'
    BY <1>4, <1>5
  <2> QED
    BY <1>1, <1>3, <1>4, <2>1 DEF StageInv, Turn
<1>11. Traffic'
  BY <1>1, <1>3, TrafficFrame DEF StageInv
<1> QED
  BY <1>6, <1>7, <1>8, <1>9, <1>10, <1>11 DEF StageInv

\* A stage: its files are listed and it is handed to the TM.
LEMMA DMStageStep ==
  ASSUME StageInv, dmq # <<>>, Head(dmq) \in Prologs \union Epilogs, DMStage(Head(dmq)),
         UNCHANGED <<tm_state, chk_xfrs, to_mad, from_mad, mad_up, madv>>
  PROVE  StageInv'
<1> DEFINE s == Head(dmq)
<1>1. /\ Fits(s) /\ Tail(dmq) = <<>> /\ host \in Hosts
      /\ run = NoHost /\ tmq = <<>> /\ tm_state \in {"INIT", "CHECKPOINT"}
  BY DMFacts
<1>2. /\ UNCHANGED <<tm_state, host, prev, restarted, records, run, chk_xfrs,
                     to_mad, from_mad, mad_up, tasks, dir, fetched>>
      /\ job_state' = s /\ dmq' = <<>>
  BY <1>1 DEF DMStage, hist, madv
<1>3. s \in Prologs \union Epilogs
  OBVIOUS
<1>4. \/ s \in Prologs /\ PrologFiles(s) /\ tmq' = Append(tmq, "PROLOG")
      \/ s \in Epilogs /\ xfrs' = EpilogList(s) /\ mandatory' = EpilogMandatory(s)
           /\ tmq' = Append(tmq, "EPILOG")
  BY <1>3 DEF DMStage
<1> HIDE DEF s
<1>5. s \in {"MIGR_PROLOG", "MIGR_EPILOG"} => prev \in Hosts /\ prev # host
  BY <1>1 DEF Fits, StageInv, Placed
<1>6. /\ s \in Prologs => s \notin Epilogs
      /\ s \notin {"PENDING", "WRAPPER", "STOPPED", "FAILED", "ZOMBIE"} \union Cancels
      /\ s \in JobStates
  BY <1>3 DEF Prologs, Epilogs, Cancels, JobStates
<1>7. /\ NewList(xfrs') /\ mandatory' \in 0..Len(xfrs')
      /\ s \in Prologs =>
           /\ mandatory' = num_input_files
           /\ \A i \in 1..Len(xfrs') : /\ xfrs'[i].to = "job"
                                       /\ i <= num_input_files => xfrs'[i].file = <<"in", i>>
      /\ s \in Epilogs => AllTo(xfrs', {"local", "server"})
      /\ s = "EPILOG" =>
           /\ mandatory' = num_output_files + num_std_files /\ Len(xfrs') = mandatory'
           /\ \A i \in 1..Len(xfrs') :
                /\ xfrs'[i].to = "local"
                /\ xfrs'[i].file = IF i <= num_output_files THEN <<"out", i>>
                                   ELSE <<"std", i - num_output_files>>
  <2>1. CASE s \in Prologs /\ PrologFiles(s)
    <3>1. s # "EPILOG"
      BY <2>1 DEF Prologs
    <3>2. NewList(xfrs') /\ mandatory' = num_input_files /\ num_input_files <= Len(xfrs')
      BY <1>5, <2>1, PrologList
    <3>3. mandatory' \in 0..Len(xfrs')
      <4>1. Len(xfrs') \in Nat
        BY <3>2 DEF NewList
      <4> QED
        BY <3>2, <4>1, TMAssumption
    <3> QED
      BY <1>5, <1>6, <2>1, <3>1, <3>2, <3>3, PrologList
  <2>2. CASE s \in Epilogs /\ xfrs' = EpilogList(s) /\ mandatory' = EpilogMandatory(s)
    BY <1>6, <2>2, EpilogFacts
  <2> QED
    BY <1>4, <2>1, <2>2
<1>8. /\ xfrs' \in Seq(XfrType) /\ Fresh(xfrs') /\ XfrOK(xfrs')
      /\ \A i \in 1..Len(xfrs') : ~xfrs'[i].success /\ xfrs'[i].counter = -1
  BY <1>7, NewFacts
<1>9. /\ Len(tmq') = 1 /\ tmq' \in Seq({"PROLOG", "EPILOG"}) /\ tmq' # <<>>
      /\ s \in (IF tmq'[1] = "PROLOG" THEN Prologs ELSE Epilogs)
  <2>1. CASE tmq' = <<"PROLOG">> /\ s \in Prologs
    BY <2>1, OneFacts
  <2>2. CASE tmq' = <<"EPILOG">> /\ s \in Epilogs
    BY <2>2, OneFacts
  <2> QED
    BY <1>1, <1>4, <2>1, <2>2
<1>10. Types'
  BY <1>2, <1>6, <1>7, <1>8, <1>9 DEF StageInv, Types, TypeOK
<1>11. Placed'
  <2>1. s = "MIGR_EPILOG" => Staged'
    BY <1>1, <1>2 DEF Fits, Staged
  <2>2. s \notin {"PENDING", "ZOMBIE", "STOPPED", "MIGR_CANCEL"}
    BY <1>6 DEF Cancels
  <2> QED
    BY <1>1, <1>2, <1>5, <2>1, <2>2 DEF Placed, InputsThere
<1>12. FilesListed'
  BY <1>2, <1>7 DEF StageInv, FilesListed, AllTo
<1>13. Progress'
  BY <1>1, <1>2, <1>8 DEF Progress
<1>14. Turn'
  BY <1>1, <1>2, <1>3, <1>9 DEF Turn
<1>15. Traffic'
  BY <1>1, <1>2, TrafficFrame DEF StageInv
<1> QED
  BY <1>10, <1>11, <1>12, <1>13, <1>14, <1>15 DEF StageInv

\* gw_dm_wrapper starts the wrapper in a directory that has its files.
LEMMA DMWrapperStep ==
  ASSUME StageInv, dmq # <<>>, Head(dmq) = "WRAPPER", DMWrapper,
         UNCHANGED <<tm_state, chk_xfrs, to_mad, from_mad, mad_up, madv>>
  PROVE  StageInv'
<1>1. /\ Fits("WRAPPER") /\ Tail(dmq) = <<>> /\ host \in Hosts
      /\ run = NoHost /\ tmq = <<>> /\ tm_state \in {"INIT", "CHECKPOINT"}
  BY DMFacts
<1>2. Staged /\ tm_state = "INIT"
  BY <1>1 DEF Fits
<1>3. /\ UNCHANGED <<tm_state, host, prev, restarted, records, xfrs, chk_xfrs, mandatory, tmq,
                     to_mad, from_mad, mad_up, tasks, dir, fetched>>
      /\ job_state' = "WRAPPER" /\ run' = host /\ dmq' = <<>>
  BY <1>1 DEF DMWrapper, hist, madv
<1>4. Types'
  <2>1. "WRAPPER" \in JobStates
    BY DEF JobStates
  <2> QED
    BY <1>1, <1>3, <2>1 DEF StageInv, Types, TypeOK
<1>5. Placed'
  BY <1>1, <1>2, <1>3 DEF Placed, InputsThere, Staged, Here
<1>6. FilesListed'
  BY <1>3 DEF StageInv, FilesListed, Prologs, Epilogs
<1>7. Progress'
  BY <1>1, <1>2, <1>3 DEF Progress
<1>8. Turn'
  BY <1>1, <1>2, <1>3 DEF Turn
<1>9. Traffic'
  BY <1>1, <1>3, TrafficFrame DEF StageInv
<1> QED
  BY <1>4, <1>5, <1>6, <1>7, <1>8, <1>9 DEF StageInv

LEMMA DMRestStep ==
  ASSUME StageInv, dmq # <<>>, Head(dmq) \in {"PENDING", "STOPPED", "FAILED", "ZOMBIE"},
         DMRest(Head(dmq)),
         UNCHANGED <<tm_state, chk_xfrs, to_mad, from_mad, mad_up, madv>>
  PROVE  StageInv'
<1> DEFINE s == Head(dmq)
<1>1. /\ Fits(s) /\ Tail(dmq) = <<>> /\ host \in Hosts
      /\ run = NoHost /\ tmq = <<>>
  BY DMFacts
<1>2. s \in {"PENDING", "STOPPED", "FAILED", "ZOMBIE"}
  OBVIOUS
<1>3. tm_state = "INIT"
  BY <1>1, <1>2 DEF Fits
<1>4. /\ UNCHANGED <<tm_state, host, prev, records, run, xfrs, chk_xfrs, mandatory, tmq,
                     to_mad, from_mad, mad_up, tasks, dir, fetched>>
      /\ job_state' = s /\ dmq' = <<>> /\ restarted' \in BOOLEAN
  BY <1>1 DEF DMRest, madv, StageInv, Types, TypeOK
<1> HIDE DEF s
<1>5. Types'
  <2>1. s \in JobStates
    BY <1>2 DEF JobStates
  <2> QED
    BY <1>4, <2>1 DEF StageInv, Types, TypeOK
<1>6. Placed'
  <2>1. s \in {"ZOMBIE", "STOPPED"} => Removed'
    BY <1>1, <1>4 DEF Fits, Removed
  <2> QED
    BY <1>1, <1>2, <1>4, <2>1 DEF Placed, InputsThere
<1>7. FilesListed'
  BY <1>2, <1>4 DEF StageInv, FilesListed, Prologs, Epilogs
<1>8. Progress'
  BY <1>1, <1>3, <1>4 DEF Progress
<1>9. Turn'
  BY <1>1, <1>3, <1>4 DEF Turn
<1>10. Traffic'
  BY <1>3, <1>4, TrafficFrame DEF StageInv
<1> QED
  BY <1>5, <1>6, <1>7, <1>8, <1>9, <1>10 DEF StageInv

LEMMA DMStepInv ==
  ASSUME StageInv, DMStep, UNCHANGED madv
  PROVE  StageInv'
<1>1. dmq # <<>> /\ UNCHANGED <<tm_state, chk_xfrs, to_mad, from_mad, mad_up, madv>>
  BY DEF DMStep, madv
<1>2. Head(dmq) \in Message
  BY <1>1, DMFacts
<1>3. CASE Head(dmq) \in Reports
  <2>1. Head(dmq) \notin Prologs \union Epilogs /\ Head(dmq) # "WRAPPER"
    BY <1>3 DEF Prologs, Epilogs, Reports
  <2> QED
    BY <1>1, <1>3, <2>1, DMReportStep DEF DMStep
<1>4. CASE Head(dmq) \in Prologs \union Epilogs
  <2>1. Head(dmq) \notin Reports /\ Head(dmq) # "WRAPPER"
    BY <1>4 DEF Prologs, Epilogs, Reports
  <2> QED
    BY <1>1, <1>4, <2>1, DMStageStep DEF DMStep
<1>5. CASE Head(dmq) = "WRAPPER"
  <2>1. Head(dmq) \notin Reports /\ Head(dmq) \notin Prologs \union Epilogs
    BY <1>5 DEF Prologs, Epilogs, Reports
  <2> QED
    BY <1>1, <1>5, <2>1, DMWrapperStep DEF DMStep
<1>6. CASE Head(dmq) \in {"PENDING", "STOPPED", "FAILED", "ZOMBIE"}
  <2>1. Head(dmq) \notin Reports /\ Head(dmq) \notin Prologs \union Epilogs /\ Head(dmq) # "WRAPPER"
    BY <1>6 DEF Prologs, Epilogs, Reports
  <2> QED
    BY <1>1, <1>6, <2>1, DMRestStep DEF DMStep
<1> QED
  BY <1>2, <1>3, <1>4, <1>5, <1>6 DEF Message, JobStates

-----------------------------------------------------------------------------
(* The wrapper.                                                            *)

LEMMA WrapperWritesStep ==
  ASSUME StageInv, WrapperWrites
  PROVE  StageInv'
<1>1. run \in Hosts /\ run # NoHost
  BY DEF StageInv, Types, TypeOK, WrapperWrites
<1>2. /\ UNCHANGED <<job_state, tm_state, host, prev, restarted, records, run, xfrs, chk_xfrs,
                     mandatory, tmq, dmq, to_mad, from_mad, mad_up, tasks, fetched>>
      /\ dir' = [dir EXCEPT ![run] = @ \union Restarts]
  BY DEF WrapperWrites, tmvars, hist, lists
<1>3. dir' = [h \in Hosts |-> dir'[h]] /\ \A h \in Hosts : dir[h] \subseteq dir'[h]
  BY <1>1, <1>2 DEF StageInv, Types
<1>4. /\ dmq = <<>> /\ tmq = <<>> /\ tm_state \in {"INIT", "CHECKPOINT"}
      /\ job_state \in {"WRAPPER"} \union Cancels
  BY <1>1 DEF StageInv, Turn
<1>5. Types'
  BY <1>2, <1>3 DEF StageInv, Types, TypeOK
<1>6. Placed'
  BY <1>1, <1>2, <1>3, <1>4 DEF StageInv, Placed, InputsThere, Cancels
<1>7. FilesListed'
  BY <1>2 DEF StageInv, FilesListed
<1>8. Progress'
  BY <1>2, <1>4 DEF Progress, Prologs, Epilogs, Cancels
<1>9. Turn'
  BY <1>2, <1>4 DEF StageInv, Turn
<1>10. Traffic'
  BY <1>2, <1>4, TrafficFrame DEF StageInv
<1> QED
  BY <1>5, <1>6, <1>7, <1>8, <1>9, <1>10 DEF StageInv

\* The DM gets its report; the TM may be in a checkpoint, but not at its END.
LEMMA WrapperEndsStep ==
  ASSUME StageInv, Punctual, WrapperEnds
  PROVE  StageInv'
<1>1. PICK r \in {"WRAPPER_DONE", "WRAPPER_FAILED"} : EMReport(r)
  BY DEF WrapperEnds
<1>2. /\ run # NoHost /\ run' = NoHost /\ dmq' = Append(dmq, r)
      /\ r = "WRAPPER_FAILED" => job_state = "WRAPPER"
      /\ UNCHANGED <<job_state, tm_state, host, prev, restarted, records, xfrs, chk_xfrs,
                     mandatory, tmq, to_mad, from_mad, mad_up, tasks>>
  BY <1>1 DEF EMReport, WrapperEnds, hist, lists
<1>3. run \in Hosts
  BY <1>2 DEF StageInv, Types, TypeOK
<1>4. dir' = [h \in Hosts |-> dir'[h]]
  BY <1>3 DEF StageInv, Types, WrapperEnds
<1>5. /\ dmq = <<>> /\ tmq = <<>> /\ tm_state \in {"INIT", "CHECKPOINT"}
      /\ job_state \in {"WRAPPER"} \union Cancels
  BY <1>2 DEF StageInv, Turn
<1>6. dmq' = <<r>> /\ dmq' # <<>> /\ Len(dmq') = 1 /\ dmq'[1] = r /\ dmq' \in Seq(Message)
  BY <1>2, <1>5, OneFacts DEF Message, Reports
<1>7. host \in Hosts
  BY <1>5 DEF StageInv, Placed, Cancels
<1>8. Types'
  BY <1>2, <1>4, <1>6 DEF StageInv, Types, TypeOK
<1>9. Placed'
  <2>1. run' = NoHost /\ job_state \notin {"MIGR_EPILOG", "ZOMBIE", "STOPPED"}
    BY <1>2, <1>5 DEF Cancels
  <2>2. job_state = "MIGR_CANCEL" => prev \in Hosts /\ prev # host
    BY DEF StageInv, Placed
  <2>3. job_state # "MIGR_PROLOG"
    BY <1>5 DEF Cancels
  <2> QED
    BY <1>2, <1>7, <2>1, <2>2, <2>3 DEF Placed, InputsThere
<1>10. FilesListed'
  BY <1>2, <1>5 DEF StageInv, FilesListed, Prologs, Epilogs, Cancels
<1>11. Progress'
  BY <1>2, <1>5 DEF Progress, Prologs, Epilogs, Cancels
<1>12. Turn'
  <2>1. Fits(r)'
    BY <1>2, <1>5 DEF Fits, StageReports, Epilogs
  <2> QED
    BY <1>2, <1>5, <1>6, <2>1 DEF Turn
<1>13. Traffic'
  <2>1. CASE tm_state = "CHECKPOINT"
    BY <1>2, <2>1, TrafficFrame DEF StageInv
  <2>2. CASE tm_state = "INIT"
    <3>1. ~UnderWay("END")
      BY DEF Punctual, WrapperEnds
    <3>2. ~Alone
      <4> SUFFICES ASSUME Alone PROVE FALSE
        OBVIOUS
      <4>1. \A a : Awaited(a) => a = "END"
        BY <2>2 DEF Awaited
      <4>2. CASE Len(to_mad) = 1 /\ Asked(to_mad[1])
        <5>1. to_mad[1] \in ToSet(to_mad)
          BY <4>2 DEF ToSet, StageInv, Types
        <5> QED
          BY <3>1, <4>1, <4>2, <5>1 DEF Asked, UnderWay
      <4>3. CASE \E t \in tasks : Asked(t)
        BY <3>1, <4>1, <4>3 DEF Asked, UnderWay
      <4>4. CASE Len(from_mad) = 1 /\ Answered(from_mad[1])
        <5>1. from_mad[1] \in ToSet(from_mad)
          BY <4>4 DEF ToSet, StageInv, Types
        <5> QED
          BY <3>1, <4>1, <4>4, <5>1 DEF Answered, UnderWay
      <4> QED
        BY <4>2, <4>3, <4>4 DEF Alone
    <3>3. Silent
      BY <2>2, <3>2 DEF StageInv, Traffic, Copying, Cancelling
    <3> QED
      BY <1>2, <3>3 DEF Traffic, Silent
  <2> QED
    BY <1>5, <2>1, <2>2
<1> QED
  BY <1>8, <1>9, <1>10, <1>11, <1>12, <1>13 DEF StageInv

-----------------------------------------------------------------------------
(* The actions of the TM.                                                  *)

\* A line that is written when nothing is left under way.
LEMMA AskNext ==
  ASSUME NEW l \in Line, to_mad = <<>>, tasks = {}, tasks' = {}, from_mad' = <<>>, Write(<<l>>),
         Asked(l)'
  PROVE  Traffic' /\ to_mad' \in Seq(Line) /\ (~mad_up => to_mad' = <<>>)
<1>1. <<l>> \in Seq(Line) /\ Len(<<l>>) = 1 /\ <<l>>[1] = l
  BY OneFacts
<1>2. CASE mad_up
  <2>1. to_mad' = <<l>>
    BY <1>1, <1>2 DEF Write
  <2>2. Alone'
    BY <1>1, <2>1 DEF Alone
  <2> QED
    BY <1>1, <1>2, <2>1, <2>2 DEF Traffic
<1>3. CASE ~mad_up
  BY <1>3 DEF Write, Silent, Traffic
<1> QED
  BY <1>2, <1>3

\* The END of a checkpoint comes after what was asked for it.
LEMMA CancelTraffic ==
  ASSUME Types, FilesListed, Traffic, tm_state = "CHECKPOINT", tm_state' = "CHECKPOINT_CANCEL",
         Write(<<END>>), UNCHANGED <<tasks, from_mad>>
  PROVE  Traffic' /\ to_mad' \in Seq(Line) /\ (~mad_up => to_mad' = <<>>)
<1>1. to_mad \in Seq(Line) /\ tasks \subseteq Line /\ from_mad \in Seq(AnswerLine)
  BY DEF Types
<1>2. /\ \A k \in 1..Len(to_mad) : Leftover(to_mad[k]) /\ to_mad[k][1] # "END"
      /\ \A t \in tasks : Leftover(t) /\ t[1] # "END"
      /\ \A k \in 1..Len(from_mad) : from_mad[k][1] \in {"START", "CP"}
  <2>1. CASE Silent
    BY <2>1 DEF Silent
  <2>2. CASE Alone
    <3>1. \A l : Asked(l) => Leftover(l) /\ l[1] # "END"
      BY DEF Asked, Awaited, Leftover
    <3>2. \A a : Answered(a) => a[1] = "START"
      BY DEF Answered, Awaited
    <3> QED
      BY <1>1, <2>2, <3>1, <3>2 DEF Alone
  <2>3. CASE Copying
    <3>1. ASSUME NEW l, CopyAsked(l) PROVE Leftover(l) /\ l[1] # "END"
      <4>1. l[1] = "CP" /\ l[5] = "server"
        BY <3>1 DEF CopyAsked, List, Open, FilesListed
      <4> QED
        BY <4>1, TMAssumption DEF Leftover
    <3>2. \A a : CopyAnswered(a) => a[1] = "CP"
      BY DEF CopyAnswered
    <3> QED
      BY <1>1, <2>3, <3>1, <3>2 DEF Copying
  <2> QED
    BY <2>1, <2>2, <2>3 DEF Traffic, Cancelling
<1>3. END \in Line /\ END[1] = "END" /\ Leftover(END)
  BY LineTypes, LineFields DEF Leftover
<1>4. CASE mad_up
  <2> DEFINE w == to_mad \o <<END>>
  <2>0. <<END>> \in Seq(Line) /\ Len(<<END>>) = 1 /\ <<END>>[1] = END
    BY <1>3, OneFacts
  <2>1. to_mad' = w
    BY <1>4 DEF Write
  <2>2. /\ w \in Seq(Line) /\ Len(w) = Len(to_mad) + 1
        /\ \A k \in 1..Len(to_mad) : w[k] = to_mad[k]
        /\ w[Len(to_mad) + 1] = END
    <3>1. w \in Seq(Line) /\ Len(w) = Len(to_mad) + Len(<<END>>)
      BY <1>1, <2>0, ConcatFacts
    <3>2. \A k \in 1..Len(to_mad) : w[k] = to_mad[k]
      BY <1>1, <2>0, ConcatFacts
    <3>3. w[Len(to_mad) + 1] = <<END>>[1]
      BY <1>1, <2>0, ConcatFacts
    <3> QED
      BY <2>0, <3>1, <3>2, <3>3
  <2> HIDE DEF w
  <2>3. Len(to_mad) \in Nat
    BY <1>1
  <2>4. ASSUME NEW k \in 1..Len(w)
        PROVE  Leftover(w[k]) /\ (w[k][1] = "END" => k = Len(w))
    <3>1. CASE k \in 1..Len(to_mad)
      BY <1>2, <2>2, <3>1
    <3>2. CASE k = Len(to_mad) + 1
      BY <1>3, <2>2, <3>2
    <3> QED
      BY <2>2, <2>3, <3>1, <3>2
  <2>5. Cancelling'
    <3>1. \A l : Leftover(l) => Leftover(l)'
      BY DEF Leftover
    <3> QED
      BY <1>2, <2>1, <2>4, <3>1 DEF Cancelling
  <2> QED
    BY <1>4, <2>1, <2>2, <2>5 DEF Traffic
<1>5. CASE ~mad_up
  <2>1. to_mad' = <<>> /\ to_mad = <<>> /\ tasks = {}
    BY <1>5 DEF Write, Types
  <2>2. Cancelling'
    BY <1>2, <2>1 DEF Cancelling
  <2> QED
    BY <2>1, <2>2 DEF Traffic
<1> QED
  BY <1>4, <1>5

\* gw_tm_prolog, gw_tm_epilog.
LEMMA TMStepInv ==
  ASSUME StageInv, TMStep, UNCHANGED madv
  PROVE  StageInv'
<1>1. /\ tmq # <<>> /\ tmq \in Seq({"PROLOG", "EPILOG"}) /\ Len(tmq) <= 1
      /\ run = NoHost /\ tm_state \in {"INIT", "CHECKPOINT"}
  BY DEF StageInv, Types, Turn, TMStep
<1>2. PICK a \in {"PROLOG", "EPILOG"} : Head(tmq) = a
  BY <1>1, ShortFacts
<1>3. /\ Tail(tmq) = <<>> /\ dmq = <<>>
      /\ job_state \in (IF a = "PROLOG" THEN Prologs ELSE Epilogs)
  BY <1>1, <1>2, ShortFacts DEF StageInv, Turn
<1>4. /\ UNCHANGED <<job_state, host, prev, restarted, records, run, xfrs, chk_xfrs, mandatory,
                     dmq, from_mad, mad_up, tasks, dir, fetched>>
      /\ tmq' = <<>> /\ TMStage(a)
  BY <1>2, <1>3 DEF TMStep, hist, lists, madv
<1>5. Types
  BY DEF StageInv
<1>6. Fresh(xfrs) /\ Fresh(xfrs)'
  BY <1>1, <1>4 DEF StageInv, Progress, Fresh
<1>7. \A i \in 1..Len(xfrs) : ~xfrs[i].success /\ xfrs[i].counter = -1
  <2>1. DOMAIN xfrs = 1..Len(xfrs)
    BY <1>5, SeqFacts DEF Types
  <2> QED
    BY <1>5, <1>6, <2>1 DEF Types, TypeOK, XfrOK, Fresh
<1>8. /\ tm_state' \in {"PROLOG", "EPILOG", "CHECKPOINT", "CHECKPOINT_CANCEL"}
      /\ tm_state' = "PROLOG" => job_state \in Prologs
      /\ tm_state' = "EPILOG" => job_state \in Epilogs
      /\ Traffic' /\ to_mad' \in Seq(Line) /\ (~mad_up => to_mad' = <<>>)
  <2>1. CASE tm_state = "INIT"
    <3>1. Silent
      BY <1>1, <2>1, InitSilent DEF StageInv
    <3>2. tm_state' = a /\ Write(<<START>>)
      BY <1>4, <2>1 DEF TMStage
    <3>3. START \in Line /\ START[1] = "START"
      BY LineTypes, LineFields
    <3>4. Asked(START)'
      BY <1>6, <3>2, <3>3 DEF Asked, Awaited
    <3>5. Traffic' /\ to_mad' \in Seq(Line) /\ (~mad_up => to_mad' = <<>>)
      BY <1>4, <1>5, <3>1, <3>2, <3>3, <3>4, AskNext DEF Silent
    <3> QED
      BY <1>3, <3>2, <3>5
  <2>2. CASE /\ tm_state = "CHECKPOINT"
             /\ a = "EPILOG" /\ job_state \in {"STOP_EPILOG", "EPILOG_RESTART"}
    <3>1. UNCHANGED <<tm_state, to_mad>>
      BY <1>4, <2>2 DEF TMStage
    <3>2. Traffic'
      BY <1>1, <1>4, <3>1, TrafficFrame DEF StageInv
    <3> QED
      BY <1>5, <2>2, <3>1, <3>2 DEF Types
  <2>3. CASE /\ tm_state = "CHECKPOINT"
             /\ ~(a = "EPILOG" /\ job_state \in {"STOP_EPILOG", "EPILOG_RESTART"})
    <3>1. tm_state' = "CHECKPOINT_CANCEL" /\ Write(<<END>>)
      BY <1>4, <2>3 DEF TMStage
    <3>2. Traffic' /\ to_mad' \in Seq(Line) /\ (~mad_up => to_mad' = <<>>)
      BY <1>4, <1>5, <2>3, <3>1, CancelTraffic DEF StageInv
    <3> QED
      BY <3>1, <3>2
  <2> QED
    BY <1>1, <2>1, <2>2, <2>3
<1>9. Types'
  BY <1>4, <1>5, <1>8 DEF Types, TypeOK, TMStates
<1>10. Placed'
  BY <1>4 DEF StageInv, Placed, InputsThere, Staged, Removed
<1>11. FilesListed'
  BY <1>4 DEF StageInv, FilesListed
<1>12. Progress'
  BY <1>4, <1>6, <1>7 DEF Progress
<1>13. Turn'
  BY <1>1, <1>3, <1>4, <1>8 DEF Turn
<1> QED
  BY <1>8, <1>9, <1>10, <1>11, <1>12, <1>13 DEF StageInv

\* A checkpoint starts while the wrapper runs, or before its end is handled.
LEMMA TMCheckpointStep ==
  ASSUME StageInv, Punctual, TMCheckpoint, ~Late, UNCHANGED madv
  PROVE  StageInv'
<1>1. /\ tmq = <<>> /\ job_state = "WRAPPER" /\ tm_state = "INIT" /\ tm_state' = "CHECKPOINT"
      /\ Write(<<START>>)
      /\ UNCHANGED <<job_state, host, prev, restarted, records, run, xfrs, chk_xfrs, mandatory,
                     tmq, dmq, from_mad, mad_up, tasks, dir, fetched>>
  BY DEF TMCheckpoint, hist, lists, madv
<1>2. ~UnderWay("END")
  BY <1>1 DEF Late
<1>3. Types
  BY DEF StageInv
<1>4. Silent
  <2>1. \A a : Awaited(a) => a = "END"
    BY <1>1 DEF Awaited
  <2>2. ~Alone
    <3>1. ~(Len(to_mad) = 1 /\ Asked(to_mad[1]))
      <4> SUFFICES ASSUME Len(to_mad) = 1, Asked(to_mad[1]) PROVE FALSE
        OBVIOUS
      <4>1. to_mad[1] \in ToSet(to_mad)
        BY <1>3 DEF ToSet, Types
      <4> QED
        BY <1>2, <2>1, <4>1 DEF Asked, UnderWay
    <3>2. ~\E t \in tasks : Asked(t)
      BY <1>2, <2>1 DEF Asked, UnderWay
    <3>3. ~(Len(from_mad) = 1 /\ Answered(from_mad[1]))
      <4> SUFFICES ASSUME Len(from_mad) = 1, Answered(from_mad[1]) PROVE FALSE
        OBVIOUS
      <4>1. from_mad[1] \in ToSet(from_mad)
        BY <1>3 DEF ToSet, Types
      <4> QED
        BY <1>2, <2>1, <4>1 DEF Answered, UnderWay
    <3> QED
      BY <3>1, <3>2, <3>3 DEF Alone
  <2> QED
    BY <1>1, <2>2 DEF StageInv, Traffic, Copying, Cancelling
<1>5. START \in Line /\ START[1] = "START"
  BY LineTypes, LineFields
<1>6. Asked(START)'
  BY <1>1, <1>5 DEF Asked, Awaited
<1>7. Traffic' /\ to_mad' \in Seq(Line) /\ (~mad_up => to_mad' = <<>>)
  BY <1>1, <1>3, <1>4, <1>5, <1>6, AskNext DEF Silent
<1>8. Types'
  BY <1>1, <1>3, <1>7 DEF Types, TypeOK, TMStates
<1>9. Placed'
  BY <1>1 DEF StageInv, Placed, InputsThere, Staged, Removed
<1>10. FilesListed'
  BY <1>1 DEF StageInv, FilesListed
<1>11. Progress'
  BY <1>1 DEF Progress, Prologs, Epilogs
<1>12. Turn'
  <2>1. \A m : Fits(m) => Fits(m)'
    BY <1>1 DEF Fits, StageReports, Prologs, Epilogs, Removed, Saved, Staged
  <2>2. (dmq # <<>> => Fits(dmq[1]))'
    BY <1>1, <2>1 DEF StageInv, Turn
  <2> QED
    BY <1>1, <2>2 DEF StageInv, Turn
<1> QED
  BY <1>7, <1>8, <1>9, <1>10, <1>11, <1>12 DEF StageInv

\* gw_tm_mad_reload: nothing of the job is left when its stage starts again.
LEMMA TMReloadStep ==
  ASSUME StageInv, Punctual, TMReload, ~Late, UNCHANGED madv
  PROVE  StageInv'
<1>1. /\ ~mad_up /\ mad_up' = TRUE /\ from_mad = <<>> /\ tm_state' = "INIT"
      /\ UNCHANGED <<job_state, host, prev, restarted, records, run, xfrs, chk_xfrs, mandatory,
                     tmq, to_mad, from_mad, tasks, dir, fetched>>
  BY DEF TMReload, hist, lists, madv
<1>2. tmq = <<>> /\ dmq = <<>>
  BY <1>1 DEF Late
<1>3. Silent /\ Traffic'
  BY <1>1 DEF StageInv, Types, Silent, Traffic
<1>4. \/ dmq' = <<>>
      \/ job_state \in {"PROLOG"} \union Epilogs /\ dmq' = <<job_state>>
  <2>1. dmq' = IF job_state \in {"PROLOG"} \union Epilogs THEN Append(dmq, job_state) ELSE dmq
    BY DEF TMReload
  <2> QED
    BY <1>2, <2>1
<1>5. PICK s : s = job_state
  OBVIOUS
<1>6. CASE dmq' = <<>>
  <2>1. Types'
    BY <1>1, <1>6 DEF StageInv, Types, TypeOK, TMStates
  <2>2. Placed'
    BY <1>1, <1>2, <1>6 DEF StageInv, Placed, InputsThere, Staged, Removed
  <2>3. FilesListed'
    BY <1>1 DEF StageInv, FilesListed
  <2>4. Progress'
    BY <1>1, <1>2 DEF Progress
  <2>5. Turn'
    BY <1>1, <1>2, <1>6 DEF StageInv, Turn
  <2> QED
    BY <1>3, <2>1, <2>2, <2>3, <2>4, <2>5 DEF StageInv
<1>7. CASE s \in {"PROLOG"} \union Epilogs /\ dmq' = <<s>>
  <2>1. /\ dmq' # <<>> /\ Len(dmq') = 1 /\ dmq'[1] = s /\ dmq' \in Seq(Message)
    BY <1>7, OneFacts DEF Message, JobStates, Prologs, Epilogs, Cancels
  <2>2. run = NoHost /\ host \in Hosts
    BY <1>5, <1>7 DEF StageInv, Turn, Placed, Epilogs, Cancels
  <2>3. Fits(s)'
    BY <1>1, <1>5, <1>7 DEF Fits, StageReports, Epilogs, StageInv, Placed, Staged
  <2>4. Types'
    BY <1>1, <2>1 DEF StageInv, Types, TypeOK, TMStates
  <2>5. Placed'
    BY <1>1, <2>2 DEF StageInv, Placed, InputsThere, Staged, Removed
  <2>6. FilesListed'
    BY <1>1 DEF StageInv, FilesListed
  <2>7. Progress'
    BY <1>1, <1>2 DEF Progress
  <2>8. Turn'
    BY <1>1, <1>2, <2>1, <2>2, <2>3 DEF Turn
  <2> QED
    BY <1>3, <2>4, <2>5, <2>6, <2>7, <2>8 DEF StageInv
<1> QED
  BY <1>4, <1>5, <1>6, <1>7

-----------------------------------------------------------------------------
(* The MAD.                                                                *)

\* A step of the MAD that leaves the directories and the copies that are on the
\* local host as they are.
LEMMA MadFrame ==
  ASSUME StageInv, UNCHANGED gwdv, UNCHANGED <<dir, fetched>>, Traffic',
         to_mad' \in Seq(Line), tasks' \subseteq Line, from_mad' \in Seq(AnswerLine),
         mad_up' \in BOOLEAN, ~mad_up' => to_mad' = <<>> /\ tasks' = {}
  PROVE  StageInv'
<1>1. UNCHANGED <<job_state, tm_state, host, prev, restarted, records, run, xfrs, chk_xfrs,
                  mandatory, tmq, dmq>>
  BY DEF gwdv, hist, lists
<1>2. Types'
  BY <1>1 DEF StageInv, Types, TypeOK
<1>3. Placed'
  BY <1>1 DEF StageInv, Placed, InputsThere, Staged, Removed
<1>4. FilesListed'
  BY <1>1 DEF StageInv, FilesListed
<1>5. Progress'
  BY <1>1 DEF StageInv, Progress, Fresh
<1>6. Turn'
  BY <1>1 DEF StageInv, Turn, Fits, Staged, Removed, Saved
<1> QED
  BY <1>2, <1>3, <1>4, <1>5, <1>6 DEF StageInv

\* What the lines and the answers mean does not change with the MAD.
LEMMA MeaningFrame ==
  ASSUME UNCHANGED gwdv, UNCHANGED <<dir, fetched>>
  PROVE  /\ \A l : Asked(l)' <=> Asked(l)
         /\ \A a : Answered(a)' <=> Answered(a)
         /\ \A l : CopyAsked(l)' <=> CopyAsked(l)
         /\ \A a : CopyAnswered(a)' <=> CopyAnswered(a)
         /\ \A l : Leftover(l)' <=> Leftover(l)
<1>1. UNCHANGED <<job_state, tm_state, host, prev, run, xfrs, chk_xfrs, mandatory>>
  BY DEF gwdv, hist, lists
<1>2. \A a : Awaited(a)' <=> Awaited(a)
  BY <1>1 DEF Awaited, Fresh, Settled, Staged, Removed, Saved
<1>3. \A l : Asked(l)' <=> Asked(l)
  BY <1>1, <1>2 DEF Asked, JobDir
<1>4. \A a : Answered(a)' <=> Answered(a)
  BY <1>1, <1>2 DEF Answered, Removed
<1>5. List' = List
  BY <1>1 DEF List
<1>6. \A l : CopyAsked(l)' <=> CopyAsked(l)
  BY <1>1, <1>5 DEF CopyAsked, Open
<1>7. \A a : CopyAnswered(a)' <=> CopyAnswered(a)
  BY <1>1, <1>5 DEF CopyAnswered, Open
<1> QED
  BY <1>3, <1>4, <1>6, <1>7 DEF Leftover

LEMMA MadReadStep ==
  ASSUME StageInv, MAD!MadRead, UNCHANGED gwdv
  PROVE  StageInv'
<1>1. /\ to_mad \in Seq(Line) /\ tasks \subseteq Line /\ from_mad \in Seq(AnswerLine)
      /\ mad_up \in BOOLEAN
  BY DEF StageInv, Types
<1>2. /\ mad_up /\ to_mad # <<>>
      /\ tasks' = tasks \union {Head(to_mad)} /\ to_mad' = Tail(to_mad)
      /\ UNCHANGED <<from_mad, mad_up, dir, fetched>>
  BY DEF MAD!MadRead, MAD!store
<1>3. PICK l \in Line : l = Head(to_mad)
  BY <1>1, <1>2, TailFacts
<1>4. /\ to_mad[1] = l /\ Tail(to_mad) \in Seq(Line) /\ Len(Tail(to_mad)) = Len(to_mad) - 1
      /\ \A k \in 1..Len(Tail(to_mad)) : k + 1 \in 1..Len(to_mad) /\ Tail(to_mad)[k] = to_mad[k + 1]
      /\ 1 \in 1..Len(to_mad)
  <2>1. Len(to_mad) \in Nat /\ Len(to_mad) # 0
    BY <1>1, <1>2, SeqFacts
  <2> QED
    BY <1>1, <1>2, <1>3, <2>1, TailFacts
<1>5. /\ \A k : Asked(k)' <=> Asked(k)
      /\ \A k : Answered(k)' <=> Answered(k)
      /\ \A k : CopyAsked(k)' <=> CopyAsked(k)
      /\ \A k : CopyAnswered(k)' <=> CopyAnswered(k)
      /\ \A k : Leftover(k)' <=> Leftover(k)
  BY <1>2, MeaningFrame
<1>6. UNCHANGED <<tm_state, host>>
  BY DEF gwdv, hist
<1>7. Traffic'
  <2>1. CASE Alone
    <3>1. Len(to_mad) = 1 /\ tasks = {} /\ from_mad = <<>> /\ Asked(l)
      BY <1>2, <1>4, <2>1 DEF Alone
    <3>2. Tail(to_mad) = <<>>
      BY <1>1, <1>2, <3>1, ShortFacts
    <3>3. to_mad' = <<>> /\ tasks' = {l} /\ from_mad' = <<>> /\ Asked(l)'
      BY <1>2, <1>3, <1>5, <3>1, <3>2
    <3>4. Alone'
      BY <3>3 DEF Alone
    <3> QED
      BY <3>4 DEF Traffic
  <2>2. CASE Copying
    <3>1. /\ \A k \in 1..Len(to_mad') : CopyAsked(to_mad'[k])
          /\ \A t \in tasks' : CopyAsked(t)
          /\ \A k \in 1..Len(from_mad') : CopyAnswered(from_mad'[k])
      BY <1>2, <1>3, <1>4, <2>2 DEF Copying
    <3>2. OnceEach'
      <4>1. /\ \A k, n \in 1..Len(to_mad') : to_mad'[k][2] = to_mad'[n][2] => k = n
            /\ \A k \in 1..Len(to_mad'), t \in tasks' : to_mad'[k][2] # t[2]
        <5>1. ASSUME NEW k \in 1..Len(to_mad'), NEW n \in 1..Len(to_mad'),
                     to_mad'[k][2] = to_mad'[n][2]
              PROVE  k = n
          BY <1>2, <1>4, <2>2, <5>1 DEF Copying, OnceEach, Apart
        <5>2. ASSUME NEW k \in 1..Len(to_mad'), NEW t \in tasks'
              PROVE  to_mad'[k][2] # t[2]
          <6>1. k \in Int /\ k + 1 \in 1..Len(to_mad) /\ to_mad'[k] = to_mad[k + 1] /\ k + 1 # 1
            BY <1>2, <1>4
          <6>2. CASE t \in tasks
            BY <2>2, <6>1, <6>2 DEF Copying, OnceEach, Apart
          <6>3. CASE t = l
            BY <1>4, <2>2, <6>1, <6>3 DEF Copying, OnceEach, Apart
          <6> QED
            BY <1>2, <1>3, <6>2, <6>3
        <5> QED
          BY <5>1, <5>2
      <4>2. /\ \A t, u \in tasks' : t[2] = u[2] => t = u
            /\ \A k \in 1..Len(from_mad'), t \in tasks' : from_mad'[k][2] # t[2]
        BY <1>2, <1>3, <1>4, <2>2 DEF Copying, OnceEach, Apart
      <4>3. /\ \A k, n \in 1..Len(from_mad') : from_mad'[k][2] = from_mad'[n][2] => k = n
            /\ \A k \in 1..Len(from_mad'), n \in 1..Len(to_mad') : from_mad'[k][2] # to_mad'[n][2]
        BY <1>2, <1>4, <2>2 DEF Copying, OnceEach, Apart
      <4> QED
        BY <4>1, <4>2, <4>3 DEF OnceEach, Apart
    <3>3. (\A k \in 1..Len(to_mad) : CopyAsked(to_mad[k]))'
      BY <1>5, <3>1
    <3>4. (\A t \in tasks : CopyAsked(t))'
      BY <1>5, <3>1
    <3>5. (\A k \in 1..Len(from_mad) : CopyAnswered(from_mad[k]))'
      BY <1>5, <3>1
    <3>6. Copying'
      BY <1>2, <1>6, <2>2, <3>2, <3>3, <3>4, <3>5 DEF Copying
    <3> QED
      BY <3>6 DEF Traffic
  <2>3. CASE Cancelling
    <3>1. \A k \in 1..Len(to_mad') : /\ Leftover(to_mad'[k])
                                     /\ to_mad'[k][1] = "END" => k = Len(to_mad') /\ l[1] # "END"
      <4> SUFFICES ASSUME NEW k \in 1..Len(to_mad')
                   PROVE  /\ Leftover(to_mad'[k])
                          /\ to_mad'[k][1] = "END" => k = Len(to_mad') /\ l[1] # "END"
        OBVIOUS
      <4>1. k \in Int /\ k + 1 \in 1..Len(to_mad) /\ to_mad'[k] = to_mad[k + 1] /\ k + 1 # 1
        BY <1>2, <1>4
      <4>2. Len(to_mad') = Len(to_mad) - 1 /\ Len(to_mad) \in Nat
        BY <1>1, <1>2, <1>4
      <4>3. /\ Leftover(to_mad[k + 1])
            /\ to_mad[k + 1][1] = "END" => k + 1 = Len(to_mad)
        BY <2>3, <4>1 DEF Cancelling
      <4>4. to_mad[1][1] = "END" => 1 = Len(to_mad)
        BY <1>4, <2>3 DEF Cancelling
      <4>5. to_mad'[k][1] = "END" => k = Len(to_mad')
        BY <4>1, <4>2, <4>3
      <4>6. l[1] # "END"
        BY <1>4, <4>1, <4>4
      <4> QED
        BY <4>1, <4>3, <4>5, <4>6
    <3>2. l[1] = "END" => to_mad' = <<>> /\ \A n \in 1..Len(from_mad) : from_mad[n][1] # "END"
      <4> SUFFICES ASSUME l[1] = "END"
                   PROVE  to_mad' = <<>> /\ \A n \in 1..Len(from_mad) : from_mad[n][1] # "END"
        OBVIOUS
      <4>1. Len(to_mad) = 1 /\ \A n \in 1..Len(from_mad) : from_mad[n][1] # "END"
        BY <1>4, <2>3 DEF Cancelling
      <4> QED
        BY <1>1, <1>2, <4>1, ShortFacts
    <3>3. Leftover(l) /\ \A n \in 1..Len(from_mad) : from_mad[n][1] # "END"
      BY <1>2, <1>4, <2>3 DEF Cancelling
    <3>4. \A t \in tasks : t[1] # "END"
      BY <1>2, <2>3 DEF Cancelling
    <3>5. (\A k \in 1..Len(to_mad) : Leftover(to_mad[k]))'
      BY <1>5, <3>1
    <3>6. (\A t \in tasks : Leftover(t))'
      BY <1>2, <1>3, <1>5, <2>3, <3>3 DEF Cancelling
    <3>7. (\A k \in 1..Len(from_mad) : from_mad[k][1] \in {"START", "CP", "END"})'
      BY <1>2, <2>3 DEF Cancelling
    <3>8. (\A k \in 1..Len(to_mad) : to_mad[k][1] = "END" =>
             k = Len(to_mad) /\ (\A t \in tasks : t[1] # "END")
               /\ \A n \in 1..Len(from_mad) : from_mad[n][1] # "END")'
      BY <1>2, <1>3, <3>1, <3>3, <3>4
    <3>9. (\A t \in tasks : t[1] = "END" =>
             to_mad = <<>> /\ \A n \in 1..Len(from_mad) : from_mad[n][1] # "END")'
      BY <1>2, <1>3, <3>2, <3>4
    <3>10. (\A k \in 1..Len(from_mad) : from_mad[k][1] = "END" =>
             k = Len(from_mad) /\ to_mad = <<>> /\ tasks = {})'
      BY <1>2, <3>3
    <3>11. Cancelling'
      BY <1>6, <2>3, <3>5, <3>6, <3>7, <3>8, <3>9, <3>10 DEF Cancelling
    <3> QED
      BY <3>11 DEF Traffic
  <2> QED
    BY <1>2, <2>1, <2>2, <2>3 DEF StageInv, Traffic, Silent
<1> QED
  BY <1>1, <1>2, <1>3, <1>4, <1>7, MadFrame

\* A task is answered: when it is alone, as one of the copies, and after a
\* checkpoint was cancelled.
LEMMA AloneTask ==
  ASSUME Types, NEW t \in tasks, NEW a \in AnswerLine, Alone,
         tasks' = tasks \ {t}, from_mad' = Append(from_mad, a), to_mad' = to_mad,
         Asked(t) => Answered(a)'
  PROVE  Traffic'
<1>1. to_mad = <<>> /\ tasks = {t} /\ Asked(t) /\ from_mad = <<>>
  BY DEF Alone
<1>2. <<a>> \in Seq(AnswerLine) /\ Len(<<a>>) = 1 /\ <<a>>[1] = a
  BY OneFacts
<1>3. from_mad' = <<a>>
  BY <1>1, <1>2
<1>4. (from_mad[1])' = a
  BY <1>2, <1>3
<1>5. Answered(from_mad[1])'
  BY <1>1, <1>4
<1>6. Alone'
  BY <1>1, <1>2, <1>3, <1>5 DEF Alone
<1> QED
  BY <1>6 DEF Traffic

LEMMA CopyTask ==
  ASSUME Types, NEW t \in tasks, NEW a \in AnswerLine, Copying,
         tasks' = tasks \ {t}, from_mad' = Append(from_mad, a), to_mad' = to_mad,
         tm_state' = tm_state, tm_state = "PROLOG" => (Here \in dir[host])',
         a[2] = t[2],
         \A l : CopyAsked(l) => CopyAsked(l)',
         \A b : CopyAnswered(b) => CopyAnswered(b)',
         CopyAnswered(a)'
  PROVE  Traffic'
<1>1. to_mad \in Seq(Line) /\ from_mad \in Seq(AnswerLine) /\ Len(from_mad) \in Nat
  BY SeqFacts DEF Types
<1>2. /\ Len(from_mad') = Len(from_mad) + 1
      /\ \A k \in 1..Len(from_mad) : from_mad'[k] = from_mad[k]
      /\ from_mad'[Len(from_mad) + 1] = a
  BY <1>1, AppendFacts
<1>3. \A k \in 1..Len(from_mad') : \/ k \in 1..Len(from_mad) /\ from_mad'[k] = from_mad[k]
                                   \/ k = Len(from_mad) + 1 /\ from_mad'[k] = a
  BY <1>1, <1>2
<1>4. (\A k \in 1..Len(from_mad) : CopyAnswered(from_mad[k]))'
  <2> SUFFICES ASSUME NEW k \in 1..Len(from_mad') PROVE CopyAnswered(from_mad[k])'
    OBVIOUS
  <2>1. CASE k \in 1..Len(from_mad) /\ from_mad'[k] = from_mad[k]
    <3>1. PICK b : b = from_mad[k]
      OBVIOUS
    <3>2. CopyAnswered(b)'
      BY <2>1, <3>1 DEF Copying
    <3> QED
      BY <2>1, <3>1, <3>2
  <2>2. CASE k = Len(from_mad) + 1 /\ from_mad'[k] = a
    BY <2>2
  <2> QED
    BY <1>3, <2>1, <2>2
<1>5. OnceEach'
  <2>1. /\ \A k, n \in 1..Len(to_mad) : to_mad[k][2] = to_mad[n][2] => k = n
        /\ \A u, v \in tasks' : u[2] = v[2] => u = v
        /\ \A k \in 1..Len(to_mad), u \in tasks' : to_mad[k][2] # u[2]
    BY DEF Copying, OnceEach, Apart
  <2>2. \A k, n \in 1..Len(from_mad') : from_mad'[k][2] = from_mad'[n][2] => k = n
    <3> SUFFICES ASSUME NEW k \in 1..Len(from_mad'), NEW n \in 1..Len(from_mad'),
                        from_mad'[k][2] = from_mad'[n][2]
                 PROVE  k = n
      OBVIOUS
    <3>1. /\ \A i, j \in 1..Len(from_mad) : from_mad[i][2] = from_mad[j][2] => i = j
          /\ \A i \in 1..Len(from_mad) : from_mad[i][2] # a[2]
      BY DEF Copying, OnceEach, Apart
    <3>2. CASE k \in 1..Len(from_mad) /\ from_mad'[k] = from_mad[k]
      BY <1>3, <3>1, <3>2
    <3>3. CASE k = Len(from_mad) + 1 /\ from_mad'[k] = a
      BY <1>3, <3>1, <3>3
    <3> QED
      BY <1>3, <3>2, <3>3
  <2>3. \A k \in 1..Len(from_mad'), u \in tasks' : from_mad'[k][2] # u[2]
    <3> SUFFICES ASSUME NEW k \in 1..Len(from_mad'), NEW u \in tasks' PROVE from_mad'[k][2] # u[2]
      OBVIOUS
    <3>1. u \in tasks /\ u # t
      OBVIOUS
    <3>2. u[2] # a[2] /\ \A i \in 1..Len(from_mad) : from_mad[i][2] # u[2]
      BY <3>1 DEF Copying, OnceEach, Apart
    <3> QED
      BY <1>3, <3>2
  <2>4. \A k \in 1..Len(from_mad'), n \in 1..Len(to_mad) : from_mad'[k][2] # to_mad[n][2]
    <3> SUFFICES ASSUME NEW k \in 1..Len(from_mad'), NEW n \in 1..Len(to_mad)
                 PROVE  from_mad'[k][2] # to_mad[n][2]
      OBVIOUS
    <3>1. to_mad[n][2] # a[2] /\ \A i \in 1..Len(from_mad) : from_mad[i][2] # to_mad[n][2]
      BY DEF Copying, OnceEach, Apart
    <3> QED
      BY <1>3, <3>1
  <2> QED
    BY <2>1, <2>2, <2>3, <2>4 DEF OnceEach, Apart
<1>6. (\A k \in 1..Len(to_mad) : CopyAsked(to_mad[k]))'
  <2> SUFFICES ASSUME NEW k \in 1..Len(to_mad') PROVE CopyAsked(to_mad[k])'
    OBVIOUS
  <2>1. PICK l : l = to_mad[k]
    OBVIOUS
  <2>2. CopyAsked(l)'
    BY <2>1 DEF Copying
  <2> QED
    BY <2>1, <2>2
<1>7. (\A u \in tasks : CopyAsked(u))'
  <2> SUFFICES ASSUME NEW u \in tasks' PROVE CopyAsked(u)'
    OBVIOUS
  <2> QED
    BY DEF Copying
<1>8. Copying'
  BY <1>4, <1>5, <1>6, <1>7 DEF Copying
<1> QED
  BY <1>8 DEF Traffic

LEMMA CancelTask ==
  ASSUME Types, NEW t \in tasks, NEW a \in AnswerLine, Cancelling,
         tasks' = tasks \ {t}, from_mad' = Append(from_mad, a), to_mad' = to_mad,
         tm_state' = tm_state,
         a[1] = t[1], t[1] = "END" => \A u \in tasks : u[1] = "END"
  PROVE  Traffic'
<1>1. to_mad \in Seq(Line) /\ from_mad \in Seq(AnswerLine) /\ Len(from_mad) \in Nat /\ tasks \subseteq Line
  BY SeqFacts DEF Types
<1>2. /\ Len(from_mad') = Len(from_mad) + 1
      /\ \A k \in 1..Len(from_mad) : from_mad'[k] = from_mad[k]
      /\ from_mad'[Len(from_mad) + 1] = a
  BY <1>1, AppendFacts
<1>3. \A k \in 1..Len(from_mad') : \/ k \in 1..Len(from_mad) /\ from_mad'[k] = from_mad[k]
                                   \/ k = Len(from_mad) + 1 /\ from_mad'[k] = a
  BY <1>1, <1>2
<1>4. Leftover(t) /\ \A n \in 1..Len(from_mad) : from_mad[n][1] # "END"
  BY DEF Cancelling
<1>5. \A l \in Line : l[1] = "END" => l = END
  BY DEF Line, START, END
<1>6. t[1] = "END" => to_mad = <<>> /\ tasks' = {}
  BY <1>1, <1>5 DEF Cancelling
<1>7. \A k \in 1..Len(from_mad') : /\ from_mad'[k][1] \in {"START", "CP", "END"}
                                   /\ from_mad'[k][1] = "END" => k = Len(from_mad') /\ t[1] = "END"
  BY <1>2, <1>3, <1>4 DEF Cancelling, Leftover
<1>8. (\A k \in 1..Len(to_mad) : Leftover(to_mad[k]))'
  BY DEF Cancelling, Leftover
<1>9. (\A u \in tasks : Leftover(u))'
  BY DEF Cancelling, Leftover
<1>10. \A k \in 1..Len(to_mad) : to_mad[k][1] = "END" =>
         k = Len(to_mad) /\ (\A u \in tasks : u[1] # "END")
           /\ \A n \in 1..Len(from_mad) : from_mad[n][1] # "END"
  BY DEF Cancelling
<1>11. (\A k \in 1..Len(to_mad) : to_mad[k][1] = "END" =>
         k = Len(to_mad) /\ (\A u \in tasks : u[1] # "END")
           /\ \A n \in 1..Len(from_mad) : from_mad[n][1] # "END")'
  BY <1>7, <1>10
<1>12. \A u \in tasks : u[1] = "END" => to_mad = <<>>
  BY DEF Cancelling
<1>13. (\A u \in tasks : u[1] = "END" =>
         to_mad = <<>> /\ \A n \in 1..Len(from_mad) : from_mad[n][1] # "END")'
  BY <1>6, <1>7, <1>12
<1>14. (\A k \in 1..Len(from_mad) : from_mad[k][1] = "END" =>
         k = Len(from_mad) /\ to_mad = <<>> /\ tasks = {})'
  BY <1>6, <1>7
<1>15. (\A k \in 1..Len(from_mad) : from_mad[k][1] \in {"START", "CP", "END"})'
  BY <1>7
<1>16. tm_state' = "CHECKPOINT_CANCEL"
  BY DEF Cancelling
<1>17. Cancelling'
  BY <1>8, <1>9, <1>11, <1>13, <1>14, <1>15, <1>16 DEF Cancelling
<1> QED
  BY <1>17 DEF Traffic

\* What is under way when there is a task, by the kind of its line.
LEMMA TaskKinds ==
  ASSUME StageInv, NEW t \in tasks
  PROVE  /\ Alone \/ Copying \/ Cancelling
         /\ t[1] \in {"RMDIR", "MKDIR"} => Alone /\ Asked(t)
         /\ t[1] \in {"START", "END"} => Alone \/ Cancelling
         /\ t[1] = "CP" => Copying \/ Cancelling
         /\ Alone => Asked(t)
<1>1. Alone \/ Copying \/ Cancelling
  BY DEF StageInv, Traffic, Silent
<1>2. Alone => Asked(t) /\ t[1] # "CP"
  BY DEF Alone, Asked, Awaited
<1>3. Copying => t[1] = "CP"
  BY DEF Copying, CopyAsked
<1>4. Cancelling => t[1] \in {"START", "CP", "END"}
  BY DEF Cancelling, Leftover
<1> QED
  BY <1>1, <1>2, <1>3, <1>4

\* do_START, do_END.
LEMMA MadPlainStep ==
  ASSUME StageInv, Punctual, NEW t \in tasks, tasks' = tasks \ {t}, UNCHANGED <<to_mad, mad_up>>,
         UNCHANGED gwdv,
         \/ t[1] = "START" /\ MAD!MadStart
         \/ t[1] = "END" /\ MAD!MadEnd
  PROVE  StageInv'
<1>1. /\ from_mad' = Append(from_mad, <<t[1], 0, TRUE>>) /\ UNCHANGED <<dir, fetched>>
      /\ t[1] \in {"START", "END"}
      /\ t[1] = "END" => \A u \in tasks : u[1] = "END"
  BY DEF MAD!MadStart, MAD!MadEnd, MAD!Answer, MAD!store, Punctual
<1>2. PICK a \in AnswerLine : a = <<t[1], 0, TRUE>>
  BY <1>1 DEF AnswerLine
<1>3. a[1] = t[1] /\ a[3] /\ a[1] \notin {"RMDIR", "MKDIR"}
  BY <1>1, <1>2
<1>4. Types
  BY DEF StageInv
<1>5. from_mad' \in Seq(AnswerLine)
  BY <1>1, <1>2, <1>4, AppendFacts DEF Types
<1>6. from_mad' = Append(from_mad, a)
  BY <1>1, <1>2
<1>7. Traffic'
  <2>1. CASE Alone
    <3>1. Asked(t) => Answered(a)
      BY <1>3 DEF Asked, Answered
    <3>2. Answered(a)' <=> Answered(a)
      BY <1>1, MeaningFrame
    <3> QED
      BY <1>4, <1>6, <2>1, <3>1, <3>2, AloneTask
  <2>2. CASE Cancelling
    <3>1. tm_state' = tm_state
      BY DEF gwdv
    <3> QED
      BY <1>1, <1>3, <1>4, <1>6, <2>2, <3>1, CancelTask
  <2> QED
    BY <1>1, <2>1, <2>2, TaskKinds
<1>8. to_mad' \in Seq(Line) /\ tasks' \subseteq Line /\ mad_up' \in BOOLEAN
      /\ (~mad_up' => to_mad' = <<>> /\ tasks' = {})
  BY <1>4 DEF Types
<1> QED
  BY <1>1, <1>5, <1>7, <1>8, MadFrame

\* What a prolog or an epilog waits for may change the directory it works in.
LEMMA StageDirFrame ==
  ASSUME StageInv, UNCHANGED gwdv, fetched' = fetched,
         tm_state \notin {"INIT", "CHECKPOINT"},
         dir' = [h \in Hosts |-> dir'[h]],
         job_state = "MIGR_EPILOG" => dir'[host] = dir[host],
         tm_state = "PROLOG" => Fresh(xfrs),
         Traffic', UNCHANGED <<to_mad, mad_up>>, tasks' \subseteq tasks,
         from_mad' \in Seq(AnswerLine)
  PROVE  StageInv'
<1>1. UNCHANGED <<job_state, tm_state, host, prev, restarted, records, run, xfrs, chk_xfrs,
                  mandatory, tmq, dmq>>
  BY DEF gwdv, hist, lists
<1>2. run = NoHost /\ dmq = <<>> /\ tmq = <<>> /\ job_state \in Prologs \union Epilogs
  BY DEF StageInv, Turn, Types, TypeOK, TMStates
<1>3. Types'
  BY <1>1 DEF StageInv, Types, TypeOK
<1>4. Placed'
  <2>1. job_state = "MIGR_EPILOG" => Staged'
    BY <1>1 DEF StageInv, Placed, Staged
  <2> QED
    BY <1>1, <1>2, <2>1 DEF StageInv, Placed, InputsThere, Prologs, Epilogs
<1>5. FilesListed'
  BY <1>1 DEF StageInv, FilesListed
<1>6. Progress'
  <2>1. tm_state = "PROLOG" => \A i \in 1..Len(xfrs) : ~xfrs[i].success /\ xfrs[i].counter = -1
    <3>1. DOMAIN xfrs = 1..Len(xfrs)
      BY SeqFacts DEF StageInv, Types
    <3> QED
      BY <3>1 DEF StageInv, Types, TypeOK, XfrOK, Fresh
  <2>2. tm_state' = "PROLOG" => \A i \in 1..Len(xfrs') :
           /\ xfrs'[i].success => xfrs'[i].file \in dir'[host']
           /\ xfrs'[i].counter # -1 => Here \in dir'[host']
    BY <1>1, <2>1
  <2> QED
    BY <1>1, <1>2, <2>2 DEF StageInv, Progress, Fresh, Here
<1>7. Turn'
  BY <1>1, <1>2 DEF StageInv, Turn
<1> QED
  BY <1>3, <1>4, <1>5, <1>6, <1>7 DEF StageInv

\* do_RMDIR, do_MKDIR.
LEMMA MadRmdirStep ==
  ASSUME StageInv, Punctual, NEW t \in tasks, tasks' = tasks \ {t}, UNCHANGED <<to_mad, mad_up>>,
         UNCHANGED gwdv, t[1] = "RMDIR", MAD!MadRmdir(t[2])
  PROVE  StageInv'
<1>1. Alone /\ Asked(t) /\ Awaited("RMDIR") /\ t[2] = JobDir
  BY TaskKinds DEF Asked
<1>2. Types
  BY DEF StageInv
<1>3. t \in Line
  BY <1>2 DEF Types
<1>4. t[2] \in Hosts
  BY <1>3 DEF Line, START, END
<1>5. PICK h \in Hosts : t[2] = h
  BY <1>4
<1>6. PICK ok \in BOOLEAN :
        /\ from_mad' = Append(from_mad, <<"RMDIR", 0, ok>>) /\ fetched' = fetched
        /\ \/ dir' = [dir EXCEPT ![h] = {}]
           \/ dir' = dir /\ "RMDIR" \in Faults
  BY <1>5, MadAssumption DEF MAD!MadRmdir, MAD!Answer, MAD!FailedAnswer, MAD!store
<1>7. PICK a \in AnswerLine : a = <<"RMDIR", 0, ok>>
  BY DEF AnswerLine
<1>8. /\ dir' = [g \in Hosts |-> dir'[g]] /\ \A g \in Hosts : g # h => dir'[g] = dir[g]
      /\ "RMDIR" \notin Faults => dir'[h] = {}
  BY <1>2, <1>6 DEF Types
<1>9. UNCHANGED <<job_state, tm_state, host, prev, run, xfrs, chk_xfrs, mandatory>>
  BY DEF gwdv, hist, lists
<1>10. /\ tm_state \in {"PROLOG", "PROLOG_FAILED", "EPILOG", "EPILOG_FAILED"}
       /\ tm_state = "PROLOG" => Fresh(xfrs)
       /\ job_state \in Prologs \union Epilogs
  <2>1. /\ tm_state \in {"PROLOG", "PROLOG_FAILED", "EPILOG", "EPILOG_FAILED"}
        /\ tm_state = "PROLOG" => Fresh(xfrs)
    BY <1>1 DEF Awaited
  <2> QED
    BY <2>1 DEF StageInv, Turn
<1>11. job_state = "MIGR_EPILOG" => h = prev /\ prev # host
  BY <1>1, <1>5 DEF JobDir, StageInv, Placed
<1>12. job_state # "MIGR_EPILOG" => h = host
  BY <1>1, <1>5 DEF JobDir
<1>13. host \in Hosts
  BY <1>10 DEF StageInv, Placed, Prologs, Epilogs
<1>14. Answered(a)'
  <2>1. Awaited("RMDIR")'
    BY <1>1, <1>6, <1>9 DEF Awaited, Fresh, Settled, Saved
  <2>2. job_state # "MIGR_EPILOG" /\ "RMDIR" \notin Faults => dir'[host] = {}
    BY <1>8, <1>12
  <2>3. Removed'
    BY <1>9, <2>2 DEF Removed
  <2> QED
    BY <1>7, <2>1, <2>3 DEF Answered
<1>15. from_mad' = Append(from_mad, a) /\ from_mad' \in Seq(AnswerLine)
  BY <1>2, <1>6, <1>7, AppendFacts DEF Types
<1>16. Traffic'
  BY <1>1, <1>2, <1>14, <1>15, AloneTask
<1> QED
  BY <1>6, <1>8, <1>10, <1>11, <1>13, <1>15, <1>16, StageDirFrame

LEMMA MadMkdirStep ==
  ASSUME StageInv, Punctual, NEW t \in tasks, tasks' = tasks \ {t}, UNCHANGED <<to_mad, mad_up>>,
         UNCHANGED gwdv, t[1] = "MKDIR", MAD!MadMkdir(t[2])
  PROVE  StageInv'
<1>1. Alone /\ Asked(t) /\ Awaited("MKDIR") /\ t[2] = JobDir
  BY TaskKinds DEF Asked
<1>2. Types
  BY DEF StageInv
<1>3. t \in Line
  BY <1>2 DEF Types
<1>4. t[2] \in Hosts
  BY <1>3 DEF Line, START, END
<1>5. PICK h \in Hosts : t[2] = h
  BY <1>4
<1>6. PICK ok \in BOOLEAN :
        /\ from_mad' = Append(from_mad, <<"MKDIR", 0, ok>>) /\ fetched' = fetched
        /\ dir' = [dir EXCEPT ![h] = IF ok THEN {Here} ELSE {}]
  <2>1. \/ /\ from_mad' = Append(from_mad, <<"MKDIR", 0, TRUE>>) /\ fetched' = fetched
           /\ dir' = [dir EXCEPT ![h] = {Here}]
        \/ /\ from_mad' = Append(from_mad, <<"MKDIR", 0, FALSE>>) /\ fetched' = fetched
           /\ dir' = [dir EXCEPT ![h] = {}]
    <3>1. SwallowErrors = FALSE
      BY MadAssumption DEF Punctual
    <3> QED
      BY <1>5, <3>1 DEF MAD!MadMkdir, MAD!Answer, MAD!FailedAnswer, Here
  <2> QED
    BY <2>1
<1>7. PICK a \in AnswerLine : a = <<"MKDIR", 0, ok>>
  BY DEF AnswerLine
<1>8. dir' = [g \in Hosts |-> dir'[g]] /\ (ok => Here \in dir'[h])
  BY <1>2, <1>6 DEF Types
<1>9. UNCHANGED <<job_state, tm_state, host, prev, run, xfrs, chk_xfrs, mandatory>>
  BY DEF gwdv, hist, lists
<1>10. tm_state = "PROLOG" /\ Fresh(xfrs) /\ job_state \in Prologs
  BY <1>1 DEF Awaited, StageInv, Turn
<1>11. job_state # "MIGR_EPILOG" /\ h = host
  BY <1>1, <1>5, <1>10 DEF JobDir, Prologs
<1>12. Answered(a)'
  <2>1. Awaited("MKDIR")'
    BY <1>9, <1>10 DEF Awaited, Fresh
  <2>2. ok => (Here \in dir[host])'
    BY <1>8, <1>9, <1>11 DEF Here
  <2> QED
    BY <1>7, <2>1, <2>2 DEF Answered
<1>13. from_mad' = Append(from_mad, a) /\ from_mad' \in Seq(AnswerLine)
  BY <1>2, <1>6, <1>7, AppendFacts DEF Types
<1>14. Traffic'
  BY <1>1, <1>2, <1>12, <1>13, AloneTask
<1> QED
  BY <1>6, <1>8, <1>10, <1>11, <1>13, <1>14, StageDirFrame

\* do_CP: a copy adds a file, to the directory of the job only in a prolog.
LEMMA CopyFrame ==
  ASSUME StageInv, UNCHANGED gwdv, fetched \subseteq fetched',
         dir' = [h \in Hosts |-> dir'[h]], \A h \in Hosts : dir[h] \subseteq dir'[h],
         tm_state # "PROLOG" => dir' = dir,
         Traffic', UNCHANGED <<to_mad, mad_up>>, tasks' \subseteq tasks,
         from_mad' \in Seq(AnswerLine)
  PROVE  StageInv'
<1>1. UNCHANGED <<job_state, tm_state, host, prev, restarted, records, run, xfrs, chk_xfrs,
                  mandatory, tmq, dmq>>
  BY DEF gwdv, hist, lists
<1>2. tm_state = "PROLOG" =>
        run = NoHost /\ dmq = <<>> /\ tmq = <<>> /\ job_state \in Prologs /\ host \in Hosts
  BY DEF StageInv, Turn, Placed, Prologs
<1>3. Types'
  BY <1>1 DEF StageInv, Types, TypeOK
<1>4. Placed'
  <2>1. CASE tm_state = "PROLOG"
    BY <1>1, <1>2, <2>1 DEF StageInv, Placed, InputsThere, Prologs
  <2>2. CASE tm_state # "PROLOG"
    BY <1>1, <2>2 DEF StageInv, Placed, InputsThere, Staged, Removed
  <2> QED
    BY <2>1, <2>2
<1>5. FilesListed'
  BY <1>1 DEF StageInv, FilesListed
<1>6. Progress'
  <2>1. tm_state' = "PROLOG" => \A i \in 1..Len(xfrs') :
           /\ xfrs'[i].success => xfrs'[i].file \in dir'[host']
           /\ xfrs'[i].counter # -1 => Here \in dir'[host']
    BY <1>1, <1>2 DEF StageInv, Progress
  <2>2. tm_state' = "EPILOG" => \A i \in 1..Len(xfrs') :
           xfrs'[i].success /\ xfrs'[i].to = "local" => xfrs'[i].file \in fetched'
    BY <1>1 DEF StageInv, Progress
  <2> QED
    BY <1>1, <2>1, <2>2 DEF StageInv, Progress, Fresh, Here
<1>7. Turn'
  <2>1. CASE tm_state = "PROLOG"
    BY <1>1, <1>2, <2>1 DEF StageInv, Turn
  <2>2. CASE tm_state # "PROLOG"
    <3>1. \A m : Fits(m) => Fits(m)'
      BY <1>1, <2>2 DEF Fits, Staged, Removed, Saved
    <3> QED
      BY <1>1, <3>1 DEF StageInv, Turn
  <2> QED
    BY <2>1, <2>2
<1> QED
  BY <1>3, <1>4, <1>5, <1>6, <1>7 DEF StageInv

LEMMA MadCopyStep ==
  ASSUME StageInv, Punctual, NEW t \in tasks, tasks' = tasks \ {t}, UNCHANGED <<to_mad, mad_up>>,
         UNCHANGED gwdv, t[1] = "CP", MAD!MadCopy(t[2], t[3], t[4], t[5])
  PROVE  StageInv'
<1>1. Types
  BY DEF StageInv
<1>2. PICK i \in Nat, f \in File, from \in Place, to \in Place : t = <<"CP", i, f, from, to>>
  <2>1. t \in Line
    BY <1>1 DEF Types
  <2>2. t \in {"CP"} \X Nat \X File \X Place \X Place
    BY <2>1 DEF Line, START, END
  <2> QED
    BY <2>2
<1>3. t[2] = i /\ t[3] = f /\ t[5] = to
  BY <1>2
<1>4. PICK ok \in BOOLEAN :
        /\ from_mad' = Append(from_mad, <<"CP", i, ok>>)
        /\ ok =>
             /\ dir' = IF to \in Hosts THEN [dir EXCEPT ![to] = @ \union {f}] ELSE dir
             /\ fetched' = IF to = "local" THEN fetched \union {f} ELSE fetched
        /\ ~ok => UNCHANGED <<dir, fetched>>
  <2>1. SwallowErrors = FALSE
    BY MadAssumption DEF Punctual
  <2>2. \/ /\ from_mad' = Append(from_mad, <<"CP", i, TRUE>>)
           /\ dir' = IF to \in Hosts THEN [dir EXCEPT ![to] = @ \union {f}] ELSE dir
           /\ fetched' = IF to = "local" THEN fetched \union {f} ELSE fetched
        \/ from_mad' = Append(from_mad, <<"CP", i, FALSE>>) /\ UNCHANGED <<dir, fetched>>
    BY <1>3, <2>1 DEF MAD!MadCopy, MAD!Answer, MAD!FailedAnswer, MAD!store
  <2> QED
    BY <2>2
<1>5. PICK a \in AnswerLine : a = <<"CP", i, ok>>
  BY DEF AnswerLine
<1>6. a[1] = "CP" /\ a[2] = i /\ a[3] = ok
  BY <1>5
<1>7. from_mad' = Append(from_mad, a) /\ from_mad' \in Seq(AnswerLine)
  BY <1>1, <1>4, <1>5, AppendFacts DEF Types
<1>8. /\ dir' = [h \in Hosts |-> dir'[h]] /\ \A h \in Hosts : dir[h] \subseteq dir'[h]
      /\ fetched \subseteq fetched'
      /\ to \notin Hosts => dir' = dir
      /\ ok /\ to \in Hosts => f \in dir'[to]
      /\ ok /\ to = "local" => f \in fetched'
  BY <1>1, <1>4 DEF Types
<1>9. UNCHANGED <<job_state, tm_state, host, prev, run, xfrs, chk_xfrs, mandatory>> /\ List' = List
  BY DEF gwdv, hist, lists, List
<1>10. CASE Cancelling
  <2>1. to \notin Hosts /\ tm_state # "PROLOG"
    BY <1>3, <1>10 DEF Cancelling, Leftover
  <2>2. Traffic'
    BY <1>1, <1>6, <1>7, <1>9, <1>10, CancelTask
  <2> QED
    BY <1>7, <1>8, <2>1, <2>2, CopyFrame
<1>11. CASE Copying
  <2>1. CopyAsked(t) /\ tm_state \in {"PROLOG", "EPILOG", "CHECKPOINT"}
    BY <1>11 DEF Copying
  <2>2. /\ Open(i) /\ f = List[i].file
        /\ to = IF tm_state = "PROLOG" THEN host ELSE List[i].to
    BY <1>3, <2>1 DEF CopyAsked
  <2>3. tm_state = "PROLOG" => host \in Hosts
    BY DEF StageInv, Turn, Placed, Prologs
  <2>4. tm_state # "PROLOG" => to \notin Hosts
    <3>1. CASE tm_state = "CHECKPOINT"
      BY <2>2, <3>1, TMAssumption DEF List, Open, StageInv, FilesListed
    <3>2. CASE tm_state = "EPILOG"
      BY <2>2, <3>2, TMAssumption DEF List, Open, StageInv, FilesListed, Turn
    <3> QED
      BY <2>1, <3>1, <3>2
  <2>5. \A l : CopyAsked(l) => CopyAsked(l)'
    BY <1>9 DEF CopyAsked, Open
  <2>6. \A b : CopyAnswered(b) => CopyAnswered(b)'
    BY <1>8, <1>9, <2>3 DEF CopyAnswered, Open
  <2>7. CopyAnswered(a)'
    <3>1. Open(i)'
      BY <1>9, <2>2 DEF Open
    <3>2. ok /\ tm_state = "PROLOG" => f \in dir'[host]
      BY <1>8, <2>2, <2>3
    <3>3. ok /\ tm_state = "EPILOG" /\ List[i].to = "local" => f \in fetched'
      BY <1>8, <2>2
    <3> QED
      BY <1>6, <1>9, <2>2, <3>1, <3>2, <3>3 DEF CopyAnswered
  <2>8. tm_state = "PROLOG" => (Here \in dir[host])'
    BY <1>8, <1>9, <1>11, <2>3 DEF Copying, Here
  <2>9. Traffic'
    BY <1>1, <1>3, <1>6, <1>7, <1>9, <1>11, <2>5, <2>6, <2>7, <2>8, CopyTask
  <2> QED
    BY <1>7, <1>8, <2>4, <2>9, CopyFrame
<1> QED
  BY <1>10, <1>11, TaskKinds

\* The process dies: what it has answered before is still read.
LEMMA MadCrashStep ==
  ASSUME StageInv, MAD!MadCrash, UNCHANGED gwdv
  PROVE  StageInv'
<1>1. from_mad \in Seq(AnswerLine) /\ Len(from_mad) \in Nat
  BY SeqFacts DEF StageInv, Types
<1>2. /\ mad_up' = FALSE /\ to_mad' = <<>> /\ tasks' = {} /\ UNCHANGED <<dir, fetched>>
  BY DEF MAD!MadCrash, MAD!store
<1>3. PICK n \in 0..Len(from_mad) : from_mad' = SubSeq(from_mad, 1, n)
  BY DEF MAD!MadCrash
<1>4. /\ from_mad' \in Seq(AnswerLine) /\ Len(from_mad') = n /\ n \in Nat /\ n <= Len(from_mad)
      /\ \A k \in 1..n : k \in 1..Len(from_mad) /\ from_mad'[k] = from_mad[k]
  BY <1>1, <1>3
<1>5. /\ \A a : Answered(a)' <=> Answered(a)
      /\ \A a : CopyAnswered(a)' <=> CopyAnswered(a)
  BY <1>2, MeaningFrame
<1>6. UNCHANGED <<tm_state, host>>
  BY DEF gwdv, hist
<1>7. to_mad' \in Seq(Line) /\ tasks' \subseteq Line /\ mad_up' \in BOOLEAN
  <2>1. <<>> \in Seq(Line)
    OBVIOUS
  <2>2. to_mad' \in Seq(Line)
    BY <1>2, <2>1
  <2>3. tasks' \subseteq Line
    BY <1>2
  <2>4. mad_up' \in BOOLEAN
    BY <1>2
  <2> QED
    BY <2>2, <2>3, <2>4
<1>8. CASE n = 0
  <2>1. from_mad' = <<>>
    BY <1>4, <1>8, SeqFacts
  <2>2. Traffic'
    BY <1>2, <2>1 DEF Traffic, Silent
  <2> QED
    BY <1>2, <1>4, <1>7, <2>2, MadFrame
<1>9. CASE n # 0
  <2>1. CASE Alone
    <3>1. n = 1 /\ Answered(from_mad[1]) /\ Len(from_mad) = 1
      BY <1>1, <1>4, <1>9, <2>1 DEF Alone
    <3>2. PICK a : a = from_mad[1]
      OBVIOUS
    <3>3. (from_mad[1])' = a
      BY <1>4, <3>1, <3>2
    <3>4. Answered(from_mad[1])'
      BY <1>5, <3>1, <3>2, <3>3
    <3>5. Alone'
      BY <1>2, <1>4, <3>1, <3>4 DEF Alone
    <3>6. Traffic'
      BY <3>5 DEF Traffic
    <3> QED
      BY <1>2, <1>4, <1>7, <3>6, MadFrame
  <2>2. CASE Copying
    <3>1. (\A k \in 1..Len(from_mad) : CopyAnswered(from_mad[k]))'
      <4> SUFFICES ASSUME NEW k \in 1..Len(from_mad') PROVE CopyAnswered(from_mad[k])'
        OBVIOUS
      <4>1. PICK a : a = from_mad[k]
        OBVIOUS
      <4>2. (from_mad[k])' = a /\ CopyAnswered(a)
        BY <1>4, <2>2, <4>1 DEF Copying
      <4> QED
        BY <1>5, <4>2
    <3>2. OnceEach'
      BY <1>2, <1>4, <2>2 DEF Copying, OnceEach, Apart
    <3>3. Copying'
      BY <1>2, <1>6, <2>2, <3>1, <3>2 DEF Copying
    <3>6. Traffic'
      BY <3>3 DEF Traffic
    <3> QED
      BY <1>2, <1>4, <1>7, <3>6, MadFrame
  <2>3. CASE Cancelling
    <3>1. \A k \in 1..Len(from_mad') : from_mad'[k][1] \in {"START", "CP", "END"}
      BY <1>4, <2>3 DEF Cancelling
    <3>2. \A k \in 1..Len(from_mad') : from_mad'[k][1] = "END" => k = Len(from_mad')
      <4> SUFFICES ASSUME NEW k \in 1..Len(from_mad'), from_mad'[k][1] = "END"
                   PROVE  k = Len(from_mad')
        OBVIOUS
      <4>1. k = Len(from_mad)
        BY <1>4, <2>3 DEF Cancelling
      <4> QED
        BY <1>1, <1>4, <4>1
    <3>3. Cancelling'
      BY <1>2, <1>6, <2>3, <3>1, <3>2 DEF Cancelling
    <3>6. Traffic'
      BY <3>3 DEF Traffic
    <3> QED
      BY <1>2, <1>4, <1>7, <3>6, MadFrame
  <2>4. ~Silent
    BY <1>1, <1>4, <1>9 DEF Silent
  <2> QED
    BY <2>1, <2>2, <2>3, <2>4 DEF StageInv, Traffic
<1> QED
  BY <1>8, <1>9

LEMMA MadStepInv ==
  ASSUME StageInv, Punctual, MAD!MadNext, UNCHANGED gwdv
  PROVE  StageInv'
<1>1. CASE MAD!MadRead
  BY <1>1, MadReadStep
<1>2. CASE MAD!MadCrash
  BY <1>2, MadCrashStep
<1>3. ASSUME NEW t \in tasks, MAD!MadTask(t)
      PROVE  StageInv'
  <2>1. tasks' = tasks \ {t} /\ UNCHANGED <<to_mad, mad_up>>
    BY <1>3 DEF MAD!MadTask
  <2>2. CASE (t[1] = "START" /\ MAD!MadStart) \/ (t[1] = "END" /\ MAD!MadEnd)
    BY <2>1, <2>2, MadPlainStep
  <2>3. CASE t[1] = "RMDIR" /\ MAD!MadRmdir(t[2])
    BY <2>1, <2>3, MadRmdirStep
  <2>4. CASE t[1] = "MKDIR" /\ MAD!MadMkdir(t[2])
    BY <2>1, <2>4, MadMkdirStep
  <2>5. CASE t[1] = "CP" /\ MAD!MadCopy(t[2], t[3], t[4], t[5])
    BY <2>1, <2>5, MadCopyStep
  <2> QED
    BY <1>3, <2>2, <2>3, <2>4, <2>5 DEF MAD!MadTask
<1> QED
  BY <1>1, <1>2, <1>3 DEF MAD!MadNext

-----------------------------------------------------------------------------
(* Copies that are asked for.                                              *)

\* The copies of r are asked for, after those that are under way.
LEMMA WriteCopies ==
  ASSUME Types, NEW r \in Seq(Line), NEW f \in Seq(AnswerLine),
         Write(r), from_mad' = f, tasks' = tasks,
         tm_state' \in {"PROLOG", "EPILOG", "CHECKPOINT"},
         (tm_state = "PROLOG" => Here \in dir[host])',
         \A k \in 1..Len(to_mad) : \A l : l = to_mad[k] => CopyAsked(l)',
         \A t \in tasks : CopyAsked(t)',
         \A k \in 1..Len(f) : CopyAnswered(f[k])',
         \A k \in 1..Len(r) : CopyAsked(r[k])',
         Apart(to_mad, tasks, f),
         \A k, n \in 1..Len(r) : r[k][2] = r[n][2] => k = n,
         \A k \in 1..Len(r) : /\ \A n \in 1..Len(to_mad) : to_mad[n][2] # r[k][2]
                              /\ \A t \in tasks : t[2] # r[k][2]
                              /\ \A n \in 1..Len(f) : f[n][2] # r[k][2]
  PROVE  Traffic' /\ to_mad' \in Seq(Line) /\ (~mad_up => to_mad' = <<>>)
<1>1. to_mad \in Seq(Line) /\ tasks \subseteq Line /\ (~mad_up => to_mad = <<>>)
  BY DEF Types
<1>2. /\ to_mad' \in Seq(Line) /\ (~mad_up => to_mad' = <<>>)
      /\ \A k \in 1..Len(to_mad') :
           \/ k \in 1..Len(to_mad) /\ to_mad'[k] = to_mad[k]
           \/ k - Len(to_mad) \in 1..Len(r) /\ to_mad'[k] = r[k - Len(to_mad)]
  <2>1. CASE mad_up
    <3> DEFINE w == to_mad \o r
    <3>1. to_mad' = w
      BY <2>1 DEF Write
    <3>2. /\ w \in Seq(Line)
          /\ \A k \in 1..Len(to_mad) : w[k] = to_mad[k]
          /\ \A k \in 1..Len(w) : k > Len(to_mad) =>
               k - Len(to_mad) \in 1..Len(r) /\ w[k] = r[k - Len(to_mad)]
      BY <1>1, ConcatFacts
    <3> HIDE DEF w
    <3>3. Len(to_mad) \in Nat /\ Len(w) \in Nat
      BY <1>1, <3>2
    <3>4. ASSUME NEW k \in 1..Len(w)
          PROVE  \/ k \in 1..Len(to_mad) /\ w[k] = to_mad[k]
                 \/ k - Len(to_mad) \in 1..Len(r) /\ w[k] = r[k - Len(to_mad)]
      <4>1. CASE k \in 1..Len(to_mad)
        BY <3>2, <4>1
      <4>2. CASE k > Len(to_mad)
        BY <3>2, <4>2
      <4> QED
        BY <3>3, <4>1, <4>2
    <3> QED
      BY <2>1, <3>1, <3>2, <3>4
  <2>2. CASE ~mad_up
    BY <1>1, <2>2 DEF Write
  <2> QED
    BY <2>1, <2>2
<1>3. (\A k \in 1..Len(to_mad) : CopyAsked(to_mad[k]))'
  <2> SUFFICES ASSUME NEW k \in 1..Len(to_mad') PROVE CopyAsked(to_mad[k])'
    OBVIOUS
  <2>1. PICK l : l = to_mad'[k]
    OBVIOUS
  <2>2. CopyAsked(l)'
    BY <1>2, <2>1
  <2> QED
    BY <2>1, <2>2
<1>4. (\A t \in tasks : CopyAsked(t))'
  OBVIOUS
<1>5. (\A k \in 1..Len(from_mad) : CopyAnswered(from_mad[k]))'
  OBVIOUS
<1>6. OnceEach'
  <2>1. Len(to_mad) \in Nat /\ Len(to_mad') \in Nat
    BY <1>1, <1>2
  <2>2. \A k, n \in 1..Len(to_mad') : to_mad'[k][2] = to_mad'[n][2] => k = n
    <3> SUFFICES ASSUME NEW k \in 1..Len(to_mad'), NEW n \in 1..Len(to_mad'),
                        to_mad'[k][2] = to_mad'[n][2]
                 PROVE  k = n
      OBVIOUS
    <3>1. CASE k \in 1..Len(to_mad) /\ to_mad'[k] = to_mad[k]
      <4>1. CASE n \in 1..Len(to_mad) /\ to_mad'[n] = to_mad[n]
        BY <3>1, <4>1 DEF Apart
      <4>2. CASE n - Len(to_mad) \in 1..Len(r) /\ to_mad'[n] = r[n - Len(to_mad)]
        <5>1. to_mad[k][2] # r[n - Len(to_mad)][2]
          BY <3>1, <4>2
        <5> QED
          BY <3>1, <4>2, <5>1
      <4> QED
        BY <1>2, <4>1, <4>2
    <3>2. CASE k - Len(to_mad) \in 1..Len(r) /\ to_mad'[k] = r[k - Len(to_mad)]
      <4>1. n - Len(to_mad) \in 1..Len(r) /\ to_mad'[n] = r[n - Len(to_mad)]
        BY <1>2, <3>2
      <4>2. k - Len(to_mad) = n - Len(to_mad)
        BY <3>2, <4>1
      <4> QED
        BY <2>1, <4>2
    <3> QED
      BY <1>2, <3>1, <3>2
  <2>3. \A k \in 1..Len(to_mad'), t \in tasks : to_mad'[k][2] # t[2]
    <3> SUFFICES ASSUME NEW k \in 1..Len(to_mad'), NEW t \in tasks
                 PROVE  to_mad'[k][2] # t[2]
      OBVIOUS
    <3>1. CASE k \in 1..Len(to_mad) /\ to_mad'[k] = to_mad[k]
      BY <3>1 DEF Apart
    <3>2. CASE k - Len(to_mad) \in 1..Len(r) /\ to_mad'[k] = r[k - Len(to_mad)]
      <4>1. t[2] # r[k - Len(to_mad)][2]
        BY <3>2
      <4> QED
        BY <3>2, <4>1
    <3> QED
      BY <1>2, <3>1, <3>2
  <2>4. \A k \in 1..Len(f), n \in 1..Len(to_mad') : f[k][2] # to_mad'[n][2]
    <3> SUFFICES ASSUME NEW k \in 1..Len(f), NEW n \in 1..Len(to_mad')
                 PROVE  f[k][2] # to_mad'[n][2]
      OBVIOUS
    <3>1. CASE n \in 1..Len(to_mad) /\ to_mad'[n] = to_mad[n]
      BY <3>1 DEF Apart
    <3>2. CASE n - Len(to_mad) \in 1..Len(r) /\ to_mad'[n] = r[n - Len(to_mad)]
      <4>1. f[k][2] # r[n - Len(to_mad)][2]
        BY <3>2
      <4> QED
        BY <3>2, <4>1
    <3> QED
      BY <1>2, <3>1, <3>2
  <2>5. /\ \A t, u \in tasks : t[2] = u[2] => t = u
        /\ \A k, n \in 1..Len(f) : f[k][2] = f[n][2] => k = n
        /\ \A k \in 1..Len(f), t \in tasks : f[k][2] # t[2]
    BY DEF Apart
  <2>6. Apart(to_mad', tasks, f)
    BY <2>2, <2>3, <2>4, <2>5 DEF Apart
  <2>7. OnceEach' = Apart(to_mad', tasks', from_mad')
    BY DEF OnceEach
  <2> QED
    BY <2>6, <2>7
<1>7. Copying'
  BY <1>3, <1>4, <1>5, <1>6 DEF Copying
<1> QED
  BY <1>2, <1>7 DEF Traffic

\* The line that copies an entry of a list.
LEMMA CopyLine ==
  ASSUME NEW x \in Seq(XfrType), NEW i \in 1..Len(x), JobDir \in Hosts
  PROVE  /\ CP(x, i) \in Line /\ CP(x, i)[1] = "CP" /\ CP(x, i)[2] = i
         /\ CP(x, i)[3] = x[i].file
         /\ CP(x, i)[5] = IF x[i].to = "job" THEN JobDir ELSE x[i].to
<1>1. x[i] \in XfrType /\ i \in Nat
  OBVIOUS
<1>2. x[i].file \in File /\ x[i].from \in Place /\ x[i].to \in Place
  BY <1>1 DEF XfrType
<1>3. \A p \in Place : Where(p) \in Place
  BY DEF Where, Place
<1>4. CP(x, i) = <<"CP", i, x[i].file, Where(x[i].from), Where(x[i].to)>>
  BY DEF CP
<1>5. CP(x, i) \in Line
  BY <1>1, <1>2, <1>3, <1>4 DEF Line
<1> QED
  BY <1>4, <1>5 DEF Where

\* Where the lists that are copied go.
LEMMA Destination ==
  ASSUME StageInv, NEW i \in 1..Len(List),
         tm_state \in {"PROLOG", "EPILOG", "CHECKPOINT"}
  PROVE  (IF List[i].to = "job" THEN JobDir ELSE List[i].to)
           = IF tm_state = "PROLOG" THEN host ELSE List[i].to
<1>1. CASE tm_state = "PROLOG"
  <2>1. job_state \in Prologs /\ List[i].to = "job"
    BY <1>1 DEF List, StageInv, Turn, FilesListed
  <2>2. JobDir = host
    BY <2>1 DEF JobDir, Prologs
  <2> QED
    BY <1>1, <2>1, <2>2
<1>2. CASE tm_state = "EPILOG"
  <2>1. List[i].to \in {"local", "server"}
    BY <1>2 DEF List, StageInv, Turn, FilesListed
  <2> QED
    BY <1>2, <2>1
<1>3. CASE tm_state = "CHECKPOINT"
  <2>1. List[i].to = "server"
    BY <1>3 DEF List, StageInv, FilesListed
  <2> QED
    BY <1>3, <2>1
<1> QED
  BY <1>1, <1>2, <1>3

LEMMA JobDirType ==
  ASSUME StageInv, job_state # "PENDING"
  PROVE  JobDir \in Hosts
  BY DEF StageInv, Placed, JobDir

-----------------------------------------------------------------------------
(* The timer.                                                              *)

LEMMA SmallestOf ==
  ASSUME NEW S, S \subseteq Nat, S # {}
  PROVE  \E i \in S : \A k \in S : i <= k
<1> DEFINE Less == {p \in Nat \X Nat : p[1] < p[2]}
<1>1. IsWellFoundedOn(Less, Nat)
  BY NatLessThanWellFounded DEF OpToRel
<1>2. PICK i \in S : \A k \in S : <<k, i>> \notin Less
  <2> HIDE DEF Less
  <2> QED
    BY <1>1, WFMin
<1>3. ASSUME NEW k \in S PROVE i <= k
  <2>1. k \in Nat /\ i \in Nat /\ <<k, i>> \notin Less
    BY <1>2
  <2> QED
    BY <2>1
<1> QED
  BY <1>3

UpTo(A, i) == {j \in A : j <= i}

LEMMA UpToFacts ==
  ASSUME NEW n \in Nat, NEW A \in SUBSET (1..n)
  PROVE  /\ UpTo(A, 0) = {} /\ UpTo(A, n) = A
         /\ \A i \in 0..n : IsFiniteSet(UpTo(A, i)) /\ Cardinality(UpTo(A, i)) \in Nat
         /\ \A i \in 1..n :
              /\ i \in A => Cardinality(UpTo(A, i)) = Cardinality(UpTo(A, i - 1)) + 1
              /\ i \notin A => Cardinality(UpTo(A, i)) = Cardinality(UpTo(A, i - 1))
<1>1. IsFiniteSet(1..n)
  BY FS_Interval
<1>2. IsFiniteSet(A)
  BY <1>1, FS_Subset
<1>a. \A j \in A : j \in Nat /\ 1 <= j /\ j <= n
  OBVIOUS
<1>b. \A i \in Int : UpTo(A, i) \subseteq A /\ \A j \in A : j \in UpTo(A, i) <=> j <= i
  BY DEF UpTo
<1>3. UpTo(A, 0) = {} /\ UpTo(A, n) = A
  <2>1. \A j \in A : j \notin UpTo(A, 0) /\ j \in UpTo(A, n)
    BY <1>a, <1>b
  <2>2. UpTo(A, 0) \subseteq A /\ UpTo(A, n) \subseteq A
    BY <1>b
  <2> QED
    BY <2>1, <2>2
<1>4. ASSUME NEW i \in Int
      PROVE  IsFiniteSet(UpTo(A, i)) /\ Cardinality(UpTo(A, i)) \in Nat
  <2>1. UpTo(A, i) \in SUBSET A
    BY DEF UpTo
  <2>2. IsFiniteSet(UpTo(A, i))
    BY <1>2, <2>1, FS_Subset
  <2> QED
    BY <2>2, FS_CardinalityType
<1>5. ASSUME NEW i \in 1..n
      PROVE  /\ i \in A => Cardinality(UpTo(A, i)) = Cardinality(UpTo(A, i - 1)) + 1
             /\ i \notin A => Cardinality(UpTo(A, i)) = Cardinality(UpTo(A, i - 1))
  <2>1. CASE i \in A
    <3>0. \A j \in A : j \in UpTo(A, i) <=> j \in UpTo(A, i - 1) \/ j = i
      BY <1>a, <1>b
    <3>a. UpTo(A, i) \subseteq A /\ UpTo(A, i - 1) \union {i} \subseteq A
      BY <1>b, <2>1
    <3>1. UpTo(A, i) = UpTo(A, i - 1) \union {i}
      BY <3>0, <3>a
    <3>2. i \notin UpTo(A, i - 1)
      BY <1>b, <2>1
    <3>3. IsFiniteSet(UpTo(A, i - 1))
      BY <1>4
    <3> QED
      BY <2>1, <3>1, <3>2, <3>3, FS_AddElement
  <2>2. CASE i \notin A
    <3>0. \A j \in A : j \in UpTo(A, i) <=> j \in UpTo(A, i - 1)
      BY <1>a, <1>b, <2>2
    <3>a. UpTo(A, i) \subseteq A /\ UpTo(A, i - 1) \subseteq A
      BY <1>b
    <3>1. UpTo(A, i) = UpTo(A, i - 1)
      BY <3>0, <3>a
    <3> QED
      BY <2>2, <3>1
  <2> QED
    BY <2>1, <2>2
<1>6. \A i \in 0..n : IsFiniteSet(UpTo(A, i)) /\ Cardinality(UpTo(A, i)) \in Nat
  BY <1>4
<1> QED
  BY <1>3, <1>5, <1>6

\* A finite set of positions has a k-th member.
LEMMA Nth ==
  ASSUME NEW n \in Nat, NEW A \in SUBSET (1..n), NEW k \in 1..Cardinality(A)
  PROVE  \E i \in A : Cardinality(UpTo(A, i)) = k
<1> DEFINE C(i) == Cardinality(UpTo(A, i))
           T == {i \in 0..n : k <= C(i)}
<1>1. /\ C(0) = 0 /\ C(n) = Cardinality(A)
      /\ \A i \in 0..n : C(i) \in Nat
      /\ \A i \in 1..n : (i \in A => C(i) = C(i - 1) + 1) /\ (i \notin A => C(i) = C(i - 1))
  <2>1. C(0) = 0
    <3>1. UpTo(A, 0) = {}
      BY UpToFacts
    <3> QED
      BY <3>1, FS_EmptySet
  <2>2. C(n) = Cardinality(A)
    <3>1. UpTo(A, n) = A
      BY UpToFacts
    <3> QED
      BY <3>1
  <2>3. \A i \in 0..n : C(i) \in Nat
    BY UpToFacts
  <2>4. ASSUME NEW i \in 1..n
        PROVE  (i \in A => C(i) = C(i - 1) + 1) /\ (i \notin A => C(i) = C(i - 1))
    BY UpToFacts
  <2> HIDE DEF C
  <2> QED
    BY <2>1, <2>2, <2>3, <2>4
<1> HIDE DEF C
<1>2. n \in T /\ T \subseteq Nat
  BY <1>1
<1>3. PICK i \in T : \A m \in T : i <= m
  <2> HIDE DEF T
  <2> QED
    BY <1>2, SmallestOf
<1>4. k \in Nat /\ 1 <= k /\ i \in 0..n /\ k <= C(i)
  <2>1. Cardinality(A) \in Nat
    BY <1>1
  <2> QED
    BY <2>1
<1>5. i \in 1..n /\ i - 1 \in 0..n
  BY <1>1, <1>4
<1>6. C(i - 1) < k /\ C(i - 1) \in Nat
  <2>1. i - 1 \notin T
    BY <1>3, <1>4
  <2> QED
    BY <1>1, <1>4, <1>5, <2>1
<1>7. i \in A /\ C(i) = k
  BY <1>1, <1>4, <1>5, <1>6
<1> QED
  BY <1>7 DEF C

\* What the timer writes: one line for each entry that has waited long enough.
LEMMA RetriedFacts ==
  ASSUME NEW x \in Seq(XfrType), JobDir \in Hosts
  PROVE  /\ Retried(x) \in Seq(Line)
         /\ \A k \in 1..Len(Retried(x)) :
              \E i \in 1..Len(x) : x[i].counter = 1 /\ Retried(x)[k] = CP(x, i)
         /\ \A k, n \in 1..Len(Retried(x)) : Retried(x)[k][2] = Retried(x)[n][2] => k = n
<1> DEFINE again == {i \in DOMAIN x : x[i].counter = 1}
           c == Cardinality(again)
           Nr(k) == CHOOSE i \in again : Cardinality({j \in again : j <= i}) = k
           r == Retried(x)
<1>1. DOMAIN x = 1..Len(x) /\ Len(x) \in Nat
  BY SeqFacts
<1>2. again \in SUBSET (1..Len(x))
  BY <1>1
<1>3. c \in Nat
  <2>1. IsFiniteSet(1..Len(x))
    BY <1>1, FS_Interval
  <2> HIDE DEF again
  <2>2. IsFiniteSet(again)
    BY <1>2, <2>1, FS_Subset
  <2> QED
    BY <2>2, FS_CardinalityType
<1>4. ASSUME NEW k \in 1..c
      PROVE  Nr(k) \in again /\ Cardinality(UpTo(again, Nr(k))) = k
  <2> HIDE DEF again
  <2>1. \E i \in again : Cardinality(UpTo(again, i)) = k
    BY <1>1, <1>2, Nth
  <2>2. \E i \in again : Cardinality({j \in again : j <= i}) = k
    BY <2>1 DEF UpTo
  <2>3. Nr(k) \in again /\ Cardinality({j \in again : j <= Nr(k)}) = k
    BY <2>2, Zenon
  <2> QED
    BY <2>3 DEF UpTo
<1>5. r = [k \in 1..c |-> CP(x, Nr(k))]
  BY DEF Retried
<1>6. \A k \in 1..c : Nr(k) \in 1..Len(x) /\ x[Nr(k)].counter = 1
  BY <1>1, <1>4
<1> HIDE DEF again, c, Nr, r
<1>7. \A k \in 1..c : r[k] = CP(x, Nr(k)) /\ r[k] \in Line /\ r[k][2] = Nr(k)
  BY <1>5, <1>6, CopyLine
<1>8. r \in Seq(Line) /\ Len(r) = c
  BY <1>3, <1>5, <1>7
<1>9. \A k, n \in 1..c : r[k][2] = r[n][2] => k = n
  BY <1>4, <1>7
<1>10. \A k \in 1..Len(r) : \E i \in 1..Len(x) : x[i].counter = 1 /\ r[k] = CP(x, i)
  BY <1>6, <1>7, <1>8
<1>11. /\ r \in Seq(Line)
       /\ \A k \in 1..Len(r) : \E i \in 1..Len(x) : x[i].counter = 1 /\ r[k] = CP(x, i)
       /\ \A k, n \in 1..Len(r) : r[k][2] = r[n][2] => k = n
  BY <1>8, <1>9, <1>10
<1> QED
  BY <1>11 DEF r

\* A period of the timer: an entry that was not tried, or is done, stays as it is.
LEMMA TickedFacts ==
  ASSUME NEW x \in Seq(XfrType), XfrOK(x)
  PROVE  /\ Ticked(x) \in Seq(XfrType) /\ XfrOK(Ticked(x)) /\ Len(Ticked(x)) = Len(x)
         /\ \A i \in 1..Len(x) :
              /\ Ticked(x)[i].file = x[i].file /\ Ticked(x)[i].to = x[i].to
              /\ Ticked(x)[i].done = x[i].done /\ Ticked(x)[i].success = x[i].success
              /\ x[i].counter \in {-1, 1} => Ticked(x)[i].counter = -1
              /\ Ticked(x)[i].counter # -1 => x[i].counter # -1
         /\ (\A i \in 1..Len(x) : x[i].counter = -1) => Ticked(x) = x
<1> DEFINE y == Ticked(x)
<1>1. DOMAIN x = 1..Len(x) /\ Len(x) \in Nat /\ \A i \in 1..Len(x) : x[i] \in XfrType
  BY SeqFacts
<1>2. y = [i \in 1..Len(x) |->
             [x[i] EXCEPT !.counter = IF x[i].counter \in {-1, 1} THEN -1 ELSE x[i].counter - 1]]
  BY <1>1 DEF Ticked
<1> HIDE DEF y
<1>3. ASSUME NEW i \in 1..Len(x)
      PROVE  /\ y[i] \in XfrType
             /\ y[i].file = x[i].file /\ y[i].to = x[i].to /\ y[i].tries = x[i].tries
             /\ y[i].done = x[i].done /\ y[i].success = x[i].success
             /\ y[i].counter = IF x[i].counter \in {-1, 1} THEN -1 ELSE x[i].counter - 1
             /\ x[i].counter = -1 => y[i] = x[i]
  <2> DEFINE e == x[i]
             c == IF e.counter \in {-1, 1} THEN -1 ELSE e.counter - 1
  <2>1. e \in XfrType
    BY <1>1
  <2>2. y[i] = [e EXCEPT !.counter = c]
    BY <1>2
  <2>3. c \in Int
    BY <2>1 DEF XfrType
  <2> HIDE DEF e, c
  <2>4. /\ y[i] \in XfrType
        /\ y[i].file = e.file /\ y[i].to = e.to /\ y[i].tries = e.tries
        /\ y[i].done = e.done /\ y[i].success = e.success /\ y[i].counter = c
        /\ c = e.counter => y[i] = e
    BY <2>1, <2>2, <2>3 DEF XfrType
  <2>5. e.counter = -1 => c = e.counter
    BY DEF c
  <2> QED
    BY <2>4, <2>5 DEF e, c
<1>4. y \in Seq(XfrType) /\ Len(y) = Len(x)
  <2>1. y = [i \in 1..Len(x) |-> y[i]]
    BY <1>2
  <2> QED
    BY <1>1, <1>3, <2>1, ListSeq
<1>5. DOMAIN y = 1..Len(x)
  BY <1>2
<1>6. number_of_retries \in Nat
  BY TMAssumption
<1>7. XfrOK(y)
  BY <1>1, <1>3, <1>5, <1>6 DEF XfrOK
<1>8. (\A i \in 1..Len(x) : x[i].counter = -1) => y = x
  BY <1>1, <1>3, <1>4, SeqEqual
<1>9. \A i \in 1..Len(x) : y[i].counter # -1 => x[i].counter # -1
  BY <1>3
<1> QED
  BY <1>3, <1>4, <1>7, <1>8, <1>9 DEF y

LEMMA TimerTraffic ==
  ASSUME StageInv, NEW x, x = List, List' = Ticked(x), Ticked(x) # x, Write(Retried(x)),
         tm_state \in {"PROLOG", "EPILOG", "CHECKPOINT"},
         tm_state = "CHECKPOINT" => ~UnderWay("START"),
         UNCHANGED <<tm_state, job_state, host, from_mad, tasks, dir, fetched>>
  PROVE  Traffic' /\ to_mad' \in Seq(Line) /\ (~mad_up => to_mad' = <<>>)
<1>1. Types /\ x \in Seq(XfrType) /\ XfrOK(x) /\ DOMAIN x = 1..Len(x)
  <2>1. Types /\ x \in Seq(XfrType) /\ XfrOK(x)
    BY DEF StageInv, Types, TypeOK, List
  <2> QED
    BY <2>1, SeqFacts
<1>2. PICK e \in 1..Len(x) : x[e].counter # -1
  BY <1>1, TickedFacts
<1>3. ~x[e].done
  BY <1>1, <1>2 DEF XfrOK
<1>4. ~Alone
  <2>1. CASE tm_state \in {"PROLOG", "EPILOG"}
    <3>1. x = xfrs
      BY <2>1 DEF List
    <3>2. ~Fresh(xfrs) /\ ~Settled(xfrs)
      BY <1>2, <1>3, <3>1 DEF Fresh, Settled
    <3>3. \A a : ~Awaited(a)
      BY <2>1, <3>2 DEF Awaited
    <3> QED
      BY <3>3 DEF Alone, Asked, Answered
  <2>2. CASE tm_state = "CHECKPOINT"
    <3>1. \A a : Awaited(a) => a = "START"
      BY <2>2 DEF Awaited
    <3>2. ~(Len(to_mad) = 1 /\ Asked(to_mad[1]))
      <4> SUFFICES ASSUME Len(to_mad) = 1, Asked(to_mad[1]) PROVE FALSE
        OBVIOUS
      <4>1. to_mad[1] \in ToSet(to_mad)
        BY <1>1 DEF ToSet, Types
      <4> QED
        BY <2>2, <3>1, <4>1 DEF Asked, UnderWay
    <3>3. ~\E t \in tasks : Asked(t)
      BY <2>2, <3>1 DEF Asked, UnderWay
    <3>4. ~(Len(from_mad) = 1 /\ Answered(from_mad[1]))
      <4> SUFFICES ASSUME Len(from_mad) = 1, Answered(from_mad[1]) PROVE FALSE
        OBVIOUS
      <4>1. from_mad[1] \in ToSet(from_mad)
        BY <1>1 DEF ToSet, Types
      <4> QED
        BY <2>2, <3>1, <4>1 DEF Answered, UnderWay
    <3> QED
      BY <3>2, <3>3, <3>4 DEF Alone
  <2> QED
    BY <2>1, <2>2
<1>5. tm_state = "PROLOG" => Here \in dir[host]
  BY <1>2 DEF StageInv, Progress, List
<1>6. Copying
  <2>1. CASE Silent
    BY <1>5, <2>1 DEF Copying, Silent, OnceEach, Apart
  <2> QED
    BY <1>4, <2>1 DEF StageInv, Traffic, Cancelling
<1>7. JobDir \in Hosts
  BY JobDirType DEF StageInv, Turn, Prologs, Epilogs, Cancels
<1>8. PICK y : y = Ticked(x)
  OBVIOUS
<1>9. /\ y \in Seq(XfrType) /\ Len(y) = Len(x) /\ List' = y
      /\ \A i \in 1..Len(x) : /\ y[i].file = x[i].file /\ y[i].to = x[i].to /\ y[i].done = x[i].done
                              /\ x[i].counter \in {-1, 1} => y[i].counter = -1
  BY <1>1, <1>8, TickedFacts
<1>10. \A i : Open(i) => Open(i)' /\ i \in 1..Len(x) /\ x[i].counter = -1
  BY <1>9 DEF Open
<1>11. \A l : CopyAsked(l) => CopyAsked(l)'
  BY <1>9, <1>10 DEF CopyAsked
<1>12. \A a : CopyAnswered(a) => CopyAnswered(a)'
  BY <1>9, <1>10 DEF CopyAnswered
<1>13. PICK r : r = Retried(x)
  OBVIOUS
<1>14. /\ r \in Seq(Line)
       /\ \A k \in 1..Len(r) : \E i \in 1..Len(x) : x[i].counter = 1 /\ r[k] = CP(x, i)
       /\ \A k, n \in 1..Len(r) : r[k][2] = r[n][2] => k = n
  <2>1. Retried(x) \in Seq(Line)
    BY <1>1, <1>7, RetriedFacts
  <2>2. \A k \in 1..Len(Retried(x)) :
          \E i \in 1..Len(x) : x[i].counter = 1 /\ Retried(x)[k] = CP(x, i)
    BY <1>1, <1>7, RetriedFacts
  <2>3. \A k, n \in 1..Len(Retried(x)) : Retried(x)[k][2] = Retried(x)[n][2] => k = n
    BY <1>1, <1>7, RetriedFacts
  <2> QED
    BY <1>13, <2>1, <2>2, <2>3
<1>15. ASSUME NEW k \in 1..Len(r)
       PROVE  CopyAsked(r[k])' /\ ~Open(r[k][2])
  <2>1. PICK i \in 1..Len(x) : x[i].counter = 1 /\ r[k] = CP(x, i)
    BY <1>14
  <2>2. PICK l : l = r[k]
    OBVIOUS
  <2>3. /\ l[1] = "CP" /\ l[2] = i /\ l[3] = x[i].file
        /\ l[5] = IF x[i].to = "job" THEN JobDir ELSE x[i].to
    BY <1>1, <1>7, <2>1, <2>2, CopyLine
  <2>4. l[5] = IF tm_state = "PROLOG" THEN host ELSE x[i].to
    BY <2>3, Destination
  <2>5. Open(i)'
    <3>1. i \in DOMAIN x /\ x[i].counter # -1
      BY <1>1, <2>1
    <3>2. ~x[i].done
      BY <1>1, <3>1 DEF XfrOK
    <3>3. List' = y /\ i \in 1..Len(y) /\ ~y[i].done /\ y[i].counter = -1
      BY <1>9, <2>1, <3>2
    <3> QED
      BY <3>3 DEF Open
  <2>6. CopyAsked(l)'
    BY <1>9, <2>3, <2>4, <2>5 DEF CopyAsked
  <2>7. ~Open(i)
    BY <2>1 DEF Open
  <2> QED
    BY <2>2, <2>3, <2>6, <2>7
<1>16. PICK f \in Seq(AnswerLine) : f = from_mad
  BY <1>1 DEF Types
<1>17. /\ \A k \in 1..Len(to_mad) : Open(to_mad[k][2])
       /\ \A t \in tasks : Open(t[2])
       /\ \A k \in 1..Len(f) : Open(f[k][2])
  BY <1>6, <1>16 DEF Copying, CopyAsked, CopyAnswered
<1>18. \A k \in 1..Len(r) : /\ \A n \in 1..Len(to_mad) : to_mad[n][2] # r[k][2]
                            /\ \A t \in tasks : t[2] # r[k][2]
                            /\ \A n \in 1..Len(f) : f[n][2] # r[k][2]
  BY <1>15, <1>17
<1>19. /\ \A k \in 1..Len(to_mad) : \A l : l = to_mad[k] => CopyAsked(l)'
       /\ \A t \in tasks : CopyAsked(t)'
  BY <1>6, <1>11 DEF Copying
<1>20. \A k \in 1..Len(f) : CopyAnswered(f[k])'
  <2> SUFFICES ASSUME NEW k \in 1..Len(f) PROVE CopyAnswered(f[k])'
    OBVIOUS
  <2>1. CopyAnswered(f[k])
    BY <1>6, <1>16 DEF Copying
  <2> QED
    BY <1>12, <2>1
<1>21. Write(r) /\ from_mad' = f /\ tasks' = tasks
  BY <1>13, <1>16
<1>22. Apart(to_mad, tasks, f)
  BY <1>6, <1>16 DEF Copying, OnceEach
<1>23. (tm_state = "PROLOG" => Here \in dir[host])' /\ tm_state' \in {"PROLOG", "EPILOG", "CHECKPOINT"}
  BY <1>5 DEF Here
<1> QED
  BY <1>1, <1>14, <1>15, <1>18, <1>19, <1>20, <1>21, <1>22, <1>23, WriteCopies

\* gw_tm_timer.
LEMMA TMTimerStep ==
  ASSUME StageInv, Punctual, TMTimer, ~Late, UNCHANGED madv
  PROVE  StageInv'
<1>1. /\ tmq = <<>>
      /\ UNCHANGED <<job_state, tm_state, host, prev, restarted, records, run, mandatory, tmq, dmq,
                     from_mad, mad_up, tasks, dir, fetched>>
      /\ tm_state \in {"PROLOG", "EPILOG", "CHECKPOINT"}
  BY DEF TMTimer, hist, madv
<1>2. PICK x : x = List
  OBVIOUS
<1>3. /\ List' = Ticked(x) /\ Write(Retried(x)) /\ Ticked(x) # x
      /\ tm_state = "CHECKPOINT" => xfrs' = xfrs
      /\ tm_state # "CHECKPOINT" => chk_xfrs' = chk_xfrs
  <2>1. CASE tm_state = "CHECKPOINT"
    BY <1>1, <1>2, <2>1 DEF TMTimer, List
  <2>2. CASE tm_state # "CHECKPOINT"
    BY <1>1, <1>2, <2>2 DEF TMTimer, List
  <2> QED
    BY <2>1, <2>2
<1>4. tm_state = "CHECKPOINT" => ~UnderWay("START")
  BY <1>1, <1>2, <1>3 DEF Late, List
<1>5. Traffic' /\ to_mad' \in Seq(Line) /\ (~mad_up => to_mad' = <<>>)
  BY <1>1, <1>2, <1>3, <1>4, TimerTraffic
<1>6. x \in Seq(XfrType) /\ XfrOK(x) /\ x = IF tm_state = "CHECKPOINT" THEN chk_xfrs ELSE xfrs
  BY <1>2 DEF StageInv, Types, TypeOK, List
<1>7. PICK y : y = Ticked(x)
  OBVIOUS
<1>8. /\ y \in Seq(XfrType) /\ XfrOK(y) /\ Len(y) = Len(x)
      /\ \A i \in 1..Len(x) : /\ y[i].file = x[i].file /\ y[i].to = x[i].to
                              /\ y[i].success = x[i].success
                              /\ y[i].counter # -1 => x[i].counter # -1
  BY <1>6, <1>7, TickedFacts
<1>9. \/ /\ tm_state = "CHECKPOINT" /\ xfrs' = xfrs /\ chk_xfrs = x /\ chk_xfrs' = y
      \/ /\ tm_state # "CHECKPOINT" /\ chk_xfrs' = chk_xfrs /\ xfrs = x /\ xfrs' = y
  BY <1>1, <1>3, <1>6, <1>7 DEF List
<1>10. Types'
  BY <1>1, <1>5, <1>8, <1>9 DEF StageInv, Types, TypeOK
<1>11. Placed'
  BY <1>1 DEF StageInv, Placed, InputsThere, Staged, Removed
<1>12. FilesListed'
  BY <1>1, <1>8, <1>9 DEF StageInv, FilesListed
<1>13. Progress'
  <2>1. CASE tm_state = "CHECKPOINT"
    BY <1>1, <1>9, <2>1 DEF StageInv, Progress, Fresh
  <2>2. CASE tm_state = "PROLOG"
    BY <1>1, <1>8, <1>9, <2>2 DEF StageInv, Progress, Here
  <2>3. CASE tm_state = "EPILOG"
    BY <1>1, <1>8, <1>9, <2>3 DEF StageInv, Progress
  <2> QED
    BY <1>1, <2>1, <2>2, <2>3
<1>14. Turn'
  BY <1>1 DEF StageInv, Turn, Fits, Staged, Removed, Saved
<1> QED
  BY <1>5, <1>10, <1>11, <1>12, <1>13, <1>14 DEF StageInv

-----------------------------------------------------------------------------
(* The listener.                                                           *)

\* The TM reads an answer.
Heard ==
  /\ from_mad # <<>> /\ from_mad' = Tail(from_mad)
  /\ tmq = <<>>
  /\ UNCHANGED <<job_state, host, prev, restarted, records, run, mandatory, tmq, mad_up, tasks,
                 dir, fetched>>

SameFiles(x, y) ==
  Len(y) = Len(x) /\ \A i \in 1..Len(x) : y[i].file = x[i].file /\ y[i].to = x[i].to

\* What is left to show for an answer: the lists, whose turn it is, and the lines.
LEMMA ListenFrame ==
  ASSUME StageInv, Heard,
         xfrs' \in Seq(XfrType), XfrOK(xfrs'), SameFiles(xfrs, xfrs'),
         chk_xfrs' \in Seq(XfrType), XfrOK(chk_xfrs'), AllTo(chk_xfrs', {"server"}),
         \/ tm_state' = tm_state /\ dmq' = dmq
         \/ dmq = <<>> /\ dmq' = <<>>
         \/ /\ tm_state' = "INIT" /\ run = NoHost /\ job_state # "PENDING"
            /\ \E m \in Message : dmq' = <<m>> /\ Fits(m)',
         tm_state' \in TMStates \ {"CHECKPOINT_CANCEL"},
         run # NoHost => tm_state' \in {"INIT", "CHECKPOINT"},
         tm_state' \in {"PROLOG", "PROLOG_FAILED"} => job_state \in Prologs,
         tm_state' \in {"EPILOG", "EPILOG_FAILED"} => job_state \in Epilogs,
         tm_state' = "CHECKPOINT" => tm_state = "CHECKPOINT",
         Progress', Traffic', to_mad' \in Seq(Line), ~mad_up => to_mad' = <<>>
  PROVE  StageInv'
<1>1. /\ from_mad' \in Seq(AnswerLine) /\ tmq = <<>>
      /\ UNCHANGED <<job_state, host, prev, restarted, records, run, mandatory, tmq, mad_up, tasks,
                     dir, fetched>>
  BY TailFacts DEF Heard, StageInv, Types
<1>2. /\ dmq' \in Seq(Message) /\ Len(dmq') <= 1
      /\ dmq' # <<>> => /\ run = NoHost /\ tm_state' \in {"INIT", "CHECKPOINT"}
                        /\ host \in Hosts
      /\ (dmq # <<>> => Fits(dmq[1]))'
  <2>1. CASE tm_state' = tm_state /\ dmq' = dmq
    <3>1. \A m : Fits(m) => Fits(m)'
      BY <1>1, <2>1 DEF Fits, Staged, Removed, Saved
    <3> QED
      BY <2>1, <3>1 DEF StageInv, Types, Turn, Placed
  <2>2. CASE dmq' = <<>>
    BY <2>2
  <2>3. ASSUME tm_state' = "INIT", run = NoHost, job_state # "PENDING",
               NEW m \in Message, dmq' = <<m>>, Fits(m)'
        PROVE  /\ dmq' \in Seq(Message) /\ Len(dmq') <= 1
               /\ dmq' # <<>> => /\ run = NoHost /\ tm_state' \in {"INIT", "CHECKPOINT"}
                                 /\ host \in Hosts
               /\ (dmq # <<>> => Fits(dmq[1]))'
    <3>1. dmq' \in Seq(Message) /\ Len(dmq') = 1 /\ dmq'[1] = m
      BY <2>3, OneFacts
    <3> QED
      BY <2>3, <3>1 DEF StageInv, Placed
  <2> QED
    BY <2>1, <2>2, <2>3
<1>3. Types'
  BY <1>1, <1>2 DEF StageInv, Types, TypeOK, SameFiles
<1>4. Placed'
  BY <1>1, <1>2 DEF StageInv, Placed, InputsThere, Staged, Removed
<1>5. FilesListed'
  BY <1>1 DEF StageInv, FilesListed, SameFiles, AllTo
<1>6. Turn'
  BY <1>1, <1>2 DEF StageInv, Turn
<1> QED
  BY <1>3, <1>4, <1>5, <1>6 DEF StageInv

\* When the answer is alone, nothing is left once it is read.
LEMMA AloneAnswer ==
  ASSUME StageInv, Alone, Heard
  PROVE  /\ to_mad = <<>> /\ tasks = {} /\ from_mad' = <<>> /\ Answered(Head(from_mad))
         /\ Head(from_mad) \in AnswerLine
<1>1. /\ to_mad = <<>> /\ tasks = {} /\ Len(from_mad) = 1 /\ Answered(from_mad[1])
      /\ from_mad \in Seq(AnswerLine)
  BY DEF Alone, Heard, StageInv, Types
<1> QED
  BY <1>1, ShortFacts DEF Heard

\* All the files of a new list.
LEMMA CopyAll ==
  ASSUME Types, NEW x \in Seq(XfrType), List' = x, Fresh(x), JobDir \in Hosts,
         to_mad = <<>>, tasks = {}, tasks' = tasks, from_mad' = <<>>, Write(Copies(x)),
         tm_state' \in {"PROLOG", "EPILOG", "CHECKPOINT"},
         (tm_state = "PROLOG" => Here \in dir[host])',
         \A i \in 1..Len(x) : (IF x[i].to = "job" THEN JobDir ELSE x[i].to)
                                = IF tm_state' = "PROLOG" THEN host' ELSE x[i].to
  PROVE  Traffic' /\ to_mad' \in Seq(Line) /\ (~mad_up => to_mad' = <<>>)
<1>1. PICK r : r = Copies(x)
  OBVIOUS
<1>2. r = [i \in 1..Len(x) |-> CP(x, i)] /\ Len(x) \in Nat
  BY <1>1, SeqFacts DEF Copies
<1>3. \A i \in 1..Len(x) : /\ r[i] \in Line /\ r[i][1] = "CP" /\ r[i][2] = i
                           /\ r[i][3] = x[i].file
                           /\ r[i][5] = IF x[i].to = "job" THEN JobDir ELSE x[i].to
  BY <1>2, CopyLine
<1>4. r \in Seq(Line) /\ Len(r) = Len(x)
  <2>1. r = [i \in 1..Len(x) |-> r[i]]
    BY <1>2
  <2> QED
    BY <1>2, <1>3, <2>1, ListSeq
<1>5. ASSUME NEW k \in 1..Len(r)
      PROVE  CopyAsked(r[k])'
  <2>1. Open(k)'
    BY <1>4 DEF Open, Fresh
  <2> QED
    BY <1>3, <1>4, <2>1 DEF CopyAsked
<1>6. \A k, n \in 1..Len(r) : r[k][2] = r[n][2] => k = n
  BY <1>3, <1>4
<1>7. PICK f \in Seq(AnswerLine) : f = <<>>
  <2>1. <<>> \in Seq(AnswerLine)
    OBVIOUS
  <2> QED
    BY <2>1
<1>8. Apart(to_mad, tasks, f) /\ from_mad' = f /\ Write(r)
  BY <1>1, <1>7 DEF Apart
<1>9. \A k \in 1..Len(f) : CopyAnswered(f[k])'
  BY <1>7
<1>10. \A k \in 1..Len(r) : /\ \A n \in 1..Len(to_mad) : to_mad[n][2] # r[k][2]
                            /\ \A t \in tasks : t[2] # r[k][2]
                            /\ \A n \in 1..Len(f) : f[n][2] # r[k][2]
  BY <1>7
<1>11. /\ \A k \in 1..Len(to_mad) : \A l : l = to_mad[k] => CopyAsked(l)'
       /\ \A t \in tasks : CopyAsked(t)'
  OBVIOUS
<1> QED
  BY <1>4, <1>5, <1>6, <1>8, <1>9, <1>10, <1>11, WriteCopies

\* gw_tm_epilog_stage_out: the files of the epilog, or what comes after them.
LEMMA StageOutTraffic ==
  ASSUME StageInv, to_mad = <<>>, tasks = {}, tasks' = tasks, from_mad' = <<>>, StageOut,
         job_state \in Epilogs, Fresh(xfrs), tm_state' = "EPILOG",
         UNCHANGED <<job_state, host, prev, xfrs, mandatory, fetched>>
  PROVE  Traffic' /\ to_mad' \in Seq(Line) /\ (~mad_up => to_mad' = <<>>)
<1>1. JobDir \in Hosts
  BY JobDirType DEF Epilogs
<1>2. Types /\ xfrs \in Seq(XfrType)
  BY DEF StageInv, Types
<1>3. CASE xfrs # <<>>
  <2>1. Write(Copies(xfrs))
    BY <1>3 DEF StageOut
  <2>2. PICK x : x = xfrs
    OBVIOUS
  <2>3. List' = x
    BY <2>2 DEF List
  <2>4. \A i \in 1..Len(x) : x[i].to \in {"local", "server"}
    BY <2>2 DEF StageInv, FilesListed
  <2> QED
    BY <1>1, <1>2, <2>1, <2>2, <2>3, <2>4, CopyAll
<1>4. CASE xfrs = <<>> /\ job_state = "EPILOG_STD"
  <2>1. Write(<<END>>) /\ END \in Line /\ END[1] = "END"
    BY <1>4, LineTypes, LineFields DEF StageOut
  <2>2. Asked(END)'
    BY <1>4, <2>1 DEF Asked, Awaited, Settled
  <2> QED
    BY <2>1, <2>2, AskNext
<1>5. CASE xfrs = <<>> /\ job_state # "EPILOG_STD"
  <2>1. PICK h \in Hosts : h = JobDir
    BY <1>1
  <2>2. /\ Write(<<RMDIR(h)>>) /\ RMDIR(h) \in Line
        /\ RMDIR(h)[1] = "RMDIR" /\ RMDIR(h)[2] = h
    BY <1>5, <2>1, LineTypes, LineFields DEF StageOut
  <2>3. JobDir' = h
    BY <2>1 DEF JobDir
  <2>4. job_state = "EPILOG" => Saved'
    <3> SUFFICES ASSUME job_state = "EPILOG" PROVE Saved'
      OBVIOUS
    <3>1. num_output_files = 0 /\ num_std_files = 0
      <4>1. Len(xfrs) = 0 /\ num_output_files + num_std_files = Len(xfrs)
        BY <1>5 DEF StageInv, FilesListed
      <4> QED
        BY <4>1, TMAssumption
    <3>2. ToSet(OutputFiles) = {} /\ ToSet(StdFiles) = {}
      BY <3>1 DEF OutputFiles, StdFiles, Files, ToSet
    <3> QED
      BY <3>2 DEF Saved
  <2>5. Asked(RMDIR(h))'
    BY <1>5, <2>2, <2>3, <2>4 DEF Asked, Awaited, Settled
  <2> QED
    BY <2>2, <2>5, AskNext
<1> QED
  BY <1>3, <1>4, <1>5

LEMMA KeptFiles ==
  ASSUME StageInv, xfrs' = xfrs
  PROVE  xfrs' \in Seq(XfrType) /\ XfrOK(xfrs') /\ SameFiles(xfrs, xfrs')
  BY DEF StageInv, Types, TypeOK, SameFiles

LEMMA KeptRestarts ==
  ASSUME StageInv, chk_xfrs' = chk_xfrs
  PROVE  chk_xfrs' \in Seq(XfrType) /\ XfrOK(chk_xfrs') /\ AllTo(chk_xfrs', {"server"})
  BY DEF StageInv, Types, TypeOK, FilesListed, AllTo

\* An answer that is not expected is dropped: it is one of a cancelled checkpoint.
LEMMA ListenDropped ==
  ASSUME StageInv, Heard, tm_state \notin Expected(Head(from_mad)[1]),
         UNCHANGED <<tm_state, xfrs, chk_xfrs, dmq, to_mad>>
  PROVE  StageInv'
<1>1. /\ UNCHANGED gwdv /\ UNCHANGED <<dir, fetched, to_mad, tasks, mad_up>>
      /\ from_mad' = Tail(from_mad) /\ from_mad # <<>>
  BY DEF Heard, gwdv, hist, lists
<1>2. Types /\ from_mad \in Seq(AnswerLine)
  BY DEF StageInv, Types
<1>3. /\ Head(from_mad) = from_mad[1] /\ from_mad[1] \in AnswerLine /\ 1 \in 1..Len(from_mad)
      /\ Tail(from_mad) \in Seq(AnswerLine)
      /\ Len(Tail(from_mad)) = Len(from_mad) - 1
      /\ \A k \in 1..Len(Tail(from_mad)) : k + 1 \in 1..Len(from_mad) /\ Tail(from_mad)[k] = from_mad[k + 1]
  <2>1. Len(from_mad) \in Nat /\ Len(from_mad) # 0
    BY <1>1, <1>2, SeqFacts
  <2> QED
    BY <1>1, <1>2, <2>1, TailFacts
<1>4. Traffic'
  <2>1. CASE Alone
    <3>1. to_mad' = <<>> /\ tasks' = {} /\ from_mad' = <<>>
      BY <1>1, <2>1, AloneAnswer
    <3> QED
      BY <3>1 DEF Traffic, Silent
  <2>2. ~Copying
    <3> SUFFICES ASSUME Copying PROVE FALSE
      OBVIOUS
    <3>1. from_mad[1][1] = "CP" /\ tm_state \in {"PROLOG", "EPILOG", "CHECKPOINT"}
      BY <1>3 DEF Copying, CopyAnswered
    <3> QED
      BY <1>3, <3>1 DEF Expected
  <2>3. CASE Cancelling
    <3>1. from_mad[1][1] \in {"START", "CP", "END"} /\ tm_state = "CHECKPOINT_CANCEL"
      BY <1>3, <2>3 DEF Cancelling
    <3>2. from_mad[1][1] # "END"
      BY <1>3, <3>1 DEF Expected, TMStates
    <3>3. \A k \in 1..Len(from_mad') : /\ from_mad'[k][1] \in {"START", "CP", "END"}
                                       /\ from_mad'[k][1] = "END" => k = Len(from_mad') /\ to_mad = <<>> /\ tasks = {}
      <4> SUFFICES ASSUME NEW k \in 1..Len(from_mad')
                   PROVE  /\ from_mad'[k][1] \in {"START", "CP", "END"}
                          /\ from_mad'[k][1] = "END" => k = Len(from_mad') /\ to_mad = <<>> /\ tasks = {}
        OBVIOUS
      <4>1. k + 1 \in 1..Len(from_mad) /\ from_mad'[k] = from_mad[k + 1]
        BY <1>1, <1>3
      <4>2. /\ from_mad[k + 1][1] \in {"START", "CP", "END"}
            /\ from_mad[k + 1][1] = "END" => k + 1 = Len(from_mad) /\ to_mad = <<>> /\ tasks = {}
        BY <2>3, <4>1 DEF Cancelling
      <4>3. Len(from_mad') = Len(from_mad) - 1 /\ Len(from_mad) \in Nat /\ k \in Nat
        BY <1>1, <1>2, <1>3
      <4> QED
        BY <4>1, <4>2, <4>3
    <3>4. \A n \in 1..Len(from_mad) : from_mad[n][1] # "END" =>
            \A k \in 1..Len(from_mad') : k + 1 = n => from_mad'[k][1] # "END"
      BY <1>1, <1>3
    <3>5. (\A n \in 1..Len(from_mad) : from_mad[n][1] # "END") =>
            \A k \in 1..Len(from_mad') : from_mad'[k][1] # "END"
      BY <1>1, <1>3
    <3>6. (\A k \in 1..Len(to_mad) : to_mad[k][1] = "END" =>
             k = Len(to_mad) /\ (\A t \in tasks : t[1] # "END")
               /\ \A n \in 1..Len(from_mad) : from_mad[n][1] # "END")'
      BY <1>1, <2>3, <3>5 DEF Cancelling
    <3>7. (\A t \in tasks : t[1] = "END" =>
             to_mad = <<>> /\ \A n \in 1..Len(from_mad) : from_mad[n][1] # "END")'
      BY <1>1, <2>3, <3>5 DEF Cancelling
    <3>8. (\A k \in 1..Len(to_mad) : Leftover(to_mad[k]))' /\ (\A t \in tasks : Leftover(t))'
      BY <1>1, <2>3 DEF Cancelling, Leftover
    <3>9. Cancelling'
      BY <1>1, <3>1, <3>3, <3>6, <3>7, <3>8 DEF Cancelling
    <3> QED
      BY <3>9 DEF Traffic
  <2> QED
    BY <1>1, <2>1, <2>2, <2>3 DEF StageInv, Traffic, Silent
<1>5. /\ to_mad' \in Seq(Line) /\ tasks' \subseteq Line /\ from_mad' \in Seq(AnswerLine)
      /\ mad_up' \in BOOLEAN /\ (~mad_up' => to_mad' = <<>> /\ tasks' = {})
  BY <1>1, <1>2, <1>3 DEF Types
<1> QED
  BY <1>1, <1>4, <1>5, MadFrame

\* What may be answered when one of the call-backs takes an answer.
LEMMA AnswerKinds ==
  ASSUME StageInv, Heard, tm_state \in Expected(Head(from_mad)[1])
  PROVE  /\ Head(from_mad)[1] \in {"START", "RMDIR", "MKDIR"} => Alone
         /\ Head(from_mad)[1] = "CP" => Copying
         /\ Head(from_mad)[1] = "END" =>
              \/ Alone
              \/ /\ tm_state = "CHECKPOINT_CANCEL"
                 /\ to_mad = <<>> /\ tasks = {} /\ from_mad' = <<>>
<1>1. from_mad \in Seq(AnswerLine) /\ from_mad # <<>> /\ Head(from_mad) = from_mad[1]
  BY TailFacts DEF StageInv, Types, Heard
<1>2. Len(from_mad) \in Nat /\ 1 \in 1..Len(from_mad)
  BY <1>1, SeqFacts
<1>3. CASE Alone
  <2>1. from_mad[1][1] # "CP"
    BY <1>1, <1>3, AloneAnswer DEF Answered, Awaited
  <2> QED
    BY <1>1, <1>3, <2>1
<1>4. CASE Copying
  <2>1. from_mad[1][1] = "CP"
    BY <1>2, <1>4 DEF Copying, CopyAnswered
  <2> QED
    BY <1>1, <1>4, <2>1
<1>5. CASE Cancelling
  <2>1. tm_state = "CHECKPOINT_CANCEL" /\ from_mad[1][1] \in {"START", "CP", "END"}
    BY <1>2, <1>5 DEF Cancelling
  <2>2. from_mad[1][1] = "END"
    BY <1>1, <2>1 DEF Expected
  <2>3. Len(from_mad) = 1 /\ to_mad = <<>> /\ tasks = {}
    BY <1>2, <1>5, <2>2 DEF Cancelling
  <2>4. Tail(from_mad) = <<>>
    <3>1. from_mad \in Seq(AnswerLine) /\ from_mad # <<>> /\ Len(from_mad) <= 1
      BY <1>1, <2>3
    <3> QED
      BY <3>1, ShortFacts
  <2>5. from_mad' = <<>>
    BY <2>4 DEF Heard
  <2>6. Head(from_mad)[1] = "END"
    BY <1>1, <2>2
  <2> QED
    BY <2>1, <2>3, <2>5, <2>6
<1> QED
  BY <1>1, <1>3, <1>4, <1>5 DEF StageInv, Traffic, Silent

\* gw_tm_start_action_cb.
LEMMA ListenStart ==
  ASSUME StageInv, Heard, NEW a, a = Head(from_mad), a[1] = "START",
         tm_state \in Expected("START"), StartAnswered(a[3])
  PROVE  StageInv'
<1>1. /\ to_mad = <<>> /\ tasks = {} /\ tasks' = {} /\ from_mad' = <<>> /\ Answered(a) /\ Alone
  BY AnswerKinds, AloneAnswer DEF Heard
<1>2. a[3] /\ Awaited("START")
  BY <1>1 DEF Answered
<1>3. tm_state \in {"PROLOG", "EPILOG", "CHECKPOINT"} /\ (tm_state # "CHECKPOINT" => Fresh(xfrs))
  BY <1>2 DEF Awaited
<1>4. UNCHANGED <<tm_state, xfrs, dmq>> /\ (tm_state # "CHECKPOINT" => chk_xfrs' = chk_xfrs)
  BY <1>2, <1>3 DEF StartAnswered
<1>5. /\ tm_state = "PROLOG" => job_state \in Prologs
      /\ tm_state = "EPILOG" => job_state \in Epilogs
      /\ run # NoHost => tm_state \in {"INIT", "CHECKPOINT"}
      /\ Types
  BY DEF StageInv, Turn
<1>6. UNCHANGED <<job_state, host, prev, mandatory, dir, fetched, tmq, tasks>> /\ tmq = <<>>
  BY DEF Heard
<1>7. CASE tm_state = "PROLOG"
  <2>1. host \in Hosts /\ JobDir = host
    BY <1>5, <1>7 DEF StageInv, Placed, JobDir, Prologs
  <2>2. PICK h \in Hosts : h = host
    BY <2>1
  <2>3. /\ Write(<<RMDIR(h)>>) /\ RMDIR(h) \in Line
        /\ RMDIR(h)[1] = "RMDIR" /\ RMDIR(h)[2] = h
    BY <1>2, <1>7, <2>2, LineTypes, LineFields DEF StartAnswered
  <2>4. JobDir' = h
    BY <1>6, <2>1, <2>2 DEF JobDir
  <2>5. Fresh(xfrs)'
    BY <1>3, <1>4, <1>7 DEF Fresh
  <2>6. Asked(RMDIR(h))'
    BY <1>4, <1>7, <2>3, <2>4, <2>5 DEF Asked, Awaited
  <2>7. Traffic' /\ to_mad' \in Seq(Line) /\ (~mad_up => to_mad' = <<>>)
    BY <1>1, <2>3, <2>6, AskNext
  <2>8. Progress'
    BY <1>4, <1>6, <1>7 DEF StageInv, Progress, Here
  <2> QED
    BY <1>4, <1>5, <1>7, <2>7, <2>8, KeptFiles, KeptRestarts, ListenFrame DEF TMStates
<1>8. CASE tm_state = "EPILOG"
  <2>1. StageOut
    BY <1>2, <1>8 DEF StartAnswered
  <2>2. Traffic' /\ to_mad' \in Seq(Line) /\ (~mad_up => to_mad' = <<>>)
    BY <1>1, <1>3, <1>4, <1>5, <1>6, <1>8, <2>1, StageOutTraffic
  <2>3. Progress'
    BY <1>4, <1>6, <1>8 DEF StageInv, Progress
  <2> QED
    BY <1>4, <1>5, <1>8, <2>2, <2>3, KeptFiles, KeptRestarts, ListenFrame DEF TMStates
<1>9. CASE tm_state = "CHECKPOINT"
  <2>1. CheckpointCp
    BY <1>2, <1>9 DEF StartAnswered
  <2>2. PICK x : x = Xfrs(RestartFiles, "job", FALSE, "server")
    OBVIOUS
  <2>3. ListOf(x, RestartFiles, "server")
    <3>1. RestartFiles \in Seq(File)
      BY FilesFacts, TMAssumption DEF RestartFiles
    <3>2. "job" \in Place /\ "server" \in Place /\ FALSE \in BOOLEAN
      BY DEF Place
    <3>3. ListOf(Xfrs(RestartFiles, "job", FALSE, "server"), RestartFiles, "server")
      BY <3>1, <3>2, XfrsFacts, Zenon
    <3> QED
      BY <2>2, <3>3
  <2>4. x \in Seq(XfrType) /\ Fresh(x) /\ XfrOK(x) /\ \A i \in 1..Len(x) : x[i].to = "server"
    BY <2>3, NewFacts DEF ListOf
  <2>5. chk_xfrs' = x /\ Write(Copies(x))
    BY <2>1, <2>2 DEF CheckpointCp
  <2>6. job_state # "PENDING"
    BY <1>9 DEF StageInv, Turn, Prologs, Epilogs, Cancels
  <2>7. JobDir \in Hosts
    BY <2>6, JobDirType
  <2>8. List' = x
    BY <1>4, <1>9, <2>5 DEF List
  <2>9. Traffic' /\ to_mad' \in Seq(Line) /\ (~mad_up => to_mad' = <<>>)
    BY <1>1, <1>4, <1>5, <1>9, <2>4, <2>5, <2>7, <2>8, CopyAll
  <2>10. Progress'
    BY <1>4, <1>6, <1>9 DEF StageInv, Progress, Fresh
  <2>11. chk_xfrs' \in Seq(XfrType) /\ XfrOK(chk_xfrs') /\ AllTo(chk_xfrs', {"server"})
    BY <2>4, <2>5 DEF AllTo
  <2> QED
    BY <1>4, <1>9, <2>9, <2>10, <2>11, KeptFiles, ListenFrame DEF TMStates
<1> QED
  BY <1>3, <1>7, <1>8, <1>9

\* gw_tm_rmdir_action_cb.
LEMMA ListenRmdir ==
  ASSUME StageInv, Heard, NEW a, a = Head(from_mad), a[1] = "RMDIR",
         tm_state \in Expected("RMDIR"), RmdirAnswered
  PROVE  StageInv'
<1>1. /\ to_mad = <<>> /\ tasks = {} /\ tasks' = {} /\ from_mad' = <<>> /\ Answered(a) /\ Alone
  BY AnswerKinds, AloneAnswer DEF Heard
<1>2. Awaited("RMDIR") /\ (job_state \in Epilogs => Removed)
  BY <1>1 DEF Answered
<1>3. /\ UNCHANGED <<tm_state, xfrs, chk_xfrs, dmq>>
      /\ UNCHANGED <<job_state, host, prev, mandatory, dir, fetched, tmq, tasks>> /\ tmq = <<>>
  BY DEF Heard, RmdirAnswered
<1>4. /\ tm_state \in {"PROLOG", "PROLOG_FAILED"} => job_state \in Prologs
      /\ tm_state \in {"EPILOG", "EPILOG_FAILED"} => job_state \in Epilogs
      /\ run # NoHost => tm_state \in {"INIT", "CHECKPOINT"}
  BY DEF StageInv, Turn
<1>5. tm_state \in {"PROLOG", "PROLOG_FAILED", "EPILOG", "EPILOG_FAILED"}
  BY <1>2 DEF Awaited
<1>6. Traffic' /\ to_mad' \in Seq(Line) /\ (~mad_up => to_mad' = <<>>)
  <2>1. CASE tm_state = "PROLOG"
    <3>1. host \in Hosts /\ JobDir = host
      BY <1>4, <2>1 DEF StageInv, Placed, JobDir, Prologs
    <3>2. PICK h \in Hosts : h = host
      BY <3>1
    <3>3. /\ Write(<<MKDIR(h)>>) /\ MKDIR(h) \in Line
          /\ MKDIR(h)[1] = "MKDIR" /\ MKDIR(h)[2] = h
      BY <2>1, <3>2, LineTypes, LineFields DEF RmdirAnswered
    <3>4. JobDir' = h
      BY <1>3, <3>1, <3>2 DEF JobDir
    <3>5. Fresh(xfrs)'
      BY <1>2, <1>3, <2>1 DEF Awaited, Fresh
    <3>6. Asked(MKDIR(h))'
      BY <1>3, <2>1, <3>3, <3>4, <3>5 DEF Asked, Awaited
    <3> QED
      BY <1>1, <3>3, <3>6, AskNext
  <2>2. CASE tm_state # "PROLOG"
    <3>1. Write(<<END>>) /\ END \in Line /\ END[1] = "END"
      BY <2>2, LineTypes, LineFields DEF RmdirAnswered
    <3>2. Awaited("END")
      BY <1>2, <1>4, <1>5, <2>2 DEF Awaited
    <3>3. Awaited("END")'
      BY <1>3, <2>2, <3>2 DEF Awaited, Heard, Settled, Removed, Saved
    <3>4. Asked(END)'
      BY <3>1, <3>3 DEF Asked
    <3> QED
      BY <1>1, <3>1, <3>4, AskNext
  <2> QED
    BY <2>1, <2>2
<1>7. Progress'
  BY <1>3, <1>5 DEF StageInv, Progress, Here
<1> QED
  BY <1>3, <1>4, <1>5, <1>6, <1>7, KeptFiles, KeptRestarts, ListenFrame DEF TMStates

-----------------------------------------------------------------------------
(* The end of a stage.                                                     *)

LEMMA ListedFiles ==
  ASSUME NEW kind \in {"in", "out", "std", "restart", "wrapper"}, NEW n \in Nat,
         NEW f \in ToSet(Files(kind, n))
  PROVE  \E i \in 1..n : f = <<kind, i>>
<1>1. PICK s : s = Files(kind, n)
  OBVIOUS
<1>2. s \in Seq(File) /\ Len(s) = n /\ \A i \in 1..n : s[i] = <<kind, i>>
  BY <1>1, FilesFacts
<1>3. DOMAIN s = 1..n
  BY <1>2, SeqFacts
<1>4. PICK i \in DOMAIN s : f = s[i]
  BY <1>1 DEF ToSet
<1> QED
  BY <1>2, <1>3, <1>4

\* gw_tm_prolog_stage_in, gw_tm_prolog_cp_cb: the input files are there, or the
\* prolog has failed.
LEMMA PrologEndsTraffic ==
  ASSUME StageInv, NEW x \in Seq(XfrType), xfrs' = x, Settled(x), SameFiles(xfrs, x),
         tm_state = "PROLOG", Here \in dir[host],
         \A i \in 1..Len(x) : x[i].success => x[i].file \in dir[host],
         to_mad = <<>>, tasks = {}, tasks' = {}, from_mad' = <<>>, PrologEnds(x),
         UNCHANGED <<job_state, host, prev, dir>>
  PROVE  /\ Traffic' /\ to_mad' \in Seq(Line) /\ (~mad_up => to_mad' = <<>>)
         /\ tm_state' \in {"PROLOG", "PROLOG_FAILED"}
<1>1. job_state \in Prologs /\ host \in Hosts /\ JobDir = host
  BY DEF StageInv, Turn, Placed, JobDir, Prologs
<1>2. /\ mandatory \in Nat /\ mandatory <= Len(x) /\ mandatory = num_input_files
      /\ \A i \in 1..mandatory : x[i].file = <<"in", i>>
  BY <1>1 DEF StageInv, Types, TypeOK, FilesListed, SameFiles
<1>3. CASE \E i \in 1..mandatory : ~x[i].success
  <2>1. PICK h \in Hosts : h = host
    BY <1>1
  <2>2. /\ tm_state' = "PROLOG_FAILED" /\ Write(<<RMDIR(h)>>) /\ RMDIR(h) \in Line
        /\ RMDIR(h)[1] = "RMDIR" /\ RMDIR(h)[2] = h
    BY <1>3, <2>1, LineTypes, LineFields DEF PrologEnds
  <2>3. JobDir' = h
    BY <1>1, <2>1 DEF JobDir
  <2>4. Asked(RMDIR(h))'
    BY <2>2, <2>3 DEF Asked, Awaited
  <2>5. Traffic' /\ to_mad' \in Seq(Line) /\ (~mad_up => to_mad' = <<>>)
    BY <2>2, <2>4, AskNext
  <2> QED
    BY <2>2, <2>5
<1>4. CASE \A i \in 1..mandatory : x[i].success
  <2>1. tm_state' = tm_state /\ Write(<<END>>) /\ END \in Line /\ END[1] = "END"
    BY <1>4, LineTypes, LineFields DEF PrologEnds
  <2>2. ASSUME NEW f \in Inputs PROVE f \in dir[host]
    <3>1. PICK i \in 1..num_input_files : f = <<"in", i>>
      BY ListedFiles, TMAssumption DEF Inputs, InputFiles
    <3>2. i \in 1..mandatory /\ i \in 1..Len(x)
      BY <1>2, <3>1
    <3>3. x[i].success /\ x[i].file = f
      BY <1>2, <1>4, <3>1, <3>2
    <3> QED
      BY <3>2, <3>3
  <2>3. Staged'
    BY <2>2 DEF Staged, Here
  <2>4. Settled(xfrs)'
    BY DEF Settled
  <2>5. Asked(END)'
    BY <2>1, <2>3, <2>4 DEF Asked, Awaited
  <2>6. Traffic' /\ to_mad' \in Seq(Line) /\ (~mad_up => to_mad' = <<>>)
    BY <2>1, <2>5, AskNext
  <2> QED
    BY <2>1, <2>6
<1> QED
  BY <1>3, <1>4

\* gw_tm_epilog_cp_cb: the directory goes when the output files of the job are on
\* the local host.
LEMMA EpilogEndsTraffic ==
  ASSUME StageInv, NEW x \in Seq(XfrType), xfrs' = x, Settled(x), SameFiles(xfrs, x),
         tm_state = "EPILOG",
         \A i \in 1..Len(x) : x[i].success /\ x[i].to = "local" => x[i].file \in fetched,
         to_mad = <<>>, tasks = {}, tasks' = {}, from_mad' = <<>>, EpilogEnds(x),
         UNCHANGED <<job_state, host, prev, fetched>>
  PROVE  /\ Traffic' /\ to_mad' \in Seq(Line) /\ (~mad_up => to_mad' = <<>>)
         /\ tm_state' \in {"EPILOG", "EPILOG_FAILED"}
<1>1. job_state \in Epilogs
  BY DEF StageInv, Turn
<1>2. JobDir \in Hosts
  BY <1>1, JobDirType DEF Epilogs
<1>3. PICK failed \in BOOLEAN : failed = \E i \in 1..mandatory : ~x[i].success
  OBVIOUS
<1>4. /\ tm_state' = IF failed THEN "EPILOG_FAILED" ELSE "EPILOG"
      /\ Write(IF job_state = "EPILOG_STD" \/ (failed /\ job_state = "EPILOG")
                 THEN <<END>> ELSE <<RMDIR(JobDir)>>)
  BY <1>3 DEF EpilogEnds
<1>5. Settled(xfrs)'
  BY DEF Settled
<1>6. CASE job_state = "EPILOG_STD" \/ (failed /\ job_state = "EPILOG")
  <2>1. Write(<<END>>) /\ END \in Line /\ END[1] = "END"
    BY <1>4, <1>6, LineTypes, LineFields
  <2>2. Awaited("END")'
    BY <1>4, <1>5, <1>6 DEF Awaited
  <2>3. Asked(END)'
    BY <2>1, <2>2 DEF Asked
  <2>4. Traffic' /\ to_mad' \in Seq(Line) /\ (~mad_up => to_mad' = <<>>)
    BY <2>1, <2>3, AskNext
  <2> QED
    BY <1>4, <2>4
<1>7. CASE job_state # "EPILOG_STD" /\ ~(failed /\ job_state = "EPILOG")
  <2>1. PICK h \in Hosts : h = JobDir
    BY <1>2
  <2>2. /\ Write(<<RMDIR(h)>>) /\ RMDIR(h) \in Line
        /\ RMDIR(h)[1] = "RMDIR" /\ RMDIR(h)[2] = h
    BY <1>4, <1>7, <2>1, LineTypes, LineFields
  <2>3. JobDir' = h
    BY <2>1 DEF JobDir
  <2>4. ASSUME job_state = "EPILOG" PROVE tm_state' = "EPILOG" /\ Saved'
    <3>1. /\ mandatory = num_output_files + num_std_files /\ Len(x) = mandatory
          /\ \A i \in 1..Len(x) :
               /\ x[i].to = "local"
               /\ x[i].file = IF i <= num_output_files THEN <<"out", i>>
                              ELSE <<"std", i - num_output_files>>
      BY <2>4 DEF StageInv, FilesListed, SameFiles
    <3>2. tm_state' = "EPILOG" /\ \A i \in 1..mandatory : x[i].success
      BY <1>3, <1>4, <1>7, <2>4
    <3>3. ASSUME NEW f \in ToSet(OutputFiles) PROVE f \in fetched
      <4>1. PICK i \in 1..num_output_files : f = <<"out", i>>
        BY ListedFiles, TMAssumption DEF OutputFiles
      <4>2. i \in 1..Len(x) /\ i \in 1..mandatory /\ i <= num_output_files
        BY <3>1, <4>1, TMAssumption
      <4> QED
        BY <3>1, <3>2, <4>1, <4>2
    <3>4. ASSUME NEW f \in ToSet(StdFiles) PROVE f \in fetched
      <4>1. PICK i \in 1..num_std_files : f = <<"std", i>>
        BY ListedFiles, TMAssumption DEF StdFiles
      <4>2. PICK n \in Int : n = num_output_files + i
        BY TMAssumption
      <4>3. /\ n \in 1..Len(x) /\ n \in 1..mandatory /\ ~(n <= num_output_files)
            /\ n - num_output_files = i
        BY <3>1, <4>1, <4>2, TMAssumption
      <4> QED
        BY <3>1, <3>2, <4>1, <4>3
    <3>5. Saved'
      BY <3>3, <3>4 DEF Saved
    <3> QED
      BY <3>2, <3>5
  <2>5. Awaited("RMDIR")'
    BY <1>4, <1>5, <1>7, <2>4 DEF Awaited
  <2>6. Asked(RMDIR(h))'
    BY <2>2, <2>3, <2>5 DEF Asked
  <2>7. Traffic' /\ to_mad' \in Seq(Line) /\ (~mad_up => to_mad' = <<>>)
    BY <2>2, <2>6, AskNext
  <2> QED
    BY <1>4, <2>7
<1> QED
  BY <1>6, <1>7

\* gw_tm_mkdir_action_cb.
LEMMA ListenMkdir ==
  ASSUME StageInv, Heard, NEW a, a = Head(from_mad), a[1] = "MKDIR",
         tm_state \in Expected("MKDIR"), MkdirAnswered(a[3])
  PROVE  StageInv'
<1>1. /\ to_mad = <<>> /\ tasks = {} /\ tasks' = {} /\ from_mad' = <<>> /\ Answered(a) /\ Alone
      /\ a \in AnswerLine
  BY AnswerKinds, AloneAnswer DEF Heard
<1>2. a[3] \in BOOLEAN /\ tm_state = "PROLOG" /\ Fresh(xfrs) /\ (a[3] => Here \in dir[host])
  BY <1>1 DEF Answered, Awaited, AnswerLine
<1>3. /\ UNCHANGED <<xfrs, chk_xfrs, dmq>>
      /\ UNCHANGED <<job_state, host, prev, mandatory, dir, fetched, tmq, tasks>> /\ tmq = <<>>
  BY DEF Heard, MkdirAnswered
<1>4. job_state \in Prologs /\ run = NoHost /\ dmq = <<>> /\ host \in Hosts /\ JobDir = host
  BY <1>2 DEF StageInv, Turn, Placed, JobDir, Prologs
<1>5. Types /\ xfrs \in Seq(XfrType)
  BY DEF StageInv, Types
<1>6. /\ Traffic' /\ to_mad' \in Seq(Line) /\ (~mad_up => to_mad' = <<>>)
      /\ tm_state' \in {"PROLOG", "PROLOG_FAILED"}
  <2>1. CASE ~a[3]
    <3>1. tm_state' = "PROLOG_FAILED" /\ Write(<<END>>) /\ END \in Line /\ END[1] = "END"
      BY <2>1, LineTypes, LineFields DEF MkdirAnswered
    <3>2. Asked(END)'
      BY <3>1 DEF Asked, Awaited
    <3>3. Traffic' /\ to_mad' \in Seq(Line) /\ (~mad_up => to_mad' = <<>>)
      BY <1>1, <3>1, <3>2, AskNext
    <3> QED
      BY <3>1, <3>3
  <2>2. CASE a[3] /\ xfrs = <<>>
    <3>1. PICK x \in Seq(XfrType) : x = xfrs
      BY <1>5
    <3>2. PrologEnds(x) /\ Len(x) = 0
      BY <2>2, <3>1 DEF MkdirAnswered
    <3>3. Settled(x) /\ SameFiles(xfrs, x) /\ \A i \in 1..Len(x) : x[i].success => x[i].file \in dir[host]
      BY <3>1, <3>2 DEF Settled, SameFiles
    <3> QED
      BY <1>1, <1>2, <1>3, <2>2, <3>1, <3>2, <3>3, PrologEndsTraffic
  <2>3. CASE a[3] /\ xfrs # <<>>
    <3>1. PICK x \in Seq(XfrType) : x = xfrs
      BY <1>5
    <3>2. Write(Copies(x)) /\ tm_state' = tm_state
      BY <2>3, <3>1 DEF MkdirAnswered
    <3>3. List' = x /\ Fresh(x)
      BY <1>2, <1>3, <3>1, <3>2 DEF List
    <3>4. (tm_state = "PROLOG" => Here \in dir[host])'
      BY <1>2, <1>3, <2>3 DEF Here
    <3>5. \A i \in 1..Len(x) : (IF x[i].to = "job" THEN JobDir ELSE x[i].to)
                                 = IF tm_state' = "PROLOG" THEN host' ELSE x[i].to
      BY <1>2, <1>3, <1>4, <3>1, <3>2 DEF StageInv, FilesListed
    <3>6. Traffic' /\ to_mad' \in Seq(Line) /\ (~mad_up => to_mad' = <<>>)
      BY <1>1, <1>2, <1>4, <1>5, <3>2, <3>3, <3>4, <3>5, CopyAll
    <3> QED
      BY <1>2, <3>2, <3>6
  <2> QED
    BY <1>2, <2>1, <2>2, <2>3
<1>7. Progress'
  BY <1>2, <1>3, <1>6 DEF StageInv, Progress, Here
<1> QED
  BY <1>3, <1>4, <1>6, <1>7, KeptFiles, KeptRestarts, ListenFrame DEF TMStates

\* gw_tm_end_action_cb.
LEMMA ListenEnd ==
  ASSUME StageInv, Heard, NEW a, a = Head(from_mad), a[1] = "END",
         tm_state \in Expected("END"), EndAnswered
  PROVE  StageInv'
<1>1. /\ UNCHANGED <<xfrs, chk_xfrs>>
      /\ UNCHANGED <<job_state, host, prev, mandatory, dir, fetched, tmq, tasks, run>> /\ tmq = <<>>
  BY DEF Heard, EndAnswered
<1>2. tm_state \in TMStates \ {"INIT", "CHECKPOINT"}
  BY DEF Expected
<1>3. dmq = <<>> /\ run = NoHost
  BY <1>2 DEF StageInv, Turn
<1>4. /\ tm_state \in {"PROLOG", "PROLOG_FAILED"} => job_state \in Prologs
      /\ tm_state \in {"EPILOG", "EPILOG_FAILED"} => job_state \in Epilogs
      /\ job_state # "PENDING"
  BY <1>2 DEF StageInv, Turn, Prologs, Epilogs, TMStates
<1>5. CASE tm_state # "CHECKPOINT_CANCEL"
  <2>1. /\ to_mad = <<>> /\ tasks = {} /\ from_mad' = <<>> /\ Answered(a)
    BY <1>5, AnswerKinds, AloneAnswer
  <2>2. Awaited("END")
    BY <2>1 DEF Answered
  <2>3. PICK m : m = IF tm_state = "PROLOG" THEN "PROLOG_DONE"
                     ELSE IF tm_state = "EPILOG" THEN "EPILOG_DONE" ELSE tm_state
    OBVIOUS
  <2>4. tm_state' = "INIT" /\ dmq' = <<m>> /\ to_mad' = <<>>
    BY <1>3, <1>5, <2>1, <2>3 DEF EndAnswered, Report, Done
  <2>5. m \in Message
    BY <1>2, <1>5, <2>3 DEF Message, Reports, TMStates
  <2>6. Fits(m)'
    <3>1. CASE tm_state = "PROLOG"
      <4>1. Staged'
        BY <1>1, <2>2, <3>1 DEF Awaited, Staged
      <4> QED
        BY <1>1, <1>4, <2>3, <2>4, <3>1, <4>1 DEF Fits, StageReports, Epilogs
    <3>2. CASE tm_state = "EPILOG"
      <4>1. /\ job_state # "EPILOG_STD" => Removed'
            /\ job_state = "EPILOG" => Saved'
        BY <1>1, <2>2, <3>2 DEF Awaited, Removed, Saved
      <4> QED
        BY <1>1, <1>4, <2>3, <2>4, <3>2, <4>1 DEF Fits, StageReports, Epilogs
    <3>3. CASE tm_state = "PROLOG_FAILED"
      BY <1>1, <1>4, <2>3, <2>4, <3>3 DEF Fits, StageReports, Epilogs
    <3>4. CASE tm_state = "EPILOG_FAILED"
      <4>1. job_state \notin {"EPILOG_STD", "EPILOG"} => Removed'
        BY <1>1, <2>2, <3>4 DEF Awaited, Removed
      <4> QED
        BY <1>1, <1>4, <2>3, <2>4, <3>4, <4>1 DEF Fits, StageReports, Epilogs
    <3> QED
      BY <1>2, <1>5, <3>1, <3>2, <3>3, <3>4 DEF TMStates
  <2>7. Traffic' /\ to_mad' \in Seq(Line) /\ (~mad_up => to_mad' = <<>>)
    BY <1>1, <2>1, <2>4 DEF Traffic, Silent
  <2>8. Progress'
    BY <1>1, <2>4 DEF Progress
  <2> QED
    BY <1>1, <1>3, <1>4, <2>4, <2>5, <2>6, <2>7, <2>8, KeptFiles, KeptRestarts, ListenFrame
    DEF TMStates
<1>6. CASE tm_state = "CHECKPOINT_CANCEL"
  <2>1. ~Alone
    <3> SUFFICES ASSUME Alone PROVE FALSE
      OBVIOUS
    <3>1. Awaited("END")
      BY AloneAnswer DEF Answered
    <3> QED
      BY <1>6, <3>1 DEF Awaited
  <2>2. to_mad = <<>> /\ tasks = {} /\ from_mad' = <<>>
    BY <2>1, AnswerKinds
  <2>3. /\ tm_state' = IF job_state \in Prologs THEN "PROLOG" ELSE "EPILOG"
        /\ Write(<<START>>) /\ dmq' = dmq
    BY <1>6 DEF EndAnswered
  <2>4. job_state \in Prologs \union Epilogs
    BY <1>6 DEF StageInv, Turn
  <2>5. Fresh(xfrs) /\ xfrs \in Seq(XfrType) /\ XfrOK(xfrs)
    BY <1>6 DEF StageInv, Progress, Types, TypeOK
  <2>6. \A i \in 1..Len(xfrs) : ~xfrs[i].success /\ xfrs[i].counter = -1
    <3>1. DOMAIN xfrs = 1..Len(xfrs)
      BY <2>5, SeqFacts
    <3> QED
      BY <2>5, <3>1 DEF XfrOK, Fresh
  <2>7. START \in Line /\ START[1] = "START"
    BY LineTypes, LineFields
  <2>8. Fresh(xfrs)'
    BY <1>1, <2>5 DEF Fresh
  <2>9. Asked(START)'
    BY <2>3, <2>7, <2>8 DEF Asked, Awaited
  <2>10. Traffic' /\ to_mad' \in Seq(Line) /\ (~mad_up => to_mad' = <<>>)
    BY <1>1, <2>2, <2>3, <2>7, <2>9, AskNext
  <2>11. Progress'
    BY <1>1, <2>3, <2>6, <2>8 DEF Progress
  <2> QED
    BY <1>1, <1>3, <1>4, <2>3, <2>4, <2>10, <2>11, KeptFiles, KeptRestarts, ListenFrame
    DEF TMStates
<1> QED
  BY <1>5, <1>6

-----------------------------------------------------------------------------
(* The answer to a copy.                                                   *)

\* y is x once the copy of its entry i was answered.
Tried(x, i, ok, y) == y = [x EXCEPT ![i] = Copied(@, ok)]

\* A transfer whose copy was answered is done or waits for a new try.
LEMMA CopiedFacts ==
  ASSUME NEW x \in Seq(XfrType), XfrOK(x), NEW i \in 1..Len(x), ~x[i].done, NEW ok \in BOOLEAN,
         NEW y, Tried(x, i, ok, y)
  PROVE  /\ y \in Seq(XfrType) /\ XfrOK(y) /\ SameFiles(x, y)
         /\ \A j \in 1..Len(x) : j # i => y[j] = x[j]
         /\ y[i].success => ok
         /\ y[i].counter # -1 => ~y[i].done
<1>1. DOMAIN x = 1..Len(x) /\ Len(x) \in Nat /\ x[i] \in XfrType
  BY SeqFacts
<1>2. PICK e \in XfrType : e = x[i]
  BY <1>1
<1>3. /\ e.file \in File /\ e.from \in Place /\ e.alt \in BOOLEAN /\ e.to \in Place /\ e.tries \in Nat
      /\ e.done = FALSE /\ e.success = FALSE /\ e.counter \in Int
      /\ e = [file |-> e.file, from |-> e.from, alt |-> e.alt, to |-> e.to, tries |-> e.tries,
              done |-> FALSE, success |-> FALSE, counter |-> e.counter]
  <2>1. e.done = FALSE /\ e.success = FALSE
    BY <1>1, <1>2 DEF XfrOK, XfrType
  <2> QED
    BY <2>1 DEF XfrType
<1>4. e.tries \in 1..number_of_retries /\ number_of_retries \in Nat
  BY <1>1, <1>2, <1>3, TMAssumption DEF XfrOK
<1>5. PICK c : c = Copied(e, ok)
  OBVIOUS
<1>6. /\ c \in XfrType /\ c.file = e.file /\ c.to = e.to /\ (c.success => ok)
      /\ c.tries \in 0..number_of_retries
      /\ c.counter \in {-1} \union 1..number_of_retries - 1
      /\ c.counter # -1 => ~c.done
      /\ ~c.done => c.tries # 0
      /\ c.success => c.done
  <2>1. CASE ok
    <3>1. c = [e EXCEPT !.done = TRUE, !.success = TRUE, !.counter = -1]
      BY <1>5, <2>1 DEF Copied
    <3>2. c = [file |-> e.file, from |-> e.from, alt |-> e.alt, to |-> e.to, tries |-> e.tries,
                  done |-> TRUE, success |-> TRUE, counter |-> -1]
      BY <1>3, <3>1
    <3>3. /\ c \in XfrType /\ c.file = e.file /\ c.to = e.to /\ c.done /\ c.success
          /\ c.counter = -1 /\ c.tries = e.tries
      BY <1>3, <3>2 DEF XfrType
    <3> QED
      BY <1>4, <2>1, <3>3
  <2>2. CASE ~ok /\ e.tries = 1
    <3>1. c = [e EXCEPT !.tries = 0, !.done = TRUE, !.counter = -1]
      BY <1>5, <2>2 DEF Copied
    <3>2. c = [file |-> e.file, from |-> e.from, alt |-> e.alt, to |-> e.to, tries |-> 0,
                  done |-> TRUE, success |-> FALSE, counter |-> -1]
      BY <1>3, <3>1
    <3>3. /\ c \in XfrType /\ c.file = e.file /\ c.to = e.to /\ c.done /\ ~c.success
          /\ c.counter = -1 /\ c.tries = 0
      BY <1>3, <3>2 DEF XfrType
    <3> QED
      BY <1>4, <2>2, <3>3
  <2>3. CASE ~ok /\ e.tries # 1
    <3>1. PICK n \in Nat, k \in Nat : n = e.tries - 1 /\ k = number_of_retries - n
      BY <1>4
    <3>2. n \in 1..number_of_retries - 1 /\ k \in 1..number_of_retries - 1
      BY <1>4, <2>3, <3>1
    <3>3. c = [e EXCEPT !.tries = n, !.counter = k]
      BY <1>5, <2>3, <3>1 DEF Copied
    <3>4. c = [file |-> e.file, from |-> e.from, alt |-> e.alt, to |-> e.to, tries |-> n,
                  done |-> FALSE, success |-> FALSE, counter |-> k]
      BY <1>3, <3>3
    <3>5. /\ c \in XfrType /\ c.file = e.file /\ c.to = e.to /\ ~c.done /\ ~c.success
          /\ c.counter = k /\ c.tries = n
      BY <1>3, <3>1, <3>4 DEF XfrType
    <3> QED
      BY <1>4, <2>3, <3>2, <3>5
  <2> QED
    BY <2>1, <2>2, <2>3
<1>7. /\ y \in Seq(XfrType) /\ Len(y) = Len(x) /\ y[i] = c
      /\ \A j \in 1..Len(x) : j # i => y[j] = x[j]
  <2>1. y = [x EXCEPT ![i] = c]
    BY <1>2, <1>5 DEF Tried
  <2> QED
    BY <1>1, <1>6, <2>1
<1>8. DOMAIN y = 1..Len(x)
  BY <1>7, SeqFacts
<1>9. XfrOK(y)
  <2> SUFFICES ASSUME NEW j \in 1..Len(x)
               PROVE  /\ y[j].tries \in 0..number_of_retries
                      /\ y[j].counter \in {-1} \union 1..number_of_retries - 1
                      /\ y[j].counter # -1 => ~y[j].done
                      /\ ~y[j].done => y[j].tries # 0
                      /\ y[j].success => y[j].done
    BY <1>8 DEF XfrOK
  <2>1. CASE j = i
    BY <1>6, <1>7, <2>1
  <2>2. CASE j # i
    BY <1>1, <1>7, <2>2 DEF XfrOK
  <2> QED
    BY <2>1, <2>2
<1>10. SameFiles(x, y)
  BY <1>2, <1>6, <1>7 DEF SameFiles
<1> QED
  BY <1>6, <1>7, <1>9, <1>10

\* The copy that is answered, and the others.
LEMMA CopyHeard ==
  ASSUME StageInv, Heard, Copying, NEW a, a = Head(from_mad), NEW f, f = from_mad'
  PROVE  /\ a \in AnswerLine /\ a[2] \in 1..Len(List) /\ a[3] \in BOOLEAN
         /\ CopyAnswered(a)
         /\ f \in Seq(AnswerLine) /\ to_mad \in Seq(Line)
         /\ \A k \in 1..Len(to_mad) : CopyAsked(to_mad[k]) /\ to_mad[k][2] # a[2]
         /\ \A t \in tasks : CopyAsked(t) /\ t[2] # a[2]
         /\ \A k \in 1..Len(f) : CopyAnswered(f[k]) /\ f[k][2] # a[2]
         /\ Apart(to_mad, tasks, f)
<1>1. from_mad \in Seq(AnswerLine) /\ to_mad \in Seq(Line) /\ from_mad # <<>>
  BY DEF StageInv, Types, Heard
<1>2. /\ a = from_mad[1] /\ a \in AnswerLine /\ 1 \in 1..Len(from_mad)
      /\ f \in Seq(AnswerLine) /\ Len(f) = Len(from_mad) - 1
      /\ \A k \in 1..Len(f) : k + 1 \in 1..Len(from_mad) /\ f[k] = from_mad[k + 1] /\ k + 1 # 1
  <2>1. Len(from_mad) \in Nat /\ Len(from_mad) # 0
    BY <1>1, SeqFacts
  <2>2. f = Tail(from_mad)
    BY DEF Heard
  <2> QED
    BY <1>1, <2>1, <2>2, TailFacts
<1>3. CopyAnswered(a) /\ Apart(to_mad, tasks, from_mad)
  BY <1>2 DEF Copying, OnceEach
<1>4. a[2] \in 1..Len(List) /\ a[3] \in BOOLEAN
  BY <1>2, <1>3 DEF CopyAnswered, Open, AnswerLine
<1>5. \A k \in 1..Len(to_mad) : CopyAsked(to_mad[k]) /\ to_mad[k][2] # a[2]
  BY <1>2, <1>3 DEF Copying, Apart
<1>6. \A t \in tasks : CopyAsked(t) /\ t[2] # a[2]
  BY <1>2, <1>3 DEF Copying, Apart
<1>7. \A k \in 1..Len(f) : CopyAnswered(f[k]) /\ f[k][2] # a[2]
  BY <1>2, <1>3 DEF Copying, Apart
<1>8. Apart(to_mad, tasks, f)
  <2>1. \A k, n \in 1..Len(f) : f[k][2] = f[n][2] => k = n
    <3> SUFFICES ASSUME NEW k \in 1..Len(f), NEW n \in 1..Len(f), f[k][2] = f[n][2]
                 PROVE  k = n
      OBVIOUS
    <3>1. from_mad[k + 1][2] = from_mad[n + 1][2] /\ k + 1 \in 1..Len(from_mad) /\ n + 1 \in 1..Len(from_mad)
      BY <1>2
    <3>2. k + 1 = n + 1
      BY <1>3, <3>1 DEF Apart
    <3> QED
      BY <3>2
  <2>2. ASSUME NEW k \in 1..Len(f)
        PROVE  /\ \A t \in tasks : f[k][2] # t[2]
               /\ \A n \in 1..Len(to_mad) : f[k][2] # to_mad[n][2]
    <3>1. PICK n \in 1..Len(from_mad) : f[k] = from_mad[n]
      BY <1>2
    <3> QED
      BY <1>3, <3>1 DEF Apart
  <2> QED
    BY <1>3, <2>1, <2>2 DEF Apart
<1> QED
  BY <1>1, <1>2, <1>3, <1>4, <1>5, <1>6, <1>7, <1>8

\* When all the others are done, nothing is left under way.
LEMMA LastCopy ==
  ASSUME StageInv, Heard, Copying, \A j \in 1..Len(List) : j # Head(from_mad)[2] => List[j].done
  PROVE  to_mad = <<>> /\ tasks = {} /\ tasks' = {} /\ from_mad' = <<>>
<1>1. PICK a, f : a = Head(from_mad) /\ f = from_mad'
  OBVIOUS
<1>2. /\ f \in Seq(AnswerLine) /\ to_mad \in Seq(Line)
      /\ \A k \in 1..Len(to_mad) : CopyAsked(to_mad[k]) /\ to_mad[k][2] # a[2]
      /\ \A t \in tasks : CopyAsked(t) /\ t[2] # a[2]
      /\ \A k \in 1..Len(f) : CopyAnswered(f[k]) /\ f[k][2] # a[2]
  BY <1>1, CopyHeard
<1>3. \A j : Open(j) => j = a[2]
  BY <1>1 DEF Open
<1>4. /\ \A k \in 1..Len(to_mad) : FALSE
      /\ \A t \in tasks : FALSE
      /\ \A k \in 1..Len(f) : FALSE
  BY <1>2, <1>3 DEF CopyAsked, CopyAnswered
<1>5. to_mad = <<>> /\ f = <<>>
  <2>1. Len(to_mad) \in Nat /\ Len(f) \in Nat
    BY <1>2, SeqFacts
  <2>2. Len(to_mad) = 0 /\ Len(f) = 0
    BY <1>4, <2>1
  <2> QED
    BY <1>2, <2>2, SeqFacts
<1> QED
  BY <1>1, <1>4, <1>5 DEF Heard

\* Otherwise they go on, and with them a copy of the alternate file.
LEMMA CopyGoesOn ==
  ASSUME StageInv, Heard, Copying, NEW a, a = Head(from_mad),
         NEW y \in Seq(XfrType), List' = y, SameFiles(List, y), tm_state' = tm_state,
         \A j \in 1..Len(List) : j # a[2] => y[j] = List[j],
         \/ UNCHANGED to_mad
         \/ /\ tm_state = "PROLOG" /\ ~y[a[2]].done /\ y[a[2]].counter = -1
            /\ Write(<<CP(y, a[2])>>)
  PROVE  Traffic' /\ to_mad' \in Seq(Line) /\ (~mad_up => to_mad' = <<>>)
<1>1. PICK f : f = from_mad'
  OBVIOUS
<1>2. /\ a[2] \in 1..Len(List)
      /\ f \in Seq(AnswerLine) /\ to_mad \in Seq(Line)
      /\ \A k \in 1..Len(to_mad) : CopyAsked(to_mad[k]) /\ to_mad[k][2] # a[2]
      /\ \A t \in tasks : CopyAsked(t) /\ t[2] # a[2]
      /\ \A k \in 1..Len(f) : CopyAnswered(f[k]) /\ f[k][2] # a[2]
      /\ Apart(to_mad, tasks, f)
  BY <1>1, CopyHeard
<1>3. UNCHANGED <<job_state, host, prev, dir, fetched, tasks, mad_up>> /\ Types
  BY DEF Heard, StageInv
<1>4. PICK i : i = a[2]
  OBVIOUS
<1>5. \A j : Open(j) /\ j # i => Open(j)' /\ y[j] = List[j]
  BY <1>4 DEF Open, SameFiles
<1>6. \A l : CopyAsked(l) /\ l[2] # i => CopyAsked(l)'
  BY <1>3, <1>5 DEF CopyAsked
<1>7. \A b : CopyAnswered(b) /\ b[2] # i => CopyAnswered(b)'
  BY <1>3, <1>5 DEF CopyAnswered
<1>8. \A k \in 1..Len(to_mad) : \A l : l = to_mad[k] => CopyAsked(l)'
  BY <1>2, <1>4, <1>6
<1>9. \A t \in tasks : CopyAsked(t)'
  BY <1>2, <1>4, <1>6
<1>10. \A k \in 1..Len(f) : CopyAnswered(f[k])'
  <2> SUFFICES ASSUME NEW k \in 1..Len(f) PROVE CopyAnswered(f[k])'
    OBVIOUS
  <2>1. PICK b : b = f[k]
    OBVIOUS
  <2>2. CopyAnswered(b)'
    BY <1>2, <1>4, <1>7, <2>1
  <2> QED
    BY <2>1, <2>2
<1>11. tm_state' \in {"PROLOG", "EPILOG", "CHECKPOINT"} /\ (tm_state = "PROLOG" => Here \in dir[host])'
  BY <1>3 DEF Copying, Here
<1>12. CASE UNCHANGED to_mad
  <2>1. \A k \in 1..Len(to_mad) : CopyAsked(to_mad[k])'
    <3> SUFFICES ASSUME NEW k \in 1..Len(to_mad) PROVE CopyAsked(to_mad[k])'
      OBVIOUS
    <3>1. PICK l : l = to_mad[k]
      OBVIOUS
    <3>2. CopyAsked(l)' /\ l = to_mad'[k]
      BY <1>8, <1>12, <3>1
    <3> QED
      BY <3>2
  <2>2. PICK r \in Seq(Line) : r = <<>>
    <3>1. <<>> \in Seq(Line)
      OBVIOUS
    <3> QED
      BY <3>1
  <2>3. Write(r)
    BY <1>2, <1>12, <2>2 DEF Write
  <2>4. Len(r) = 0
    BY <2>2
  <2>5. /\ \A k \in 1..Len(r) : CopyAsked(r[k])'
        /\ \A k, n \in 1..Len(r) : r[k][2] = r[n][2] => k = n
        /\ \A k \in 1..Len(r) : /\ \A n \in 1..Len(to_mad) : to_mad[n][2] # r[k][2]
                                /\ \A t \in tasks : t[2] # r[k][2]
                                /\ \A n \in 1..Len(f) : f[n][2] # r[k][2]
    BY <2>4
  <2> QED
    BY <1>1, <1>2, <1>3, <1>8, <1>9, <1>10, <1>11, <2>3, <2>5, WriteCopies
<1>13. CASE /\ tm_state = "PROLOG" /\ ~y[i].done /\ y[i].counter = -1
            /\ Write(<<CP(y, i)>>)
  <2>1. job_state \in Prologs /\ JobDir = host /\ JobDir \in Hosts
    BY <1>13 DEF StageInv, Turn, Placed, JobDir, Prologs
  <2>2. /\ i \in 1..Len(y) /\ y[i].to = "job"
    BY <1>2, <1>4, <1>13, <2>1 DEF SameFiles, List, StageInv, FilesListed
  <2>3. PICK l : l = CP(y, i)
    OBVIOUS
  <2>4. l \in Line /\ l[1] = "CP" /\ l[2] = i /\ l[3] = y[i].file /\ l[5] = host
    BY <2>1, <2>2, <2>3, CopyLine
  <2>5. Open(i)'
    BY <1>13, <2>2 DEF Open
  <2>6. CopyAsked(l)'
    BY <1>3, <1>13, <2>4, <2>5 DEF CopyAsked
  <2>7. PICK r : r = <<l>>
    OBVIOUS
  <2>8. r \in Seq(Line) /\ Len(r) = 1 /\ r[1] = l /\ Write(r)
    BY <1>13, <2>3, <2>4, <2>7, OneFacts
  <2>9. \A k \in 1..Len(r) : CopyAsked(r[k])'
    <3> SUFFICES ASSUME NEW k \in 1..Len(r) PROVE CopyAsked(r[k])'
      OBVIOUS
    <3>1. r[k] = l
      BY <2>8
    <3> QED
      BY <2>6, <3>1
  <2>10. /\ \A k, n \in 1..Len(r) : r[k][2] = r[n][2] => k = n
         /\ \A k \in 1..Len(r) : /\ \A n \in 1..Len(to_mad) : to_mad[n][2] # r[k][2]
                                 /\ \A t \in tasks : t[2] # r[k][2]
                                 /\ \A n \in 1..Len(f) : f[n][2] # r[k][2]
    BY <1>2, <1>4, <2>4, <2>8
  <2> QED
    BY <1>1, <1>2, <1>3, <1>8, <1>9, <1>10, <1>11, <2>8, <2>9, <2>10, WriteCopies
<1> QED
  BY <1>4, <1>12, <1>13

\* gw_tm_prolog_cp_cb.
LEMMA ListenPrologCopied ==
  ASSUME StageInv, Heard, Copying, NEW a, a = Head(from_mad), tm_state = "PROLOG",
         PrologCopied(a[2], a[3])
  PROVE  StageInv'
<1>1. PICK i, ok : i = a[2] /\ ok = a[3]
  OBVIOUS
<1>2. i \in 1..Len(List) /\ ok \in BOOLEAN /\ CopyAnswered(a) /\ Open(i)
  BY <1>1, CopyHeard DEF CopyAnswered
<1>3. PICK x \in Seq(XfrType) : x = xfrs /\ x = List /\ XfrOK(x)
  BY DEF List, StageInv, Types, TypeOK
<1>4. /\ i \in 1..Len(x) /\ ~x[i].done /\ x[i] \in XfrType
      /\ ok => x[i].file \in dir[host]
  BY <1>1, <1>2, <1>3, SeqFacts DEF Open, CopyAnswered
<1>5. /\ UNCHANGED <<chk_xfrs, dmq, job_state, host, prev, run, mandatory, dir, fetched, tmq, tasks>>
      /\ tmq = <<>>
  BY DEF PrologCopied, Heard
<1>6. job_state \in Prologs /\ run = NoHost /\ host \in Hosts /\ JobDir = host
  BY DEF StageInv, Turn, Placed, JobDir, Prologs
<1>7. Here \in dir[host] /\ \A j \in 1..Len(x) : x[j].success => x[j].file \in dir[host]
  BY <1>3 DEF Copying, StageInv, Progress
<1>8. CASE ~ok /\ x[i].tries = 1 /\ x[i].alt
  <2>1. PICK e : e = Xfr(x[i].file, "server", FALSE, x[i].to)
    OBVIOUS
  <2>2. /\ e \in XfrType /\ e.file = x[i].file /\ e.to = x[i].to
        /\ ~e.done /\ ~e.success /\ e.counter = -1 /\ e.tries = number_of_retries
    <3>1. x[i].file \in File /\ x[i].to \in Place /\ "server" \in Place /\ FALSE \in BOOLEAN
      BY <1>4 DEF XfrType, Place
    <3>2. PICK g \in File, to \in Place : g = x[i].file /\ to = x[i].to
      BY <3>1
    <3>3. e = [file |-> g, from |-> "server", alt |-> FALSE, to |-> to, tries |-> number_of_retries,
               done |-> FALSE, success |-> FALSE, counter |-> -1]
      BY <2>1, <3>2 DEF Xfr
    <3> QED
      BY <3>1, <3>2, <3>3, TMAssumption DEF XfrType
  <2>3. PICK y : y = [x EXCEPT ![i] = e]
    OBVIOUS
  <2>4. /\ y \in Seq(XfrType) /\ Len(y) = Len(x) /\ y[i] = e
        /\ \A j \in 1..Len(x) : j # i => y[j] = x[j]
    BY <1>4, <2>2, <2>3
  <2>5. xfrs' = y /\ Write(<<CP(y, i)>>) /\ tm_state' = tm_state
    BY <1>1, <1>3, <1>8, <2>1, <2>3 DEF PrologCopied
  <2>6. SameFiles(x, y)
    BY <2>2, <2>4 DEF SameFiles
  <2>7. XfrOK(y)
    <3>1. DOMAIN y = 1..Len(x) /\ DOMAIN x = 1..Len(x)
      BY <2>4, SeqFacts
    <3>2. e.tries \in 0..number_of_retries /\ e.tries # 0
      BY <2>2, TMAssumption
    <3> SUFFICES ASSUME NEW j \in 1..Len(x)
                 PROVE  /\ y[j].tries \in 0..number_of_retries
                        /\ y[j].counter \in {-1} \union 1..number_of_retries - 1
                        /\ y[j].counter # -1 => ~y[j].done
                        /\ ~y[j].done => y[j].tries # 0
                        /\ y[j].success => y[j].done
      BY <3>1 DEF XfrOK
    <3>3. CASE j = i
      BY <2>2, <2>4, <3>2, <3>3
    <3>4. CASE j # i
      BY <1>3, <2>4, <3>1, <3>4 DEF XfrOK
    <3> QED
      BY <3>3, <3>4
  <2>8. List' = y
    BY <2>5 DEF List
  <2>9. Traffic' /\ to_mad' \in Seq(Line) /\ (~mad_up => to_mad' = <<>>)
    BY <1>1, <1>3, <2>2, <2>4, <2>5, <2>6, <2>8, CopyGoesOn
  <2>10. \A j \in 1..Len(y) : y[j].success => y[j].file \in dir[host]
    BY <1>7, <2>2, <2>4
  <2>11. Progress'
    BY <1>5, <1>7, <2>5, <2>10 DEF Progress, Here
  <2> QED
    BY <1>3, <1>5, <1>6, <2>4, <2>5, <2>6, <2>7, <2>9, <2>11, KeptRestarts, ListenFrame DEF TMStates
<1>9. CASE ~(~ok /\ x[i].tries = 1 /\ x[i].alt)
  <2>1. PICK y : Tried(x, i, ok, y)
    BY DEF Tried
  <2>2. /\ y \in Seq(XfrType) /\ XfrOK(y) /\ SameFiles(x, y)
        /\ \A j \in 1..Len(x) : j # i => y[j] = x[j]
        /\ y[i].success => ok
    BY <1>2, <1>3, <1>4, <2>1, CopiedFacts
  <2>3. /\ xfrs' = y
        /\ IF Pending(y) THEN UNCHANGED <<to_mad, tm_state>> ELSE PrologEnds(y)
    BY <1>1, <1>3, <1>9, <2>1 DEF PrologCopied, Tried
  <2>4. \A j \in 1..Len(y) : y[j].success => y[j].file \in dir[host]
    BY <1>4, <1>7, <2>2 DEF SameFiles
  <2>5. /\ Traffic' /\ to_mad' \in Seq(Line) /\ (~mad_up => to_mad' = <<>>)
        /\ tm_state' \in {"PROLOG", "PROLOG_FAILED"}
    <3>1. CASE Pending(y)
      <4>1. List' = y
        BY <2>3, <3>1 DEF List
      <4> QED
        BY <1>1, <1>3, <2>2, <2>3, <3>1, <4>1, CopyGoesOn
    <3>2. CASE ~Pending(y)
      <4>1. DOMAIN y = 1..Len(y)
        BY <2>2, SeqFacts
      <4>2. Settled(y)
        BY <3>2, <4>1 DEF Pending, Settled
      <4>3. \A j \in 1..Len(x) : j # i => x[j].done
        BY <2>2, <4>2 DEF Settled, SameFiles
      <4>4. to_mad = <<>> /\ tasks = {} /\ tasks' = {} /\ from_mad' = <<>>
        BY <1>1, <1>3, <4>3, LastCopy
      <4> QED
        BY <1>3, <1>5, <1>7, <2>2, <2>3, <2>4, <3>2, <4>2, <4>4, PrologEndsTraffic
    <3> QED
      BY <3>1, <3>2
  <2>6. Progress'
    BY <1>5, <1>7, <2>3, <2>4, <2>5 DEF Progress, Here
  <2>7. dmq = <<>>
    BY DEF StageInv, Turn
  <2> QED
    BY <1>3, <1>5, <1>6, <2>2, <2>3, <2>5, <2>6, <2>7, KeptRestarts, ListenFrame DEF TMStates
<1> QED
  BY <1>8, <1>9

\* gw_tm_epilog_cp_cb.
LEMMA ListenEpilogCopied ==
  ASSUME StageInv, Heard, Copying, NEW a, a = Head(from_mad), tm_state = "EPILOG",
         EpilogCopied(a[2], a[3])
  PROVE  StageInv'
<1>1. PICK i, ok : i = a[2] /\ ok = a[3]
  OBVIOUS
<1>2. i \in 1..Len(List) /\ ok \in BOOLEAN /\ CopyAnswered(a) /\ Open(i)
  BY <1>1, CopyHeard DEF CopyAnswered
<1>3. PICK x \in Seq(XfrType) : x = xfrs /\ x = List /\ XfrOK(x)
  BY DEF List, StageInv, Types, TypeOK
<1>4. /\ i \in 1..Len(x) /\ ~x[i].done
      /\ ok /\ x[i].to = "local" => x[i].file \in fetched
  BY <1>1, <1>2, <1>3 DEF Open, CopyAnswered
<1>5. /\ UNCHANGED <<chk_xfrs, dmq, job_state, host, prev, run, mandatory, dir, fetched, tmq, tasks>>
      /\ tmq = <<>>
  BY DEF EpilogCopied, Heard
<1>6. job_state \in Epilogs /\ run = NoHost /\ dmq = <<>>
  BY DEF StageInv, Turn
<1>7. PICK y : Tried(x, i, ok, y)
  BY DEF Tried
<1>8. /\ y \in Seq(XfrType) /\ XfrOK(y) /\ SameFiles(x, y)
      /\ \A j \in 1..Len(x) : j # i => y[j] = x[j]
      /\ y[i].success => ok
  BY <1>2, <1>3, <1>4, <1>7, CopiedFacts
<1>9. /\ xfrs' = y
      /\ UNCHANGED <<to_mad, tm_state>> \/ (~Pending(y) /\ EpilogEnds(y))
  BY <1>1, <1>3, <1>7 DEF EpilogCopied, Tried
<1>10. \A j \in 1..Len(y) : y[j].success /\ y[j].to = "local" => y[j].file \in fetched
  <2>1. \A j \in 1..Len(x) : x[j].success /\ x[j].to = "local" => x[j].file \in fetched
    BY <1>3 DEF StageInv, Progress
  <2> QED
    BY <1>4, <1>8, <2>1 DEF SameFiles
<1>11. /\ Traffic' /\ to_mad' \in Seq(Line) /\ (~mad_up => to_mad' = <<>>)
       /\ tm_state' \in {"EPILOG", "EPILOG_FAILED"}
  <2>1. CASE UNCHANGED <<to_mad, tm_state>>
    <3>1. List' = y
      BY <1>9, <2>1 DEF List
    <3> QED
      BY <1>1, <1>3, <1>8, <2>1, <3>1, CopyGoesOn
  <2>2. CASE ~Pending(y) /\ EpilogEnds(y)
    <3>1. DOMAIN y = 1..Len(y)
      BY <1>8, SeqFacts
    <3>2. Settled(y)
      BY <2>2, <3>1 DEF Pending, Settled
    <3>3. \A j \in 1..Len(x) : j # i => x[j].done
      BY <1>8, <3>2 DEF Settled, SameFiles
    <3>4. to_mad = <<>> /\ tasks = {} /\ tasks' = {} /\ from_mad' = <<>>
      BY <1>1, <1>3, <3>3, LastCopy
    <3> QED
      BY <1>3, <1>5, <1>8, <1>9, <1>10, <2>2, <3>2, <3>4, EpilogEndsTraffic
  <2> QED
    BY <1>9, <2>1, <2>2
<1>12. Progress'
  BY <1>5, <1>9, <1>10, <1>11 DEF Progress
<1> QED
  BY <1>3, <1>5, <1>6, <1>8, <1>9, <1>11, <1>12, KeptRestarts, ListenFrame DEF TMStates

\* gw_tm_checkpoint_cp_cb.
LEMMA ListenCheckpointCopied ==
  ASSUME StageInv, Heard, Copying, NEW a, a = Head(from_mad), tm_state = "CHECKPOINT",
         tm_state' = "INIT" => run # NoHost,
         CheckpointCopied(a[2], a[3])
  PROVE  StageInv'
<1>1. PICK i, ok : i = a[2] /\ ok = a[3]
  OBVIOUS
<1>2. i \in 1..Len(List) /\ ok \in BOOLEAN /\ CopyAnswered(a) /\ Open(i)
  BY <1>1, CopyHeard DEF CopyAnswered
<1>3. PICK x \in Seq(XfrType) : x = chk_xfrs /\ x = List /\ XfrOK(x)
  BY DEF List, StageInv, Types, TypeOK
<1>4. i \in 1..Len(x) /\ ~x[i].done
  BY <1>2, <1>3 DEF Open
<1>5. /\ UNCHANGED <<xfrs, dmq, job_state, host, prev, run, mandatory, dir, fetched, tmq, tasks>>
      /\ tmq = <<>>
  BY DEF CheckpointCopied, Heard
<1>6. PICK y : Tried(x, i, ok, y)
  BY DEF Tried
<1>7. /\ y \in Seq(XfrType) /\ XfrOK(y) /\ SameFiles(x, y)
      /\ \A j \in 1..Len(x) : j # i => y[j] = x[j]
  BY <1>2, <1>3, <1>4, <1>6, CopiedFacts
<1>8. /\ chk_xfrs' = y
      /\ \/ UNCHANGED <<to_mad, tm_state>>
         \/ /\ ~Pending(y) /\ job_state \in {"STOP_EPILOG", "EPILOG_RESTART"}
            /\ tm_state' = "EPILOG" /\ StageOut
         \/ ~Pending(y) /\ tm_state' = "INIT" /\ Write(<<END>>)
  BY <1>1, <1>3, <1>6 DEF CheckpointCopied, Tried
<1>9. y = chk_xfrs' /\ AllTo(y, {"server"})
  BY <1>3, <1>7, <1>8 DEF AllTo, SameFiles, StageInv, FilesListed
<1>10. ~Pending(y) => to_mad = <<>> /\ tasks = {} /\ tasks' = {} /\ from_mad' = <<>>
  <2> SUFFICES ASSUME ~Pending(y) PROVE to_mad = <<>> /\ tasks = {} /\ tasks' = {} /\ from_mad' = <<>>
    OBVIOUS
  <2>1. DOMAIN y = 1..Len(y)
    BY <1>7, SeqFacts
  <2>2. \A j \in 1..Len(x) : j # i => x[j].done
    BY <1>7, <2>1 DEF Pending, SameFiles
  <2> QED
    BY <1>1, <1>3, <2>2, LastCopy
<1>11. CASE UNCHANGED <<to_mad, tm_state>>
  <2>1. List' = y
    BY <1>8, <1>11 DEF List
  <2>2. Traffic' /\ to_mad' \in Seq(Line) /\ (~mad_up => to_mad' = <<>>)
    BY <1>1, <1>3, <1>7, <1>11, <2>1, CopyGoesOn
  <2>3. Progress'
    BY <1>5, <1>11 DEF StageInv, Progress, Fresh
  <2> QED
    BY <1>5, <1>7, <1>9, <1>11, <2>2, <2>3, KeptFiles, ListenFrame DEF TMStates
<1>12. CASE /\ ~Pending(y) /\ job_state \in {"STOP_EPILOG", "EPILOG_RESTART"}
            /\ tm_state' = "EPILOG" /\ StageOut
  <2>1. job_state \in Epilogs /\ run = NoHost
    BY <1>12 DEF Epilogs, StageInv, Turn, Cancels
  <2>2. dmq = <<>>
    <3> SUFFICES ASSUME dmq # <<>> PROVE FALSE
      OBVIOUS
    <3>1. dmq[1] \in Message /\ Fits(dmq[1])
      BY SeqFacts DEF StageInv, Types, Turn
    <3> QED
      BY <1>12, <3>1 DEF Message, Fits, Reports, JobStates, Prologs, Epilogs, Cancels, StageReports
  <2>3. Fresh(xfrs) /\ xfrs \in Seq(XfrType) /\ XfrOK(xfrs)
    BY <2>1 DEF StageInv, Progress, Types, TypeOK
  <2>4. \A j \in 1..Len(xfrs) : ~xfrs[j].success
    <3>1. DOMAIN xfrs = 1..Len(xfrs)
      BY <2>3, SeqFacts
    <3> QED
      BY <2>3, <3>1 DEF XfrOK, Fresh
  <2>5. Traffic' /\ to_mad' \in Seq(Line) /\ (~mad_up => to_mad' = <<>>)
    BY <1>5, <1>10, <1>12, <2>1, <2>3, StageOutTraffic
  <2>6. Progress'
    BY <1>5, <1>12, <2>4 DEF Progress
  <2> QED
    BY <1>5, <1>7, <1>9, <1>12, <2>1, <2>2, <2>5, <2>6, KeptFiles, ListenFrame DEF TMStates
<1>13. CASE ~Pending(y) /\ tm_state' = "INIT" /\ Write(<<END>>)
  <2>1. run # NoHost /\ run' # NoHost /\ dmq = <<>>
    BY <1>5, <1>13 DEF StageInv, Turn
  <2>2. END \in Line /\ END[1] = "END"
    BY LineTypes, LineFields
  <2>3. Awaited("END")'
    BY <1>13, <2>1 DEF Awaited
  <2>4. Asked(END)'
    BY <2>2, <2>3 DEF Asked
  <2>5. Traffic' /\ to_mad' \in Seq(Line) /\ (~mad_up => to_mad' = <<>>)
    BY <1>10, <1>13, <2>2, <2>4, AskNext
  <2>6. Progress'
    BY <1>5, <1>13 DEF Progress
  <2> QED
    BY <1>5, <1>7, <1>9, <1>13, <2>1, <2>5, <2>6, KeptFiles, ListenFrame DEF TMStates
<1> QED
  BY <1>8, <1>11, <1>12, <1>13

\* The listener of the TM.
LEMMA TMListenStep ==
  ASSUME StageInv, Punctual, TMListen, ~Late, UNCHANGED madv
  PROVE  StageInv'
<1>1. from_mad # <<>> /\ from_mad' = Tail(from_mad) /\ from_mad \in Seq(AnswerLine)
  BY DEF TMListen, StageInv, Types
<1>2. from_mad' # from_mad
  <2>1. Len(from_mad) \in Nat /\ Len(Tail(from_mad)) = Len(from_mad) - 1
    BY <1>1, SeqFacts, TailFacts
  <2>2. Len(Tail(from_mad)) # Len(from_mad)
    BY <2>1
  <2>3. Tail(from_mad) # from_mad
    BY <2>2
  <2> QED
    BY <1>1, <2>3
<1>3. Heard
  <2>1. tmq = <<>>
    BY <1>2 DEF Late
  <2>2. UNCHANGED <<job_state, hist, run, mandatory, tmq, mad_up>>
    BY DEF TMListen
  <2> QED
    BY <1>1, <2>1, <2>2 DEF Heard, hist, madv
<1>4. PICK a : a = Head(from_mad)
  OBVIOUS
<1>5. CASE tm_state \notin Expected(a[1])
  <2>1. UNCHANGED <<tm_state, xfrs, chk_xfrs, dmq, to_mad>>
    BY <1>4, <1>5 DEF TMListen
  <2> QED
    BY <1>3, <1>4, <1>5, <2>1, ListenDropped
<1>6. CASE tm_state \in Expected(a[1])
  <2>1. \/ a[1] = "START" /\ StartAnswered(a[3])
        \/ a[1] = "RMDIR" /\ RmdirAnswered
        \/ a[1] = "MKDIR" /\ MkdirAnswered(a[3])
        \/ a[1] = "CP"    /\ CpAnswered(a[2], a[3])
        \/ a[1] = "END"   /\ EndAnswered
    BY <1>4, <1>6 DEF TMListen
  <2>2. CASE a[1] = "START" /\ StartAnswered(a[3])
    BY <1>3, <1>4, <1>6, <2>2, ListenStart
  <2>3. CASE a[1] = "RMDIR" /\ RmdirAnswered
    BY <1>3, <1>4, <1>6, <2>3, ListenRmdir
  <2>4. CASE a[1] = "MKDIR" /\ MkdirAnswered(a[3])
    BY <1>3, <1>4, <1>6, <2>4, ListenMkdir
  <2>5. CASE a[1] = "END" /\ EndAnswered
    BY <1>3, <1>4, <1>6, <2>5, ListenEnd
  <2>6. CASE a[1] = "CP" /\ CpAnswered(a[2], a[3])
    <3>1. Copying
      BY <1>3, <1>4, <1>6, <2>6, AnswerKinds
    <3>2. mad_up' = mad_up
      BY <1>3 DEF Heard
    <3>3. CASE tm_state = "PROLOG" /\ PrologCopied(a[2], a[3])
      BY <1>3, <1>4, <3>1, <3>3, ListenPrologCopied
    <3>4. CASE tm_state = "EPILOG" /\ EpilogCopied(a[2], a[3])
      BY <1>3, <1>4, <3>1, <3>4, ListenEpilogCopied
    <3>5. CASE tm_state = "CHECKPOINT" /\ CheckpointCopied(a[2], a[3])
      <4>1. tm_state' = "INIT" => run # NoHost
        BY <3>2, <3>5 DEF Late
      <4> QED
        BY <1>3, <1>4, <3>1, <3>5, <4>1, ListenCheckpointCopied
    <3> QED
      BY <2>6, <3>3, <3>4, <3>5 DEF CpAnswered
  <2> QED
    BY <2>1, <2>2, <2>3, <2>4, <2>5, <2>6
<1> QED
  BY <1>5, <1>6

-----------------------------------------------------------------------------
(* The theorems.                                                           *)

LEMMA StageStep ==
  ASSUME Punctual, StageInv, [Next]_vars
  PROVE  StageInv'
<1>1. CASE Gwd(TMNext)
  <2>1. UNCHANGED madv /\ ~Late
    BY <1>1 DEF Gwd, Punctual
  <2>2. ASSUME NEW h \in Hosts, Dispatch(h) PROVE StageInv'
    BY <2>1, <2>2, DispatchStep
  <2>3. ASSUME run # NoHost, NEW h \in MigrateTo[run], Migrate(h) PROVE StageInv'
    BY <2>1, <2>3, MigrateStep
  <2>4. ASSUME NEW op, Cancel(op) PROVE StageInv'
    BY <2>1, <2>4, CancelStep
  <2>5. CASE Resume
    BY <2>1, <2>5, ResumeStep
  <2>6. CASE DMStep
    BY <2>1, <2>6, DMStepInv
  <2>7. CASE TMStep
    BY <2>1, <2>7, TMStepInv
  <2>8. CASE TMCheckpoint
    BY <2>1, <2>8, TMCheckpointStep
  <2>9. CASE TMTimer
    BY <2>1, <2>9, TMTimerStep
  <2>10. CASE TMListen
    BY <2>1, <2>10, TMListenStep
  <2>11. CASE TMReload
    BY <2>1, <2>11, TMReloadStep
  <2> QED
    BY <1>1, <2>2, <2>3, <2>4, <2>5, <2>6, <2>7, <2>8, <2>9, <2>10, <2>11 DEF Gwd, TMNext
<1>2. CASE Mad(MAD!MadNext)
  BY <1>2, MadStepInv DEF Mad
<1>3. CASE WrapperWrites
  BY <1>3, WrapperWritesStep
<1>4. CASE WrapperEnds
  BY <1>4, WrapperEndsStep
<1>5. CASE UNCHANGED vars
  <2>1. /\ UNCHANGED gwdv
        /\ UNCHANGED <<dir, fetched, tasks, to_mad, from_mad, mad_up>>
    BY <1>5 DEF vars, tmvars, madv, gwdv
  <2>2. UNCHANGED <<tm_state, host>> /\ List' = List
    BY <2>1 DEF gwdv, hist, lists, List
  <2>3. /\ Silent => Silent'
        /\ Alone => Alone'
        /\ Copying => Copying'
        /\ Cancelling => Cancelling'
    <3>1. Silent => Silent'
      BY <2>1 DEF Silent
    <3>2. Alone => Alone'
      BY <2>1, MeaningFrame DEF Alone
    <3>3. OnceEach => OnceEach'
      BY <2>1 DEF OnceEach, Apart
    <3>4. Copying => Copying'
      BY <2>1, <2>2, <3>3, MeaningFrame DEF Copying, Here
    <3>5. Cancelling => Cancelling'
      BY <2>1, <2>2, MeaningFrame DEF Cancelling
    <3> QED
      BY <3>1, <3>2, <3>4, <3>5
  <2>4. Traffic'
    BY <2>3 DEF StageInv, Traffic
  <2>5. Types
    BY DEF StageInv
  <2>6. /\ to_mad' \in Seq(Line) /\ tasks' \subseteq Line /\ from_mad' \in Seq(AnswerLine)
        /\ mad_up' \in BOOLEAN /\ (~mad_up' => to_mad' = <<>> /\ tasks' = {})
    BY <2>1, <2>5 DEF Types
  <2> QED
    BY <2>1, <2>4, <2>6, MadFrame
<1> QED
  BY <1>1, <1>2, <1>3, <1>4, <1>5 DEF Next

LEMMA StageAlways == Punctual /\ Spec => [](Punctual /\ StageInv)
<1>1. Punctual /\ Init => Punctual /\ StageInv
  BY InitInv
<1>2. (Punctual /\ StageInv) /\ [Next]_vars => (Punctual /\ StageInv)'
  <2> SUFFICES ASSUME Punctual, StageInv, [Next]_vars PROVE (Punctual /\ StageInv)'
    OBVIOUS
  <2>1. Punctual'
    BY DEF Punctual
  <2> QED
    BY <2>1, StageStep
<1> QED
  BY <1>1, <1>2, PTL DEF Spec

\* The variables of gwd keep their types: the counters of the retries of a copy are
\* bounded, and one that has no try left is done (gw_tm_cp_action_cb, gw_tm_timer).
THEOREM TypeCorrect == Punctual /\ Spec => []TypeOK
<1>1. Punctual /\ StageInv => TypeOK
  BY DEF StageInv, Types
<1> QED
  BY <1>1, StageAlways, PTL

\* While the wrapper runs, its directory is there with all its input files: no
\* prolog, epilog, late answer or recovery of the MAD removes it.
THEOREM FilesStay == Punctual /\ Spec => []InputsThere
<1>1. Punctual /\ StageInv => InputsThere
  BY DEF StageInv, Placed
<1> QED
  BY <1>1, StageAlways, PTL

\* A stage that the DM asks for is reported once, while the job is in it.
THEOREM ReportedOnce == Punctual /\ Spec => []OneReport
<1>1. Punctual /\ StageInv => OneReport
  <2> SUFFICES ASSUME StageInv PROVE OneReport
    OBVIOUS
  <2>1. dmq \in Seq(Message) /\ Len(dmq) <= 1
    BY DEF StageInv, Types, Turn
  <2>2. \A i \in DOMAIN dmq : i = 1 /\ dmq # <<>>
    BY <2>1
  <2>3. dmq # <<>> => Fits(dmq[1])
    BY DEF StageInv, Turn
  <2> QED
    BY <2>2, <2>3 DEF OneReport, Fits, StageReports
<1> QED
  BY <1>1, StageAlways, PTL

\* A stage that is reported done has its files: a copy that failed, or that a dead
\* MAD had asked for, does not count.
THEOREM FilesCopied == Punctual /\ Spec => []DoneIsDone
<1>1. Punctual /\ StageInv => DoneIsDone
  <2> SUFFICES ASSUME StageInv PROVE DoneIsDone
    OBVIOUS
  <2>1. \A m \in ToSet(dmq) : Fits(m)
    <3>1. dmq \in Seq(Message) /\ Len(dmq) <= 1
      BY DEF StageInv, Types, Turn
    <3>2. \A i \in DOMAIN dmq : i = 1 /\ dmq # <<>>
      BY <3>1
    <3> QED
      BY <3>2 DEF ToSet, StageInv, Turn
  <2>2. "PROLOG_DONE" \in ToSet(dmq) => Staged
    BY <2>1 DEF Fits
  <2>3. "EPILOG_DONE" \in ToSet(dmq) /\ job_state = "EPILOG" => Saved
    BY <2>1 DEF Fits
  <2> QED
    BY <2>2, <2>3 DEF DoneIsDone, Staged, Saved
<1> QED
  BY <1>1, StageAlways, PTL

\* No call-back of the TM is surprised by an answer, but for what a cancelled
\* checkpoint had asked for.
THEOREM ProtocolKept == Punctual /\ Spec => []AnswersExpected
<1>1. Punctual /\ StageInv => AnswersExpected
  <2> SUFFICES ASSUME StageInv, from_mad # <<>>
               PROVE  \/ tm_state \in Expected(Head(from_mad)[1])
                      \/ Head(from_mad)[1] = "END" /\ tm_state = "INIT"
                      \/ Head(from_mad)[1] \in {"START", "CP"} /\ tm_state = "CHECKPOINT_CANCEL"
    BY DEF AnswersExpected
  <2>1. from_mad \in Seq(AnswerLine) /\ Head(from_mad) = from_mad[1] /\ 1 \in 1..Len(from_mad)
    <3>1. from_mad \in Seq(AnswerLine)
      BY DEF StageInv, Types
    <3>2. Len(from_mad) \in Nat /\ Len(from_mad) # 0
      BY <3>1, SeqFacts
    <3> QED
      BY <3>1, <3>2, TailFacts
  <2>2. PICK a : a = from_mad[1]
    OBVIOUS
  <2>3. CASE Alone
    <3>1. Awaited(a[1])
      BY <2>2, <2>3 DEF Alone, Answered
    <3> QED
      BY <2>1, <2>2, <3>1 DEF Awaited, Expected, TMStates
  <2>4. CASE Copying
    BY <2>1, <2>4 DEF Copying, CopyAnswered, Expected
  <2>5. CASE Cancelling
    <3>1. tm_state = "CHECKPOINT_CANCEL" /\ a[1] \in {"START", "CP", "END"}
      BY <2>1, <2>2, <2>5 DEF Cancelling
    <3> QED
      BY <2>1, <2>2, <3>1 DEF Expected, TMStates
  <2> QED
    BY <2>3, <2>4, <2>5 DEF StageInv, Traffic, Silent
<1> QED
  BY <1>1, StageAlways, PTL

\* When a job has ended without failure its directory is gone, if every rm that the
\* MAD runs succeeds.
THEOREM DirectoryGone ==
  Punctual /\ "RMDIR" \notin Faults /\ Spec => []DirRemoved
<1>1. Punctual /\ StageInv /\ "RMDIR" \notin Faults => DirRemoved
  BY DEF StageInv, Placed, Removed, DirRemoved
<1>2. "RMDIR" \notin Faults => []("RMDIR" \notin Faults)
  <2>1. "RMDIR" \notin Faults => ("RMDIR" \notin Faults)'
    OBVIOUS
  <2> QED
    BY <2>1, PTL
<1> QED
  BY <1>1, <1>2, StageAlways, PTL

\* Until the job is restarted, its output files are not removed in EPILOG unless
\* the local host has them (gw_tm_epilog_cp_cb).
THEOREM OutputsSafe == Punctual /\ Spec => OutputsKept
<1>1. Punctual /\ StageInv /\ [Next]_vars =>
        [job_state = "EPILOG" /\ job_state' = "EPILOG" =>
           \A h \in Hosts : ToSet(OutputFiles) \intersect (dir[h] \ dir'[h]) \subseteq fetched]_vars
  <2> SUFFICES ASSUME Punctual, StageInv, Next, job_state = "EPILOG", job_state' = "EPILOG",
                      NEW h \in Hosts, NEW f \in ToSet(OutputFiles), f \in dir[h], f \notin dir'[h]
               PROVE  f \in fetched
    OBVIOUS
  <2>1. run = NoHost
    BY DEF StageInv, Turn, Cancels
  <2>2. dir' # dir
    OBVIOUS
  <2>3. ~Gwd(TMNext) /\ ~WrapperWrites /\ ~WrapperEnds
    BY <2>1, <2>2 DEF Gwd, madv, WrapperWrites, WrapperEnds, EMReport
  <2>4. Mad(MAD!MadNext)
    BY <2>3 DEF Next
  <2>5. PICK t \in tasks : MAD!MadTask(t)
    BY <2>2, <2>4 DEF Mad, MAD!MadNext, MAD!MadRead, MAD!MadCrash, MAD!store
  <2>6. dir = [g \in Hosts |-> dir[g]]
    BY DEF StageInv, Types
  <2>7. t[1] \in {"RMDIR", "MKDIR"}
    <3>1. ~(t[1] = "START" /\ MAD!MadStart) /\ ~(t[1] = "END" /\ MAD!MadEnd)
      BY <2>2 DEF MAD!MadStart, MAD!MadEnd, MAD!store
    <3>2. ~MAD!MadCopy(t[2], t[3], t[4], t[5])
      <4> SUFFICES ASSUME MAD!MadCopy(t[2], t[3], t[4], t[5]) PROVE FALSE
        OBVIOUS
      <4>1. dir' = IF t[5] \in Hosts THEN [dir EXCEPT ![t[5]] = @ \union {t[3]}] ELSE dir
        BY <2>2, <2>6 DEF MAD!MadCopy, MAD!store
      <4>2. dir[h] \subseteq dir'[h]
        BY <2>6, <4>1
      <4> QED
        BY <4>2
    <3> QED
      BY <2>5, <3>1, <3>2 DEF MAD!MadTask
  <2>8. Asked(t)
    <3>1. ~Silent /\ ~Copying /\ ~Cancelling
      BY <2>5, <2>7 DEF Silent, Copying, CopyAsked, Cancelling, Leftover
    <3>2. Alone
      BY <3>1 DEF StageInv, Traffic
    <3> QED
      BY <2>5, <3>2 DEF Alone
  <2>9. Saved
    BY <2>7, <2>8 DEF Asked, Awaited, StageInv, Turn, Prologs
  <2> QED
    BY <2>9 DEF Saved
<1> QED
  BY <1>1, StageAlways, PTL DEF Spec, OutputsKept
=============================================================================
