--------------------------- MODULE ActivityProofs ---------------------------
(***************************************************************************)
(* A job of the dispatch manager is in the hands of one thing at a time:   *)
(* ActivityInv is an invariant for every value of the constants in which a *)
(* PENDING job is offered to the scheduler once only (OneOffer).  So one   *)
(* wrapper of a job runs at a time, and jobs wait for their dependencies.  *)
(***************************************************************************)
EXTENDS DispatchProofs, DispatchInvariants

-----------------------------------------------------------------------------
(* The queue.                                                              *)

\* The moves are messages of the DM.
LEMMA MoveTypes ==
  /\ MoveActions \subseteq DMActions
  /\ MoveActions \intersect ClientOps = {}
  BY DEF MoveActions, DMActions, StateActions, Callbacks, ClientOps, EpilogStates

\* The handler of a message takes it from the head of the queue: the messages
\* behind it move up, and the message that it posts comes last.
LEMMA TailAt ==
  ASSUME QueueTyped, dmq # <<>>, NEW j, NEW b,
         Done \/ DoneAndTrigger(b, j), NEW i \in 1..Len(dmq')
  PROVE  \/ i + 1 \in 1..Len(dmq) /\ dmq'[i] = dmq[i + 1]
         \/ DoneAndTrigger(b, j) /\ i = Len(dmq) /\ dmq'[i] = <<b, j>>
<1>0. Len(dmq) \in Nat \ {0}
  BY DEF QueueTyped
<1>1. /\ Len(Tail(dmq)) = Len(dmq) - 1
      /\ \A p \in 1..(Len(dmq) - 1) : Tail(dmq)[p] = dmq[p + 1]
      /\ Tail(dmq) \in Seq(DMActions \X Jobs)
  BY DEF QueueTyped
<1>2. CASE Done
  <2>1. Len(dmq') = Len(dmq) - 1
    BY <1>1, <1>2 DEF Done
  <2>2. i \in 1..(Len(dmq) - 1) /\ i + 1 \in 1..Len(dmq)
    BY <1>0, <2>1
  <2>3. dmq'[i] = dmq[i + 1]
    BY <1>1, <1>2, <2>2 DEF Done
  <2> QED
    BY <2>2, <2>3
<1>3. CASE DoneAndTrigger(b, j)
  <2>0. Len(dmq') = Len(dmq)
    BY <1>0, <1>1, <1>3 DEF DoneAndTrigger
  <2>1. dmq'[Len(dmq)] = <<b, j>> /\ \A p \in 1..(Len(dmq) - 1) : dmq'[p] = Tail(dmq)[p]
    BY <1>0, <1>1, <1>3 DEF DoneAndTrigger
  <2>2. CASE i = Len(dmq)
    BY <1>3, <2>1, <2>2
  <2>3. CASE i # Len(dmq)
    <3>1. i \in 1..(Len(dmq) - 1) /\ i + 1 \in 1..Len(dmq)
      BY <1>0, <2>0, <2>3
    <3>2. dmq'[i] = dmq[i + 1]
      BY <1>1, <2>1, <3>1
    <3> QED
      BY <3>1, <3>2
  <2> QED
    BY <2>2, <2>3
<1> QED
  BY <1>2, <1>3

\* A handler leaves the other jobs the moves that they had.
LEMMA OthersHandled ==
  ASSUME QueueTyped, dmq # <<>>, NEW j, NEW b,
         Done \/ DoneAndTrigger(b, j), NEW k, k # j
  PROVE  /\ OneMove(k) => OneMove(k)'
         /\ \A a : Queued(a, k)' => Queued(a, k)
<1>1. ASSUME NEW i \in 1..Len(dmq'), dmq'[i][2] = k
      PROVE  i + 1 \in 1..Len(dmq) /\ dmq'[i] = dmq[i + 1]
  BY <1>1, TailAt
<1>2. OneMove(k) => OneMove(k)'
  <2> SUFFICES ASSUME OneMove(k), NEW p \in 1..Len(dmq'), NEW q \in 1..Len(dmq'),
                      dmq'[p][2] = k, dmq'[q][2] = k,
                      dmq'[p][1] \in MoveActions, dmq'[q][1] \in MoveActions
               PROVE  p = q
    BY DEF OneMove
  <2>1. p + 1 = q + 1
    BY <1>1 DEF OneMove
  <2> QED
    BY <2>1
<1>3. \A a : Queued(a, k)' => Queued(a, k)
  BY <1>1 DEF Queued
<1> QED
  BY <1>2, <1>3

\* The handler of a move leaves its job the move that it posts.
LEMMA MoveHandled ==
  ASSUME QueueTyped, NEW j \in Jobs, OneMove(j), NEW a \in MoveActions, Handle(a, j),
         NEW b, Done \/ DoneAndTrigger(b, j)
  PROVE  /\ OneMove(j)'
         /\ \A c \in MoveActions : Queued(c, j)' => DoneAndTrigger(b, j) /\ c = b
         /\ \A c : Queued(c, j)' => Queued(c, j) \/ c = b
<1>1. dmq # <<>> /\ 1 \in 1..Len(dmq) /\ dmq[1] = <<a, j>>
  BY DEF QueueTyped, Handle
<1>2. \A i \in 1..Len(dmq) : dmq[i][2] = j /\ dmq[i][1] \in MoveActions => i = 1
  BY <1>1 DEF OneMove
<1>3. \A i \in 1..Len(dmq') : dmq'[i][2] = j /\ dmq'[i][1] \in MoveActions =>
        i = Len(dmq) /\ dmq'[i] = <<b, j>> /\ DoneAndTrigger(b, j)
  <2> SUFFICES ASSUME NEW i \in 1..Len(dmq'), dmq'[i][2] = j, dmq'[i][1] \in MoveActions
               PROVE  i = Len(dmq) /\ dmq'[i] = <<b, j>> /\ DoneAndTrigger(b, j)
    OBVIOUS
  <2>1. CASE i + 1 \in 1..Len(dmq) /\ dmq'[i] = dmq[i + 1]
    BY <1>2, <2>1
  <2> QED
    BY <1>1, <2>1, TailAt
<1>4. OneMove(j)'
  BY <1>3 DEF OneMove
<1>5. \A c \in MoveActions : Queued(c, j)' => DoneAndTrigger(b, j) /\ c = b
  BY <1>3 DEF Queued
<1>6. \A c : Queued(c, j)' => Queued(c, j) \/ c = b
  <2> SUFFICES ASSUME NEW c, NEW i \in 1..Len(dmq'), dmq'[i] = <<c, j>>
               PROVE  Queued(c, j) \/ c = b
    BY DEF Queued
  <2>1. CASE i + 1 \in 1..Len(dmq) /\ dmq'[i] = dmq[i + 1]
    BY <2>1 DEF Queued
  <2>2. CASE dmq'[i] = <<b, j>>
    BY <2>2
  <2> QED
    BY <1>1, <2>1, <2>2, TailAt
<1> QED
  BY <1>4, <1>5, <1>6

\* The handler of another message leaves the job its moves.
LEMMA OtherHandled ==
  ASSUME QueueTyped, NEW j \in Jobs, dmq # <<>>, Done, NEW k
  PROVE  /\ OneMove(k) => OneMove(k)'
         /\ \A c : Queued(c, k)' => Queued(c, k)
<1>1. \A i \in 1..Len(dmq') : i + 1 \in 1..Len(dmq) /\ dmq'[i] = dmq[i + 1]
  BY DEF QueueTyped, Done
<1>2. OneMove(k) => OneMove(k)'
  <2> SUFFICES ASSUME OneMove(k), NEW p \in 1..Len(dmq'), NEW q \in 1..Len(dmq'),
                      dmq'[p][2] = k, dmq'[q][2] = k,
                      dmq'[p][1] \in MoveActions, dmq'[q][1] \in MoveActions
               PROVE  p = q
    BY DEF OneMove
  <2>1. p + 1 = q + 1
    BY <1>1 DEF OneMove
  <2> QED
    BY <2>1
<1> QED
  BY <1>1, <1>2 DEF Queued

\* A message that another thread posts is a job's only move if it had none.
LEMMA MovePosted ==
  ASSUME QueueTyped, NEW j \in Jobs, NEW b \in DMActions, dmq' = Append(dmq, <<b, j>>), NEW k
  PROVE  /\ OneMove(k) /\ (k # j \/ b \notin MoveActions \/ Moves(j) = {}) => OneMove(k)'
         /\ \A c : Queued(c, k)' => Queued(c, k) \/ (c = b /\ k = j)
<1>1. Len(dmq) \in Nat /\ Len(dmq') = Len(dmq) + 1 /\ dmq'[Len(dmq) + 1] = <<b, j>>
      /\ \A i \in 1..Len(dmq) : dmq'[i] = dmq[i]
  BY DEF QueueTyped
<1>2. \A i \in 1..Len(dmq') : i \in 1..Len(dmq) \/ i = Len(dmq) + 1
  BY <1>1
<1>3. ASSUME OneMove(k), k # j \/ b \notin MoveActions
      PROVE  OneMove(k)'
  BY <1>1, <1>2, <1>3 DEF OneMove
<1>4. ASSUME k = j, Moves(j) = {}
      PROVE  OneMove(k)'
  <2>1. \A i \in 1..Len(dmq) : ~(dmq[i][2] = j /\ dmq[i][1] \in MoveActions)
    <3> SUFFICES ASSUME NEW i \in 1..Len(dmq), dmq[i][2] = j, dmq[i][1] \in MoveActions
                 PROVE  FALSE
      OBVIOUS
    <3>1. dmq[i] = <<dmq[i][1], j>>
      BY DEF QueueTyped
    <3> QED
      BY <1>4, <3>1 DEF Moves, Queued
  <2> QED
    BY <1>1, <1>2, <1>4, <2>1 DEF OneMove
<1>5. \A c : Queued(c, k)' => Queued(c, k) \/ (c = b /\ k = j)
  BY <1>1, <1>2 DEF Queued
<1> QED
  BY <1>3, <1>4, <1>5

-----------------------------------------------------------------------------
(* Frames: what a step does not touch.                                     *)

\* The step changes nothing of job k itself; it may take back a retry or an entry.
Untouched(k) ==
  /\ job_state'[k] = job_state[k]
  /\ em_sub'[k] = em_sub[k] /\ runs'[k] = runs[k] /\ (em_retry'[k] => em_retry[k])
  /\ tm_req'[k] = tm_req[k]
  /\ entries'[k] = entries[k] \/ JobDel(k)

\* It adds no message about job k but a client's request.
KeepsQueue(k) ==
  /\ OneMove(k) => OneMove(k)'
  /\ \A a \in MoveActions : Queued(a, k)' => Queued(a, k)
  /\ \A op \in ClientOps \ {"KILL"} : Queued(op, k)' => Queued(op, k) \/ op \in UserOps

\* It adds no answer for job k.
KeepsAnswers(k) ==
  /\ NoAnswer(k) => NoAnswer(k)'
  /\ OneAnswer(k) => OneAnswer(k)'

\* The scheduler's answers stay in the pipe.
LEMMA SameAnswers ==
  ASSUME inflight' = inflight, NEW k
  PROVE  KeepsAnswers(k)
  BY DEF KeepsAnswers, NoAnswer, OneAnswer, Offered

\* A job that a step leaves alone stays in the hands that it was in.
LEMMA UntouchedJob ==
  ASSUME TypeOK, NEW k \in Jobs, JobActivity(k), Untouched(k), KeepsQueue(k), KeepsAnswers(k)
  PROVE  JobActivity(k)'
<1>1. CASE job_state[k] = "FREED"
  BY <1>1 DEF JobActivity, Untouched, InEM
<1>2. CASE job_state[k] # "FREED"
  <2>1. Moves(k)' \subseteq Moves(k)
    BY DEF KeepsQueue, Moves
  <2>2. Activity(k) /\ job_state'[k] = job_state[k]
    BY <1>2 DEF JobActivity, Untouched
  <2>3. OneHand(k)'
    <3>1. OneMove(k)'
      BY <2>2 DEF Activity, OneHand, KeepsQueue
    <3>2. OneInEM(k)'
      BY <2>2 DEF Activity, OneHand, OneInEM, Untouched
    <3>3. (InEM(k)' => InEM(k)) /\ (InTM(k)' <=> InTM(k))
      BY DEF InEM, InTM, Untouched
    <3> QED
      BY <2>1, <2>2, <3>1, <3>2, <3>3 DEF Activity, OneHand
  <2>4. StateFits(k)'
    BY <2>1, <2>2 DEF Activity, StateFits, InEM, Untouched
  <2>5. Offers(k)'
    <3>1. entries \in [Jobs -> Nat]
      BY DEF TypeOK, SchedulerTyped
    <3>2. entries'[k] <= entries[k] /\ entries'[k] \in Nat
      BY <3>1 DEF Untouched, JobDel, One
    <3> QED
      BY <2>1, <2>2, <3>1, <3>2 DEF Activity, Offers, OfferedOnce, NotOffered, KeepsAnswers
  <2>6. NoReturn(k)'
    BY <2>1, <2>2 DEF Activity, NoReturn, KeepsQueue
  <2> QED
    BY <1>2, <2>2, <2>3, <2>4, <2>5, <2>6 DEF JobActivity, Activity
<1> QED
  BY <1>1, <1>2

\* A handler of the DM that touches job j only.
LEMMA HandlerFrame ==
  ASSUME TypeOK, ActivityInv, NEW j \in Jobs, dmq # <<>>,
         NEW b, Done \/ DoneAndTrigger(b, j), inflight' = inflight,
         \A k \in Jobs \ {j} : Untouched(k), JobActivity(j)'
  PROVE  ActivityInv'
<1>1. ASSUME NEW k \in Jobs, k # j
      PROVE  JobActivity(k)'
  <2>1. KeepsQueue(k)
    <3>1. (OneMove(k) => OneMove(k)') /\ \A a : Queued(a, k)' => Queued(a, k)
      BY <1>1, OthersHandled DEF TypeOK
    <3> QED
      BY <3>1 DEF KeepsQueue
  <2>2. JobActivity(k) /\ Untouched(k)
    BY <1>1 DEF ActivityInv
  <2> QED
    BY <2>1, <2>2, SameAnswers, UntouchedJob
<1> QED
  BY <1>1 DEF ActivityInv

\* A step of another thread that touches job j only, and may post a message of it.
LEMMA PostFrame ==
  ASSUME TypeOK, ActivityInv, NEW j \in Jobs,
         UNCHANGED dmq \/ \E b \in DMActions : dmq' = Append(dmq, <<b, j>>),
         \A k \in Jobs \ {j} : Untouched(k) /\ KeepsAnswers(k), JobActivity(j)'
  PROVE  ActivityInv'
<1>1. ASSUME NEW k \in Jobs, k # j
      PROVE  JobActivity(k)'
  <2>1. KeepsQueue(k)
    <3>1. CASE UNCHANGED dmq
      BY <3>1 DEF KeepsQueue, OneMove, Queued
    <3>2. ASSUME NEW b \in DMActions, dmq' = Append(dmq, <<b, j>>)
          PROVE  KeepsQueue(k)
      BY <1>1, <3>2, MovePosted DEF KeepsQueue, TypeOK
    <3> QED
      BY <3>1, <3>2
  <2>2. JobActivity(k) /\ Untouched(k) /\ KeepsAnswers(k)
    BY <1>1 DEF ActivityInv
  <2> QED
    BY <2>1, <2>2, UntouchedJob
<1> QED
  BY <1>1 DEF ActivityInv

-----------------------------------------------------------------------------
(* The handlers of the moves.                                              *)

\* When the DM thread takes a move of a job, nothing else has the job.
LEMMA MoveTaken ==
  ASSUME TypeOK, ActivityInv, NEW j \in Jobs, NEW a \in MoveActions, Handle(a, j)
  PROVE  /\ job_state[j] # "FREED" /\ Activity(j)
         /\ a \in Moves(j) /\ Fits(a, job_state[j])
         /\ ~em_sub[j] /\ ~em_retry[j] /\ runs[j] = {} /\ tm_req[j] = "NONE"
<1>1. job_state[j] # "FREED" /\ Activity(j)
  BY DEF Handle, ActivityInv, JobActivity
<1>2. a \in Moves(j)
  BY HeadQueued DEF TypeOK, Moves
<1>3. ~InEM(j) /\ ~InTM(j) /\ Fits(a, job_state[j])
  BY <1>1, <1>2 DEF Activity, OneHand, StateFits
<1> QED
  BY <1>1, <1>2, <1>3 DEF InEM, InTM

\* The moves find the job in a state in which it waits for nothing.
LEMMA MoveFinds ==
  ASSUME TypeOK, ActivityInv, NEW j \in Jobs, NEW a \in MoveActions, Handle(a, j)
  PROVE  job_state[j] \notin {"NEW", "HOLD", "ZOMBIE", "FREED", "STOPPED", "FAILED"}
<1>1. Fits(a, job_state[j])
  BY MoveTaken
<1> QED
  BY <1>1 DEF Fits, ExecStates, CancelStates, EpilogStates

\* What the handler of a move leaves of its job: the move b, or none ("KILL").
MoveOn(b, j) ==
  \/ b = "KILL" /\ (Done \/ DoneAndTrigger(b, j))
  \/ b \in MoveActions /\ DoneAndTrigger(b, j)

\* Job j as a handler leaves it, with the move b on its way.
LeftWith(b, j) ==
  /\ job_state'[j] # "FREED"
  /\ OneInEM(j)'
  /\ InEM(j)' => b = "KILL" /\ ~InTM(j)' /\ job_state'[j] \in ExecStates
  /\ tm_req'[j] = "PROLOG" => b = "KILL" /\ job_state'[j] \in {"PROLOG", "MIGR_PROLOG"}
  /\ tm_req'[j] = "EPILOG" => b = "KILL" /\ job_state'[j] \in EpilogStates
  /\ tm_req'[j] \in {"NONE", "PROLOG", "EPILOG"}
  /\ b # "KILL" => Fits(b, job_state'[j])
  /\ job_state'[j] \in {"EPILOG_STD", "EPILOG_RESTART"} => j \in WrapperBased
  /\ b \in {"EPILOG_STD", "EPILOG_RESTART"} => j \in WrapperBased
  /\ b = "PENDING" => j \in ReschedOnFailure \union WrapperBased

\* A handler that takes the only move of a job and posts at most one.
LEMMA MoveStep ==
  ASSUME TypeOK, ActivityInv, NEW j \in Jobs, NEW a \in MoveActions, Handle(a, j),
         NEW b, MoveOn(b, j), LeftWith(b, j),
         Moves(j)' \subseteq {b} => Offers(j)',
         inflight' = inflight, \A k \in Jobs \ {j} : Untouched(k)
  PROVE  ActivityInv'
<1>1. dmq # <<>> /\ QueueTyped /\ (Done \/ DoneAndTrigger(b, j))
  BY DEF Handle, MoveOn, TypeOK
<1>2. Activity(j)
  BY MoveTaken
<1>3. /\ OneMove(j)'
      /\ \A c \in MoveActions : Queued(c, j)' => DoneAndTrigger(b, j) /\ c = b
      /\ \A c : Queued(c, j)' => Queued(c, j) \/ c = b
  BY <1>1, <1>2, MoveHandled DEF Activity, OneHand
<1>4. Moves(j)' \subseteq {b} /\ (b = "KILL" => Moves(j)' = {})
  BY <1>3, MoveTypes DEF Moves, ClientOps
<1>5. OneHand(j)'
  BY <1>3, <1>4 DEF OneHand, LeftWith, InTM
<1>6. StateFits(j)'
  BY <1>4 DEF StateFits, LeftWith
<1>7. NoReturn(j)'
  <2>1. \A op \in ClientOps \ {"KILL"} : Queued(op, j)' => op \in UserOps
    BY <1>2, <1>3, MoveTypes DEF Activity, NoReturn, MoveOn
  <2> QED
    BY <1>4, <2>1 DEF NoReturn, LeftWith
<1>8. JobActivity(j)'
  BY <1>4, <1>5, <1>6, <1>7 DEF JobActivity, Activity, LeftWith
<1> QED
  BY <1>1, <1>8, HandlerFrame

\* Taking the entry of a job away, or leaving it, does not offer it again.
LEMMA NotOfferedAgain ==
  ASSUME TypeOK, NEW j \in Jobs, NotOffered(j), inflight' = inflight,
         \/ entries'[j] = entries[j]
         \/ JobDel(j)
         \/ ClearReschedule(j)
  PROVE  NotOffered(j)'
<1>1. entries \in [Jobs -> Nat] /\ entries[j] = 0 /\ NoAnswer(j)
  BY DEF TypeOK, SchedulerTyped, NotOffered
<1>2. entries'[j] = 0
  BY <1>1 DEF JobDel, ClearReschedule, One
<1> QED
  BY <1>1, <1>2 DEF NotOffered, NoAnswer, Offered

\* A job that does not become PENDING is not offered if it was not.
LEMMA OffersElsewhere ==
  ASSUME TypeOK, NEW j \in Jobs, Activity(j), inflight' = inflight,
         job_state'[j] \notin {"PENDING", "NEW", "HOLD"},
         job_state[j] = "PENDING" => "PROLOG" \in Moves(j),
         \/ entries'[j] = entries[j]
         \/ JobDel(j)
         \/ ClearReschedule(j)
  PROVE  Offers(j)'
<1>1. j \notin Migrating => NotOffered(j)
  BY DEF Activity, Offers, OfferedOnce
<1>2. j \notin Migrating => NotOffered(j)'
  BY <1>1, NotOfferedAgain
<1> QED
  BY <1>2 DEF Offers

\* gw_dm_prolog, gw_dm_migr_prolog
LEMMA PrologActivity ==
  ASSUME TypeOK, ActivityInv, NEW j \in Jobs, NEW s \in {"PROLOG", "MIGR_PROLOG"}, Prolog(j, s)
  PROVE  ActivityInv'
<1> USE DEF TypeOK, StatesTyped, ManagersTyped, jobv, depv, hostv, rmv, emv, schv, SetState
<1>1. Handle(s, j) /\ s \in MoveActions
  BY DEF Prolog, MoveActions, StateActions
<1>2. /\ Activity(j) /\ s \in Moves(j) /\ Fits(s, job_state[j])
      /\ ~em_sub[j] /\ ~em_retry[j] /\ runs[j] = {} /\ tm_req[j] = "NONE"
  BY <1>1, MoveTaken
<1>3. job_state[j] = "PENDING" => s = "PROLOG"
  BY <1>2 DEF Fits
<1>4. Offers(j)'
  BY <1>2, <1>3, OffersElsewhere DEF Prolog
<1>5. ~InEM(j)' /\ OneInEM(j)' /\ job_state'[j] = s
  BY <1>2 DEF Prolog, InEM, OneInEM
<1>6. \A k \in Jobs \ {j} : Untouched(k)
  BY DEF Prolog, Untouched
<1>7. CASE tm_req' = [tm_req EXCEPT ![j] = "PROLOG"] /\ Done
  <2>1. MoveOn("KILL", j)
    BY <1>7 DEF MoveOn
  <2>2. LeftWith("KILL", j)
    BY <1>5, <1>7 DEF LeftWith, InTM
  <2> QED
    BY <1>1, <1>4, <1>6, <2>1, <2>2, MoveStep DEF Prolog
<1>8. CASE DoneAndTrigger("PROLOG_FAILED", j) /\ UNCHANGED tm_req
  <2>1. MoveOn("PROLOG_FAILED", j)
    BY <1>8 DEF MoveOn, MoveActions, Callbacks
  <2>2. LeftWith("PROLOG_FAILED", j)
    BY <1>2, <1>5, <1>8 DEF LeftWith, InTM, Fits
  <2> QED
    BY <1>1, <1>4, <1>6, <2>1, <2>2, MoveStep DEF Prolog
<1> QED
  BY <1>7, <1>8 DEF Prolog

\* The callbacks leave the job where it is and post the next move, or nothing.
LEMMA CallbackStep ==
  ASSUME TypeOK, ActivityInv, NEW j \in Jobs,
         NEW a \in MoveActions \ {"PROLOG"}, Handle(a, j), NEW b, MoveOn(b, j),
         UNCHANGED <<job_state, em_sub, em_retry, runs, tm_req, inflight>>,
         b # "KILL" => Fits(b, job_state[j]),
         b \in {"EPILOG_STD", "EPILOG_RESTART"} => j \in WrapperBased,
         b = "PENDING" => j \in ReschedOnFailure \union WrapperBased,
         entries' = entries \/ ClearReschedule(j)
  PROVE  ActivityInv'
<1>1. /\ Activity(j) /\ Fits(a, job_state[j]) /\ job_state[j] # "FREED"
      /\ ~em_sub[j] /\ ~em_retry[j] /\ runs[j] = {} /\ tm_req[j] = "NONE"
  BY MoveTaken
<1>2. job_state[j] \notin {"PENDING", "NEW", "HOLD"}
  BY <1>1 DEF Fits, ExecStates, CancelStates, EpilogStates
<1>3. Offers(j)'
  BY <1>1, <1>2, OffersElsewhere
<1>4. ~InEM(j)' /\ OneInEM(j)'
  BY <1>1 DEF InEM, OneInEM
<1>5. job_state[j] \in {"EPILOG_STD", "EPILOG_RESTART"} => j \in WrapperBased
  BY <1>1 DEF Activity, NoReturn
<1>6. LeftWith(b, j)
  BY <1>1, <1>4, <1>5 DEF LeftWith
<1>7. \A k \in Jobs \ {j} : Untouched(k)
  BY DEF TypeOK, SchedulerTyped, ClearReschedule, JobDel, Untouched
<1> QED
  BY <1>3, <1>6, <1>7, MoveStep

\* gw_dm_prolog_done_cb
LEMMA PrologDoneActivity ==
  ASSUME TypeOK, ActivityInv, NEW j \in Jobs, PrologDone(j)
  PROVE  ActivityInv'
<1> USE DEF PrologDone, MoveActions, StateActions, Callbacks, EpilogStates, MoveOn, emv, schv
<1>1. Handle("PROLOG_DONE", j) /\ "PROLOG_DONE" \in MoveActions \ {"PROLOG"}
  OBVIOUS
<1>2. \E b : /\ MoveOn(b, j) /\ b \in {"KILL", "PRE_WRAPPER", "WRAPPER", "MIGR_EPILOG"}
             /\ b # "KILL" => Fits(b, job_state[j])
  BY DEF Fits
<1> QED
  BY <1>1, <1>2, CallbackStep

\* gw_dm_prolog_failed_cb
LEMMA PrologFailedActivity ==
  ASSUME TypeOK, ActivityInv, NEW j \in Jobs, PrologFailed(j)
  PROVE  ActivityInv'
<1> USE DEF PrologFailed, MoveActions, StateActions, Callbacks, EpilogStates, MoveOn, emv, schv,
        OnFailure
<1>1. Handle("PROLOG_FAILED", j) /\ "PROLOG_FAILED" \in MoveActions \ {"PROLOG"}
  OBVIOUS
<1>2. job_state[j] \in {"PROLOG", "MIGR_PROLOG"}
  BY <1>1, MoveTaken DEF Fits
<1>3. MoveOn(OnFailure(j), j) /\ Fits(OnFailure(j), job_state[j])
  BY <1>2 DEF Fits
<1> QED
  BY <1>1, <1>3, CallbackStep

\* gw_dm_pre_wrapper, gw_dm_wrapper
LEMMA WrapperActivity ==
  ASSUME TypeOK, ActivityInv, NEW j \in Jobs, NEW s \in {"PRE_WRAPPER", "WRAPPER"}, Wrapper(j, s)
  PROVE  ActivityInv'
<1> USE DEF TypeOK, StatesTyped, ManagersTyped, jobv, depv, hostv, rmv, emv, schv, SetState
<1>1. Handle(s, j) /\ s \in MoveActions
  BY DEF Wrapper, MoveActions, StateActions
<1>2. /\ Activity(j) /\ Fits(s, job_state[j])
      /\ ~em_sub[j] /\ ~em_retry[j] /\ runs[j] = {} /\ tm_req[j] = "NONE"
  BY <1>1, MoveTaken
<1>3. job_state[j] # "PENDING"
  BY <1>2 DEF Fits
<1>4. Offers(j)'
  BY <1>2, <1>3, OffersElsewhere DEF Wrapper
<1>5. OneInEM(j)' /\ job_state'[j] = s /\ tm_req'[j] = "NONE"
  BY <1>2 DEF Wrapper, OneInEM
<1>6. MoveOn("KILL", j)
  BY DEF Wrapper, MoveOn
<1>7. LeftWith("KILL", j)
  BY <1>5 DEF LeftWith, InTM, ExecStates
<1>8. \A k \in Jobs \ {j} : Untouched(k)
  BY DEF Wrapper, Untouched
<1> QED
  BY <1>1, <1>4, <1>6, <1>7, <1>8, MoveStep DEF Wrapper

\* gw_dm_wrapper_done_cb
LEMMA WrapperDoneActivity ==
  ASSUME TypeOK, ActivityInv, NEW j \in Jobs, WrapperDone(j)
  PROVE  ActivityInv'
<1> USE DEF WrapperDone, MoveActions, StateActions, Callbacks, EpilogStates, MoveOn, emv, schv
<1>1. Handle("WRAPPER_DONE", j) /\ "WRAPPER_DONE" \in MoveActions \ {"PROLOG"}
  OBVIOUS
<1>2. \E b : /\ MoveOn(b, j)
             /\ b \in {"KILL", "WRAPPER", "EPILOG_STD", "EPILOG", "STOP_EPILOG", "KILL_EPILOG",
                       "MIGR_PROLOG"}
             /\ b = "EPILOG_STD" => j \in WrapperBased
             /\ b # "KILL" => Fits(b, job_state[j])
  BY DEF Fits, ExecStates, CancelStates
<1>3. entries' = entries \/ ClearReschedule(j)
  OBVIOUS
<1>4. UNCHANGED <<job_state, em_sub, em_retry, runs, tm_req, inflight>>
  OBVIOUS
<1> QED
  BY <1>1, <1>2, <1>3, <1>4, CallbackStep

\* gw_dm_wrapper_failed_cb
LEMMA WrapperFailedActivity ==
  ASSUME TypeOK, ActivityInv, NEW j \in Jobs, WrapperFailed(j)
  PROVE  ActivityInv'
<1> USE DEF WrapperFailed, MoveActions, StateActions, Callbacks, EpilogStates, MoveOn, emv, schv
<1>1. Handle("WRAPPER_FAILED", j) /\ "WRAPPER_FAILED" \in MoveActions \ {"PROLOG"}
  OBVIOUS
<1>2. job_state[j] \in ExecStates
  BY <1>1, MoveTaken DEF Fits
<1>3. MoveOn("EPILOG_FAIL", j) /\ Fits("EPILOG_FAIL", job_state[j])
  BY <1>2 DEF Fits
<1>4. entries' = entries \/ ClearReschedule(j)
  OBVIOUS
<1> QED
  BY <1>1, <1>3, <1>4, CallbackStep

\* gw_dm_epilog and its variants
LEMMA EpilogActivity ==
  ASSUME TypeOK, ActivityInv, NEW j \in Jobs, NEW s \in EpilogStates, Epilog(j, s)
  PROVE  ActivityInv'
<1> USE DEF TypeOK, StatesTyped, ManagersTyped, jobv, depv, hostv, rmv, emv, schv, SetState
<1>1. Handle(s, j) /\ s \in MoveActions
  BY DEF Epilog, MoveActions, StateActions, EpilogStates
<1>2. /\ Activity(j) /\ s \in Moves(j) /\ Fits(s, job_state[j])
      /\ ~em_sub[j] /\ ~em_retry[j] /\ runs[j] = {} /\ tm_req[j] = "NONE"
  BY <1>1, MoveTaken
<1>3. job_state[j] # "PENDING"
  BY <1>2 DEF Fits, EpilogStates, ExecStates, CancelStates
<1>4. s \notin {"PENDING", "NEW", "HOLD", "FREED"}
  BY DEF EpilogStates
<1>5. Offers(j)'
  BY <1>2, <1>3, <1>4, OffersElsewhere DEF Epilog
<1>6. ~InEM(j)' /\ OneInEM(j)' /\ job_state'[j] = s /\ tm_req'[j] = "EPILOG"
  BY <1>2 DEF Epilog, InEM, OneInEM
<1>7. MoveOn("KILL", j)
  BY DEF Epilog, MoveOn
<1>8. s \in {"EPILOG_STD", "EPILOG_RESTART"} => j \in WrapperBased
  BY <1>2 DEF Activity, NoReturn
<1>9. LeftWith("KILL", j)
  BY <1>4, <1>6, <1>8 DEF LeftWith
<1>10. \A k \in Jobs \ {j} : Untouched(k)
  BY DEF Epilog, Untouched
<1> QED
  BY <1>1, <1>5, <1>7, <1>9, <1>10, MoveStep DEF Epilog

\* gw_dm_epilog_done_cb and gw_dm_epilog_failed_cb
LEMMA EpilogEndActivity ==
  ASSUME TypeOK, ActivityInv, NEW j \in Jobs,
         \/ EpilogDoneStd(j) \/ EpilogFailedStd(j) \/ EpilogEnded(j)
         \/ EpilogDone(j) \/ EpilogFailed(j)
  PROVE  ActivityInv'
<1> USE DEF MoveActions, StateActions, Callbacks, EpilogStates, MoveOn, emv, schv, OnFailure
<1>1. PICK a \in {"EPILOG_DONE", "EPILOG_FAILED"} : Handle(a, j)
  BY DEF EpilogDoneStd, EpilogFailedStd, EpilogEnded, EpilogDone, EpilogFailed
<1>2. a \in MoveActions \ {"PROLOG"} /\ Activity(j)
  BY <1>1, MoveTaken
<1>3. job_state[j] \in {"EPILOG_STD", "EPILOG_RESTART"} => j \in WrapperBased
  BY <1>2 DEF Activity, NoReturn
<1>4. CASE EpilogDoneStd(j) \/ EpilogFailedStd(j)
  <2>1. \E b : MoveOn(b, j) /\ b \in {"EPILOG", "EPILOG_RESTART"} /\ Fits(b, job_state[j])
    BY <1>4 DEF EpilogDoneStd, EpilogFailedStd, Fits
  <2>2. j \in WrapperBased
    BY <1>3, <1>4 DEF EpilogDoneStd, EpilogFailedStd
  <2> QED
    BY <1>1, <1>2, <1>4, <2>1, <2>2, CallbackStep DEF EpilogDoneStd, EpilogFailedStd
<1>5. CASE EpilogEnded(j)
  <2>1. \E b : /\ MoveOn(b, j)
               /\ b \in {"KILL", "ZOMBIE", "WRAPPER", "STOPPED", "PENDING", "FAILED"}
               /\ b # "KILL" => Fits(b, job_state[j])
               /\ b = "PENDING" => j \in ReschedOnFailure \union WrapperBased
    BY <1>3, <1>5 DEF EpilogEnded, Fits
  <2> QED
    BY <1>1, <1>2, <1>5, <2>1, CallbackStep DEF EpilogEnded
<1>6. CASE EpilogDone(j) \/ EpilogFailed(j)
  <2>1. \E b : /\ MoveOn(b, j) /\ b \in {"ZOMBIE", "PENDING", "FAILED"} /\ Fits(b, job_state[j])
               /\ b = "PENDING" => j \in ReschedOnFailure
    BY <1>6 DEF EpilogDone, EpilogFailed, Fits
  <2> QED
    BY <1>1, <1>2, <1>6, <2>1, CallbackStep DEF EpilogDone, EpilogFailed
<1> QED
  BY <1>4, <1>5, <1>6

\* gw_dm_pending: the job is offered again, and it was not offered any more.
LEMMA PendingActivity ==
  ASSUME OneOffer, TypeOK, ActivityInv, NEW j \in Jobs, Pending(j)
  PROVE  ActivityInv'
<1> USE DEF TypeOK, StatesTyped, ManagersTyped, SchedulerTyped,
        jobv, depv, hostv, rmv, emv, schv, SetState
<1>1. Handle("PENDING", j) /\ "PENDING" \in MoveActions
  BY DEF Pending, MoveActions, StateActions
<1>2. /\ Activity(j) /\ "PENDING" \in Moves(j) /\ Fits("PENDING", job_state[j])
      /\ ~em_sub[j] /\ ~em_retry[j] /\ runs[j] = {} /\ tm_req[j] = "NONE"
  BY <1>1, MoveTaken
<1>3. j \notin Migrating /\ job_state[j] # "PENDING"
  BY <1>2 DEF Activity, NoReturn, OneOffer, Fits
<1>4. NotOffered(j)
  BY <1>2, <1>3 DEF Activity, Offers
<1>5. entries'[j] = 1 /\ NoAnswer(j)'
  BY <1>4 DEF Pending, JobSchedule, NotOffered, NoAnswer, Offered
<1>6. Moves(j)' \subseteq {"KILL"} => Offers(j)'
  BY <1>3, <1>5 DEF Offers, OfferedOnce, OneAnswer, NoAnswer, Pending
<1>7. ~InEM(j)' /\ OneInEM(j)' /\ job_state'[j] = "PENDING" /\ tm_req'[j] = "NONE"
  BY <1>2 DEF Pending, InEM, OneInEM
<1>8. MoveOn("KILL", j) /\ LeftWith("KILL", j)
  BY <1>7 DEF Pending, MoveOn, LeftWith
<1>9. \A k \in Jobs \ {j} : Untouched(k)
  BY DEF Pending, JobSchedule, Untouched
<1> QED
  BY <1>1, <1>6, <1>8, <1>9, MoveStep DEF Pending

\* gw_dm_stopped and gw_dm_failed
LEMMA EndActivity ==
  ASSUME TypeOK, ActivityInv, NEW j \in Jobs, Stopped(j) \/ Failed(j)
  PROVE  ActivityInv'
<1> USE DEF TypeOK, StatesTyped, ManagersTyped, SchedulerTyped,
        jobv, depv, hostv, rmv, emv, schv, SetState, Stopped, Failed
<1>1. PICK a \in {"STOPPED", "FAILED"} : Handle(a, j) /\ job_state'[j] = a
  OBVIOUS
<1>2. a \in MoveActions
  BY DEF MoveActions, StateActions
<1>3. /\ Activity(j) /\ Fits(a, job_state[j])
      /\ ~em_sub[j] /\ ~em_retry[j] /\ runs[j] = {} /\ tm_req[j] = "NONE"
  BY <1>1, <1>2, MoveTaken
<1>4. job_state[j] # "PENDING"
  BY <1>3 DEF Fits
<1>5. Offers(j)'
  BY <1>1, <1>3, <1>4, OffersElsewhere
<1>6. ~InEM(j)' /\ OneInEM(j)' /\ tm_req'[j] = "NONE"
  BY <1>3 DEF InEM, OneInEM
<1>7. MoveOn("KILL", j) /\ LeftWith("KILL", j)
  BY <1>1, <1>6 DEF MoveOn, LeftWith
<1>8. \A k \in Jobs \ {j} : Untouched(k)
  BY DEF Untouched
<1> QED
  BY <1>1, <1>2, <1>5, <1>7, <1>8, MoveStep

\* gw_job_pool_free leaves nothing of the job to the EM.
LEMMA FreeActivity ==
  ASSUME TypeOK, ActivityInv, NEW j \in Jobs, PoolFree(j), dmq # <<>>, Done, inflight' = inflight
  PROVE  ActivityInv'
<1> USE DEF TypeOK, StatesTyped, ManagersTyped, SchedulerTyped, PoolFree, SetState, JobDel
<1>1. job_state'[j] = "FREED" /\ ~InEM(j)'
  BY DEF InEM
<1>2. \A k \in Jobs \ {j} : Untouched(k)
  BY DEF Untouched
<1> QED
  BY <1>1, <1>2, HandlerFrame DEF JobActivity

\* An idle job is in no hands.
LEMMA IdleHands ==
  ASSUME TypeOK, NEW k \in Jobs, Activity(k),
         job_state[k] \in {"NEW", "HOLD", "STOPPED", "FAILED", "ZOMBIE"}
  PROVE  Moves(k) = {} /\ ~InEM(k) /\ ~InTM(k)
<1>1. Moves(k) = {} /\ ~InEM(k)
  BY DEF Activity, StateFits, Fits, ExecStates, CancelStates, EpilogStates
<1>2. tm_req[k] \in {"NONE", "PROLOG", "EPILOG"}
  BY DEF TypeOK, ManagersTyped
<1>3. ~InTM(k)
  BY <1>2 DEF Activity, StateFits, InTM, EpilogStates
<1> QED
  BY <1>1, <1>3

\* An idle job that was not offered may become PENDING and be offered.
LEMMA IdleOffered ==
  ASSUME TypeOK, NEW k \in Jobs, Activity(k), NotOffered(k), KeepsQueue(k),
         job_state[k] \in {"NEW", "HOLD", "STOPPED"}, job_state'[k] = "PENDING",
         entries'[k] = entries[k] + 1,
         UNCHANGED <<em_sub, em_retry, runs, tm_req, inflight>>
  PROVE  JobActivity(k)'
<1>1. Moves(k) = {} /\ ~InEM(k) /\ ~InTM(k)
  BY IdleHands
<1>2. /\ Moves(k)' = {} /\ ~InEM(k)' /\ ~InTM(k)' /\ OneMove(k)'
      /\ \A op \in ClientOps \ {"KILL"} : Queued(op, k)' => op \in UserOps
  BY <1>1 DEF KeepsQueue, Moves, InEM, InTM, Activity, OneHand, NoReturn
<1>3. OneHand(k)' /\ NoReturn(k)' /\ StateFits(k)'
  BY <1>2 DEF OneHand, NoReturn, StateFits, InEM, InTM, OneInEM, Activity
<1>4. entries'[k] = 1 /\ NoAnswer(k)'
  BY DEF NotOffered, NoAnswer, Offered
<1>5. Offers(k)'
  BY <1>2, <1>4 DEF Offers, OfferedOnce, OneAnswer, NoAnswer
<1> QED
  BY <1>3, <1>5 DEF JobActivity, Activity

\* gw_job_pool_dep_check: the jobs that are released were in no hands, and were
\* not offered.
LEMMA DepCheckActivity ==
  ASSUME TypeOK, ActivityInv, NEW j \in Jobs, NEW k \in Jobs, k # j, DepCheck(j),
         KeepsQueue(k), UNCHANGED <<em_sub, em_retry, runs, tm_req, inflight>>
  PROVE  JobActivity(k)'
<1> DEFINE freed == MeetsDep(k, j) /\ LastDep(k, j)
<1>1. /\ job_state'[k] = IF freed THEN "PENDING" ELSE job_state[k]
      /\ entries'[k] = entries[k] + One(freed) /\ entries[k] \in Nat
  BY DEF DepCheck, TypeOK, SchedulerTyped
<1>2. CASE ~freed
  <2>1. Untouched(k)
    BY <1>1, <1>2 DEF One, Untouched
  <2> QED
    BY <2>1, SameAnswers, UntouchedJob DEF ActivityInv
<1>3. CASE freed
  <2>1. job_state[k] = "HOLD" /\ Activity(k)
    BY <1>3 DEF MeetsDep, ActivityInv, JobActivity
  <2>2. NotOffered(k)
    BY <2>1 DEF Activity, Offers
  <2>3. job_state'[k] = "PENDING" /\ entries'[k] = entries[k] + 1
    BY <1>1, <1>3 DEF One
  <2> QED
    BY <2>1, <2>2, <2>3, IdleOffered
<1> QED
  BY <1>2, <1>3

\* gw_dm_zombie
LEMMA ZombieActivity ==
  ASSUME TypeOK, ActivityInv, NEW j \in Jobs, Zombie(j)
  PROVE  ActivityInv'
<1> USE DEF TypeOK, StatesTyped, ManagersTyped, SchedulerTyped, jobv, depv, hostv, rmv, emv, schv
<1>1. Handle("ZOMBIE", j) /\ "ZOMBIE" \in MoveActions /\ dmq # <<>>
  BY DEF Zombie, Handle, MoveActions, StateActions
<1>2. /\ Activity(j) /\ Fits("ZOMBIE", job_state[j])
      /\ ~em_sub[j] /\ ~em_retry[j] /\ runs[j] = {} /\ tm_req[j] = "NONE"
  BY <1>1, MoveTaken
<1>3. CASE job_state[j] = "KILL_EPILOG"
  BY <1>1, <1>3, FreeActivity DEF Zombie
<1>4. CASE job_state[j] = "EPILOG"
  <2>1. /\ DepCheck(j) /\ (Done \/ DoneAndTrigger("KILL", j))
        /\ UNCHANGED <<em_sub, em_retry, runs, tm_req, inflight>>
    BY <1>4 DEF Zombie
  <2>2. ASSUME NEW k \in Jobs, k # j
        PROVE  JobActivity(k)'
    <3>1. KeepsQueue(k)
      <4>1. QueueTyped
        OBVIOUS
      <4>2. (OneMove(k) => OneMove(k)') /\ \A a : Queued(a, k)' => Queued(a, k)
        BY <1>1, <2>1, <2>2, <4>1, OthersHandled
      <4> QED
        BY <4>2 DEF KeepsQueue
    <3> QED
      BY <2>1, <2>2, <3>1, DepCheckActivity
  <2>3. JobActivity(j)'
    <3>1. /\ OneMove(j)' /\ Moves(j)' = {}
          /\ \A op \in ClientOps \ {"KILL"} : Queued(op, j)' => op \in UserOps
      <4>1. OneMove(j)
        BY <1>2 DEF Activity, OneHand
      <4>2. /\ OneMove(j)'
            /\ \A c \in MoveActions : Queued(c, j)' => c = "KILL"
            /\ \A c : Queued(c, j)' => Queued(c, j) \/ c = "KILL"
        BY <1>1, <2>1, <4>1, MoveHandled
      <4> QED
        BY <1>2, <4>2, MoveTypes DEF Moves, ClientOps, Activity, NoReturn
    <3>2. job_state'[j] = "ZOMBIE" /\ (entries'[j] = entries[j])
      BY <1>4 , <2>1 DEF DepCheck, MeetsDep, One
    <3>3. OneInEM(j)' /\ ~InEM(j)' /\ tm_req'[j] = "NONE"
      BY <1>2, <2>1 DEF OneInEM, InEM
    <3>4. Offers(j)'
      BY <1>2, <1>4, <2>1, <3>2, OffersElsewhere
    <3> QED
      BY <3>1, <3>2, <3>3, <3>4 DEF JobActivity, Activity, OneHand, StateFits, NoReturn, InTM
  <2> QED
    BY <2>2, <2>3 DEF ActivityInv
<1> QED
  BY <1>2, <1>3, <1>4 DEF Fits

-----------------------------------------------------------------------------
(* The handlers of the clients' requests, and gw_dm_migr_cancel.           *)

\* What the clients may not ask for is not in the queue.
LEMMA AskedFor ==
  ASSUME TypeOK, ActivityInv, NEW j \in Jobs, NEW op \in ClientOps \ {"KILL"}, Handle(op, j)
  PROVE  op \in UserOps
<1>1. Queued(op, j) /\ job_state[j] # "FREED"
  BY HeadQueued DEF TypeOK, Handle
<1> QED
  BY <1>1 DEF ActivityInv, JobActivity, Activity, NoReturn

\* A handler that leaves the job where it is, or has its wrapper cancelled.
LEMMA OtherStep ==
  ASSUME TypeOK, ActivityInv, NEW j \in Jobs, dmq # <<>>, Done, job_state[j] # "FREED",
         UNCHANGED <<em_sub, em_retry, runs, tm_req, inflight>>,
         \A k \in Jobs \ {j} : Untouched(k),
         \/ job_state'[j] = job_state[j] /\ entries'[j] = entries[j]
         \/ /\ job_state[j] = "WRAPPER" /\ job_state'[j] \in CancelStates
            /\ entries' = entries \/ ClearReschedule(j)
  PROVE  ActivityInv'
<1>1. QueueTyped /\ Activity(j)
  BY DEF TypeOK, ActivityInv, JobActivity
<1>2. KeepsQueue(j)
  BY <1>1, OtherHandled DEF KeepsQueue
<1>3. CASE job_state'[j] = job_state[j] /\ entries'[j] = entries[j]
  <2>1. Untouched(j)
    BY <1>3 DEF Untouched
  <2>2. JobActivity(j)'
    BY <1>2, <2>1, SameAnswers, UntouchedJob DEF ActivityInv
  <2> QED
    BY <1>1, <2>2, HandlerFrame
<1>4. CASE /\ job_state[j] = "WRAPPER" /\ job_state'[j] \in CancelStates
           /\ entries' = entries \/ ClearReschedule(j)
  <2>1. Moves(j)' \subseteq Moves(j)
    BY <1>2 DEF KeepsQueue, Moves
  <2>2. (InEM(j)' <=> InEM(j)) /\ (InTM(j)' <=> InTM(j)) /\ (OneInEM(j)' <=> OneInEM(j))
    BY DEF InEM, InTM, OneInEM
  <2>3. OneHand(j)'
    BY <1>1, <1>2, <2>1, <2>2 DEF Activity, OneHand, KeepsQueue
  <2>4. ~InTM(j)
    <3>1. tm_req[j] \in {"NONE", "PROLOG", "EPILOG"}
      BY DEF TypeOK, ManagersTyped
    <3> QED
      BY <1>1, <1>4, <3>1 DEF Activity, StateFits, InTM, EpilogStates
  <2>5. \A a \in Moves(j) : Fits(a, "WRAPPER")
    BY <1>1, <1>4 DEF Activity, StateFits
  <2>6. \A a : Fits(a, "WRAPPER") => Fits(a, job_state'[j])
    BY <1>4 DEF Fits, ExecStates, EpilogStates
  <2>7. StateFits(j)'
    BY <1>4, <2>1, <2>2, <2>4, <2>5, <2>6 DEF StateFits, ExecStates, InTM
  <2>8. Offers(j)'
    <3>1. job_state'[j] \notin {"PENDING", "NEW", "HOLD"}
      BY <1>4 DEF CancelStates
    <3> QED
      BY <1>1, <1>4, <3>1, OffersElsewhere
  <2>9. NoReturn(j)'
    BY <1>1, <1>2, <1>4, <2>1 DEF Activity, NoReturn, KeepsQueue, CancelStates
  <2>10. JobActivity(j)'
    BY <1>4, <2>3, <2>7, <2>8, <2>9 DEF JobActivity, Activity, CancelStates
  <2> QED
    BY <1>1, <2>10, HandlerFrame
<1> QED
  BY <1>3, <1>4

\* The handlers that find no job in the pool.
LEMMA MissingActivity ==
  ASSUME TypeOK, ActivityInv, NEW j \in Jobs, NEW a, MissingJob(a, j)
  PROVE  ActivityInv'
<1> USE DEF MissingJob, emv, schv
<1>1. JobActivity(j)'
  BY DEF ActivityInv, JobActivity, InEM
<1>2. \A k \in Jobs : Untouched(k)
  BY DEF Untouched
<1> QED
  BY <1>1, <1>2, HandlerFrame DEF TypeOK

\* A held job that is released is offered for the first time.
LEMMA ReleaseActivity ==
  ASSUME TypeOK, ActivityInv, NEW j \in Jobs, Release(j)
  PROVE  ActivityInv'
<1> USE DEF TypeOK, StatesTyped, SchedulerTyped, Release, Handle, SetState, JobSchedule, emv
<1>1. CASE job_state[j] # "HOLD"
  <2>1. \A k \in Jobs : Untouched(k)
    BY <1>1 DEF Untouched
  <2> QED
    BY <1>1, <2>1, OtherStep
<1>2. CASE job_state[j] = "HOLD"
  <2>1. Activity(j)
    BY <1>2 DEF ActivityInv, JobActivity
  <2>2. NotOffered(j)
    BY <1>2, <2>1 DEF Activity, Offers
  <2>3. KeepsQueue(j)
    BY OtherHandled DEF KeepsQueue
  <2>4. JobActivity(j)'
    BY <1>2, <2>1, <2>2, <2>3, IdleOffered
  <2>5. \A k \in Jobs \ {j} : Untouched(k)
    BY <1>2 DEF Untouched
  <2> QED
    BY <2>4, <2>5, HandlerFrame
<1> QED
  BY <1>1, <1>2

\* A stopped job that is resumed does not migrate, so that it is not offered.
LEMMA ResumeActivity ==
  ASSUME OneOffer, TypeOK, ActivityInv, NEW j \in Jobs, Resume(j)
  PROVE  ActivityInv'
<1> USE DEF TypeOK, StatesTyped, SchedulerTyped, Resume, Handle, SetState, JobSchedule
<1>1. CASE job_state[j] # "STOPPED"
  <2>1. \A k \in Jobs : Untouched(k)
    BY <1>1 DEF Untouched
  <2> QED
    BY <1>1, <2>1, OtherStep
<1>2. CASE job_state[j] = "STOPPED"
  <2>1. Activity(j)
    BY <1>2 DEF ActivityInv, JobActivity
  <2>2. j \notin Migrating
    BY AskedFor DEF OneOffer, ClientOps
  <2>3. NotOffered(j)
    BY <1>2, <2>1, <2>2 DEF Activity, Offers
  <2>4. KeepsQueue(j)
    BY OtherHandled DEF KeepsQueue
  <2>5. JobActivity(j)'
    BY <1>2, <2>1, <2>3, <2>4, IdleOffered
  <2>6. \A k \in Jobs \ {j} : Untouched(k)
    BY <1>2 DEF Untouched
  <2> QED
    BY <2>5, <2>6, HandlerFrame
<1> QED
  BY <1>1, <1>2

\* The other requests: HOLD and RESCHEDULE are not asked for.
LEMMA RequestsActivity ==
  ASSUME OneOffer, TypeOK, ActivityInv, NEW j \in Jobs,
         \/ Hold(j) \/ Kill(j) \/ KillHard(j) \/ Stop(j) \/ Reschedule(j) \/ Wait(j)
         \/ MigrCancel(j)
  PROVE  ActivityInv'
<1> USE DEF TypeOK, StatesTyped, SchedulerTyped, Handle, SetState, emv, schv, CancelStates,
        ClearReschedule, JobDel
<1>1. ASSUME Hold(j) \/ Reschedule(j)
      PROVE  FALSE
  BY <1>1, AskedFor DEF Hold, Reschedule, OneOffer, ClientOps
<1>2. CASE Kill(j)
  <2>1. CASE job_state[j] \in IdleStates
    BY <1>2, <2>1, FreeActivity DEF Kill, IdleStates
  <2>2. CASE job_state[j] \notin IdleStates
    <3>1. \A k \in Jobs \ {j} : Untouched(k)
      BY <1>2, <2>2 DEF Kill, Untouched
    <3>2. UNCHANGED <<em_sub, em_retry, runs, tm_req, inflight>>
      BY <1>2, <2>2 DEF Kill
    <3> QED
      BY <1>2, <2>2, <3>1, <3>2, OtherStep DEF Kill
  <2> QED
    BY <2>1, <2>2
<1>3. CASE KillHard(j)
  BY <1>3, FreeActivity DEF KillHard
<1>4. CASE Stop(j)
  <2>1. \A k \in Jobs \ {j} : Untouched(k)
    BY <1>4 DEF Stop, Untouched
  <2> QED
    BY <1>4, <2>1, OtherStep DEF Stop
<1>5. CASE Wait(j)
  <2>1. \A k \in Jobs \ {j} : Untouched(k)
    BY <1>5 DEF Wait, Untouched
  <2> QED
    BY <1>5, <2>1, OtherStep DEF Wait
<1>6. CASE MigrCancel(j)
  <2>1. \A k \in Jobs \ {j} : Untouched(k)
    BY <1>6 DEF MigrCancel, Untouched
  <2> QED
    BY <1>6, <2>1, OtherStep DEF MigrCancel
<1> QED
  BY <1>1, <1>2, <1>3, <1>4, <1>5, <1>6

-----------------------------------------------------------------------------
(* The other threads.                                                      *)

\* gw_dm_jalloc
LEMMA SubmitActivity ==
  ASSUME TypeOK, ActivityInv, NEW j \in Jobs, Submit(j)
  PROVE  ActivityInv'
<1> USE DEF TypeOK, StatesTyped, SchedulerTyped, Submit, SetState, JobSchedule, emv
<1>1. Activity(j)
  BY DEF ActivityInv, JobActivity
<1>2. NotOffered(j)
  BY <1>1 DEF Activity, Offers
<1>3. KeepsQueue(j)
  BY DEF KeepsQueue, OneMove, Queued
<1>4. JobActivity(j)'
  <2>1. CASE j \in InitHold
    <3>1. Moves(j) = {} /\ ~InEM(j) /\ ~InTM(j)
      BY <1>1, IdleHands
    <3>2. Moves(j)' = {} /\ ~InEM(j)' /\ ~InTM(j)' /\ OneMove(j)' /\ NotOffered(j)'
      BY <1>1, <1>2, <2>1, <3>1
      DEF Moves, Queued, InEM, InTM, OneMove, NotOffered, NoAnswer, Offered, Activity, OneHand
    <3>3. job_state'[j] = "HOLD"
      BY <2>1
    <3>4. OneHand(j)' /\ StateFits(j)' /\ Offers(j)'
      BY <3>1, <3>2, <3>3 DEF OneHand, StateFits, Offers, InEM, InTM, OneInEM
    <3>5. NoReturn(j)'
      BY <1>1, <3>2, <3>3 DEF Activity, NoReturn, Queued
    <3> QED
      BY <3>3, <3>4, <3>5 DEF JobActivity, Activity
  <2>2. CASE j \notin InitHold
    BY <1>1, <1>2, <1>3, <2>2, IdleOffered
  <2> QED
    BY <2>1, <2>2
<1>5. \A k \in Jobs \ {j} : Untouched(k) /\ KeepsAnswers(k)
  BY SameAnswers DEF Untouched
<1> QED
  BY <1>4, <1>5, PostFrame

\* gw_rm_connection
LEMMA RequestActivity ==
  ASSUME TypeOK, ActivityInv, NEW j \in Jobs, NEW op \in UserOps, Request(op, j)
  PROVE  ActivityInv'
<1> USE DEF TypeOK, Request, emv, schv
<1>1. op \in DMActions /\ op \notin MoveActions
  BY MoveTypes, DMAssumption DEF DMActions
<1>2. \A k \in Jobs : Untouched(k) /\ KeepsAnswers(k)
  BY SameAnswers DEF Untouched
<1>3. KeepsQueue(j)
  <2>1. (OneMove(j) => OneMove(j)') /\ \A a : Queued(a, j)' => Queued(a, j) \/ a = op
    BY <1>1, MovePosted
  <2> QED
    BY <1>1, <2>1 DEF KeepsQueue
<1>4. JobActivity(j)'
  BY <1>2, <1>3, UntouchedJob DEF ActivityInv
<1> QED
  BY <1>1, <1>2, <1>4, PostFrame

\* The answers of the round s that send job j to a host.
AnswersTo(s, j) == {i \in DOMAIN s : s[i][1] \in {j} /\ s[i][2] # NoHost}

\* A round has as many answers for a job as the scheduler takes entries of it.
LEMMA RoundAnswers ==
  ASSUME NEW n \in Nat, NEW s \in [1..n -> Jobs \X (Hosts \union {NoHost})], NEW j
  PROVE  /\ Sent(s, {j}) \in Nat
         /\ Sent(s, {j}) = 0 => AnswersTo(s, j) = {}
         /\ Sent(s, {j}) <= 1 => \A p, q \in AnswersTo(s, j) : p = q
<1> DEFINE T == AnswersTo(s, j)
<1>1. IsFiniteSet(T) /\ Sent(s, {j}) = Cardinality(T)
  <2>1. IsFiniteSet(1..n)
    BY FS_Interval
  <2>2. T \subseteq 1..n
    BY DEF AnswersTo
  <2> QED
    BY <2>1, <2>2, FS_Subset DEF Sent, AnswersTo
<1>2. Cardinality(T) \in Nat /\ (Cardinality(T) = 0 <=> T = {})
  BY <1>1, FS_CardinalityType, FS_EmptySet
<1>3. Cardinality(T) <= 1 => \A p, q \in T : p = q
  <2> SUFFICES ASSUME Cardinality(T) <= 1, NEW p \in T, NEW q \in T, p # q
               PROVE  FALSE
    OBVIOUS
  <2>1. IsFiniteSet(T \ {p}) /\ Cardinality(T \ {p}) = Cardinality(T) - 1
    BY <1>1, FS_RemoveElement
  <2>2. q \in T \ {p}
    OBVIOUS
  <2>3. Cardinality(T \ {p}) \in Nat /\ Cardinality(T \ {p}) # 0
    BY <2>1, <2>2, FS_CardinalityType, FS_EmptySet
  <2> HIDE DEF T
  <2> QED
    BY <1>2, <2>1, <2>3
<1> QED
  BY <1>1, <1>2, <1>3

\* gw_dm_schedule: the round that the scheduler makes takes from its list what it
\* answers.
LEMMA ScheduleActivity ==
  ASSUME TypeOK, ActivityInv, Schedule
  PROVE  ActivityInv'
<1> USE DEF TypeOK, StatesTyped, SchedulerTyped
<1>1. PICK susp \in SUBSET {j \in SuspensionTimeout :
                              Checkable(j) /\ em_state[j] \in {"PENDING", "SUSPENDED"}},
           late \in SUBSET {j \in ReschedulingInterval : Checkable(j)} :
        \E s \in Rounds(CheckedEntries(susp, late), reschedule') :
          /\ inflight' = s
          /\ entries' = [j \in Jobs |-> CheckedEntries(susp, late)[j] - Sent(s, {j})]
  BY DEF Schedule
<1>2. PICK s \in Rounds(CheckedEntries(susp, late), reschedule') :
        /\ inflight' = s
        /\ entries' = [j \in Jobs |-> CheckedEntries(susp, late)[j] - Sent(s, {j})]
  BY <1>1
<1>3. PICK n \in 0..DISPATCH_CHUNK : s \in [1..n -> Jobs \X (Hosts \union {NoHost})]
  BY <1>2 DEF Rounds
<1>4. n \in Nat /\ Len(inflight') = n
  BY <1>2, <1>3, DMAssumption
<1>5. UNCHANGED <<job_state, dmq, em_sub, em_retry, runs, tm_req>>
  BY DEF Schedule, emv
<1>6. ASSUME NEW k \in Jobs, job_state[k] # "FREED"
      PROVE  Offers(k)'
  <2>1. Activity(k)
    BY <1>6 DEF ActivityInv, JobActivity
  <2>2. CASE k \in Migrating /\ job_state[k] \notin {"PENDING", "NEW", "HOLD"}
    BY <1>5, <2>2 DEF Offers
  <2>3. CASE ~(k \in Migrating /\ job_state[k] \notin {"PENDING", "NEW", "HOLD"})
    <3>1. CheckedEntries(susp, late)[k] = entries[k]
      BY <2>3 DEF CheckedEntries, Checkable, Migrating, One
    <3>2. Sent(s, {k}) \in Nat /\ Sent(s, {k}) <= entries[k]
      BY <1>2, <1>3, <1>4, <3>1, RoundAnswers DEF Rounds
    <3>3. entries'[k] = entries[k] - Sent(s, {k}) /\ entries[k] \in Nat
      BY <1>2, <3>1
    <3>4. Sent(s, {k}) = 0 => NoAnswer(k)'
      <4>1. Sent(s, {k}) = 0 => AnswersTo(s, k) = {}
        BY <1>3, <1>4, RoundAnswers
      <4> QED
        BY <1>2, <1>3, <1>4, <4>1 DEF NoAnswer, Offered, AnswersTo
    <3>5. Sent(s, {k}) <= 1 => OneAnswer(k)'
      <4>1. Sent(s, {k}) <= 1 => \A p, q \in AnswersTo(s, k) : p = q
        BY <1>3, <1>4, RoundAnswers
      <4> QED
        BY <1>2, <1>3, <1>4, <4>1 DEF OneAnswer, Offered, AnswersTo
    <3>6. NotOffered(k) => NotOffered(k)'
      BY <3>2, <3>3, <3>4 DEF NotOffered
    <3>7. Moves(k)' = Moves(k)
      BY <1>5 DEF Moves, Queued
    <3>8. CASE job_state[k] = "PENDING"
      BY <1>5, <2>1, <3>2, <3>3, <3>4, <3>5, <3>6, <3>7, <3>8
      DEF Activity, Offers, OfferedOnce
    <3>9. CASE job_state[k] # "PENDING"
      BY <1>5, <2>1, <2>3, <3>6, <3>9 DEF Activity, Offers
    <3> QED
      BY <3>8, <3>9
  <2> QED
    BY <2>2, <2>3
<1>7. ASSUME NEW k \in Jobs
      PROVE  JobActivity(k)'
  <2>1. CASE job_state[k] = "FREED"
    BY <1>5, <2>1 DEF ActivityInv, JobActivity, InEM
  <2>2. CASE job_state[k] # "FREED"
    <3>1. Activity(k)
      BY <2>2 DEF ActivityInv, JobActivity
    <3>2. /\ Moves(k)' = Moves(k) /\ (OneMove(k)' <=> OneMove(k))
          /\ \A op : Queued(op, k)' <=> Queued(op, k)
      BY <1>5 DEF Moves, OneMove, Queued
    <3>3. (InEM(k)' <=> InEM(k)) /\ (InTM(k)' <=> InTM(k)) /\ (OneInEM(k)' <=> OneInEM(k))
      BY <1>5 DEF InEM, InTM, OneInEM
    <3>4. OneHand(k)' /\ StateFits(k)' /\ NoReturn(k)'
      BY <1>5, <3>1, <3>2, <3>3 DEF Activity, OneHand, StateFits, NoReturn
    <3> QED
      BY <1>5, <1>6, <2>2, <3>4 DEF JobActivity, Activity
  <2> QED
    BY <2>1, <2>2
<1> QED
  BY <1>7 DEF ActivityInv

\* The DM listener takes the answers in their order.
LEMMA TailAnswers ==
  ASSUME TypeOK, inflight # <<>>, inflight' = Tail(inflight), NEW k
  PROVE  KeepsAnswers(k) /\ (OneAnswer(k) /\ Offered(1, k) => NoAnswer(k)')
<1>1. /\ Len(inflight) \in Nat \ {0} /\ Len(inflight') = Len(inflight) - 1
      /\ \A i \in 1..Len(inflight') : inflight'[i] = inflight[i + 1]
  BY DEF TypeOK, SchedulerTyped
<1>2. \A i \in 1..Len(inflight') : i + 1 \in 1..Len(inflight) /\ i + 1 # 1
  BY <1>1
<1>3. \A i \in 1..Len(inflight') : Offered(i, k)' <=> Offered(i + 1, k)
  BY <1>1 DEF Offered
<1>4. NoAnswer(k) => NoAnswer(k)'
  BY <1>2, <1>3 DEF NoAnswer
<1>5. OneAnswer(k) => OneAnswer(k)'
  <2> SUFFICES ASSUME OneAnswer(k), NEW p \in 1..Len(inflight'), NEW q \in 1..Len(inflight'),
                      Offered(p, k)', Offered(q, k)'
               PROVE  p = q
    BY DEF OneAnswer
  <2>1. p + 1 = q + 1
    BY <1>2, <1>3 DEF OneAnswer
  <2> QED
    BY <2>1
<1>6. OneAnswer(k) /\ Offered(1, k) => NoAnswer(k)'
  <2>1. 1 \in 1..Len(inflight)
    BY <1>1
  <2> QED
    BY <1>2, <1>3, <2>1 DEF OneAnswer, NoAnswer
<1> QED
  BY <1>4, <1>5, <1>6 DEF KeepsAnswers

\* gw_dm_dispatch_job, first branch: the job that is sent to a host was offered once.
LEMMA DispatchActivity ==
  ASSUME TypeOK, ActivityInv, NEW j \in Jobs, NEW h \in Hosts \union {NoHost},
         DispatchPending(j, h)
  PROVE  ActivityInv'
<1> USE DEF TypeOK, StatesTyped, ManagersTyped, SchedulerTyped, DispatchPending, Receive, emv
<1>1. Activity(j) /\ OfferedOnce(j)
  BY DEF ActivityInv, JobActivity, Activity, Offers
<1>2. Offered(1, j) /\ 1 \in 1..Len(inflight)
  BY DEF Offered
<1>3. entries[j] = 0 /\ "PROLOG" \notin Moves(j)
  <2>1. ~NoAnswer(j)
    BY <1>2 DEF NoAnswer
  <2>2. entries[j] \in Nat
    OBVIOUS
  <2> QED
    BY <1>1, <2>1, <2>2 DEF OfferedOnce, NotOffered
<1>4. Moves(j) = {} /\ ~InEM(j)
  BY <1>1, <1>3 DEF Activity, StateFits, Fits, ExecStates, CancelStates, EpilogStates
<1>5. tm_req[j] = "NONE"
  BY <1>1 DEF Activity, StateFits, EpilogStates
<1>6. "PROLOG" \in DMActions /\ "PROLOG" \notin ClientOps
  BY DEF DMActions, StateActions, ClientOps
<1>7. OneMove(j)' /\ \A c : Queued(c, j)' => Queued(c, j) \/ c = "PROLOG"
  BY <1>1, <1>4, <1>6, MovePosted DEF Activity, OneHand
<1>8. Moves(j)' \subseteq {"PROLOG"}
  BY <1>4, <1>7 DEF Moves
<1>9. \A op \in ClientOps \ {"KILL"} : Queued(op, j)' => op \in UserOps
  BY <1>1, <1>6, <1>7 DEF Activity, NoReturn
<1>10. ~InEM(j)' /\ ~InTM(j)' /\ OneInEM(j)'
  BY <1>4, <1>5 DEF InEM, InTM, OneInEM, HistoryAdd
<1>11. OneHand(j)' /\ NoReturn(j)' /\ StateFits(j)'
  BY <1>5, <1>7, <1>8, <1>9, <1>10 DEF OneHand, NoReturn, StateFits, Fits
<1>12. NoAnswer(j)' /\ entries'[j] = 0
  BY <1>1, <1>2, <1>3, TailAnswers DEF OfferedOnce
<1>13. Offers(j)'
  BY <1>12 DEF Offers, OfferedOnce, NotOffered, OneAnswer, NoAnswer
<1>14. JobActivity(j)'
  BY <1>11, <1>13 DEF JobActivity, Activity
<1>15. \A k \in Jobs \ {j} : Untouched(k) /\ KeepsAnswers(k)
  BY TailAnswers DEF Untouched, HistoryAdd
<1> QED
  BY <1>6, <1>14, <1>15, PostFrame

\* The other answers of the scheduler move no job.
LEMMA AnswersActivity ==
  ASSUME TypeOK, ActivityInv, NEW j \in Jobs, NEW h \in Hosts \union {NoHost},
         \/ DispatchMigration(j, h) \/ UncheckJob(j, h)
         \/ DispatchRefused(j, h) \/ DispatchUnsaved(j, h)
  PROVE  ActivityInv'
<1> USE DEF TypeOK, StatesTyped, ManagersTyped, SchedulerTyped, Receive, HistoryAdd, emv, schv,
        DispatchMigration, UncheckJob, DispatchRefused, DispatchUnsaved
<1>1. \A k \in Jobs : Untouched(k)
  BY DEF Untouched, JobDel
<1>2. \A k \in Jobs : KeepsAnswers(k)
  BY TailAnswers
<1>3. "MIGR_CANCEL" \in DMActions /\ "MIGR_CANCEL" \notin MoveActions \union ClientOps
  BY DEF DMActions, StateActions, MoveActions, Callbacks, ClientOps, EpilogStates
<1>4. UNCHANGED dmq \/ dmq' = Append(dmq, <<"MIGR_CANCEL", j>>)
  OBVIOUS
<1>5. KeepsQueue(j)
  <2>1. CASE UNCHANGED dmq
    BY <2>1 DEF KeepsQueue, OneMove, Queued
  <2>2. CASE dmq' = Append(dmq, <<"MIGR_CANCEL", j>>)
    <3>1. (OneMove(j) => OneMove(j)') /\ \A a : Queued(a, j)' => Queued(a, j) \/ a = "MIGR_CANCEL"
      BY <1>3, <2>2, MovePosted
    <3> QED
      BY <1>3, <3>1 DEF KeepsQueue
  <2> QED
    BY <1>4, <2>1, <2>2
<1>6. JobActivity(j)'
  BY <1>1, <1>2, <1>5, UntouchedJob DEF ActivityInv
<1> QED
  BY <1>1, <1>2, <1>3, <1>4, <1>6, PostFrame

\* The EM keeps a job in its hands, or gives it back with one answer.
LEMMA EMActivity ==
  ASSUME TypeOK, ActivityInv, NEW j \in Jobs, EMStep(j)
  PROVE  ActivityInv'
<1> USE DEF TypeOK, StatesTyped, ManagersTyped, EMStep, emv, schv
<1>1. CASE \E s \in Submitted : EMState(j, s)
  <2>1. UNCHANGED <<job_state, dmq, em_sub, em_retry, runs, tm_req, entries, inflight>>
    BY <1>1 DEF EMState
  <2>2. \A k \in Jobs : Untouched(k) /\ KeepsAnswers(k) /\ KeepsQueue(k)
    BY <2>1, SameAnswers DEF Untouched, KeepsQueue, OneMove, Queued
  <2> QED
    BY <2>2, UntouchedJob DEF ActivityInv
<1>2. CASE ~\E s \in Submitted : EMState(j, s)
  <2>1. InEM(j)
    BY <1>2 DEF InEM, EMSubmit, EMRetry, EMDone, EMFailed
  <2>2. job_state[j] # "FREED" /\ Activity(j)
    BY <2>1 DEF ActivityInv, JobActivity
  <2>3. Moves(j) = {} /\ tm_req[j] = "NONE" /\ job_state[j] \in ExecStates /\ OneMove(j)
    BY <2>1, <2>2 DEF Activity, OneHand, StateFits, InTM
  <2>4. UNCHANGED <<job_state, tm_req, entries, inflight>>
    BY <1>2 DEF EMSubmit, EMRetry, EMDone, EMFailed
  <2>5. OneInEM(j)' /\ (UNCHANGED dmq \/ ~InEM(j)')
    BY <1>2, <2>2 DEF Activity, OneHand, OneInEM, InEM, EMSubmit, EMRetry, EMDone, EMFailed
  <2>6. UNCHANGED dmq \/ \E b \in {"WRAPPER_DONE", "WRAPPER_FAILED"} : dmq' = Append(dmq, <<b, j>>)
    BY <1>2 DEF EMSubmit, EMRetry, EMDone, EMFailed
  <2>7. {"WRAPPER_DONE", "WRAPPER_FAILED"} \subseteq DMActions \ ClientOps
    BY DEF DMActions, Callbacks, ClientOps
  <2>8. /\ OneMove(j)' /\ Moves(j)' \subseteq {"WRAPPER_DONE", "WRAPPER_FAILED"}
        /\ InEM(j)' => Moves(j)' = {}
        /\ \A op \in ClientOps \ {"KILL"} : Queued(op, j)' => op \in UserOps
    <3>1. CASE UNCHANGED dmq
      BY <2>2, <2>3, <3>1 DEF OneMove, Moves, Queued, Activity, NoReturn
    <3>2. ASSUME NEW b \in {"WRAPPER_DONE", "WRAPPER_FAILED"}, dmq' = Append(dmq, <<b, j>>),
                 ~InEM(j)'
          PROVE  /\ OneMove(j)' /\ Moves(j)' \subseteq {"WRAPPER_DONE", "WRAPPER_FAILED"}
                 /\ \A op \in ClientOps \ {"KILL"} : Queued(op, j)' => op \in UserOps
      <4>1. OneMove(j)' /\ \A c : Queued(c, j)' => Queued(c, j) \/ c = b
        BY <2>3, <2>7, <3>2, MovePosted
      <4> QED
        BY <2>2, <2>3, <2>7, <4>1 DEF Moves, Activity, NoReturn
    <3>3. CASE ~UNCHANGED dmq
      BY <2>5, <2>6, <3>2, <3>3
    <3> QED
      BY <3>1, <3>3
  <2>9. OneHand(j)' /\ StateFits(j)' /\ NoReturn(j)'
    BY <2>2, <2>3, <2>4, <2>5, <2>8 DEF OneHand, StateFits, NoReturn, InTM, Fits, Activity
  <2>10. Offers(j)'
    BY <2>2, <2>3, <2>4 DEF Activity, Offers, NotOffered, NoAnswer, Offered, ExecStates, CancelStates
  <2>11. JobActivity(j)'
    BY <2>2, <2>4, <2>9, <2>10 DEF JobActivity, Activity
  <2>12. \A k \in Jobs \ {j} : Untouched(k) /\ KeepsAnswers(k)
    BY <1>2, <2>4, SameAnswers DEF Untouched, EMSubmit, EMRetry, EMDone, EMFailed
  <2> QED
    BY <2>6, <2>7, <2>11, <2>12, PostFrame
<1> QED
  BY <1>1, <1>2

\* The TM gives a job back with its answer.
LEMMA TMActivity ==
  ASSUME TypeOK, ActivityInv, NEW j \in Jobs, TMStep(j)
  PROVE  ActivityInv'
<1> USE DEF TypeOK, StatesTyped, ManagersTyped, TMStep, TMAnswer, emv, schv
<1>1. PICK a \in Callbacks : TMAnswer(j, a)
  OBVIOUS
<1>2. /\ a \in {"PROLOG_DONE", "PROLOG_FAILED", "EPILOG_DONE", "EPILOG_FAILED"}
      /\ a \in DMActions \ ClientOps
  BY <1>1 DEF DMActions, Callbacks, ClientOps
<1>3. CASE job_state[j] = "FREED"
  <2>1. \A k \in Jobs \ {j} : Untouched(k) /\ KeepsAnswers(k)
    BY SameAnswers DEF Untouched
  <2>2. JobActivity(j)'
    BY <1>3 DEF ActivityInv, JobActivity, InEM
  <2> QED
    BY <1>1, <1>2, <2>1, <2>2, PostFrame
<1>4. CASE job_state[j] # "FREED"
  <2>1. Activity(j) /\ InTM(j)
    BY <1>1, <1>4 DEF ActivityInv, JobActivity, InTM
  <2>2. Moves(j) = {} /\ ~InEM(j) /\ OneMove(j)
    BY <2>1 DEF Activity, OneHand
  <2>3. Fits(a, job_state[j])
    BY <1>1, <2>1 DEF Activity, StateFits, Fits
  <2>4. OneMove(j)' /\ \A c : Queued(c, j)' => Queued(c, j) \/ c = a
    BY <1>1, <1>2, <2>2, MovePosted
  <2>5. Moves(j)' \subseteq {a} /\ ~InEM(j)' /\ OneInEM(j)' /\ tm_req'[j] = "NONE"
    BY <1>1, <2>2, <2>4 DEF Moves, InEM, OneInEM
  <2>6. OneHand(j)' /\ StateFits(j)'
    BY <2>3, <2>4, <2>5 DEF OneHand, StateFits, InTM
  <2>7. NoReturn(j)'
    BY <1>2, <2>1, <2>4, <2>5 DEF Activity, NoReturn
  <2>8. job_state[j] \notin {"PENDING", "NEW", "HOLD"}
    BY <1>2, <2>3 DEF Fits, EpilogStates
  <2>9. Offers(j)'
    BY <2>1, <2>8 DEF Activity, Offers, NotOffered, NoAnswer, Offered
  <2>10. JobActivity(j)'
    BY <1>4, <2>6, <2>7, <2>9 DEF JobActivity, Activity
  <2>11. \A k \in Jobs \ {j} : Untouched(k) /\ KeepsAnswers(k)
    BY SameAnswers DEF Untouched
  <2> QED
    BY <1>1, <1>2, <2>10, <2>11, PostFrame
<1> QED
  BY <1>3, <1>4

-----------------------------------------------------------------------------
(* The invariant.                                                          *)

\* At the start no job is in any hands.
LEMMA ActivityInit == Init => ActivityInv
<1> SUFFICES ASSUME Init, NEW j \in Jobs
             PROVE  JobActivity(j)
  BY DEF ActivityInv
<1> USE DEF Init
<1>1. Moves(j) = {} /\ ~InEM(j) /\ ~InTM(j) /\ OneMove(j) /\ OneInEM(j)
  BY DEF Moves, Queued, InEM, InTM, OneMove, OneInEM
<1>2. NotOffered(j) /\ job_state[j] = "NEW"
  BY DEF NotOffered, NoAnswer
<1>3. OneHand(j) /\ StateFits(j) /\ Offers(j)
  BY <1>1, <1>2 DEF OneHand, StateFits, Offers
<1>4. NoReturn(j)
  BY <1>1 DEF NoReturn, Queued
<1> QED
  BY <1>2, <1>3, <1>4 DEF JobActivity, Activity

\* The end of a round changes no job.
LEMMA QuietActivity ==
  ASSUME ActivityInv, UNCHANGED <<job_state, em_sub, em_retry, runs, tm_req, entries, inflight, dmq>>
  PROVE  ActivityInv'
<1> SUFFICES ASSUME NEW k \in Jobs
             PROVE  JobActivity(k)'
  BY DEF ActivityInv
<1>1. /\ Moves(k)' = Moves(k) /\ (OneMove(k)' <=> OneMove(k))
      /\ \A op : Queued(op, k)' <=> Queued(op, k)
  BY DEF Moves, OneMove, Queued
<1>2. (InEM(k)' <=> InEM(k)) /\ (InTM(k)' <=> InTM(k)) /\ (OneInEM(k)' <=> OneInEM(k))
  BY DEF InEM, InTM, OneInEM
<1>3. (NoAnswer(k)' <=> NoAnswer(k)) /\ (OneAnswer(k)' <=> OneAnswer(k))
  BY DEF NoAnswer, OneAnswer, Offered
<1> QED
  BY <1>1, <1>2, <1>3
  DEF ActivityInv, JobActivity, Activity, OneHand, StateFits, Offers, OfferedOnce, NotOffered, NoReturn

\* The handlers of the DM action thread.
LEMMA HandlersActivity ==
  ASSUME OneOffer, TypeOK, ActivityInv, NEW j \in Jobs, DMStep(j)
  PROVE  ActivityInv'
<1>1. CASE \E a \in DMActions : MissingJob(a, j)
  BY <1>1, MissingActivity
<1>2. CASE \/ Hold(j) \/ Kill(j) \/ KillHard(j) \/ Stop(j) \/ Reschedule(j) \/ Wait(j)
           \/ MigrCancel(j)
  BY <1>2, RequestsActivity
<1>3. CASE Release(j) \/ Resume(j)
  BY <1>3, ReleaseActivity, ResumeActivity
<1>4. CASE \/ \E s \in {"PROLOG", "MIGR_PROLOG"} : Prolog(j, s)
           \/ PrologDone(j) \/ PrologFailed(j)
  BY <1>4, PrologActivity, PrologDoneActivity, PrologFailedActivity
<1>5. CASE \/ \E s \in {"PRE_WRAPPER", "WRAPPER"} : Wrapper(j, s)
           \/ WrapperDone(j) \/ WrapperFailed(j)
  BY <1>5, WrapperActivity, WrapperDoneActivity, WrapperFailedActivity
<1>6. CASE \/ \E s \in EpilogStates : Epilog(j, s)
           \/ EpilogDoneStd(j) \/ EpilogFailedStd(j) \/ EpilogEnded(j)
           \/ EpilogDone(j) \/ EpilogFailed(j)
  BY <1>6, EpilogActivity, EpilogEndActivity
<1>7. CASE Pending(j) \/ Stopped(j) \/ Failed(j) \/ Zombie(j)
  BY <1>7, PendingActivity, EndActivity, ZombieActivity
<1> QED
  BY <1>1, <1>2, <1>3, <1>4, <1>5, <1>6, <1>7 DEF DMStep

\* Every step leaves each job in one hand.
LEMMA ActivityStep ==
  ASSUME OneOffer, TypeOK, ActivityInv, [Next]_vars
  PROVE  ActivityInv'
<1>1. CASE UNCHANGED vars
  BY <1>1, QuietActivity DEF vars, emv, schv
<1>2. ASSUME NEW j \in Jobs,
             \/ Submit(j) \/ DMStep(j) \/ EMStep(j) \/ TMStep(j)
             \/ \E op \in UserOps : Request(op, j)
      PROVE  ActivityInv'
  BY <1>2, SubmitActivity, HandlersActivity, EMActivity, TMActivity, RequestActivity
<1>3. CASE Schedule
  BY <1>3, ScheduleActivity
<1>4. CASE ListenerStep
  <2>1. CASE ScheduleEnd
    BY <2>1, QuietActivity DEF ScheduleEnd, emv
  <2>2. CASE \E j \in Jobs, h \in Hosts \union {NoHost} :
               \/ DispatchPending(j, h) \/ DispatchMigration(j, h)
               \/ UncheckJob(j, h) \/ DispatchRefused(j, h) \/ DispatchUnsaved(j, h)
    BY <2>2, DispatchActivity, AnswersActivity
  <2> QED
    BY <1>4, <2>1, <2>2 DEF ListenerStep
<1>5. CASE SchedulerReload
  BY <1>5 DEF SchedulerReload, OneOffer
<1> QED
  BY <1>1, <1>2, <1>3, <1>4, <1>5 DEF Next

\* The inductive invariant of the jobs' hands; OneOffer is about constants only.
HandsInv == OneOffer /\ TypeOK /\ HistoryInv /\ ActivityInv

\* Every behaviour in which a PENDING job is offered once keeps a job in one hand.
LEMMA HandsInvariance == Spec /\ OneOffer => []HandsInv
<1>1. OneOffer /\ Init => HandsInv
  BY TypeInit, HistoryInit, ActivityInit DEF HandsInv
<1>2. HandsInv /\ [Next]_vars => HandsInv'
  <2> SUFFICES ASSUME OneOffer, TypeOK, HistoryInv, ActivityInv, [Next]_vars
               PROVE  OneOffer' /\ TypeOK' /\ HistoryInv' /\ ActivityInv'
    BY DEF HandsInv
  <2>1. OneOffer'
    BY DEF OneOffer, Migrating
  <2>2. TypeOK' /\ HistoryInv'
    BY TypeStep, HistoryStep
  <2>3. ActivityInv'
    BY ActivityStep
  <2> QED
    BY <2>1, <2>2, <2>3
<1> QED
  BY <1>1, <1>2, PTL DEF Spec

\* When a PENDING job is offered to the scheduler once only, at most one wrapper
\* of a job runs on the hosts: whatever the order of the DM's messages, the
\* answers of EM, TM and scheduler, the retries of the EM, and the migrations, a
\* wrapper is not submitted before the one before it has ended.
THEOREM OneWrapper == Spec /\ OneOffer => []OneRun
<1>1. HandsInv => OneRun
  <2> SUFFICES ASSUME TypeOK, ActivityInv, NEW j \in Jobs
               PROVE  Cardinality(runs[j]) <= 1
    BY DEF OneRun, HandsInv
  <2>1. \A g, h \in runs[j] : g = h
    BY DEF ActivityInv, JobActivity, Activity, OneHand, OneInEM, InEM
  <2>2. CASE runs[j] = {}
    BY <2>2, FS_EmptySet
  <2>3. CASE runs[j] # {}
    <3>1. PICK h \in runs[j] : TRUE
      BY <2>3
    <3>2. runs[j] = {h}
      BY <2>1
    <3> QED
      BY <3>2, FS_Singleton
  <2> QED
    BY <2>2, <2>3
<1> QED
  BY <1>1, HandsInvariance, PTL

-----------------------------------------------------------------------------
(***************************************************************************)
(* A job with dependencies does not leave HOLD before they are met, where  *)
(* no client releases a job (HeldByDeps).                                  *)
(***************************************************************************)

\* Job k, as far as dependencies go, stays as it is, is freed, or goes on from a
\* state in which it waits for nothing and nothing depends on it any more.
DepsKept(k) ==
  /\ \/ job_state'[k] = job_state[k]
     \/ job_state'[k] = "FREED"
     \/ /\ job_state[k] \notin {"NEW", "HOLD", "ZOMBIE", "FREED"}
        /\ job_state'[k] \notin {"NEW", "HOLD", "ZOMBIE"}
  /\ job_state'[k] = "FREED" \/ deps'[k] = deps[k]
  /\ job_state[k] \in {"ZOMBIE", "FREED"} => exit_ok'[k] = exit_ok[k]

\* A job that has ended as another one asks for has ended for good.
LEMMA MetKept ==
  ASSUME NEW j \in Jobs, NEW k \in Jobs, Met(j, k), DepsKept(k)
  PROVE  Met(j, k)'
  BY DEF Met, DepsKept

\* A step that keeps every job so keeps the dependencies.
LEMMA DepsFrame ==
  ASSUME DepsInv, \A k \in Jobs : DepsKept(k)
  PROVE  DepsInv'
<1> SUFFICES ASSUME NEW j \in Jobs
             PROVE  /\ job_state'[j] = "HOLD" => \A k \in Deps[j] \ deps'[j] : Met(j, k)'
                    /\ job_state'[j] \notin {"NEW", "HOLD", "FREED"} => \A k \in Deps[j] : Met(j, k)'
  BY DEF DepsInv
<1>1. Deps[j] \subseteq Jobs
  BY DMAssumption
<1>2. \A k \in Deps[j] : Met(j, k) => Met(j, k)'
  BY <1>1, MetKept
<1>3. job_state'[j] = "HOLD" => job_state[j] = "HOLD" /\ deps'[j] = deps[j]
  BY DEF DepsKept
<1>4. job_state'[j] \notin {"NEW", "HOLD", "FREED"} => job_state[j] \notin {"NEW", "HOLD", "FREED"}
  BY DEF DepsKept
<1> QED
  BY <1>2, <1>3, <1>4 DEF DepsInv

\* The handlers of the moves, gw_dm_zombie apart.
LEMMA MovesKeepDeps ==
  ASSUME TypeOK, ActivityInv, NEW j \in Jobs,
         \/ \E s \in {"PROLOG", "MIGR_PROLOG"} : Prolog(j, s)
         \/ PrologDone(j) \/ PrologFailed(j)
         \/ \E s \in {"PRE_WRAPPER", "WRAPPER"} : Wrapper(j, s)
         \/ WrapperDone(j) \/ WrapperFailed(j)
         \/ \E s \in EpilogStates : Epilog(j, s)
         \/ EpilogDoneStd(j) \/ EpilogFailedStd(j) \/ EpilogEnded(j)
         \/ EpilogDone(j) \/ EpilogFailed(j)
         \/ Pending(j) \/ Stopped(j) \/ Failed(j)
  PROVE  \A k \in Jobs : DepsKept(k)
<1> USE DEF TypeOK, StatesTyped, SetState, depv, DepsKept
<1>1. CASE \/ PrologDone(j) \/ PrologFailed(j) \/ WrapperDone(j) \/ WrapperFailed(j)
           \/ EpilogFailedStd(j) \/ EpilogEnded(j) \/ EpilogDone(j) \/ EpilogFailed(j)
  BY <1>1 DEF PrologDone, PrologFailed, WrapperDone, WrapperFailed, EpilogFailedStd,
              EpilogEnded, EpilogDone, EpilogFailed
<1>2. CASE EpilogDoneStd(j)
  BY <1>2 DEF EpilogDoneStd
<1>3. ASSUME NEW s \in MoveActions, s \notin {"NEW", "HOLD", "ZOMBIE"}, Handle(s, j),
             SetState(j, s), UNCHANGED depv
      PROVE  \A k \in Jobs : DepsKept(k)
  BY <1>3, MoveFinds
<1>4. CASE \E s \in {"PROLOG", "MIGR_PROLOG"} : Prolog(j, s)
  BY <1>3, <1>4 DEF Prolog, MoveActions, StateActions
<1>5. CASE \E s \in {"PRE_WRAPPER", "WRAPPER"} : Wrapper(j, s)
  BY <1>3, <1>5 DEF Wrapper, MoveActions, StateActions
<1>6. CASE \E s \in EpilogStates : Epilog(j, s)
  BY <1>3, <1>6 DEF Epilog, MoveActions, StateActions, EpilogStates
<1>7. CASE Pending(j) \/ Stopped(j) \/ Failed(j)
  BY <1>3, <1>7 DEF Pending, Stopped, Failed, MoveActions, StateActions
<1> QED
  BY <1>1, <1>2, <1>4, <1>5, <1>6, <1>7

\* The handlers of the clients' requests, when no client releases a job, and
\* gw_dm_migr_cancel.
LEMMA RequestsKeepDeps ==
  ASSUME OneOffer, HeldByDeps, TypeOK, ActivityInv, NEW j \in Jobs,
         \/ \E a \in DMActions : MissingJob(a, j)
         \/ Hold(j) \/ Release(j) \/ Kill(j) \/ KillHard(j) \/ Stop(j) \/ Resume(j)
         \/ Reschedule(j) \/ Wait(j) \/ MigrCancel(j)
  PROVE  \A k \in Jobs : DepsKept(k)
<1> USE DEF TypeOK, StatesTyped, SetState, depv, DepsKept
<1>1. ASSUME Hold(j) \/ Reschedule(j) \/ Release(j)
      PROVE  FALSE
  BY <1>1, AskedFor DEF Hold, Reschedule, Release, OneOffer, HeldByDeps, ClientOps
<1>2. CASE (\E a \in DMActions : MissingJob(a, j)) \/ Wait(j)
  BY <1>2 DEF MissingJob, Wait
<1>3. CASE Kill(j)
  BY <1>3 DEF Kill, PoolFree, IdleStates
<1>4. CASE KillHard(j)
  BY <1>4 DEF KillHard, PoolFree
<1>5. CASE Stop(j) \/ Resume(j) \/ MigrCancel(j)
  BY <1>5 DEF Stop, Resume, MigrCancel
<1> QED
  BY <1>1, <1>2, <1>3, <1>4, <1>5

\* gw_dm_zombie: the jobs for which the ended job was the last dependency leave HOLD.
LEMMA ZombieDeps ==
  ASSUME TypeOK, ActivityInv, DepsInv, NEW j \in Jobs, Zombie(j)
  PROVE  DepsInv'
<1> USE DEF TypeOK, StatesTyped, depv
<1>1. Handle("ZOMBIE", j) /\ "ZOMBIE" \in MoveActions
  BY DEF Zombie, MoveActions, StateActions
<1>2. job_state[j] \in {"EPILOG", "KILL_EPILOG"}
  BY <1>1, MoveTaken DEF Fits
<1>3. CASE job_state[j] = "KILL_EPILOG"
  <2>1. \A k \in Jobs : DepsKept(k)
    BY <1>3 DEF Zombie, PoolFree, SetState, DepsKept
  <2> QED
    BY <2>1, DepsFrame
<1>4. CASE job_state[j] = "EPILOG"
  <2>1. DepCheck(j) /\ exit_ok' = exit_ok
    BY <1>4 DEF Zombie
  <2>2. ASSUME NEW k \in Jobs, NEW i \in Jobs, Met(k, i)
        PROVE  Met(k, i)'
    BY <1>4, <2>1, <2>2 DEF Met, DepCheck, MeetsDep
  <2>3. ASSUME NEW k \in Jobs, MeetsDep(k, j)
        PROVE  Met(k, j)'
    BY <2>1, <2>3, DMAssumption DEF Met, DepCheck, MeetsDep
  <2>4. ASSUME NEW k \in Jobs
        PROVE  /\ job_state'[k] = "HOLD" => \A i \in Deps[k] \ deps'[k] : Met(k, i)'
               /\ job_state'[k] \notin {"NEW", "HOLD", "FREED"} => \A i \in Deps[k] : Met(k, i)'
    <3>1. Deps[k] \subseteq Jobs
      BY DMAssumption
    <3>2. CASE k = j
      <4>1. \A i \in Deps[k] : Met(k, i)
        BY <1>4, <3>2 DEF DepsInv
      <4>2. job_state'[k] = "ZOMBIE"
        BY <2>1, <3>2 DEF DepCheck
      <4> QED
        BY <2>2, <3>1, <4>1, <4>2
    <3>3. CASE k # j /\ ~MeetsDep(k, j)
      <4>1. job_state'[k] = job_state[k] /\ deps'[k] = deps[k]
        BY <2>1, <3>3 DEF DepCheck
      <4> QED
        BY <2>2, <3>1, <4>1 DEF DepsInv
    <3>4. CASE k # j /\ MeetsDep(k, j)
      <4>1. \A i \in Deps[k] \ deps[k] : Met(k, i)'
        BY <2>2, <3>1, <3>4 DEF DepsInv, MeetsDep
      <4>2. deps'[k] = deps[k] \ {j} /\ Met(k, j)'
        BY <2>1, <2>3, <3>4 DEF DepCheck
      <4>3. \A i \in Deps[k] \ deps'[k] : Met(k, i)'
        BY <4>1, <4>2
      <4>4. job_state'[k] # "HOLD" => deps'[k] = {}
        BY <2>1, <3>4, <4>2 DEF DepCheck, LastDep, MeetsDep
      <4> QED
        BY <4>3, <4>4
    <3> QED
      BY <3>2, <3>3, <3>4
  <2> QED
    BY <2>4 DEF DepsInv
<1> QED
  BY <1>2, <1>3, <1>4

\* gw_dm_jalloc: a job with dependencies is submitted on hold.
LEMMA SubmitDeps ==
  ASSUME HeldByDeps, TypeOK, DepsInv, NEW j \in Jobs, Submit(j)
  PROVE  DepsInv'
<1> USE DEF TypeOK, StatesTyped, Submit, SetState
<1> SUFFICES ASSUME NEW k \in Jobs
             PROVE  /\ job_state'[k] = "HOLD" => \A i \in Deps[k] \ deps'[k] : Met(k, i)'
                    /\ job_state'[k] \notin {"NEW", "HOLD", "FREED"} => \A i \in Deps[k] : Met(k, i)'
  BY DEF DepsInv
<1>1. \A i \in Jobs : Met(k, i) => Met(k, i)'
  BY DEF Met
<1>2. Deps[k] \subseteq Jobs
  BY DMAssumption
<1>3. CASE k = j
  BY <1>3 DEF HeldByDeps
<1>4. CASE k # j
  BY <1>1, <1>2, <1>4 DEF DepsInv
<1> QED
  BY <1>3, <1>4

\* The other threads do not touch what dependencies are about.
LEMMA OthersKeepDeps ==
  ASSUME \/ UNCHANGED vars \/ Schedule \/ ListenerStep \/ SchedulerReload
         \/ \E j \in Jobs : \/ EMStep(j) \/ TMStep(j)
                            \/ \E op \in UserOps : Request(op, j)
  PROVE  \A k \in Jobs : DepsKept(k)
<1>1. UNCHANGED <<job_state, deps, exit_ok>>
  BY DEF vars, depv, Schedule, ListenerStep, ScheduleEnd, DispatchPending, DispatchMigration,
         UncheckJob, DispatchRefused, DispatchUnsaved, SchedulerReload, EMStep, EMSubmit, EMRetry,
         EMState, EMDone, EMFailed, TMStep, TMAnswer, Request
<1> QED
  BY <1>1 DEF DepsKept

\* Every step keeps the dependencies.
LEMMA DepsStep ==
  ASSUME OneOffer, HeldByDeps, TypeOK, ActivityInv, DepsInv, [Next]_vars
  PROVE  DepsInv'
<1>1. CASE \E j \in Jobs : Submit(j)
  BY <1>1, SubmitDeps
<1>2. CASE \E j \in Jobs : DMStep(j)
  BY <1>2, MovesKeepDeps, RequestsKeepDeps, ZombieDeps, DepsFrame DEF DMStep
<1>3. CASE \/ UNCHANGED vars \/ Schedule \/ ListenerStep \/ SchedulerReload
           \/ \E j \in Jobs : \/ EMStep(j) \/ TMStep(j)
                              \/ \E op \in UserOps : Request(op, j)
  BY <1>3, OthersKeepDeps, DepsFrame
<1> QED
  BY <1>1, <1>2, <1>3 DEF Next

\* A job with dependencies, submitted on hold, does not become PENDING before each
\* of them has ended with the exit code that it asks for: gw_job_pool_dep_check is
\* told of every end, in whatever order the jobs end and are freed, and a job that
\* has ended keeps its exit code.
THEOREM DependenciesMet == Spec /\ OneOffer /\ HeldByDeps => []DepsRespected
<1> DEFINE Inv == HeldByDeps /\ DepsInv
<1>1. Init /\ HeldByDeps => Inv
  BY DEF Init, DepsInv
<1>2. HandsInv /\ Inv /\ [Next]_vars => Inv'
  <2> SUFFICES ASSUME HandsInv, HeldByDeps, DepsInv, [Next]_vars
               PROVE  HeldByDeps' /\ DepsInv'
    OBVIOUS
  <2>1. HeldByDeps'
    BY DEF HeldByDeps
  <2>2. DepsInv'
    BY DepsStep DEF HandsInv
  <2> QED
    BY <2>1, <2>2
<1>3. Inv => DepsRespected
  BY DEF DepsInv, DepsRespected, Met, BusyStates, ExecStates, CancelStates, EpilogStates
<1> QED
  BY <1>1, <1>2, <1>3, HandsInvariance, PTL DEF Spec

=============================================================================
