-------------------------- MODULE ExecutionProofs --------------------------
(***************************************************************************)
(* Proofs about Execution: what the dispatch manager needs from the        *)
(* execution of wrappers is what it gets, for any number of jobs and hosts *)
(* and for any bounds, as long as the answers of the MAD can be trusted.   *)
(***************************************************************************)
EXTENDS Execution, SequenceTheorems, FiniteSetTheorems, TLAPS

\* What the proofs assume of an instance: the environment of EMWrapper.
\* No wrapper is cancelled, none follows a pre-wrapper of the same record, and the
\* MAD neither dies, nor fails to ask a batch system for a state, nor meets a
\* remote job that fails.  Submissions and RSLs may fail, states may be unknown.
Steady ==
  /\ Timely
  /\ PreWrapper = {} /\ Requests = {}
  /\ Faults \cap {"POLL", "CALLBACK", "CRASH", "RFAIL"} = {}

-----------------------------------------------------------------------------
(* The inductive invariant.                                                *)

States == {"None", "PENDING", "ACTIVE", "DONE", "UNKNOWN"}

\* What is posted to the EM and to the DM.
EMEntries == {"SUBMIT", "PENDING", "ACTIVE", "SUSPENDED", "DONE", "FAILED"} \X Jobs
DMEntries == {"WRAPPER_DONE", "WRAPPER_FAILED", "EPILOG"} \X Jobs

JobTypes ==
  /\ job_state \in [Jobs -> {"PENDING", "WRAPPER", "EPILOG"}]
  /\ em_state \in [Jobs -> EMStates]
  /\ counter \in [Jobs -> Int] /\ tries \in [Jobs -> Int]

GwdTypes ==
  /\ JobTypes
  /\ emq \in Seq(EMEntries)
  /\ dmq \in Seq(DMEntries)

\* A line to the MAD.
Commands == {"SUBMIT", "POLL"} \X Jobs \X {0}

\* A line of the MAD.
Lines == {"SUBMIT", "POLL", "CALLBACK"} \X Jobs \X BOOLEAN \X (Nat \union States \union {"-"})

\* A line that tells the state of a remote job, or that a poll failed.
Report(l) ==
  /\ l \in Lines
  /\ l[1] # "SUBMIT"
  /\ l[3] => l[4] \in States
  /\ ~l[3] => l[1] = "POLL"

PipeTypes ==
  /\ mad_up
  /\ to_mad \in Seq(Commands)
  /\ from_mad \in Seq(Lines)
  /\ \A i \in DOMAIN from_mad : from_mad[i][1] # "SUBMIT" => Report(from_mad[i])

MadTypes ==
  /\ remote \in Seq([job : Jobs, state : {"PENDING", "ACTIVE", "DONE"}])
  /\ status \in Seq(States) /\ Len(status) = Len(remote)
  /\ job_list \in [Jobs -> 0..Len(remote)]
  /\ tasks \subseteq {"POLL"} \X Jobs
  /\ \A a \in answers : Report(a) /\ a[1] = "POLL"
  /\ round \subseteq Jobs \X Nat
  /\ callback = <<>> \/ callback \in Jobs \X Nat \X {"refreshed", "deleted"}

\* The callback thread works on j.
Called(j) == callback # <<>> /\ callback[1] = j

\* What the callback thread holds is in the job list, unless it has deleted it.
CallbackOK ==
  /\ \A e \in round : e[2] # 0 /\ job_list[e[1]] = e[2] /\ ~Called(e[1])
  /\ callback # <<>> =>
       /\ callback[2] \in DOMAIN remote
       /\ job_list[callback[1]] = IF callback[3] = "deleted" THEN 0 ELSE callback[2]

\* A remote job that lives is in the job list, the list never says DONE of one
\* that lives, and a job that is DONE is about to leave it.
ListTrue ==
  /\ \A j \in Jobs : MAD!Live(j) \subseteq {job_list[j]}
  /\ \A j \in Jobs : job_list[j] # 0 => remote[job_list[j]].job = j
  /\ \A r \in DOMAIN remote : status[r] = "DONE" => remote[r].state = "DONE"
  /\ \A j \in Jobs : job_list[j] # 0 /\ status[job_list[j]] = "DONE" => Called(j)

\* What is said of j in a queue is said by its entry i, or by none.
Only(q, i, j) == \A k \in DOMAIN q : q[k][2] = j => k = i
Silent(q, j)  == \A k \in DOMAIN q : q[k][2] # j

\* The MAD knows nothing of j.
Forgotten(j) ==
  /\ MAD!Live(j) = {} /\ job_list[j] = 0 /\ ~Called(j)
  /\ \A l \in tasks \union answers : l[2] # j

\* j waits in gw_em_timer for its next try.
Waiting(j) == em_state[j] = "FAILED" /\ counter[j] # -1

\* j is being executed, but no remote job of its record was ever started.
Unsent(j) ==
  /\ job_state[j] = "WRAPPER" /\ em_state[j] \in {"INIT", "FAILED"}
  /\ Forgotten(j)

\* While a job is being submitted, one thing is under way about it.  It is to be
\* submitted, or it is known that the submission failed ...
InEM(i, j) ==
  /\ Unsent(j) /\ ~Waiting(j)
  /\ Only(emq, i, j) /\ Silent(dmq, j) /\ Silent(to_mad, j) /\ Silent(from_mad, j)

\* ... or the MAD will read the submission ...
InMad(i, j) ==
  /\ Unsent(j) /\ ~Waiting(j)
  /\ Silent(emq, j) /\ Silent(dmq, j) /\ Only(to_mad, i, j) /\ Silent(from_mad, j)

\* ... or it has said that it failed ...
InAnswer(i, j) ==
  /\ Unsent(j) /\ ~Waiting(j)
  /\ Silent(emq, j) /\ Silent(dmq, j) /\ Silent(to_mad, j) /\ Only(from_mad, i, j)

\* ... or the DM will be told that no try is left ...
InDM(i, j) ==
  /\ Unsent(j) /\ ~Waiting(j)
  /\ Silent(emq, j) /\ Only(dmq, i, j) /\ Silent(to_mad, j) /\ Silent(from_mad, j)

\* ... or a new try is planned.
InTimer(j) ==
  /\ Unsent(j)
  /\ Silent(emq, j) /\ Silent(dmq, j) /\ Silent(to_mad, j) /\ Silent(from_mad, j)

\* The entries of the queues that belong to a submission of j.
SubmitE(e, j) == e[2] = j /\ e[1] \in {"SUBMIT", "FAILED"}
SubmitT(e, j) == e[2] = j /\ e[1] = "SUBMIT"
SubmitF(e, j) == e[2] = j /\ e[1] = "SUBMIT" /\ ~e[3]
SubmitD(e, j) == e[2] = j /\ e[1] = "WRAPPER_FAILED"

SubmissionOf(j) ==
  /\ \A i \in DOMAIN emq : SubmitE(emq[i], j) => InEM(i, j)
  /\ \A i \in DOMAIN to_mad : SubmitT(to_mad[i], j) => InMad(i, j)
  /\ \A i \in DOMAIN from_mad : SubmitF(from_mad[i], j) => InAnswer(i, j)
  /\ \A i \in DOMAIN dmq : SubmitD(dmq[i], j) => InDM(i, j)
  /\ Waiting(j) => InTimer(j)

\* No submission of j is under way.
NoSubmission(j) ==
  /\ \A i \in DOMAIN emq : ~SubmitE(emq[i], j)
  /\ \A i \in DOMAIN to_mad : ~SubmitT(to_mad[i], j)
  /\ \A i \in DOMAIN from_mad : ~SubmitF(from_mad[i], j)
  /\ \A i \in DOMAIN dmq : ~SubmitD(dmq[i], j)
  /\ ~Waiting(j)

\* No remote job of j lives, nor is said to be anything but DONE.
Over(j) ==
  /\ MAD!Live(j) = {}
  /\ job_list[j] # 0 => Called(j) /\ status[job_list[j]] = "DONE"

\* A line that makes gwd take a wrapper for done.
Final(l) == l[1] # "SUBMIT" /\ (l[4] = "DONE" \/ ~l[3])

\* Something says that the wrapper of j is done, or j is not being executed: then
\* it is true.
EndsOf(j) ==
  \/ Over(j)
  \/ /\ \A i \in DOMAIN emq : ~(emq[i][2] = j /\ emq[i][1] = "DONE")
     /\ \A i \in DOMAIN from_mad : ~(from_mad[i][2] = j /\ Final(from_mad[i]))
     /\ \A i \in DOMAIN dmq : ~(dmq[i][2] = j /\ dmq[i][1] # "WRAPPER_FAILED")
     /\ \A a \in answers : ~(a[2] = j /\ Final(a))
     /\ job_state[j] = "WRAPPER"

Types == GwdTypes /\ PipeTypes /\ MadTypes

Submission == \A j \in Jobs : SubmissionOf(j)
Ends == \A j \in Jobs : EndsOf(j)

ServiceInv == Types /\ CallbackOK /\ ListTrue /\ Submission /\ Ends

-----------------------------------------------------------------------------
(* Queues.                                                                 *)

\* What p says of j is what q says of it, the first entry perhaps left out.
Kept(q, p, j) ==
  \E d \in {0, 1} : \A i \in DOMAIN p :
    p[i][2] = j => i + d \in DOMAIN q /\ q[i + d] = p[i]

\* A queue whose first entry is taken, or to which something is said of another
\* job, says of j what it did.
LEMMA KeptQueue ==
  ASSUME NEW S, NEW q \in Seq(S), NEW j
  PROVE  /\ Kept(q, q, j)
         /\ q # <<>> => Kept(q, Tail(q), j)
         /\ \A x \in S : x[2] # j => Kept(q, Append(q, x), j)
         /\ \A x \in S : x[2] # j /\ q # <<>> => Kept(q, Append(Tail(q), x), j)
<1>1. Kept(q, q, j)
  BY DEF Kept
<1>2. q # <<>> => Kept(q, Tail(q), j)
  BY DEF Kept
<1>3. \A x \in S : x[2] # j => Kept(q, Append(q, x), j)
  BY DEF Kept
<1>4. \A x \in S : x[2] # j /\ q # <<>> => Kept(q, Append(Tail(q), x), j)
  BY DEF Kept
<1> QED BY <1>1, <1>2, <1>3, <1>4

\* Where nothing is said of j, what is appended is all that is said of it, and
\* nothing is said any more when the only entry about it is taken.
LEMMA OnlyQueue ==
  ASSUME NEW S, NEW q \in Seq(S), NEW j
  PROVE  /\ q # <<>> /\ Silent(q, j) => Silent(Tail(q), j)
         /\ q # <<>> /\ Only(q, 1, j) => Silent(Tail(q), j)
         /\ \A x \in S : Silent(q, j) =>
              /\ Only(Append(q, x), Len(q) + 1, j)
              /\ Len(q) + 1 \in DOMAIN Append(q, x)
         /\ \A x \in S : q # <<>> /\ Only(q, 1, j) =>
              /\ Only(Append(Tail(q), x), Len(q), j)
              /\ Len(q) \in DOMAIN Append(Tail(q), x)
BY DEF Silent, Only

\* If all that q says of j is one entry, so is all that p, where q is kept, says.
LEMMA KeptOnly ==
  ASSUME NEW S, NEW q \in Seq(S), NEW p \in Seq(S), NEW j, Kept(q, p, j),
         NEW i \in DOMAIN p, p[i][2] = j
  PROVE  \E k \in DOMAIN q : q[k] = p[i] /\ (Only(q, k, j) => Only(p, i, j))
<1>1. PICK d \in {0, 1} : \A n \in DOMAIN p :
        p[n][2] = j => n + d \in DOMAIN q /\ q[n + d] = p[n]
  BY DEF Kept
<1>2. Only(q, i + d, j) => Only(p, i, j)
  <2> SUFFICES ASSUME Only(q, i + d, j), NEW n \in DOMAIN p, p[n][2] = j
               PROVE  n = i
    BY DEF Only
  <2>1. n + d = i + d
    BY <1>1 DEF Only
  <2> QED BY <2>1
<1> QED BY <1>1, <1>2

-----------------------------------------------------------------------------
(* The jobs a step is not about.                                           *)

\* A step that says nothing of j, nor lets its remote job live again.
Aside(j) ==
  /\ Kept(emq, emq', j) /\ Kept(dmq, dmq', j)
  /\ Kept(to_mad, to_mad', j) /\ Kept(from_mad, from_mad', j)
  /\ job_state'[j] = job_state[j] /\ em_state'[j] = em_state[j]
  /\ counter'[j] = counter[j]
  /\ \A a \in answers' : a[2] = j => a \in answers
  /\ Forgotten(j) => Forgotten(j)'
  /\ Over(j) => Over(j)'

\* What is under way about the submission of j stays where it is.
LEMMA SubmissionAside ==
  ASSUME NEW j \in Jobs, Types, Types', SubmissionOf(j), Aside(j)
  PROVE  SubmissionOf(j)'
<1>1. Unsent(j) => Unsent(j)'
  BY DEF Aside, Unsent
<1>2. Waiting(j)' <=> Waiting(j)
  BY DEF Aside, Waiting
<1>3. /\ Silent(emq, j) => Silent(emq', j)
      /\ Silent(dmq, j) => Silent(dmq', j)
      /\ Silent(to_mad, j) => Silent(to_mad', j)
      /\ Silent(from_mad, j) => Silent(from_mad', j)
  BY DEF Aside, Kept, Silent
<1>4. ASSUME NEW i \in DOMAIN emq', SubmitE(emq'[i], j)
      PROVE  InEM(i, j)'
  <2>1. PICK k \in DOMAIN emq : emq[k] = emq'[i] /\ (Only(emq, k, j) => Only(emq', i, j))
    <3>1. emq \in Seq(EMEntries)
      BY DEF Types, GwdTypes
    <3>2. emq' \in Seq(EMEntries)
      BY DEF Types, GwdTypes
    <3>3. Kept(emq, emq', j) /\ emq'[i][2] = j
      BY <1>4 DEF Aside, SubmitE
    <3> QED BY <3>1, <3>2, <3>3, KeptOnly
  <2>2. InEM(k, j)
    BY <1>4, <2>1 DEF SubmissionOf, SubmitE
  <2> QED BY <1>1, <1>2, <1>3, <2>1, <2>2 DEF InEM
<1>5. ASSUME NEW i \in DOMAIN to_mad', SubmitT(to_mad'[i], j)
      PROVE  InMad(i, j)'
  <2>1. PICK k \in DOMAIN to_mad :
          to_mad[k] = to_mad'[i] /\ (Only(to_mad, k, j) => Only(to_mad', i, j))
    BY <1>5, KeptOnly DEF Aside, SubmitT, Types, PipeTypes
  <2>2. InMad(k, j)
    BY <1>5, <2>1 DEF SubmissionOf, SubmitT
  <2> QED BY <1>1, <1>2, <1>3, <2>1, <2>2 DEF InMad
<1>6. ASSUME NEW i \in DOMAIN from_mad', SubmitF(from_mad'[i], j)
      PROVE  InAnswer(i, j)'
  <2>1. PICK k \in DOMAIN from_mad :
          from_mad[k] = from_mad'[i] /\ (Only(from_mad, k, j) => Only(from_mad', i, j))
    BY <1>6, KeptOnly DEF Aside, SubmitF, Types, PipeTypes
  <2>2. InAnswer(k, j)
    BY <1>6, <2>1 DEF SubmissionOf, SubmitF
  <2> QED BY <1>1, <1>2, <1>3, <2>1, <2>2 DEF InAnswer
<1>7. ASSUME NEW i \in DOMAIN dmq', SubmitD(dmq'[i], j)
      PROVE  InDM(i, j)'
  <2>1. PICK k \in DOMAIN dmq : dmq[k] = dmq'[i] /\ (Only(dmq, k, j) => Only(dmq', i, j))
    <3>1. dmq \in Seq(DMEntries)
      BY DEF Types, GwdTypes
    <3>2. dmq' \in Seq(DMEntries)
      BY DEF Types, GwdTypes
    <3>3. Kept(dmq, dmq', j) /\ dmq'[i][2] = j
      BY <1>7 DEF Aside, SubmitD
    <3> QED BY <3>1, <3>2, <3>3, KeptOnly
  <2>2. InDM(k, j)
    BY <1>7, <2>1 DEF SubmissionOf, SubmitD
  <2> QED BY <1>1, <1>2, <1>3, <2>1, <2>2 DEF InDM
<1>8. Waiting(j)' => InTimer(j)'
  BY <1>1, <1>2, <1>3 DEF SubmissionOf, InTimer
<1> QED BY <1>4, <1>5, <1>6, <1>7, <1>8 DEF SubmissionOf

\* Nothing new says that the wrapper of j is done.
LEMMA EndsAside ==
  ASSUME NEW j \in Jobs, EndsOf(j), Aside(j)
  PROVE  EndsOf(j)'
<1>1. CASE Over(j)
  BY <1>1 DEF Aside, EndsOf
<1>2. CASE ~Over(j)
  <2>1. \A i \in DOMAIN emq' : ~(emq'[i][2] = j /\ emq'[i][1] = "DONE")
    BY <1>2 DEF Aside, EndsOf, Kept
  <2>2. \A i \in DOMAIN from_mad' : ~(from_mad'[i][2] = j /\ Final(from_mad'[i]))
    BY <1>2 DEF Aside, EndsOf, Kept
  <2>3. \A i \in DOMAIN dmq' : ~(dmq'[i][2] = j /\ dmq'[i][1] # "WRAPPER_FAILED")
    BY <1>2 DEF Aside, EndsOf, Kept
  <2>4. \A a \in answers' : ~(a[2] = j /\ Final(a))
    BY <1>2 DEF Aside, EndsOf
  <2> QED BY <1>2, <2>1, <2>2, <2>3, <2>4 DEF Aside, EndsOf
<1> QED BY <1>1, <1>2

\* A step about k keeps the invariant when it keeps it for k.
LEMMA StepAbout ==
  ASSUME Submission, Ends, Types, Types', NEW k \in Jobs,
         \A j \in Jobs \ {k} : Aside(j),
         SubmissionOf(k)', EndsOf(k)'
  PROVE  Submission' /\ Ends'
<1> SUFFICES ASSUME NEW j \in Jobs PROVE SubmissionOf(j)' /\ EndsOf(j)'
  BY DEF Submission, Ends
<1> QED BY SubmissionAside, EndsAside DEF Submission, Ends

-----------------------------------------------------------------------------
(* The job a step is about.                                                *)

\* If anything else is said of a job, no submission of it is under way.
LEMMA NotSubmitted ==
  ASSUME NEW j \in Jobs, SubmissionOf(j)
  PROVE  /\ \A i \in DOMAIN emq : emq[i][2] = j /\ ~SubmitE(emq[i], j) => NoSubmission(j)
         /\ \A i \in DOMAIN to_mad :
              to_mad[i][2] = j /\ ~SubmitT(to_mad[i], j) => NoSubmission(j)
         /\ \A i \in DOMAIN from_mad :
              from_mad[i][2] = j /\ ~SubmitF(from_mad[i], j) => NoSubmission(j)
         /\ \A i \in DOMAIN dmq : dmq[i][2] = j /\ ~SubmitD(dmq[i], j) => NoSubmission(j)
         /\ ~Unsent(j) => NoSubmission(j)
<1>1. \A i \in DOMAIN emq : emq[i][2] = j /\ ~SubmitE(emq[i], j) => NoSubmission(j)
  BY DEF SubmissionOf, NoSubmission, InEM, InMad, InAnswer, InDM, InTimer, Only, Silent
<1>2. \A i \in DOMAIN to_mad :
        to_mad[i][2] = j /\ ~SubmitT(to_mad[i], j) => NoSubmission(j)
  BY DEF SubmissionOf, NoSubmission, InEM, InMad, InAnswer, InDM, InTimer, Only, Silent
<1>3. \A i \in DOMAIN from_mad :
        from_mad[i][2] = j /\ ~SubmitF(from_mad[i], j) => NoSubmission(j)
  BY DEF SubmissionOf, NoSubmission, InEM, InMad, InAnswer, InDM, InTimer, Only, Silent
<1>4. \A i \in DOMAIN dmq : dmq[i][2] = j /\ ~SubmitD(dmq[i], j) => NoSubmission(j)
  BY DEF SubmissionOf, NoSubmission, InEM, InMad, InAnswer, InDM, InTimer, Only, Silent
<1>5. ~Unsent(j) => NoSubmission(j)
  BY DEF SubmissionOf, NoSubmission, InEM, InMad, InAnswer, InDM, InTimer
<1> QED BY <1>1, <1>2, <1>3, <1>4, <1>5

\* A submission is at one place.
LEMMA OneSubmission ==
  ASSUME NEW j \in Jobs
  PROVE  /\ NoSubmission(j)' => SubmissionOf(j)'
         /\ (\E i \in DOMAIN emq' : InEM(i, j)') => SubmissionOf(j)'
         /\ (\E i \in DOMAIN to_mad' : InMad(i, j)') => SubmissionOf(j)'
         /\ (\E i \in DOMAIN from_mad' : InAnswer(i, j)') => SubmissionOf(j)'
         /\ (\E i \in DOMAIN dmq' : InDM(i, j)') => SubmissionOf(j)'
         /\ InTimer(j)' => SubmissionOf(j)'
<1> USE DEF SubmitE, SubmitT, SubmitF, SubmitD
<1>1. NoSubmission(j)' => SubmissionOf(j)'
  BY DEF SubmissionOf, NoSubmission
<1>2. ASSUME NEW i \in DOMAIN emq', InEM(i, j)' PROVE SubmissionOf(j)'
  BY <1>2 DEF SubmissionOf, InEM, Only, Silent
<1>3. ASSUME NEW i \in DOMAIN to_mad', InMad(i, j)' PROVE SubmissionOf(j)'
  BY <1>3 DEF SubmissionOf, InMad, Only, Silent
<1>4. ASSUME NEW i \in DOMAIN from_mad', InAnswer(i, j)' PROVE SubmissionOf(j)'
  BY <1>4 DEF SubmissionOf, InAnswer, Only, Silent
<1>5. ASSUME NEW i \in DOMAIN dmq', InDM(i, j)' PROVE SubmissionOf(j)'
  BY <1>5 DEF SubmissionOf, InDM, Only, Silent
<1>6. InTimer(j)' => SubmissionOf(j)'
  BY DEF SubmissionOf, InTimer, Silent
<1> QED BY <1>1, <1>2, <1>3, <1>4, <1>5, <1>6

-----------------------------------------------------------------------------
(* The steps of gwd.                                                       *)

\* The steps of gwd leave the MAD alone but for the pipes.
LEMMA MadUnchanged ==
  ASSUME ServiceInv, UNCHANGED madv
  PROVE  /\ MadTypes' /\ CallbackOK' /\ ListTrue'
         /\ \A j \in Jobs : /\ Forgotten(j)' = Forgotten(j)
                            /\ Over(j)' = Over(j)
                            /\ MAD!Live(j)' = MAD!Live(j)
<1> USE DEF madv, MAD!Live, MAD!Runs, Called
<1>1. MadTypes'
  BY DEF ServiceInv, Types, MadTypes
<1>2. CallbackOK' /\ ListTrue'
  BY DEF ServiceInv, CallbackOK, ListTrue
<1>3. ASSUME NEW j \in Jobs
      PROVE  /\ Forgotten(j)' = Forgotten(j)
             /\ Over(j)' = Over(j)
             /\ MAD!Live(j)' = MAD!Live(j)
  BY DEF Forgotten, Over
<1> QED BY <1>1, <1>2, <1>3

\* The first entry of q may be taken, and an entry about k appended.
About(q, p, S, k) ==
  \/ p = q
  \/ q # <<>> /\ p = Tail(q)
  \/ \E x \in S : /\ x[2] = k
                  /\ p = Append(q, x) \/ (q # <<>> /\ p = Append(Tail(q), x))

\* Appending an entry about k is a step about k.
LEMMA AboutAppend ==
  ASSUME NEW S, NEW q, NEW k, NEW x \in S, x[2] = k
  PROVE  About(q, Append(q, x), S, k) /\ (q # <<>> => About(q, Append(Tail(q), x), S, k))
BY DEF About

\* For the other jobs the queue says what it said.
LEMMA AboutKept ==
  ASSUME NEW S, NEW q \in Seq(S), NEW p, NEW k, About(q, p, S, k)
  PROVE  p \in Seq(S) /\ \A j : j # k => Kept(q, p, j)
<1>1. p \in Seq(S)
  BY DEF About
<1>2. ASSUME NEW j, j # k PROVE Kept(q, p, j)
  <2>1. \A x \in S : x[2] = k => x[2] # j
    BY <1>2
  <2> QED BY <2>1, KeptQueue DEF About
<1> QED BY <1>1, <1>2

\* A step of gwd about k: what is left to show of it.
GwdStep(k) ==
  /\ UNCHANGED <<madv, mad_up>>
  /\ About(emq, emq', EMEntries, k) /\ About(dmq, dmq', DMEntries, k)
  /\ About(to_mad, to_mad', Commands, k)
  /\ from_mad' = from_mad \/ (from_mad # <<>> /\ from_mad' = Tail(from_mad))
  /\ JobTypes'
  /\ \A j \in Jobs \ {k} : /\ job_state'[j] = job_state[j]
                           /\ em_state'[j] = em_state[j]
                           /\ counter'[j] = counter[j]
  /\ SubmissionOf(k)' /\ EndsOf(k)'

\* A step of gwd about k keeps the invariant when it keeps it for k.
LEMMA GwdStepServes ==
  ASSUME ServiceInv, NEW k \in Jobs, GwdStep(k)
  PROVE  ServiceInv'
<1>1. MadTypes' /\ CallbackOK' /\ ListTrue'
  BY MadUnchanged DEF GwdStep
<1>2. /\ emq' \in Seq(EMEntries) /\ dmq' \in Seq(DMEntries) /\ to_mad' \in Seq(Commands)
      /\ \A j : j # k => /\ Kept(emq, emq', j) /\ Kept(dmq, dmq', j)
                         /\ Kept(to_mad, to_mad', j)
  <2>1. emq \in Seq(EMEntries) /\ dmq \in Seq(DMEntries) /\ to_mad \in Seq(Commands)
    BY DEF ServiceInv, Types, GwdTypes, PipeTypes
  <2>2. emq' \in Seq(EMEntries) /\ \A j : j # k => Kept(emq, emq', j)
    BY <2>1, AboutKept DEF GwdStep
  <2>3. dmq' \in Seq(DMEntries) /\ \A j : j # k => Kept(dmq, dmq', j)
    BY <2>1, AboutKept DEF GwdStep
  <2>4. to_mad' \in Seq(Commands) /\ \A j : j # k => Kept(to_mad, to_mad', j)
    BY <2>1, AboutKept DEF GwdStep
  <2> QED BY <2>2, <2>3, <2>4
<1>3. GwdTypes'
  BY <1>2 DEF ServiceInv, Types, GwdTypes, GwdStep
<1>4. PipeTypes' /\ \A j : Kept(from_mad, from_mad', j)
  <2>1. from_mad \in Seq(Lines)
    BY DEF ServiceInv, Types, PipeTypes
  <2>2. from_mad' \in Seq(Lines) /\ \A j : Kept(from_mad, from_mad', j)
    <3>1. About(from_mad, from_mad', Lines, k) 
      BY DEF GwdStep, About
    <3>2. from_mad' = from_mad \/ (from_mad # <<>> /\ from_mad' = Tail(from_mad))
      BY DEF GwdStep
    <3>3. ASSUME NEW j PROVE Kept(from_mad, from_mad', j)
      BY <2>1, <3>2, KeptQueue
    <3> QED BY <2>1, <3>1, <3>3, AboutKept
  <2>3. \A i \in DOMAIN from_mad' : from_mad'[i][1] # "SUBMIT" => Report(from_mad'[i])
    BY <2>1 DEF ServiceInv, Types, PipeTypes, GwdStep
  <2> QED BY <1>2, <2>2, <2>3 DEF ServiceInv, Types, PipeTypes, GwdStep
<1>5. \A j \in Jobs \ {k} : Aside(j)
  <2> SUFFICES ASSUME NEW j \in Jobs \ {k} PROVE Aside(j)
    OBVIOUS
  <2> QED BY <1>2, <1>4, MadUnchanged DEF Aside, GwdStep, madv
<1>6. Types'
  BY <1>1, <1>3, <1>4 DEF Types
<1> QED BY <1>1, <1>5, <1>6, StepAbout DEF ServiceInv, GwdStep

\* gw_dm_wrapper: nothing is under way about the job, whose last wrapper is over.
LEMMA DispatchServes ==
  ASSUME Steady, ServiceInv, NEW k \in Jobs, NEW h \in Hosts,
         Gwd(DMDispatch(k, h))
  PROVE  ServiceInv'
<1>1. DMDispatch(k, h) /\ UNCHANGED madv
  BY DEF Gwd
<1>2. /\ job_state[k] = "PENDING"
      /\ job_state' = [job_state EXCEPT ![k] = "WRAPPER"]
      /\ em_state' = [em_state EXCEPT ![k] = "INIT"]
      /\ tries' = [tries EXCEPT ![k] = 0]
      /\ counter' = [counter EXCEPT ![k] = -1]
      /\ emq' = Append(emq, <<"SUBMIT", k>>)
      /\ UNCHANGED <<dmq, pipv>>
  BY <1>1 DEF DMDispatch, ToWrapper, NewRecord, Steady
<1>3. Quiet(k)
  <2>1. job_state'[k] # "PENDING"
    BY <1>2 DEF ServiceInv, Types, GwdTypes, JobTypes
  <2> QED BY <1>2, <2>1 DEF Gwd, Starts, Steady
<1>4. Forgotten(k) /\ Silent(emq, k) /\ Silent(dmq, k) /\ Silent(to_mad, k)
      /\ Silent(from_mad, k)
  <2>1. Over(k)
    BY <1>2 DEF ServiceInv, Ends, EndsOf
  <2>2. ~Called(k)
    BY <1>3 DEF Quiet, Called
  <2>3. \A l \in tasks \union answers : l[2] # k
    BY <1>3 DEF Quiet
  <2>4. Silent(emq, k) /\ Silent(dmq, k) /\ Silent(to_mad, k) /\ Silent(from_mad, k)
    BY <1>3 DEF Quiet, Silent
  <2> QED BY <2>1, <2>2, <2>3, <2>4 DEF Over, Forgotten
<1>5. emq \in Seq(EMEntries) /\ <<"SUBMIT", k>> \in EMEntries
  BY DEF ServiceInv, Types, GwdTypes, EMEntries
<1>6. SubmissionOf(k)'
  <2>1. PICK i \in DOMAIN emq' : Only(emq', i, k)
    BY <1>2, <1>4, <1>5, OnlyQueue
  <2>2. Forgotten(k)'
    BY <1>1, <1>4, MadUnchanged
  <2>3. Unsent(k)' /\ ~Waiting(k)'
    BY <1>2, <2>2 DEF Unsent, Waiting, ServiceInv, Types, GwdTypes, JobTypes
  <2>4. InEM(i, k)'
    BY <1>2, <1>4, <2>1, <2>3 DEF InEM, pipv
  <2> QED BY <2>4, OneSubmission
<1>7. EndsOf(k)'
  <2>1. Over(k)'
    BY <1>1, <1>4, MadUnchanged DEF Forgotten, Over
  <2> QED BY <2>1 DEF EndsOf
<1>8. GwdStep(k)
  <2>1. About(emq, emq', EMEntries, k)
    BY <1>2, <1>5, AboutAppend
  <2>2. About(dmq, dmq', DMEntries, k) /\ About(to_mad, to_mad', Commands, k)
    BY <1>2 DEF About, pipv
  <2>3. UNCHANGED <<madv, mad_up>> /\ from_mad' = from_mad
    BY <1>1, <1>2 DEF pipv
  <2>4. JobTypes' /\ \A j \in Jobs \ {k} : /\ job_state'[j] = job_state[j]
                                         /\ em_state'[j] = em_state[j]
                                         /\ counter'[j] = counter[j]
    BY <1>2 DEF ServiceInv, Types, GwdTypes, JobTypes, EMStates
  <2> QED BY <1>6, <1>7, <2>1, <2>2, <2>3, <2>4 DEF GwdStep
<1> QED BY <1>8, GwdStepServes

\* What p says beyond what q says is in E.
From(q, p, E) == \A i \in DOMAIN p : p[i] \in E \/ \E n \in DOMAIN q : q[n] = p[i]

\* What taking the first entry and appending one add to what a queue says.
LEMMA FromQueue ==
  ASSUME NEW S, NEW q \in Seq(S)
  PROVE  /\ \A E : From(q, q, E)
         /\ q # <<>> => \A E : From(q, Tail(q), E)
         /\ \A x \in S : From(q, Append(q, x), {x})
         /\ q # <<>> => \A x \in S : From(q, Append(Tail(q), x), {x})
<1>1. \A E : From(q, q, E)
  BY DEF From
<1>2. q # <<>> => \A E : From(q, Tail(q), E)
  BY DEF From
<1>3. \A x \in S : From(q, Append(q, x), {x})
  BY DEF From
<1>4. q # <<>> => \A x \in S : From(q, Append(Tail(q), x), {x})
  BY DEF From
<1> QED BY <1>1, <1>2, <1>3, <1>4

\* No submission starts when nothing new belongs to one.
LEMMA StaysSettled ==
  ASSUME NEW k \in Jobs, NoSubmission(k), ~Waiting(k)', NEW E, NEW D, NEW T, NEW F,
         From(emq, emq', E) /\ \A x \in E : ~SubmitE(x, k),
         From(dmq, dmq', D) /\ \A x \in D : ~SubmitD(x, k),
         From(to_mad, to_mad', T) /\ \A x \in T : ~SubmitT(x, k),
         From(from_mad, from_mad', F) /\ \A x \in F : ~SubmitF(x, k)
  PROVE  SubmissionOf(k)'
<1>1. \A i \in DOMAIN emq' : ~SubmitE(emq'[i], k)
  BY DEF NoSubmission, From
<1>2. \A i \in DOMAIN dmq' : ~SubmitD(dmq'[i], k)
  BY DEF NoSubmission, From
<1>3. \A i \in DOMAIN to_mad' : ~SubmitT(to_mad'[i], k)
  BY DEF NoSubmission, From
<1>4. \A i \in DOMAIN from_mad' : ~SubmitF(from_mad'[i], k)
  BY DEF NoSubmission, From
<1> QED BY <1>1, <1>2, <1>3, <1>4, OneSubmission DEF NoSubmission

\* Nothing new says that the wrapper is done.
LEMMA StaysTrue ==
  ASSUME NEW k \in Jobs, EndsOf(k), Over(k) => Over(k)', NEW E, NEW F,
         From(emq, emq', E) /\ \A x \in E : x[2] = k => x[1] # "DONE",
         From(from_mad, from_mad', F) /\ \A x \in F : ~(x[2] = k /\ Final(x)),
         dmq' = dmq, job_state'[k] = job_state[k],
         \A a \in answers' : a \in answers
  PROVE  EndsOf(k)'
<1>1. CASE Over(k)
  BY <1>1 DEF EndsOf
<1>2. CASE ~Over(k)
  <2>1. \A i \in DOMAIN emq' : ~(emq'[i][2] = k /\ emq'[i][1] = "DONE")
    BY <1>2 DEF EndsOf, From
  <2>2. \A i \in DOMAIN from_mad' : ~(from_mad'[i][2] = k /\ Final(from_mad'[i]))
    BY <1>2 DEF EndsOf, From
  <2> QED BY <1>2, <2>1, <2>2 DEF EndsOf
<1> QED BY <1>1, <1>2

\* The types of the queues, and those of the fields of jobs.
LEMMA QueueTypes ==
  ASSUME ServiceInv
  PROVE  /\ emq \in Seq(EMEntries) /\ dmq \in Seq(DMEntries)
         /\ to_mad \in Seq(Commands) /\ from_mad \in Seq(Lines)
         /\ JobTypes
BY DEF ServiceInv, Types, GwdTypes, PipeTypes

\* gw_dm_wrapper_done_cb: the wrapper is over, and no other was submitted.
LEMMA DMWrapperDoneServes ==
  ASSUME Steady, ServiceInv, UNCHANGED madv, NEW k \in Jobs,
         dmq # <<>>, Head(dmq) = <<"WRAPPER_DONE", k>>, DMWrapperDone(k)
  PROVE  ServiceInv'
<1>1. /\ UNCHANGED <<job_state, tries, counter, emq, to_mad, from_mad, mad_up>>
      /\ em_state' = [em_state EXCEPT ![k] = "INIT"]
      /\ dmq' = Tail(dmq) \/ dmq' = Append(Tail(dmq), <<"EPILOG", k>>)
  BY DEF DMWrapperDone, Steady, tryv, pipv, ServiceInv, Types, GwdTypes, JobTypes, ExecStates,
         CancelStates
<1>2. dmq[1] = <<"WRAPPER_DONE", k>> /\ 1 \in DOMAIN dmq
  BY QueueTypes
<1>3. Over(k)
  BY <1>2 DEF ServiceInv, Ends, EndsOf
<1>4. NoSubmission(k)
  <2>1. dmq[1][2] = k /\ ~SubmitD(dmq[1], k)
    BY <1>2 DEF SubmitD
  <2> QED BY <1>2, <2>1, NotSubmitted DEF ServiceInv, Submission
<1>5. SubmissionOf(k)'
  <2>1. ~Waiting(k)'
    BY <1>1, QueueTypes DEF Waiting, JobTypes
  <2>2. From(dmq, dmq', {<<"EPILOG", k>>}) /\ ~SubmitD(<<"EPILOG", k>>, k)
    <3>1. <<"EPILOG", k>> \in DMEntries
      BY DEF DMEntries
    <3>2. From(dmq, Tail(dmq), {<<"EPILOG", k>>})
      BY QueueTypes, FromQueue
    <3>3. From(dmq, Append(Tail(dmq), <<"EPILOG", k>>), {<<"EPILOG", k>>})
      BY <3>1, QueueTypes, FromQueue
    <3> QED BY <1>1, <3>2, <3>3 DEF SubmitD
  <2>3. From(emq, emq', {}) /\ From(to_mad, to_mad', {}) /\ From(from_mad, from_mad', {})
    BY <1>1, QueueTypes, FromQueue
  <2> QED BY <1>4, <2>1, <2>2, <2>3, StaysSettled
<1>6. EndsOf(k)'
  BY <1>3, MadUnchanged DEF EndsOf
<1>7. GwdStep(k)
  <2>1. About(dmq, dmq', DMEntries, k)
    <3>1. <<"EPILOG", k>> \in DMEntries
      BY DEF DMEntries
    <3>2. About(dmq, Append(Tail(dmq), <<"EPILOG", k>>), DMEntries, k)
      BY <3>1, AboutAppend
    <3> QED BY <1>1, <3>2 DEF About
  <2>2. About(emq, emq', EMEntries, k) /\ About(to_mad, to_mad', Commands, k)
    BY <1>1 DEF About
  <2>3. UNCHANGED <<madv, mad_up>> /\ from_mad' = from_mad
    BY <1>1
  <2>4. JobTypes' /\ \A j \in Jobs \ {k} : /\ job_state'[j] = job_state[j]
                                         /\ em_state'[j] = em_state[j]
                                         /\ counter'[j] = counter[j]
    BY <1>1, QueueTypes DEF JobTypes, EMStates
  <2> QED BY <1>5, <1>6, <2>1, <2>2, <2>3, <2>4 DEF GwdStep
<1> QED BY <1>7, GwdStepServes

\* gw_dm_wrapper_failed_cb: no try is left, and no remote job was started.
LEMMA DMWrapperFailedServes ==
  ASSUME Steady, ServiceInv, UNCHANGED madv, NEW k \in Jobs,
         dmq # <<>>, Head(dmq) = <<"WRAPPER_FAILED", k>>, DMWrapperFailed(k)
  PROVE  ServiceInv'
<1> DEFINE e == <<"EPILOG", k>>
<1>1. /\ UNCHANGED <<job_state, tries, counter, emq, to_mad, from_mad, mad_up>>
      /\ em_state' = [em_state EXCEPT ![k] = "INIT"]
      /\ dmq' = Append(Tail(dmq), e)
  BY DEF DMWrapperFailed, tryv, pipv
<1>2. dmq[1] = <<"WRAPPER_FAILED", k>> /\ 1 \in DOMAIN dmq
  BY QueueTypes
<1>3. InDM(1, k)
  <2>1. SubmitD(dmq[1], k)
    BY <1>2 DEF SubmitD
  <2> QED BY <1>2, <2>1 DEF ServiceInv, Submission, SubmissionOf
<1>4. e \in DMEntries
  BY DEF DMEntries
<1>5. NoSubmission(k)'
  <2>1. ~Waiting(k)'
    BY <1>1, QueueTypes DEF Waiting, JobTypes
  <2>2. \A i \in DOMAIN dmq' : ~SubmitD(dmq'[i], k)
    <3>1. \A i \in DOMAIN Tail(dmq) : ~SubmitD(Tail(dmq)[i], k)
      <4>1. Silent(Tail(dmq), k)
        BY <1>3, QueueTypes, OnlyQueue DEF InDM
      <4> QED BY <4>1 DEF Silent, SubmitD
    <3>2. From(Tail(dmq), dmq', {e})
      <4>1. Tail(dmq) \in Seq(DMEntries)
        BY QueueTypes
      <4> QED BY <1>1, <1>4, <4>1, FromQueue
    <3>3. ~SubmitD(e, k)
      BY DEF SubmitD
    <3> QED BY <3>1, <3>2, <3>3 DEF From
  <2> QED BY <1>1, <1>3, <2>1, <2>2 DEF InDM, NoSubmission, Silent, SubmitE, SubmitT, SubmitF
<1>6. SubmissionOf(k)'
  BY <1>5, OneSubmission
<1>7. EndsOf(k)'
  BY <1>3, MadUnchanged DEF EndsOf, InDM, Unsent, Forgotten, Over
<1>8. GwdStep(k)
  <2>1. About(dmq, dmq', DMEntries, k)
    BY <1>1, <1>4, AboutAppend
  <2>2. About(emq, emq', EMEntries, k) /\ About(to_mad, to_mad', Commands, k)
    BY <1>1 DEF About
  <2>3. UNCHANGED <<madv, mad_up>> /\ from_mad' = from_mad
    BY <1>1
  <2>4. JobTypes' /\ \A j \in Jobs \ {k} : /\ job_state'[j] = job_state[j]
                                         /\ em_state'[j] = em_state[j]
                                         /\ counter'[j] = counter[j]
    BY <1>1, QueueTypes DEF JobTypes, EMStates
  <2> QED BY <1>6, <1>7, <2>1, <2>2, <2>3, <2>4 DEF GwdStep
<1> QED BY <1>8, GwdStepServes

\* gw_dm_epilog: the request is closed.
LEMMA DMEpilogServes ==
  ASSUME Steady, ServiceInv, UNCHANGED madv, NEW k \in Jobs,
         dmq # <<>>, Head(dmq) = <<"EPILOG", k>>,
         job_state' = [job_state EXCEPT ![k] = "EPILOG"], dmq' = Tail(dmq),
         UNCHANGED <<em_state, tries, counter, emq, to_mad, from_mad, mad_up>>
  PROVE  ServiceInv'
<1>1. dmq[1] = <<"EPILOG", k>> /\ 1 \in DOMAIN dmq
  BY QueueTypes
<1>2. Over(k)
  BY <1>1 DEF ServiceInv, Ends, EndsOf
<1>3. NoSubmission(k)
  <2>1. dmq[1][2] = k /\ ~SubmitD(dmq[1], k)
    BY <1>1 DEF SubmitD
  <2> QED BY <1>1, <2>1, NotSubmitted DEF ServiceInv, Submission
<1>4. SubmissionOf(k)'
  <2>1. ~Waiting(k)'
    BY <1>3 DEF Waiting, NoSubmission
  <2>2. /\ From(dmq, dmq', {}) /\ From(emq, emq', {})
        /\ From(to_mad, to_mad', {}) /\ From(from_mad, from_mad', {})
    BY QueueTypes, FromQueue
  <2> QED BY <1>3, <2>1, <2>2, StaysSettled
<1>5. EndsOf(k)'
  BY <1>2, MadUnchanged DEF EndsOf
<1>6. GwdStep(k)
  <2>1. /\ About(dmq, dmq', DMEntries, k) /\ About(emq, emq', EMEntries, k)
        /\ About(to_mad, to_mad', Commands, k)
    BY DEF About
  <2>2. JobTypes' /\ \A j \in Jobs \ {k} : /\ job_state'[j] = job_state[j]
                                         /\ em_state'[j] = em_state[j]
                                         /\ counter'[j] = counter[j]
    BY QueueTypes DEF JobTypes
  <2> QED BY <1>4, <1>5, <2>1, <2>2 DEF GwdStep
<1> QED BY <1>6, GwdStepServes

\* A job that is not being executed may be scheduled again.
LEMMA DMRescheduleServes ==
  ASSUME Steady, ServiceInv, NEW k \in Jobs, Gwd(DMReschedule(k))
  PROVE  ServiceInv'
<1>1. /\ job_state[k] = "EPILOG" /\ job_state' = [job_state EXCEPT ![k] = "PENDING"]
      /\ UNCHANGED <<em_state, tries, counter, emq, dmq, to_mad, from_mad, mad_up>>
      /\ UNCHANGED madv
  BY DEF Gwd, DMReschedule, tryv, pipv
<1>2. Over(k)
  BY <1>1 DEF ServiceInv, Ends, EndsOf
<1>3. NoSubmission(k)
  BY <1>1, NotSubmitted DEF ServiceInv, Submission, Unsent
<1>4. SubmissionOf(k)'
  <2>1. ~Waiting(k)'
    BY <1>1, <1>3 DEF Waiting, NoSubmission
  <2>2. /\ From(dmq, dmq', {}) /\ From(emq, emq', {})
        /\ From(to_mad, to_mad', {}) /\ From(from_mad, from_mad', {})
    BY <1>1, QueueTypes, FromQueue
  <2> QED BY <1>3, <2>1, <2>2, StaysSettled
<1>5. EndsOf(k)'
  BY <1>1, <1>2, MadUnchanged DEF EndsOf
<1>6. GwdStep(k)
  <2>1. /\ About(dmq, dmq', DMEntries, k) /\ About(emq, emq', EMEntries, k)
        /\ About(to_mad, to_mad', Commands, k)
    BY <1>1 DEF About
  <2>2. JobTypes' /\ \A j \in Jobs \ {k} : /\ job_state'[j] = job_state[j]
                                         /\ em_state'[j] = em_state[j]
                                         /\ counter'[j] = counter[j]
    BY <1>1, QueueTypes DEF JobTypes
  <2>3. UNCHANGED <<madv, mad_up>> /\ from_mad' = from_mad
    BY <1>1
  <2> QED BY <1>4, <1>5, <2>1, <2>2, <2>3 DEF GwdStep
<1> QED BY <1>6, GwdStepServes

\* The handlers of the DM (gw_dm_wrapper_done_cb, gw_dm_wrapper_failed_cb, epilog).
LEMMA DMStepServes ==
  ASSUME Steady, ServiceInv, Gwd(DMStep)
  PROVE  ServiceInv'
<1> DEFINE a == Head(dmq)[1]
           k == Head(dmq)[2]
<1>1. DMStep /\ UNCHANGED madv
  BY DEF Gwd
<1>2. /\ dmq # <<>> /\ Head(dmq) = <<a, k>> /\ k \in Jobs
      /\ a \in {"WRAPPER_DONE", "WRAPPER_FAILED", "EPILOG"}
  <2>1. dmq # <<>>
    BY <1>1 DEF DMStep
  <2>2. Head(dmq) \in DMEntries
    BY <2>1, QueueTypes
  <2> QED BY <2>1, <2>2 DEF DMEntries
<1>3. CASE a = "WRAPPER_DONE"
  <2>1. DMWrapperDone(k)
    BY <1>1, <1>3 DEF DMStep
  <2> QED BY <1>1, <1>2, <1>3, <2>1, DMWrapperDoneServes
<1>4. CASE a = "WRAPPER_FAILED"
  <2>1. DMWrapperFailed(k)
    BY <1>1, <1>4 DEF DMStep
  <2> QED BY <1>1, <1>2, <1>4, <2>1, DMWrapperFailedServes
<1>5. CASE a = "EPILOG"
  <2>1. /\ job_state' = [job_state EXCEPT ![k] = "EPILOG"] /\ dmq' = Tail(dmq)
        /\ UNCHANGED <<em_state, tries, counter, emq, to_mad, from_mad, mad_up>>
    BY <1>1, <1>5 DEF DMStep, tryv, pipv
  <2> QED BY <1>1, <1>2, <1>5, <2>1, DMEpilogServes
<1> QED BY <1>2, <1>3, <1>4, <1>5

\* gw_em_submit: the submission is on its way to the MAD, or has failed already.
LEMMA EMSubmitServes ==
  ASSUME Steady, ServiceInv, UNCHANGED madv, NEW k \in Jobs,
         emq # <<>>, Head(emq) = <<"SUBMIT", k>>, EMSubmit(k)
  PROVE  ServiceInv'
<1> DEFINE d == <<"WRAPPER_FAILED", k>>
           c == <<"SUBMIT", k, 0>>
<1>1. emq[1] = <<"SUBMIT", k>> /\ 1 \in DOMAIN emq
  BY QueueTypes
<1>2. InEM(1, k)
  <2>1. SubmitE(emq[1], k)
    BY <1>1 DEF SubmitE
  <2> QED BY <1>1, <2>1 DEF ServiceInv, Submission, SubmissionOf
<1>3. /\ counter' = [counter EXCEPT ![k] = -1] /\ emq' = Tail(emq)
      /\ UNCHANGED <<job_state, from_mad, mad_up>>
  BY DEF EMSubmit
<1>4. Silent(emq', k) /\ Forgotten(k)'
  <2>1. Silent(Tail(emq), k)
    BY <1>2, QueueTypes, OnlyQueue DEF InEM
  <2> QED BY <1>2, <1>3, <2>1, MadUnchanged DEF InEM, Unsent
<1>5. EndsOf(k)'
  BY <1>4 DEF EndsOf, Forgotten, Over
<1>6. d \in DMEntries /\ c \in Commands
  BY DEF DMEntries, Commands
<1>7. CASE em_state' = [em_state EXCEPT ![k] = "FAILED"] /\ dmq' = Append(dmq, d)
           /\ UNCHANGED <<tries, to_mad>>
  <2>1. SubmissionOf(k)'
    <3>1. PICK i \in DOMAIN dmq' : Only(dmq', i, k)
      BY <1>2, <1>6, <1>7, QueueTypes, OnlyQueue DEF InEM
    <3>2. Unsent(k)' /\ ~Waiting(k)'
      BY <1>2, <1>3, <1>4, <1>7, QueueTypes DEF InEM, Unsent, Waiting, JobTypes
    <3>3. InDM(i, k)'
      BY <1>2, <1>3, <1>4, <1>7, <3>1, <3>2 DEF InEM, InDM
    <3> QED BY <3>3, OneSubmission
  <2>2. GwdStep(k)
    <3>1. About(emq, emq', EMEntries, k) /\ About(to_mad, to_mad', Commands, k)
      BY <1>3, <1>7 DEF About
    <3>2. About(dmq, dmq', DMEntries, k)
      BY <1>6, <1>7, AboutAppend
    <3>3. JobTypes' /\ \A j \in Jobs \ {k} : /\ job_state'[j] = job_state[j]
                                           /\ em_state'[j] = em_state[j]
                                           /\ counter'[j] = counter[j]
      BY <1>3, <1>7, QueueTypes DEF JobTypes, EMStates
    <3>4. UNCHANGED <<madv, mad_up>> /\ from_mad' = from_mad
      BY <1>3
    <3> QED BY <1>5, <2>1, <3>1, <3>2, <3>3, <3>4 DEF GwdStep
  <2> QED BY <2>2, GwdStepServes
<1>8. CASE em_state' = [em_state EXCEPT ![k] = "INIT"] /\ to_mad' = Append(to_mad, c)
           /\ tries' = [tries EXCEPT ![k] = @ + 1] /\ UNCHANGED dmq
  <2>1. SubmissionOf(k)'
    <3>1. PICK i \in DOMAIN to_mad' : Only(to_mad', i, k)
      BY <1>2, <1>6, <1>8, QueueTypes, OnlyQueue DEF InEM
    <3>2. Unsent(k)' /\ ~Waiting(k)'
      BY <1>2, <1>3, <1>4, <1>8, QueueTypes DEF InEM, Unsent, Waiting, JobTypes
    <3>3. InMad(i, k)'
      BY <1>2, <1>3, <1>4, <1>8, <3>1, <3>2 DEF InEM, InMad
    <3> QED BY <3>3, OneSubmission
  <2>2. GwdStep(k)
    <3>1. About(emq, emq', EMEntries, k) /\ About(dmq, dmq', DMEntries, k)
      BY <1>3, <1>8 DEF About
    <3>2. About(to_mad, to_mad', Commands, k)
      BY <1>6, <1>8, AboutAppend
    <3>3. JobTypes' /\ \A j \in Jobs \ {k} : /\ job_state'[j] = job_state[j]
                                           /\ em_state'[j] = em_state[j]
                                           /\ counter'[j] = counter[j]
      BY <1>3, <1>8, QueueTypes DEF JobTypes, EMStates
    <3>4. UNCHANGED <<madv, mad_up>> /\ from_mad' = from_mad
      BY <1>3
    <3> QED BY <1>5, <2>1, <3>1, <3>2, <3>3, <3>4 DEF GwdStep
  <2> QED BY <2>2, GwdStepServes
<1>9. mad_up
  BY DEF ServiceInv, Types, PipeTypes
<1> QED BY <1>7, <1>8, <1>9 DEF EMSubmit, TellDM, ToMad

\* gw_em_failed: all that is known of the job is that its submission failed.
LEMMA EMFailedServes ==
  ASSUME Steady, ServiceInv, UNCHANGED madv, NEW k \in Jobs,
         emq # <<>>, Head(emq) = <<"FAILED", k>>, EMFailed(k)
  PROVE  ServiceInv'
<1> DEFINE d == <<"WRAPPER_FAILED", k>>
<1>1. emq[1] = <<"FAILED", k>> /\ 1 \in DOMAIN emq
  BY QueueTypes
<1>2. InEM(1, k)
  <2>1. SubmitE(emq[1], k)
    BY <1>1 DEF SubmitE
  <2> QED BY <1>1, <2>1 DEF ServiceInv, Submission, SubmissionOf
<1>3. /\ em_state' = [em_state EXCEPT ![k] = "FAILED"] /\ emq' = Tail(emq)
      /\ UNCHANGED <<job_state, tries, to_mad, from_mad, mad_up>>
  BY DEF EMFailed, pipv
<1>4. Silent(emq', k) /\ Forgotten(k)'
  <2>1. Silent(Tail(emq), k)
    BY <1>2, QueueTypes, OnlyQueue DEF InEM
  <2> QED BY <1>2, <1>3, <2>1, MadUnchanged DEF InEM, Unsent
<1>5. EndsOf(k)'
  BY <1>4 DEF EndsOf, Forgotten, Over
<1>6. Unsent(k)'
  BY <1>2, <1>3, <1>4, QueueTypes DEF InEM, Unsent, JobTypes
<1>7. d \in DMEntries
  BY DEF DMEntries
<1>8. /\ About(emq, emq', EMEntries, k) /\ About(to_mad, to_mad', Commands, k)
      /\ UNCHANGED <<madv, mad_up>> /\ from_mad' = from_mad
  BY <1>3 DEF About
<1>9. CASE counter' = [counter EXCEPT ![k] = -1] /\ dmq' = Append(dmq, d)
  <2>1. SubmissionOf(k)'
    <3>1. PICK i \in DOMAIN dmq' : Only(dmq', i, k)
      BY <1>2, <1>7, <1>9, QueueTypes, OnlyQueue DEF InEM
    <3>2. ~Waiting(k)'
      BY <1>9, QueueTypes DEF Waiting, JobTypes
    <3>3. InDM(i, k)'
      BY <1>2, <1>3, <1>4, <1>6, <1>9, <3>1, <3>2 DEF InEM, InDM
    <3> QED BY <3>3, OneSubmission
  <2>2. GwdStep(k)
    <3>1. About(dmq, dmq', DMEntries, k)
      BY <1>7, <1>9, AboutAppend
    <3>2. JobTypes' /\ \A j \in Jobs \ {k} : /\ job_state'[j] = job_state[j]
                                           /\ em_state'[j] = em_state[j]
                                           /\ counter'[j] = counter[j]
      BY <1>3, <1>9, QueueTypes DEF JobTypes, EMStates
    <3> QED BY <1>5, <1>8, <2>1, <3>1, <3>2 DEF GwdStep
  <2> QED BY <2>2, GwdStepServes
<1>10. CASE counter' = [counter EXCEPT ![k] = tries[k]] /\ UNCHANGED dmq
  <2>1. InTimer(k)'
    BY <1>2, <1>3, <1>4, <1>6, <1>10 DEF InEM, InTimer
  <2>2. SubmissionOf(k)'
    BY <2>1, OneSubmission
  <2>3. GwdStep(k)
    <3>1. About(dmq, dmq', DMEntries, k)
      BY <1>10 DEF About
    <3>2. JobTypes' /\ \A j \in Jobs \ {k} : /\ job_state'[j] = job_state[j]
                                           /\ em_state'[j] = em_state[j]
                                           /\ counter'[j] = counter[j]
      BY <1>3, <1>10, QueueTypes DEF JobTypes, EMStates
    <3> QED BY <1>5, <1>8, <2>2, <3>1, <3>2 DEF GwdStep
  <2> QED BY <2>3, GwdStepServes
<1> QED BY <1>9, <1>10 DEF EMFailed, TellDM

\* gw_em_pending, gw_em_active, gw_em_suspended and gw_em_done: a remote job was
\* started, or its wrapper is over.
LEMMA EMReportedServes ==
  ASSUME Steady, ServiceInv, UNCHANGED madv, NEW k \in Jobs, NEW s,
         emq # <<>>, Head(emq) = <<s, k>>, s \in Submitted \union {"DONE"},
         IF s = "DONE" THEN EMDone(k) ELSE EMPhase(k, s)
  PROVE  ServiceInv'
<1> DEFINE d == <<"WRAPPER_DONE", k>>
<1>1. emq[1] = <<s, k>> /\ 1 \in DOMAIN emq
  BY QueueTypes
<1>2. NoSubmission(k)
  <2>1. emq[1][2] = k /\ ~SubmitE(emq[1], k)
    BY <1>1 DEF SubmitE, Submitted
  <2> QED BY <1>1, <2>1, NotSubmitted DEF ServiceInv, Submission
<1>3. /\ em_state' \in {em_state, [em_state EXCEPT ![k] = s]} /\ emq' = Tail(emq)
      /\ UNCHANGED <<job_state, tries, counter, to_mad, from_mad, mad_up>>
      /\ dmq' \in {dmq, Append(dmq, d)}
  <2>1. job_state[k] \notin CancelStates
    BY QueueTypes DEF JobTypes, CancelStates
  <2>2. CASE s = "DONE"
    BY <2>2 DEF EMDone, TellDM, pipv, tryv
  <2>3. CASE s # "DONE"
    BY <2>1, <2>3 DEF EMPhase, RetryCancel, pipv, tryv
  <2> QED BY <2>2, <2>3
<1>4. d \in DMEntries
  BY DEF DMEntries
<1>5. SubmissionOf(k)'
  <2>1. ~Waiting(k)'
    BY <1>2, <1>3, QueueTypes DEF NoSubmission, Waiting, Submitted, JobTypes
  <2>2. From(dmq, dmq', {d}) /\ ~SubmitD(d, k)
    <3>1. From(dmq, dmq, {d}) /\ From(dmq, Append(dmq, d), {d})
      BY <1>4, QueueTypes, FromQueue
    <3> QED BY <1>3, <3>1 DEF SubmitD
  <2>3. From(emq, emq', {}) /\ From(to_mad, to_mad', {}) /\ From(from_mad, from_mad', {})
    BY <1>3, QueueTypes, FromQueue
  <2> QED BY <1>2, <2>1, <2>2, <2>3, StaysSettled
<1>6. EndsOf(k)'
  <2>1. CASE s = "DONE"
    <3>1. Over(k)
      BY <1>1, <2>1 DEF ServiceInv, Ends, EndsOf
    <3> QED BY <3>1, MadUnchanged DEF EndsOf
  <2>2. CASE s # "DONE"
    <3>1. dmq' = dmq
      BY <2>2 DEF EMPhase
    <3>2. From(emq, emq', {}) /\ From(from_mad, from_mad', {})
      BY <1>3, QueueTypes, FromQueue
    <3>3. EndsOf(k) /\ (Over(k) => Over(k)') /\ answers' = answers
      BY MadUnchanged DEF ServiceInv, Ends, madv
    <3> QED BY <1>3, <3>1, <3>2, <3>3, StaysTrue
  <2> QED BY <2>1, <2>2
<1>7. GwdStep(k)
  <2>1. /\ About(emq, emq', EMEntries, k) /\ About(to_mad, to_mad', Commands, k)
        /\ UNCHANGED <<madv, mad_up>> /\ from_mad' = from_mad
    BY <1>3 DEF About
  <2>2. About(dmq, dmq', DMEntries, k)
    <3>1. About(dmq, Append(dmq, d), DMEntries, k) /\ About(dmq, dmq, DMEntries, k)
      BY <1>4, AboutAppend DEF About
    <3> QED BY <1>3, <3>1
  <2>3. JobTypes' /\ \A j \in Jobs \ {k} : /\ job_state'[j] = job_state[j]
                                         /\ em_state'[j] = em_state[j]
                                         /\ counter'[j] = counter[j]
    BY <1>3, QueueTypes DEF JobTypes, EMStates
  <2> QED BY <1>5, <1>6, <2>1, <2>2, <2>3 DEF GwdStep
<1> QED BY <1>7, GwdStepServes

\* The handlers of the EM (gw_em_submit, gw_em_pending ... gw_em_failed).
LEMMA EMStepServes ==
  ASSUME Steady, ServiceInv, Gwd(EMStep)
  PROVE  ServiceInv'
<1> DEFINE a == Head(emq)[1]
           k == Head(emq)[2]
<1>1. EMStep /\ UNCHANGED madv
  BY DEF Gwd
<1>2. /\ emq # <<>> /\ Head(emq) = <<a, k>> /\ k \in Jobs
      /\ a \in {"SUBMIT", "PENDING", "ACTIVE", "SUSPENDED", "DONE", "FAILED"}
  <2>1. emq # <<>>
    BY <1>1 DEF EMStep
  <2>2. Head(emq) \in EMEntries
    BY <2>1, QueueTypes
  <2> QED BY <2>1, <2>2 DEF EMEntries
<1>3. CASE a = "SUBMIT"
  <2>1. EMSubmit(k)
    BY <1>1, <1>3 DEF EMStep, Submitted
  <2> QED BY <1>1, <1>2, <1>3, <2>1, EMSubmitServes
<1>4. CASE a = "FAILED"
  <2>1. EMFailed(k)
    BY <1>1, <1>4 DEF EMStep, Submitted
  <2> QED BY <1>1, <1>2, <1>4, <2>1, EMFailedServes
<1>5. CASE a \in Submitted \union {"DONE"}
  <2>1. IF a = "DONE" THEN EMDone(k) ELSE EMPhase(k, a)
    BY <1>1, <1>5 DEF EMStep, Submitted
  <2> HIDE DEF a, k
  <2> QED BY <1>1, <1>2, <1>5, <2>1, EMReportedServes
<1> QED BY <1>2, <1>3, <1>4, <1>5 DEF Submitted

\* gw_em_timer: a job that is polled has been submitted.
LEMMA EMPollServes ==
  ASSUME Steady, ServiceInv, NEW k \in Jobs, Gwd(EMPoll(k))
  PROVE  ServiceInv'
<1> DEFINE c == <<"POLL", k, 0>>
<1>1. /\ em_state[k] \in Submitted /\ to_mad' = Append(to_mad, c)
      /\ UNCHANGED <<job_state, em_state, tries, counter, emq, dmq, from_mad, mad_up>>
      /\ UNCHANGED madv
  BY DEF Gwd, EMPoll, ToMad, tryv, ServiceInv, Types, PipeTypes
<1>2. NoSubmission(k)
  BY <1>1, NotSubmitted DEF ServiceInv, Submission, Unsent, Submitted
<1>3. c \in Commands
  BY DEF Commands
<1>4. SubmissionOf(k)'
  <2>1. ~Waiting(k)'
    BY <1>1, <1>2 DEF Waiting, NoSubmission
  <2>2. From(to_mad, to_mad', {c}) /\ ~SubmitT(c, k)
    BY <1>1, <1>3, QueueTypes, FromQueue DEF SubmitT
  <2>3. From(emq, emq', {}) /\ From(dmq, dmq', {}) /\ From(from_mad, from_mad', {})
    BY <1>1, QueueTypes, FromQueue
  <2> QED BY <1>2, <2>1, <2>2, <2>3, StaysSettled
<1>5. EndsOf(k)'
  <2>1. From(emq, emq', {}) /\ From(from_mad, from_mad', {})
    BY <1>1, QueueTypes, FromQueue
  <2>2. EndsOf(k) /\ (Over(k) => Over(k)') /\ answers' = answers
    BY <1>1, MadUnchanged DEF ServiceInv, Ends, madv
  <2> QED BY <1>1, <2>1, <2>2, StaysTrue
<1>6. GwdStep(k)
  <2>1. /\ About(emq, emq', EMEntries, k) /\ About(dmq, dmq', DMEntries, k)
        /\ UNCHANGED <<madv, mad_up>> /\ from_mad' = from_mad
    BY <1>1 DEF About
  <2>2. About(to_mad, to_mad', Commands, k)
    BY <1>1, <1>3, AboutAppend
  <2>3. JobTypes' /\ \A j \in Jobs \ {k} : /\ job_state'[j] = job_state[j]
                                         /\ em_state'[j] = em_state[j]
                                         /\ counter'[j] = counter[j]
    BY <1>1, QueueTypes DEF JobTypes
  <2> QED BY <1>4, <1>5, <2>1, <2>2, <2>3 DEF GwdStep
<1> QED BY <1>6, GwdStepServes

\* gw_em_timer: a job whose next try is due is submitted again.
LEMMA EMRetryServes ==
  ASSUME Steady, ServiceInv, NEW k \in Jobs, Gwd(EMRetry(k))
  PROVE  ServiceInv'
<1> DEFINE e == <<"SUBMIT", k>>
<1>1. /\ em_state[k] = "FAILED" /\ counter[k] # -1
      /\ UNCHANGED <<job_state, em_state, tries, dmq, to_mad, from_mad, mad_up>>
      /\ UNCHANGED madv
  BY DEF Gwd, EMRetry, pipv
<1>2. InTimer(k)
  BY <1>1 DEF ServiceInv, Submission, SubmissionOf, Waiting
<1>3. Forgotten(k)' /\ Unsent(k)'
  BY <1>1, <1>2, MadUnchanged DEF InTimer, Unsent
<1>4. EndsOf(k)'
  BY <1>3 DEF EndsOf, Forgotten, Over
<1>5. e \in EMEntries
  BY DEF EMEntries
<1>6. /\ About(dmq, dmq', DMEntries, k) /\ About(to_mad, to_mad', Commands, k)
      /\ UNCHANGED <<madv, mad_up>> /\ from_mad' = from_mad
  BY <1>1 DEF About
<1>7. CASE counter[k] = 1
  <2>1. counter' = [counter EXCEPT ![k] = -1] /\ emq' = Append(emq, e)
    BY <1>7 DEF Gwd, EMRetry
  <2>2. SubmissionOf(k)'
    <3>1. PICK i \in DOMAIN emq' : Only(emq', i, k)
      BY <1>2, <1>5, <2>1, QueueTypes, OnlyQueue DEF InTimer
    <3>2. ~Waiting(k)'
      BY <2>1, QueueTypes DEF Waiting, JobTypes
    <3>3. InEM(i, k)'
      BY <1>1, <1>2, <1>3, <3>1, <3>2 DEF InEM, InTimer
    <3> QED BY <3>3, OneSubmission
  <2>3. About(emq, emq', EMEntries, k)
    BY <1>5, <2>1, AboutAppend
  <2>4. JobTypes' /\ \A j \in Jobs \ {k} : /\ job_state'[j] = job_state[j]
                                         /\ em_state'[j] = em_state[j]
                                         /\ counter'[j] = counter[j]
    BY <1>1, <2>1, QueueTypes DEF JobTypes
  <2>5. GwdStep(k)
    BY <1>4, <1>6, <2>2, <2>3, <2>4 DEF GwdStep
  <2> QED BY <2>5, GwdStepServes
<1>8. CASE counter[k] # 1
  <2>1. counter' = [counter EXCEPT ![k] = @ - 1] /\ emq' = emq
    BY <1>8 DEF Gwd, EMRetry
  <2>2. InTimer(k)'
    BY <1>1, <1>2, <1>3, <2>1 DEF InTimer
  <2>3. SubmissionOf(k)'
    BY <2>2, OneSubmission
  <2>4. About(emq, emq', EMEntries, k)
    BY <2>1 DEF About
  <2>5. JobTypes' /\ \A j \in Jobs \ {k} : /\ job_state'[j] = job_state[j]
                                         /\ em_state'[j] = em_state[j]
                                         /\ counter'[j] = counter[j]
    BY <1>1, <2>1, QueueTypes DEF JobTypes
  <2>6. GwdStep(k)
    BY <1>4, <1>6, <2>3, <2>4, <2>5 DEF GwdStep
  <2> QED BY <2>6, GwdStepServes
<1> QED BY <1>7, <1>8

\* What a line makes the listener post: FAILED for a submission that failed, DONE
\* for a final line, and otherwise a state of a remote job.
LEMMA WhatIsPosted ==
  ASSUME Steady, ServiceInv, from_mad # <<>>,
         job_state[Head(from_mad)[2]] \in ExecStates
  PROVE  LET l == Head(from_mad)
             post == Posted(l[1], l[2], l[3], l[4])
         IN  \/ post = <<>>
             \/ l[1] = "SUBMIT" /\ ~l[3] /\ post = <<"FAILED">>
             \/ l[1] = "SUBMIT" /\ l[3] /\ post = <<"PENDING">>
             \/ l[1] # "SUBMIT" /\ Final(l) /\ post = <<"DONE">>
             \/ l[1] # "SUBMIT" /\ ~Final(l) /\ \E s \in Submitted : post = <<s>>
<1> DEFINE l == Head(from_mad)
           post == Posted(l[1], l[2], l[3], l[4])
<1>1. l \in Lines /\ (l[1] # "SUBMIT" => Report(l))
  <2>1. 1 \in DOMAIN from_mad /\ l = from_mad[1]
    BY QueueTypes
  <2> QED BY <2>1, QueueTypes DEF ServiceInv, Types, PipeTypes
<1>2. l[1] \in {"SUBMIT", "POLL", "CALLBACK"} /\ l[3] \in BOOLEAN
  BY <1>1 DEF Lines
<1> HIDE DEF l
<1>3. CASE l[1] = "SUBMIT"
  <2>1. post = IF l[3] THEN <<"PENDING">> ELSE <<"FAILED">>
    BY <1>2, <1>3 DEF Posted
  <2> QED BY <1>2, <1>3, <2>1 DEF l
<1>4. CASE l[1] # "SUBMIT" /\ ~l[3]
  <2>1. l[1] = "POLL"
    BY <1>1, <1>4 DEF Report
  <2>2. post = IF failed_polls[l[2]] = 2 THEN <<"DONE">> ELSE <<>>
    BY <1>2, <1>4, <2>1 DEF Posted
  <2> QED BY <1>4, <2>2 DEF Final, l
<1>5. CASE l[1] # "SUBMIT" /\ l[3]
  <2>1. l[4] \in States
    BY <1>1, <1>5 DEF Report
  <2>2. CASE l[4] \in {"PENDING", "ACTIVE", "DONE"}
    <3>1. post = <<l[4]>>
      BY <1>2, <1>5, <2>2 DEF Posted, Submitted
    <3> QED BY <1>5, <2>2, <3>1 DEF Final, Submitted, l
  <2>3. CASE l[4] \in {"None", "UNKNOWN"}
    <3>1. post = <<>>
      BY <1>2, <1>5, <2>3 DEF Posted, Submitted
    <3> QED BY <3>1 DEF l
  <2> QED BY <2>1, <2>2, <2>3 DEF States
<1> QED BY <1>2, <1>3, <1>4, <1>5

\* A line about k is read, and e may be posted: FAILED only for a submission that
\* failed, DONE only for a final line.
LEMMA LineServes ==
  ASSUME Steady, ServiceInv, NEW k \in Jobs, NEW l \in Lines, NEW e \in EMEntries,
         from_mad # <<>>, Head(from_mad) = l, l[2] = k, e[2] = k, e[1] # "SUBMIT",
         from_mad' = Tail(from_mad),
         UNCHANGED <<job_state, em_state, counter, dmq, to_mad, mad_up>>,
         UNCHANGED madv,
         tries' \in {tries, [tries EXCEPT ![k] = number_of_retries]},
         emq' \in {emq, Append(emq, e)},
         emq' # emq => /\ e[1] = "FAILED" <=> SubmitF(l, k)
                       /\ e[1] = "DONE" => Final(l)
  PROVE  ServiceInv'
<1>2. 1 \in DOMAIN from_mad /\ l = from_mad[1]
  BY QueueTypes
<1>4. SubmissionOf(k) /\ EndsOf(k)
  BY DEF ServiceInv, Submission, Ends
<1>6. SubmissionOf(k)'
  <2>1. CASE SubmitF(l, k)
    <3>1. InAnswer(1, k)
      BY <1>2, <1>4, <2>1 DEF SubmissionOf
    <3>2. Silent(from_mad', k) /\ Forgotten(k)' /\ Unsent(k)' /\ ~Waiting(k)'
      <4>1. Silent(Tail(from_mad), k)
        BY <3>1, QueueTypes, OnlyQueue DEF InAnswer
      <4>2. Forgotten(k)'
        BY <3>1, MadUnchanged DEF InAnswer, Unsent
      <4> QED BY <3>1, <4>1, <4>2 DEF InAnswer, Unsent, Waiting
    <3>3. CASE emq' = emq
      <4>1. NoSubmission(k)'
        <5>1. Silent(emq', k) /\ Silent(dmq', k) /\ Silent(to_mad', k)
          BY <3>1, <3>3 DEF InAnswer
        <5> QED BY <3>2, <5>1
                DEF NoSubmission, Silent, SubmitE, SubmitT, SubmitF, SubmitD
      <4> QED BY <4>1, OneSubmission
    <3>4. CASE emq' = Append(emq, e)
      <4>1. PICK i \in DOMAIN emq' : Only(emq', i, k)
        BY <3>1, <3>4, QueueTypes, OnlyQueue DEF InAnswer
      <4>2. InEM(i, k)'
        BY <3>1, <3>2, <4>1 DEF InAnswer, InEM
      <4> QED BY <4>2, OneSubmission
    <3> QED BY <3>3, <3>4
  <2>2. CASE ~SubmitF(l, k)
    <3>1. NoSubmission(k)
      BY <1>2, <1>4, <2>2, NotSubmitted
    <3>2. ~Waiting(k)'
      BY <3>1 DEF Waiting, NoSubmission
    <3>3. /\ From(dmq, dmq', {}) /\ From(to_mad, to_mad', {})
          /\ From(from_mad, from_mad', {}) /\ From(emq, emq, {})
      BY QueueTypes, FromQueue
    <3>4. CASE emq' = emq
      BY <3>1, <3>2, <3>3, <3>4, StaysSettled
    <3>5. CASE emq' # emq
      <4>1. From(emq, emq', {e})
        BY <3>5, QueueTypes, FromQueue
      <4>2. ~SubmitE(e, k)
        BY <2>2, <3>5 DEF SubmitE
      <4> QED BY <3>1, <3>2, <3>3, <4>1, <4>2, StaysSettled
    <3> QED BY <3>4, <3>5
  <2> QED BY <2>1, <2>2
<1>7. EndsOf(k)'
  <2>1. CASE emq' # emq /\ e[1] = "DONE"
    <3>1. Over(k)
      BY <1>2, <1>4, <2>1 DEF EndsOf
    <3> QED BY <3>1, MadUnchanged DEF EndsOf
  <2>2. CASE ~(emq' # emq /\ e[1] = "DONE")
    <3>1. From(from_mad, from_mad', {}) /\ From(emq, emq, {})
      BY QueueTypes, FromQueue
    <3>2. (Over(k) => Over(k)') /\ answers' = answers
      BY MadUnchanged DEF madv
    <3>3. CASE emq' = emq
      BY <1>4, <3>1, <3>2, <3>3, StaysTrue
    <3>4. CASE emq' # emq
      <4>1. From(emq, emq', {e}) /\ e[1] # "DONE"
        BY <2>2, <3>4, QueueTypes, FromQueue
      <4> QED BY <1>4, <3>1, <3>2, <4>1, StaysTrue
    <3> QED BY <3>3, <3>4
  <2> QED BY <2>1, <2>2
<1>8. GwdStep(k)
  <2>1. About(emq, emq', EMEntries, k)
    <3>1. About(emq, emq, EMEntries, k) /\ About(emq, Append(emq, e), EMEntries, k)
      BY AboutAppend DEF About
    <3> QED BY <3>1
  <2>2. About(dmq, dmq', DMEntries, k) /\ About(to_mad, to_mad', Commands, k)
    BY DEF About
  <2>3. JobTypes' /\ \A j \in Jobs \ {k} : /\ job_state'[j] = job_state[j]
                                         /\ em_state'[j] = em_state[j]
                                         /\ counter'[j] = counter[j]
    BY QueueTypes, EMAssumption DEF JobTypes
  <2> QED BY <1>6, <1>7, <2>1, <2>2, <2>3 DEF GwdStep
<1> QED BY <1>8, GwdStepServes

\* gw_em_listener: the line of a job that is not being executed is dropped.
LEMMA EMListenServes ==
  ASSUME Steady, ServiceInv, Gwd(EMListen)
  PROVE  ServiceInv'
<1> DEFINE l == Head(from_mad)
           k == l[2]
           post == Posted(l[1], l[2], l[3], l[4])
           e == <<post[1], k>>
<1>1. /\ from_mad # <<>> /\ from_mad' = Tail(from_mad)
      /\ UNCHANGED <<job_state, em_state, counter, dmq, to_mad, mad_up>>
      /\ UNCHANGED madv
      /\ tries' \in {tries, [tries EXCEPT ![k] = number_of_retries]}
  <2>1. EMListen
    BY DEF Gwd
  <2>2. tries' \in {tries, [tries EXCEPT ![k] = number_of_retries]}
    BY <2>1 DEF EMListen
  <2> QED BY <2>1, <2>2 DEF Gwd, EMListen
<1>2. 1 \in DOMAIN from_mad /\ l = from_mad[1] /\ l \in Lines /\ k \in Jobs
  <2>1. 1 \in DOMAIN from_mad /\ l = from_mad[1] /\ l \in Lines
    BY <1>1, QueueTypes
  <2> QED BY <2>1 DEF Lines
<1>3. \/ emq' = emq
      \/ /\ job_state[k] = "WRAPPER" /\ post[1] \in {"PENDING", "ACTIVE", "SUSPENDED", "DONE", "FAILED"}
         /\ emq' = Append(emq, e)
         /\ post[1] = "FAILED" <=> SubmitF(l, k)
         /\ post[1] = "DONE" => Final(l)
  <2>1. CASE job_state[k] \notin ExecStates
    BY <2>1 DEF Gwd, EMListen
  <2>2. CASE job_state[k] \in ExecStates
    <3>1. emq' = emq \o [i \in DOMAIN post |-> <<post[i], k>>]
      BY <2>2 DEF Gwd, EMListen
    <3>2. job_state[k] = "WRAPPER"
      BY <1>2, <2>2, QueueTypes DEF JobTypes, ExecStates, CancelStates
    <3>3. \/ post = <<>>
          \/ l[1] = "SUBMIT" /\ ~l[3] /\ post = <<"FAILED">>
          \/ l[1] = "SUBMIT" /\ l[3] /\ post = <<"PENDING">>
          \/ l[1] # "SUBMIT" /\ Final(l) /\ post = <<"DONE">>
          \/ l[1] # "SUBMIT" /\ ~Final(l) /\ \E s \in Submitted : post = <<s>>
      BY <1>1, <2>2, WhatIsPosted
    <3>4. CASE post = <<>>
      <4>1. [i \in DOMAIN post |-> <<post[i], k>>] = <<>>
        BY <3>4
      <4>2. emq' = emq \o <<>>
        BY <3>1, <4>1
      <4>3. emq \in Seq(EMEntries)
        BY QueueTypes
      <4> HIDE DEF post, l, k
      <4>4. emq' = emq
        BY <4>2, <4>3
      <4> QED BY <4>4
    <3>5. CASE post # <<>>
      <4>1. post = <<post[1]>> /\ e \in EMEntries
        <5> HIDE DEF post, k, l
        <5>1. /\ post = <<post[1]>>
              /\ post[1] \in {"SUBMIT", "PENDING", "ACTIVE", "SUSPENDED", "DONE", "FAILED"}
          BY <3>3, <3>5 DEF Submitted
        <5> QED BY <1>2, <5>1 DEF EMEntries
      <4>2. [i \in DOMAIN post |-> <<post[i], k>>] = <<e>>
        <5> HIDE DEF post
        <5> QED BY <4>1
      <4>3. emq' = Append(emq, e)
        <5>1. emq' = emq \o <<e>>
          BY <3>1, <4>2
        <5> HIDE DEF e
        <5> QED BY <4>1, <5>1, QueueTypes
      <4>4. post[1] \in {"PENDING", "ACTIVE", "SUSPENDED", "DONE", "FAILED"}
        <5> HIDE DEF post, l
        <5> QED BY <3>3, <3>5 DEF Submitted
      <4>5. /\ post[1] = "FAILED" <=> SubmitF(l, k)
            /\ post[1] = "DONE" => Final(l)
        <5>1. l[2] = k
          OBVIOUS
        <5> HIDE DEF post, l, k
        <5> QED BY <3>3, <3>5, <5>1 DEF Submitted, SubmitF
      <4> QED BY <3>2, <4>3, <4>4, <4>5
    <3> QED BY <3>4, <3>5
  <2> QED BY <2>1, <2>2
<1>4. \E x \in EMEntries :
        /\ x[2] = k /\ x[1] # "SUBMIT" /\ emq' \in {emq, Append(emq, x)}
        /\ emq' # emq => /\ x[1] = "FAILED" <=> SubmitF(l, k)
                         /\ x[1] = "DONE" => Final(l)
  <2> HIDE DEF l, k, post
  <2>1. CASE emq' = emq
    <3> DEFINE x == <<"PENDING", k>>
    <3>1. x \in EMEntries /\ x[2] = k /\ x[1] # "SUBMIT"
      BY <1>2 DEF EMEntries
    <3> HIDE DEF x
    <3> QED BY <2>1, <3>1
  <2>2. CASE emq' # emq
    <3>1. e \in EMEntries /\ e[2] = k /\ e[1] = post[1]
      BY <1>2, <1>3, <2>2 DEF EMEntries
    <3> HIDE DEF e
    <3> QED BY <1>3, <2>2, <3>1
  <2> QED BY <2>1, <2>2
<1> HIDE DEF l, k
<1>5. PICK x \in EMEntries :
        /\ x[2] = k /\ x[1] # "SUBMIT" /\ emq' \in {emq, Append(emq, x)}
        /\ emq' # emq => /\ x[1] = "FAILED" <=> SubmitF(l, k)
                         /\ x[1] = "DONE" => Final(l)
  BY <1>4
<1> QED BY <1>1, <1>2, <1>5, LineServes DEF l, k

-----------------------------------------------------------------------------
(* The steps of the MAD and of the batch systems.                          *)

\* A step of the MAD about k: what is left to show of it.
MadStep(k) ==
  /\ UNCHANGED <<gwdv, mad_up>>
  /\ About(to_mad, to_mad', Commands, k)
  /\ About(from_mad, from_mad', Lines, k)
  /\ \A i \in DOMAIN from_mad' : from_mad'[i][1] # "SUBMIT" => Report(from_mad'[i])
  /\ MadTypes' /\ CallbackOK' /\ ListTrue'
  /\ \A j \in Jobs \ {k} : /\ \A a \in answers' : a[2] = j => a \in answers
                           /\ Forgotten(j) => Forgotten(j)'
                           /\ Over(j) => Over(j)'
  /\ SubmissionOf(k)' /\ EndsOf(k)'

\* A step of the MAD about k keeps the invariant when it keeps it for k.
LEMMA MadStepServes ==
  ASSUME ServiceInv, NEW k \in Jobs, MadStep(k)
  PROVE  ServiceInv'
<1>1. UNCHANGED <<job_state, em_state, tries, counter, emq, dmq, mad_up>>
  BY DEF MadStep, gwdv, tryv
<1>2. /\ to_mad' \in Seq(Commands) /\ from_mad' \in Seq(Lines)
      /\ \A j : j # k => Kept(to_mad, to_mad', j) /\ Kept(from_mad, from_mad', j)
  <2>1. to_mad' \in Seq(Commands) /\ \A j : j # k => Kept(to_mad, to_mad', j)
    BY QueueTypes, AboutKept DEF MadStep
  <2>2. from_mad' \in Seq(Lines) /\ \A j : j # k => Kept(from_mad, from_mad', j)
    BY QueueTypes, AboutKept DEF MadStep
  <2> QED BY <2>1, <2>2
<1>3. Types'
  <2>1. GwdTypes'
    BY <1>1 DEF ServiceInv, Types, GwdTypes, JobTypes
  <2>2. PipeTypes'
    BY <1>1, <1>2 DEF ServiceInv, Types, PipeTypes, MadStep
  <2> QED BY <2>1, <2>2 DEF Types, MadStep
<1>4. \A j \in Jobs \ {k} : Aside(j)
  <2> SUFFICES ASSUME NEW j \in Jobs \ {k} PROVE Aside(j)
    OBVIOUS
  <2>1. Kept(emq, emq', j) /\ Kept(dmq, dmq', j)
    BY <1>1, QueueTypes, KeptQueue
  <2> QED BY <1>1, <1>2, <2>1 DEF Aside, MadStep
<1> QED BY <1>3, <1>4, StepAbout DEF ServiceInv, MadStep

\* What follows when the MAD takes a line and may print one.
LEMMA PipesAbout ==
  ASSUME ServiceInv, NEW k \in Jobs, NEW l \in Lines, l[2] = k,
         l[1] # "SUBMIT" => Report(l),
         to_mad' = to_mad \/ (to_mad # <<>> /\ to_mad' = Tail(to_mad)),
         from_mad' = from_mad \/ from_mad' = Append(from_mad, l)
  PROVE  /\ About(to_mad, to_mad', Commands, k) /\ About(from_mad, from_mad', Lines, k)
         /\ \A i \in DOMAIN from_mad' : from_mad'[i][1] # "SUBMIT" => Report(from_mad'[i])
         /\ From(to_mad, to_mad', {}) /\ From(from_mad, from_mad', {l})
<1>1. About(to_mad, to_mad', Commands, k)
  BY DEF About
<1>2. About(from_mad, from_mad', Lines, k)
  <2>1. About(from_mad, from_mad, Lines, k) /\ About(from_mad, Append(from_mad, l), Lines, k)
    BY AboutAppend DEF About
  <2> QED BY <2>1
<1>3. From(to_mad, to_mad', {})
  BY QueueTypes, FromQueue
<1>4. From(from_mad, from_mad', {l})
  BY QueueTypes, FromQueue
<1>5. \A i \in DOMAIN from_mad' : from_mad'[i][1] # "SUBMIT" => Report(from_mad'[i])
  BY <1>4 DEF From, ServiceInv, Types, PipeTypes
<1> QED BY <1>1, <1>2, <1>3, <1>4, <1>5

\* Where jobs, list and callback stay as they are, so does what is known of jobs.
LEMMA ListUnchanged ==
  ASSUME ServiceInv, UNCHANGED <<job_list, status, remote, callback, round>>
  PROVE  /\ CallbackOK' /\ ListTrue'
         /\ \A j \in Jobs : /\ Over(j)' = Over(j)
                            /\ MAD!Live(j)' = MAD!Live(j)
                            /\ Called(j)' = Called(j)
<1> USE DEF MAD!Live, MAD!Runs, Called
<1>1. CallbackOK' /\ ListTrue'
  BY DEF ServiceInv, CallbackOK, ListTrue
<1>2. \A j \in Jobs : /\ Over(j)' = Over(j)
                      /\ MAD!Live(j)' = MAD!Live(j)
                      /\ Called(j)' = Called(j)
  BY DEF Over
<1> QED BY <1>1, <1>2

\* do_SUBMIT, when the batch system refuses the job.
LEMMA SubmitRefusedServes ==
  ASSUME Steady, ServiceInv, UNCHANGED gwdv, NEW k \in Jobs,
         to_mad # <<>>, Head(to_mad) = <<"SUBMIT", k, 0>>, to_mad' = Tail(to_mad),
         from_mad' = Append(from_mad, <<"SUBMIT", k, FALSE, "-">>),
         UNCHANGED <<mad_up, job_list, status, remote, callback, round, tasks, answers>>
  PROVE  ServiceInv'
<1> DEFINE l == <<"SUBMIT", k, FALSE, "-">>
<1>1. to_mad[1] = <<"SUBMIT", k, 0>> /\ 1 \in DOMAIN to_mad
  BY QueueTypes
<1>2. InMad(1, k)
  <2>1. SubmitT(to_mad[1], k)
    BY <1>1 DEF SubmitT
  <2> QED BY <1>1, <2>1 DEF ServiceInv, Submission, SubmissionOf
<1>3. l \in Lines /\ l[2] = k /\ l[1] = "SUBMIT"
  BY DEF Lines
<1>4. UNCHANGED <<job_state, em_state, counter, emq, dmq>>
  BY DEF gwdv, tryv
<1>5. \A j \in Jobs : Forgotten(j) => Forgotten(j)'
  BY ListUnchanged DEF Forgotten
<1>6. SubmissionOf(k)'
  <2>1. PICK i \in DOMAIN from_mad' : Only(from_mad', i, k)
    BY <1>2, <1>3, QueueTypes, OnlyQueue DEF InMad
  <2>2. Silent(to_mad', k)
    BY <1>2, QueueTypes, OnlyQueue DEF InMad
  <2>3. InAnswer(i, k)'
    BY <1>2, <1>4, <1>5, <2>1, <2>2 DEF InAnswer, InMad, Unsent, Waiting
  <2> QED BY <2>3, OneSubmission
<1>7. EndsOf(k)'
  BY <1>2, <1>5 DEF EndsOf, InMad, Unsent, Forgotten, Over
<1>8. MadTypes'
  BY DEF ServiceInv, Types, MadTypes
<1>9. MadStep(k)
  <2> HIDE DEF l
  <2>1. /\ About(to_mad, to_mad', Commands, k) /\ About(from_mad, from_mad', Lines, k)
        /\ \A i \in DOMAIN from_mad' : from_mad'[i][1] # "SUBMIT" => Report(from_mad'[i])
    BY <1>3, PipesAbout DEF l
  <2> QED BY <1>5, <1>6, <1>7, <1>8, <2>1, ListUnchanged DEF MadStep
<1> QED BY <1>9, MadStepServes

\* POLL is given to the pool: the job has been submitted.
LEMMA PollReadServes ==
  ASSUME Steady, ServiceInv, UNCHANGED gwdv, NEW k \in Jobs,
         to_mad # <<>>, Head(to_mad) = <<"POLL", k, 0>>, to_mad' = Tail(to_mad),
         tasks' = tasks \union {<<"POLL", k>>},
         UNCHANGED <<mad_up, from_mad, job_list, status, remote, callback, round, answers>>
  PROVE  ServiceInv'
<1>1. to_mad[1] = <<"POLL", k, 0>> /\ 1 \in DOMAIN to_mad
  BY QueueTypes
<1>2. NoSubmission(k)
  <2>1. to_mad[1][2] = k /\ ~SubmitT(to_mad[1], k)
    BY <1>1 DEF SubmitT
  <2> QED BY <1>1, <2>1, NotSubmitted DEF ServiceInv, Submission
<1>3. UNCHANGED <<job_state, em_state, counter, emq, dmq>>
  BY DEF gwdv, tryv
<1>4. \A j \in Jobs \ {k} : Forgotten(j) => Forgotten(j)'
  BY ListUnchanged DEF Forgotten
<1>5. SubmissionOf(k)'
  <2>1. ~Waiting(k)'
    BY <1>2, <1>3 DEF Waiting, NoSubmission
  <2>2. /\ From(emq, emq', {}) /\ From(dmq, dmq', {}) /\ From(to_mad, to_mad', {})
        /\ From(from_mad, from_mad', {})
    BY <1>3, QueueTypes, FromQueue
  <2> QED BY <1>2, <2>1, <2>2, StaysSettled
<1>6. EndsOf(k)'
  <2>1. From(emq, emq', {}) /\ From(from_mad, from_mad', {})
    BY <1>3, QueueTypes, FromQueue
  <2>2. EndsOf(k) /\ (Over(k) => Over(k)')
    BY ListUnchanged DEF ServiceInv, Ends
  <2> QED BY <1>3, <2>1, <2>2, StaysTrue
<1>7. MadTypes'
  BY DEF ServiceInv, Types, MadTypes
<1>8. MadStep(k)
  <2>1. About(to_mad, to_mad', Commands, k) /\ About(from_mad, from_mad', Lines, k)
    BY DEF About
  <2>2. \A i \in DOMAIN from_mad' : from_mad'[i][1] # "SUBMIT" => Report(from_mad'[i])
    BY DEF ServiceInv, Types, PipeTypes
  <2> QED BY <1>4, <1>5, <1>6, <1>7, <2>1, <2>2, ListUnchanged DEF MadStep
<1> QED BY <1>8, MadStepServes

\* do_SUBMIT: the only remote job of k that lives is the new one.
LEMMA SubmitAcceptedServes ==
  ASSUME Steady, ServiceInv, UNCHANGED gwdv, NEW k \in Jobs, NEW r,
         to_mad # <<>>, Head(to_mad) = <<"SUBMIT", k, 0>>, to_mad' = Tail(to_mad),
         r = Len(remote) + 1,
         remote' = Append(remote, [job |-> k, state |-> "PENDING"]),
         status' = Append(status, "None"),
         job_list' = [job_list EXCEPT ![k] = r],
         from_mad' = Append(from_mad, <<"SUBMIT", k, TRUE, r>>),
         UNCHANGED <<mad_up, callback, round, tasks, answers>>
  PROVE  /\ ServiceInv'
         /\ MAD!Live(k) = {} /\ MAD!Live(k)' = {r} /\ job_state[k] = "WRAPPER"
         /\ \A j \in Jobs \ {k} : MAD!Live(j)' = MAD!Live(j)
<1> DEFINE l == <<"SUBMIT", k, TRUE, r>>
<1>1. to_mad[1] = <<"SUBMIT", k, 0>> /\ 1 \in DOMAIN to_mad
  BY QueueTypes
<1>2. InMad(1, k)
  <2>1. SubmitT(to_mad[1], k)
    BY <1>1 DEF SubmitT
  <2> QED BY <1>1, <2>1 DEF ServiceInv, Submission, SubmissionOf
<1>3. /\ remote \in Seq([job : Jobs, state : {"PENDING", "ACTIVE", "DONE"}])
      /\ status \in Seq(States) /\ Len(status) = Len(remote)
      /\ job_list \in [Jobs -> 0..Len(remote)]
  BY DEF ServiceInv, Types, MadTypes
<1>4. /\ r \in Nat /\ r # 0
      /\ DOMAIN remote' = DOMAIN remote \union {r} /\ r \notin DOMAIN remote
      /\ \A n \in DOMAIN remote : remote'[n] = remote[n] /\ status'[n] = status[n]
      /\ remote'[r] = [job |-> k, state |-> "PENDING"] /\ status'[r] = "None"
  BY <1>3
<1>5. job_list'[k] = r /\ \A j \in Jobs \ {k} : job_list'[j] = job_list[j]
  BY <1>3
<1>6. /\ MAD!Live(k) = {} /\ job_list[k] = 0 /\ ~Called(k)
      /\ \A a \in tasks \union answers : a[2] # k
  BY <1>2 DEF InMad, Unsent, Forgotten
<1>7. MAD!Live(k)' = {r} /\ \A j \in Jobs \ {k} : MAD!Live(j)' = MAD!Live(j)
  BY <1>4, <1>6 DEF MAD!Live, MAD!Runs, MAD!LiveStates
<1>8. l \in Lines /\ l[2] = k /\ l[1] = "SUBMIT" /\ l[3]
  BY <1>4 DEF Lines
<1>9. UNCHANGED <<job_state, em_state, counter, emq, dmq>>
  BY DEF gwdv, tryv
<1>10. MadTypes'
  <2>1. remote' \in Seq([job : Jobs, state : {"PENDING", "ACTIVE", "DONE"}])
    BY <1>3
  <2>2. status' \in Seq(States) /\ Len(status') = Len(remote') /\ Len(remote') = r
    BY <1>3 DEF States
  <2>3. job_list' \in [Jobs -> 0..r]
    BY <1>3, <1>4
  <2> QED BY <2>1, <2>2, <2>3 DEF ServiceInv, Types, MadTypes
<1>11. CallbackOK'
  <2>1. \A e \in round' : e[2] # 0 /\ job_list'[e[1]] = e[2] /\ ~Called(e[1])'
    <3> SUFFICES ASSUME NEW e \in round
                 PROVE  e[2] # 0 /\ job_list'[e[1]] = e[2] /\ ~Called(e[1])'
      OBVIOUS
    <3>1. e[2] # 0 /\ job_list[e[1]] = e[2] /\ ~Called(e[1]) /\ e[1] \in Jobs
      BY DEF ServiceInv, Types, MadTypes, CallbackOK
    <3>2. e[1] # k
      BY <1>6, <3>1
    <3> QED BY <1>5, <3>1, <3>2 DEF Called
  <2>2. ASSUME callback' # <<>>
        PROVE  /\ callback'[2] \in DOMAIN remote'
               /\ job_list'[callback'[1]] = IF callback'[3] = "deleted" THEN 0 ELSE callback'[2]
    <3>1. callback # <<>> /\ callback[1] \in Jobs /\ callback[1] # k
      BY <1>6, <2>2 DEF Called, ServiceInv, Types, MadTypes
    <3> QED BY <1>4, <1>5, <3>1 DEF ServiceInv, CallbackOK
  <2> QED BY <2>1, <2>2 DEF CallbackOK
<1>12. ListTrue'
  <2>1. \A j \in Jobs : MAD!Live(j)' \subseteq {job_list'[j]}
    BY <1>5, <1>7 DEF ServiceInv, ListTrue
  <2>2. ASSUME NEW j \in Jobs, job_list'[j] # 0
        PROVE  /\ remote'[job_list'[j]].job = j
               /\ status'[job_list'[j]] = "DONE" => Called(j)'
    <3>1. CASE j = k
      <4>1. job_list'[j] = r
        BY <1>5, <3>1
      <4>2. remote'[r].job = j
        BY <1>4, <3>1
      <4>3. status'[r] # "DONE"
        BY <1>4
      <4> QED BY <4>1, <4>2, <4>3
    <3>2. CASE j # k
      <4>1. job_list'[j] = job_list[j] /\ job_list[j] \in DOMAIN remote
        BY <1>3, <1>5, <2>2, <3>2
      <4>2. /\ remote[job_list[j]].job = j
            /\ status[job_list[j]] = "DONE" => Called(j)
        BY <2>2, <4>1 DEF ServiceInv, ListTrue
      <4>3. /\ remote'[job_list[j]] = remote[job_list[j]]
            /\ status'[job_list[j]] = status[job_list[j]]
        BY <1>4, <4>1
      <4>4. Called(j)' = Called(j)
        BY DEF Called
      <4> QED BY <4>1, <4>2, <4>3, <4>4
    <3> QED BY <3>1, <3>2
  <2>3. \A n \in DOMAIN remote' : status'[n] = "DONE" => remote'[n].state = "DONE"
    BY <1>4 DEF ServiceInv, ListTrue
  <2> QED BY <2>1, <2>2, <2>3 DEF ListTrue
<1>13. \A j \in Jobs \ {k} : /\ Forgotten(j) => Forgotten(j)'
                             /\ Over(j) => Over(j)'
  <2> SUFFICES ASSUME NEW j \in Jobs \ {k}
               PROVE  (Forgotten(j) => Forgotten(j)') /\ (Over(j) => Over(j)')
    OBVIOUS
  <2>1. job_list'[j] = job_list[j] /\ MAD!Live(j)' = MAD!Live(j) /\ Called(j)' = Called(j)
    BY <1>5, <1>7 DEF Called
  <2>2. job_list[j] # 0 => status'[job_list[j]] = status[job_list[j]]
    BY <1>3, <1>4
  <2> QED BY <2>1, <2>2 DEF Forgotten, Over
<1>14. SubmissionOf(k)'
  <2>1. NoSubmission(k)'
    <3>1. Silent(emq', k) /\ Silent(dmq', k) /\ Silent(to_mad', k) /\ ~Waiting(k)'
      <4>1. Silent(Tail(to_mad), k)
        BY <1>2, QueueTypes, OnlyQueue DEF InMad
      <4> QED BY <1>2, <1>9, <4>1 DEF InMad, Waiting
    <3>2. \A i \in DOMAIN from_mad' : ~SubmitF(from_mad'[i], k)
      <4>1. From(from_mad, from_mad', {l})
        BY <1>8, QueueTypes, FromQueue
      <4>2. ~SubmitF(l, k)
        BY <1>8 DEF SubmitF
      <4>3. \A i \in DOMAIN from_mad : ~SubmitF(from_mad[i], k)
        BY <1>2 DEF InMad, Silent, SubmitF
      <4> HIDE DEF l
      <4> QED BY <4>1, <4>2, <4>3 DEF From
    <3> QED BY <3>1, <3>2 DEF NoSubmission, Silent, SubmitE, SubmitT, SubmitD
  <2> QED BY <2>1, OneSubmission
<1>15. EndsOf(k)'
  <2>1. \A i \in DOMAIN emq' : ~(emq'[i][2] = k /\ emq'[i][1] = "DONE")
    BY <1>2, <1>9 DEF InMad, Silent
  <2>2. \A i \in DOMAIN from_mad' : ~(from_mad'[i][2] = k /\ Final(from_mad'[i]))
    <3>1. From(from_mad, from_mad', {l})
      BY <1>8, QueueTypes, FromQueue
    <3>2. ~Final(l)
      BY <1>8 DEF Final
    <3>3. \A i \in DOMAIN from_mad : from_mad[i][2] # k
      BY <1>2 DEF InMad, Silent
    <3> HIDE DEF l
    <3> QED BY <3>1, <3>2, <3>3 DEF From
  <2>3. \A i \in DOMAIN dmq' : ~(dmq'[i][2] = k /\ dmq'[i][1] # "WRAPPER_FAILED")
    BY <1>2, <1>9 DEF InMad, Silent
  <2>4. \A a \in answers' : ~(a[2] = k /\ Final(a))
    BY <1>6
  <2>5. job_state'[k] = "WRAPPER"
    BY <1>2, <1>9 DEF InMad, Unsent
  <2> QED BY <2>1, <2>2, <2>3, <2>4, <2>5 DEF EndsOf
<1>16. MadStep(k)
  <2>1. /\ About(to_mad, to_mad', Commands, k) /\ About(from_mad, from_mad', Lines, k)
        /\ \A i \in DOMAIN from_mad' : from_mad'[i][1] # "SUBMIT" => Report(from_mad'[i])
    <3> HIDE DEF l
    <3> QED BY <1>8, PipesAbout DEF l
  <2> QED BY <1>10, <1>11, <1>12, <1>13, <1>14, <1>15, <2>1 DEF MadStep
<1>17. ServiceInv'
  BY <1>16, MadStepServes
<1> QED BY <1>2, <1>6, <1>7, <1>17 DEF InMad, Unsent

\* processLine: a SUBMIT or a POLL.
LEMMA MadReadServes ==
  ASSUME Steady, ServiceInv, Mad(MAD!MadRead)
  PROVE  ServiceInv'
<1> DEFINE c == Head(to_mad)
           k == c[2]
<1>1. MAD!MadRead /\ UNCHANGED gwdv
  BY DEF Mad
<1>2. /\ to_mad # <<>> /\ to_mad' = Tail(to_mad)
      /\ UNCHANGED <<mad_up, answers, round, callback, crashes>>
  BY <1>1 DEF MAD!MadRead
<1>3. k \in Jobs /\ (c = <<"SUBMIT", k, 0>> \/ c = <<"POLL", k, 0>>)
  <2>1. c \in Commands
    BY <1>2, QueueTypes
  <2> QED BY <2>1 DEF Commands
<1>4. CASE c = <<"POLL", k, 0>>
  <2>1. tasks' = tasks \union {<<"POLL", k>>} /\ UNCHANGED <<from_mad, remote, status, job_list>>
    BY <1>1, <1>4 DEF MAD!MadRead
  <2> QED BY <1>1, <1>2, <1>3, <1>4, <2>1, PollReadServes
<1>5. CASE c = <<"SUBMIT", k, 0>>
  <2>1. MAD!MadSubmit(k) /\ UNCHANGED tasks
    BY <1>1, <1>5 DEF MAD!MadRead
  <2>2. CASE from_mad' = Append(from_mad, <<"SUBMIT", k, FALSE, "-">>)
             /\ UNCHANGED <<remote, status, job_list>>
    BY <1>1, <1>2, <1>3, <1>5, <2>1, <2>2, SubmitRefusedServes
  <2>3. ASSUME NEW r, r = Len(remote) + 1,
               remote' = Append(remote, [job |-> k, state |-> "PENDING"]),
               status' = Append(status, "None"),
               job_list' = [job_list EXCEPT ![k] = r],
               from_mad' = Append(from_mad, <<"SUBMIT", k, TRUE, r>>)
        PROVE  ServiceInv'
    BY <1>1, <1>2, <1>3, <1>5, <2>1, <2>3, SubmitAcceptedServes
  <2> QED BY <2>1, <2>2, <2>3 DEF MAD!MadSubmit, MAD!Say
<1> QED BY <1>3, <1>4, <1>5

\* do_POLL: an answer that ends the wrapper is given when the remote job has ended.
LEMMA PoolPollServes ==
  ASSUME Steady, ServiceInv, NEW k \in Jobs, Mad(MAD!PoolPoll(k))
  PROVE  ServiceInv'
<1>1. /\ <<"POLL", k>> \in tasks /\ tasks' = tasks \ {<<"POLL", k>>}
      /\ UNCHANGED <<to_mad, from_mad, mad_up, job_list, status, round, callback, remote>>
      /\ UNCHANGED gwdv
      /\ \/ /\ job_list[k] # 0
            /\ answers' = answers \union {<<"POLL", k, TRUE, status[job_list[k]]>>}
         \/ /\ job_list[k] = 0
            /\ answers' = answers \union {<<"POLL", k, FALSE, "-">>}
  BY DEF Mad, MAD!PoolPoll, MAD!pipes, Steady
<1>2. UNCHANGED <<job_state, em_state, counter, emq, dmq>>
  BY <1>1 DEF gwdv, tryv
<1>3. NoSubmission(k)
  <2>1. ~Unsent(k)
    BY <1>1 DEF Unsent, Forgotten
  <2> QED BY <2>1, NotSubmitted DEF ServiceInv, Submission
<1>4. PICK a : /\ answers' = answers \union {a} /\ a[2] = k /\ a[1] = "POLL" /\ Report(a)
               /\ Final(a) => Over(k)
  <2>1. CASE job_list[k] # 0
    <3> DEFINE b == <<"POLL", k, TRUE, status[job_list[k]]>>
    <3>1. job_list[k] \in DOMAIN status /\ status[job_list[k]] \in States
      BY <2>1 DEF ServiceInv, Types, MadTypes
    <3>2. b[2] = k /\ b[1] = "POLL" /\ Report(b)
      BY <3>1 DEF Report, Lines
    <3>3. Final(b) => Over(k)
      <4> SUFFICES ASSUME status[job_list[k]] = "DONE" PROVE Over(k)
        BY DEF Final
      <4>1. Called(k) /\ MAD!Live(k) \subseteq {job_list[k]} /\ remote[job_list[k]].state = "DONE"
        BY <2>1, <3>1 DEF ServiceInv, ListTrue, Types, MadTypes
      <4> QED BY <4>1 DEF Over, MAD!Live, MAD!Runs, MAD!LiveStates
    <3>4. answers' = answers \union {b}
      BY <1>1, <2>1
    <3> HIDE DEF b
    <3> QED BY <3>2, <3>3, <3>4
  <2>2. CASE job_list[k] = 0
    <3> DEFINE b == <<"POLL", k, FALSE, "-">>
    <3>1. b[2] = k /\ b[1] = "POLL" /\ Report(b)
      BY DEF Report, Lines
    <3>2. Over(k)
      BY <2>2 DEF Over, ServiceInv, ListTrue, Types, MadTypes, MAD!Live, MAD!Runs
    <3>3. answers' = answers \union {b}
      BY <1>1, <2>2
    <3> HIDE DEF b
    <3> QED BY <3>1, <3>2, <3>3
  <2> QED BY <2>1, <2>2
<1>5. /\ CallbackOK' /\ ListTrue'
      /\ \A j \in Jobs : Over(j)' = Over(j) /\ MAD!Live(j)' = MAD!Live(j) /\ Called(j)' = Called(j)
  BY <1>1, ListUnchanged
<1>6. SubmissionOf(k)'
  <2>1. ~Waiting(k)'
    BY <1>2, <1>3 DEF Waiting, NoSubmission
  <2>2. /\ From(emq, emq', {}) /\ From(dmq, dmq', {}) /\ From(to_mad, to_mad', {})
        /\ From(from_mad, from_mad', {})
    BY <1>1, <1>2, QueueTypes, FromQueue
  <2> QED BY <1>3, <2>1, <2>2, StaysSettled
<1>7. EndsOf(k)'
  <2>1. CASE Over(k)
    BY <1>5, <2>1 DEF EndsOf
  <2>2. CASE ~Over(k)
    <3>1. EndsOf(k)
      BY DEF ServiceInv, Ends
    <3> QED BY <1>1, <1>2, <1>4, <2>2, <3>1 DEF EndsOf
  <2> QED BY <2>1, <2>2
<1>8. MadTypes'
  BY <1>1, <1>4 DEF ServiceInv, Types, MadTypes
<1>9. \A j \in Jobs \ {k} : /\ \A b \in answers' : b[2] = j => b \in answers
                            /\ Forgotten(j) => Forgotten(j)'
                            /\ Over(j) => Over(j)'
  BY <1>1, <1>4, <1>5 DEF Forgotten
<1>10. MadStep(k)
  <2>1. About(to_mad, to_mad', Commands, k) /\ About(from_mad, from_mad', Lines, k)
    BY <1>1 DEF About
  <2>2. \A i \in DOMAIN from_mad' : from_mad'[i][1] # "SUBMIT" => Report(from_mad'[i])
    BY <1>1 DEF ServiceInv, Types, PipeTypes
  <2> QED BY <1>1, <1>5, <1>6, <1>7, <1>8, <1>9, <2>1, <2>2 DEF MadStep
<1> QED BY <1>10, MadStepServes

\* An answer is printed when its thread runs again.
LEMMA PoolPrintServes ==
  ASSUME Steady, ServiceInv, NEW a \in answers, Mad(MAD!PoolPrint(a))
  PROVE  ServiceInv'
<1>1. /\ answers' = answers \ {a} /\ from_mad' = Append(from_mad, a)
      /\ UNCHANGED <<to_mad, mad_up, job_list, status, tasks, round, callback, remote>>
      /\ UNCHANGED gwdv
  BY DEF Mad, MAD!PoolPrint, MAD!Say
<1>2. UNCHANGED <<job_state, em_state, counter, emq, dmq>>
  BY <1>1 DEF gwdv, tryv
<1>3. Report(a) /\ a \in Lines /\ a[1] = "POLL"
  BY DEF ServiceInv, Types, MadTypes, Report
<1>4. PICK k \in Jobs : a[2] = k
  BY <1>3 DEF Lines
<1>5. NoSubmission(k)
  <2>1. ~Unsent(k)
    BY <1>4 DEF Unsent, Forgotten
  <2> QED BY <2>1, NotSubmitted DEF ServiceInv, Submission
<1>6. /\ CallbackOK' /\ ListTrue'
      /\ \A j \in Jobs : Over(j)' = Over(j) /\ MAD!Live(j)' = MAD!Live(j) /\ Called(j)' = Called(j)
  BY <1>1, ListUnchanged
<1>7. /\ About(to_mad, to_mad', Commands, k) /\ About(from_mad, from_mad', Lines, k)
      /\ \A i \in DOMAIN from_mad' : from_mad'[i][1] # "SUBMIT" => Report(from_mad'[i])
      /\ From(to_mad, to_mad', {}) /\ From(from_mad, from_mad', {a})
  BY <1>1, <1>3, <1>4, PipesAbout
<1>8. From(emq, emq', {}) /\ From(dmq, dmq', {})
  BY <1>2, QueueTypes, FromQueue
<1>9. SubmissionOf(k)'
  <2>1. ~Waiting(k)' /\ ~SubmitF(a, k)
    BY <1>2, <1>3, <1>5 DEF Waiting, NoSubmission, SubmitF
  <2> QED BY <1>5, <1>7, <1>8, <2>1, StaysSettled
<1>10. EndsOf(k)'
  <2>1. CASE Over(k)
    BY <1>6, <2>1 DEF EndsOf
  <2>2. CASE ~Over(k)
    <3>1. EndsOf(k) /\ ~(a[2] = k /\ Final(a))
      BY <2>2 DEF ServiceInv, Ends, EndsOf
    <3> QED BY <1>1, <1>2, <1>7, <1>8, <2>2, <3>1, StaysTrue
  <2> QED BY <2>1, <2>2
<1>11. MadTypes'
  BY <1>1 DEF ServiceInv, Types, MadTypes
<1>12. \A j \in Jobs \ {k} : /\ \A b \in answers' : b[2] = j => b \in answers
                             /\ Forgotten(j) => Forgotten(j)'
                             /\ Over(j) => Over(j)'
  BY <1>1, <1>6 DEF Forgotten
<1>13. MadStep(k)
  BY <1>1, <1>6, <1>7, <1>9, <1>10, <1>11, <1>12 DEF MadStep
<1> QED BY <1>13, MadStepServes

\* The steps that leave the pipes, the tasks and the answers alone.
LEMMA QuietStepServes ==
  ASSUME ServiceInv, NEW k \in Jobs,
         UNCHANGED <<gwdv, to_mad, from_mad, mad_up, tasks, answers>>,
         MadTypes', CallbackOK', ListTrue',
         \A j \in Jobs \ {k} : (Forgotten(j) => Forgotten(j)') /\ (Over(j) => Over(j)'),
         ~Forgotten(k) \/ Forgotten(k)', Over(k) => Over(k)'
  PROVE  ServiceInv'
<1>1. UNCHANGED <<job_state, em_state, counter, emq, dmq>>
  BY DEF gwdv, tryv
<1>2. /\ From(emq, emq', {}) /\ From(dmq, dmq', {}) /\ From(to_mad, to_mad', {})
      /\ From(from_mad, from_mad', {})
  BY <1>1, QueueTypes, FromQueue
<1>3. SubmissionOf(k)'
  <2>1. CASE ~Forgotten(k)
    <3>1. NoSubmission(k)
      BY <2>1, NotSubmitted DEF ServiceInv, Submission, Unsent
    <3>2. ~Waiting(k)'
      BY <1>1, <3>1 DEF Waiting, NoSubmission
    <3> QED BY <1>2, <3>1, <3>2, StaysSettled
  <2>2. CASE Forgotten(k) /\ Forgotten(k)'
    <3>1. Aside(k)
      <4>1. /\ Kept(emq, emq', k) /\ Kept(dmq, dmq', k)
            /\ Kept(to_mad, to_mad', k) /\ Kept(from_mad, from_mad', k)
        BY <1>1, QueueTypes, KeptQueue
      <4> QED BY <1>1, <2>2, <4>1 DEF Aside
    <3>2. Types'
      BY <1>1 DEF ServiceInv, Types, GwdTypes, JobTypes, PipeTypes, gwdv, tryv
    <3> QED BY <3>1, <3>2, SubmissionAside DEF ServiceInv, Submission
  <2> QED BY <2>1, <2>2
<1>4. EndsOf(k)'
  BY <1>1, <1>2, StaysTrue DEF ServiceInv, Ends
<1>5. MadStep(k)
  <2>1. About(to_mad, to_mad', Commands, k) /\ About(from_mad, from_mad', Lines, k)
    BY DEF About
  <2>2. \A i \in DOMAIN from_mad' : from_mad'[i][1] # "SUBMIT" => Report(from_mad'[i])
    BY DEF ServiceInv, Types, PipeTypes
  <2> QED BY <1>3, <1>4, <2>1, <2>2 DEF MadStep
<1> QED BY <1>5, MadStepServes

\* The steps of the callback thread and of the batch systems leave these alone.
LEMMA ListTypes ==
  ASSUME ServiceInv
  PROVE  /\ remote \in Seq([job : Jobs, state : {"PENDING", "ACTIVE", "DONE"}])
         /\ status \in Seq(States) /\ DOMAIN status = DOMAIN remote
         /\ job_list \in [Jobs -> Nat]
         /\ \A j \in Jobs : job_list[j] # 0 => job_list[j] \in DOMAIN remote
         /\ 0 \notin DOMAIN remote
         /\ \A r \in DOMAIN remote :
              remote[r] \in [job : Jobs, state : {"PENDING", "ACTIVE", "DONE"}]
<1> DEFINE Remotes == [job : Jobs, state : {"PENDING", "ACTIVE", "DONE"}]
<1>0. remote \in Seq(Remotes)
  BY DEF ServiceInv, Types, MadTypes
<1> HIDE DEF Remotes
<1>1. /\ status \in Seq(States) /\ Len(status) = Len(remote)
      /\ job_list \in [Jobs -> 0..Len(remote)]
  BY DEF ServiceInv, Types, MadTypes
<1>2. \A r \in DOMAIN remote : remote[r] \in Remotes
  BY <1>0
<1>3. /\ status \in Seq(States) /\ DOMAIN status = DOMAIN remote
      /\ job_list \in [Jobs -> Nat]
      /\ \A j \in Jobs : job_list[j] # 0 => job_list[j] \in DOMAIN remote
      /\ 0 \notin DOMAIN remote
  BY <1>0, <1>1
<1> QED BY <1>0, <1>2, <1>3 DEF Remotes

\* A round of do_CALLBACK takes the items of the job list as they are.
LEMMA CallbackRoundServes ==
  ASSUME Steady, ServiceInv, Mad(MAD!CallbackRound)
  PROVE  ServiceInv'
<1>1. /\ callback = <<>> /\ MAD!Keys # {}
      /\ round' = {<<j, job_list[j]>> : j \in MAD!Keys}
      /\ UNCHANGED <<job_list, status, tasks, answers, callback, remote>>
      /\ UNCHANGED <<gwdv, to_mad, from_mad, mad_up, tasks, answers>>
  BY DEF Mad, MAD!CallbackRound, MAD!pipes
<1>2. PICK k \in Jobs : TRUE
  BY <1>1 DEF MAD!Keys
<1>3. MadTypes'
  <2>1. round' \subseteq Jobs \X Nat
    BY <1>1, ListTypes DEF MAD!Keys
  <2> QED BY <1>1, <2>1 DEF ServiceInv, Types, MadTypes
<1>4. CallbackOK'
  <2>1. \A e \in round' : e[2] # 0 /\ job_list'[e[1]] = e[2] /\ ~Called(e[1])'
    BY <1>1 DEF MAD!Keys, Called
  <2> QED BY <1>1, <2>1 DEF CallbackOK
<1>5. ListTrue' /\ \A j \in Jobs : Over(j)' = Over(j) /\ Forgotten(j)' = Forgotten(j)
  <2>1. ListTrue'
    BY <1>1 DEF ServiceInv, ListTrue, MAD!Live, MAD!Runs, Called
  <2>2. \A j \in Jobs : Over(j)' = Over(j)
    BY <1>1 DEF Over, MAD!Live, MAD!Runs, Called
  <2>3. \A j \in Jobs : Forgotten(j)' = Forgotten(j)
    BY <1>1 DEF Forgotten, MAD!Live, MAD!Runs, Called
  <2> QED BY <2>1, <2>2, <2>3
<1> QED BY <1>1, <1>2, <1>3, <1>4, <1>5, QuietStepServes

\* refreshJobStatus: a remote job that is DONE is about to leave the list.
LEMMA CallbackRefreshServes ==
  ASSUME Steady, ServiceInv, NEW k \in Jobs, NEW r \in MAD!Runs,
         Mad(MAD!CallbackRefresh(k, r))
  PROVE  ServiceInv'
<1>1. /\ callback = <<>> /\ <<k, r>> \in round /\ round' = round \ {<<k, r>>}
      /\ UNCHANGED <<job_list, remote>>
      /\ UNCHANGED <<gwdv, to_mad, from_mad, mad_up, tasks, answers>>
  BY DEF Mad, MAD!CallbackRefresh, Steady
<1>2. PICK s \in MAD!Seen(r) :
        /\ status' = [status EXCEPT ![r] = s]
        /\ callback' = IF s \in MAD!Ended \/ s # status[r] THEN <<k, r, "refreshed">> ELSE <<>>
  BY DEF Mad, MAD!CallbackRefresh, Steady
<1>3. r \in DOMAIN remote /\ r \in DOMAIN status /\ r # 0
  BY ListTypes DEF MAD!Runs
<1>4. s \in States /\ (s = "DONE" => remote[r].state = "DONE")
  <2>1. remote[r] \in [job : Jobs, state : {"PENDING", "ACTIVE", "DONE"}]
    BY <1>3, ListTypes
  <2>2. remote[r].state \in {"PENDING", "ACTIVE", "DONE"}
    BY <2>1
  <2> QED BY <2>2 DEF MAD!Seen, States
<1>5. job_list[k] = r /\ r \in Nat
  BY <1>1, ListTypes DEF ServiceInv, CallbackOK
<1>6. callback' \in {<<>>, <<k, r, "refreshed">>} /\ (s = "DONE" => callback' = <<k, r, "refreshed">>)
  BY <1>2 DEF MAD!Ended
<1>7. \A j \in Jobs : Called(j)' => j = k
  BY <1>6 DEF Called
<1>8. status'[r] = s /\ \A n \in DOMAIN remote \ {r} : status'[n] = status[n]
  BY <1>2, <1>3, ListTypes
<1>9. MadTypes'
  <2>1. status' \in Seq(States) /\ Len(status') = Len(remote')
    BY <1>1, <1>2, <1>3, <1>4 DEF ServiceInv, Types, MadTypes
  <2>2. callback' = <<>> \/ callback' \in Jobs \X Nat \X {"refreshed", "deleted"}
    BY <1>5, <1>6
  <2> QED BY <1>1, <2>1, <2>2 DEF ServiceInv, Types, MadTypes
<1>10. CallbackOK'
  <2>1. \A e \in round' : e[2] # 0 /\ job_list'[e[1]] = e[2] /\ ~Called(e[1])'
    <3> SUFFICES ASSUME NEW e \in round, e # <<k, r>>
                 PROVE  e[2] # 0 /\ job_list[e[1]] = e[2] /\ ~Called(e[1])'
      BY <1>1
    <3>1. e[2] # 0 /\ job_list[e[1]] = e[2] /\ e \in Jobs \X Nat
      BY DEF ServiceInv, CallbackOK, Types, MadTypes
    <3>2. e[1] # k
      BY <1>5, <3>1
    <3>3. e[1] \in Jobs
      BY <3>1
    <3> QED BY <1>7, <3>1, <3>2, <3>3
  <2>2. ASSUME callback' # <<>>
        PROVE  /\ callback'[2] \in DOMAIN remote'
               /\ job_list'[callback'[1]] = IF callback'[3] = "deleted" THEN 0 ELSE callback'[2]
    <3>1. callback' = <<k, r, "refreshed">>
      BY <1>6, <2>2
    <3> QED BY <1>1, <1>3, <1>5, <3>1
  <2> QED BY <2>1, <2>2 DEF CallbackOK
<1>11. ListTrue'
  <2>1. \A j \in Jobs : MAD!Live(j)' \subseteq {job_list'[j]}
    BY <1>1 DEF ServiceInv, ListTrue, MAD!Live, MAD!Runs
  <2>2. \A j \in Jobs : job_list'[j] # 0 => remote'[job_list'[j]].job = j
    BY <1>1 DEF ServiceInv, ListTrue
  <2>3. \A n \in DOMAIN remote' : status'[n] = "DONE" => remote'[n].state = "DONE"
    BY <1>1, <1>4, <1>8 DEF ServiceInv, ListTrue
  <2>4. ASSUME NEW j \in Jobs, job_list[j] # 0, status'[job_list[j]] = "DONE"
        PROVE  Called(j)'
    <3>1. CASE j = k
      BY <1>5, <1>6, <1>8, <2>4, <3>1 DEF Called
    <3>2. CASE j # k
      <4>1. job_list[j] # r
        BY <1>3, <1>5, <2>4, <3>2 DEF ServiceInv, ListTrue
      <4>2. status[job_list[j]] = "DONE"
        BY <1>8, <2>4, <4>1, ListTypes
      <4> QED BY <1>1, <2>4, <4>2 DEF ServiceInv, ListTrue, Called
    <3> QED BY <3>1, <3>2
  <2> QED BY <1>1, <2>1, <2>2, <2>3, <2>4 DEF ListTrue
<1>12. ~Forgotten(k) /\ ~Over(k)
  BY <1>1, <1>3, <1>5 DEF Forgotten, Over, Called
<1>13. \A j \in Jobs \ {k} : (Forgotten(j) => Forgotten(j)') /\ (Over(j) => Over(j)')
  <2> SUFFICES ASSUME NEW j \in Jobs \ {k}
               PROVE  (Forgotten(j) => Forgotten(j)') /\ (Over(j) => Over(j)')
    OBVIOUS
  <2>1. MAD!Live(j)' = MAD!Live(j) /\ job_list'[j] = job_list[j] /\ ~Called(j)'
    BY <1>1, <1>7 DEF MAD!Live, MAD!Runs
  <2>2. Over(j) => job_list[j] = 0
    BY <1>1 DEF Over, Called
  <2> QED BY <1>1, <2>1, <2>2 DEF Forgotten, Over
<1> QED BY <1>1, <1>9, <1>10, <1>11, <1>12, <1>13, QuietStepServes

\* A job that ended leaves the list.
LEMMA CallbackDeleteServes ==
  ASSUME Steady, ServiceInv, Mad(MAD!CallbackDelete)
  PROVE  ServiceInv'
<1>1. /\ callback # <<>> /\ callback[3] = "refreshed" /\ status[callback[2]] \in MAD!Ended
      /\ job_list' = [job_list EXCEPT ![callback[1]] = 0]
      /\ callback' = [callback EXCEPT ![3] = "deleted"]
      /\ UNCHANGED <<status, round, remote>>
      /\ UNCHANGED <<gwdv, to_mad, from_mad, mad_up, tasks, answers>>
  BY DEF Mad, MAD!CallbackDelete, MAD!pipes
<1>2. PICK k \in Jobs, r \in Nat : callback = <<k, r, "refreshed">>
  BY <1>1 DEF ServiceInv, Types, MadTypes
<1>3. callback' = <<k, r, "deleted">>
  BY <1>1, <1>2
<1>4. job_list[k] = r /\ r \in DOMAIN remote
  BY <1>2 DEF ServiceInv, CallbackOK
<1>5. status[r] = "DONE" /\ remote[r].state = "DONE"
  <2>1. status[r] \in States
    BY <1>4, ListTypes
  <2>2. status[r] = "DONE"
    BY <1>1, <1>2, <2>1 DEF MAD!Ended, States
  <2> QED BY <1>4, <2>2 DEF ServiceInv, ListTrue
<1>6. MAD!Live(k) = {} /\ \A j : MAD!Live(j)' = MAD!Live(j)
  <2>1. MAD!Live(k) \subseteq {r}
    BY <1>4 DEF ServiceInv, ListTrue
  <2> QED BY <1>1, <1>5, <2>1 DEF MAD!Live, MAD!Runs, MAD!LiveStates
<1>7. job_list'[k] = 0 /\ \A j \in Jobs \ {k} : job_list'[j] = job_list[j]
  BY <1>1, <1>2, ListTypes
<1>8. \A j : Called(j)' <=> Called(j)
  BY <1>2, <1>3 DEF Called
<1>9. Called(k)
  BY <1>2 DEF Called
<1>10. MadTypes'
  <2>1. job_list' \in [Jobs -> 0..Len(remote')]
    BY <1>1, <1>2 DEF ServiceInv, Types, MadTypes
  <2>2. callback' \in Jobs \X Nat \X {"refreshed", "deleted"}
    BY <1>2, <1>3
  <2> QED BY <1>1, <2>1, <2>2 DEF ServiceInv, Types, MadTypes
<1>11. CallbackOK'
  <2>1. \A e \in round' : e[2] # 0 /\ job_list'[e[1]] = e[2] /\ ~Called(e[1])'
    <3> SUFFICES ASSUME NEW e \in round
                 PROVE  e[2] # 0 /\ job_list'[e[1]] = e[2] /\ ~Called(e[1])'
      BY <1>1
    <3>1. e[2] # 0 /\ job_list[e[1]] = e[2] /\ ~Called(e[1]) /\ e \in Jobs \X Nat
      BY DEF ServiceInv, CallbackOK, Types, MadTypes
    <3>2. e[1] \in Jobs /\ e[1] # k
      BY <1>9, <3>1
    <3> QED BY <1>7, <1>8, <3>1, <3>2
  <2>2. /\ callback'[2] \in DOMAIN remote'
        /\ job_list'[callback'[1]] = IF callback'[3] = "deleted" THEN 0 ELSE callback'[2]
    BY <1>1, <1>3, <1>4, <1>7
  <2> QED BY <2>1, <2>2 DEF CallbackOK
<1>12. ListTrue'
  <2>1. \A j \in Jobs : MAD!Live(j)' \subseteq {job_list'[j]}
    BY <1>6, <1>7 DEF ServiceInv, ListTrue
  <2>2. \A j \in Jobs : job_list'[j] # 0 => job_list'[j] = job_list[j]
    BY <1>7
  <2>3. \A j \in Jobs : job_list'[j] # 0 => remote'[job_list'[j]].job = j
    BY <1>1, <2>2 DEF ServiceInv, ListTrue
  <2>4. \A n \in DOMAIN remote' : status'[n] = "DONE" => remote'[n].state = "DONE"
    BY <1>1 DEF ServiceInv, ListTrue
  <2>5. \A j \in Jobs : job_list'[j] # 0 /\ status'[job_list'[j]] = "DONE" => Called(j)'
    BY <1>1, <1>8, <2>2 DEF ServiceInv, ListTrue
  <2> QED BY <2>1, <2>3, <2>4, <2>5 DEF ListTrue
<1>13. ~Forgotten(k) /\ Over(k)'
  BY <1>6, <1>7, <1>9 DEF Forgotten, Over
<1>14. \A j \in Jobs \ {k} : (Forgotten(j) => Forgotten(j)') /\ (Over(j) => Over(j)')
  BY <1>1, <1>6, <1>7, <1>8 DEF Forgotten, Over
<1> QED BY <1>1, <1>10, <1>11, <1>12, <1>13, <1>14, QuietStepServes

\* A state is reported: the job has left the list, or is not DONE.
LEMMA CallbackReportServes ==
  ASSUME Steady, ServiceInv, Mad(MAD!CallbackReport)
  PROVE  ServiceInv'
<1>1. /\ callback # <<>> /\ callback' = <<>>
      /\ callback[3] = "deleted" \/ status[callback[2]] \notin MAD!Ended
      /\ from_mad' = Append(from_mad, <<"CALLBACK", callback[1], TRUE, status[callback[2]]>>)
      /\ UNCHANGED <<to_mad, mad_up, job_list, status, tasks, answers, round, remote>>
      /\ UNCHANGED gwdv
  BY DEF Mad, MAD!CallbackReport, MAD!Say
<1>2. PICK k \in Jobs, r \in Nat : callback[1] = k /\ callback[2] = r
  BY <1>1 DEF ServiceInv, Types, MadTypes
<1>3. /\ r \in DOMAIN remote /\ status[r] \in States
      /\ job_list[k] = IF callback[3] = "deleted" THEN 0 ELSE r
  BY <1>1, <1>2, ListTypes DEF ServiceInv, CallbackOK
<1>4. PICK l : l = <<"CALLBACK", k, TRUE, status[r]>>
  OBVIOUS
<1>5. l \in Lines /\ l[2] = k /\ l[1] # "SUBMIT" /\ Report(l)
  BY <1>3, <1>4 DEF Lines, Report
<1>6. Called(k) /\ \A j \in Jobs : ~Called(j)' /\ (Called(j) => j = k)
  BY <1>1, <1>2 DEF Called
<1>7. job_list[k] # 0 => status[job_list[k]] # "DONE"
  BY <1>1, <1>2, <1>3 DEF MAD!Ended
<1>8. \A j \in Jobs : MAD!Live(j)' = MAD!Live(j)
  BY <1>1 DEF MAD!Live, MAD!Runs
<1>9. \A j \in Jobs : Over(j) => Over(j)'
  BY <1>1, <1>6, <1>7, <1>8 DEF Over
<1>10. Final(l) => Over(k)
  <2> SUFFICES ASSUME status[r] = "DONE" PROVE Over(k)
    BY <1>4 DEF Final
  <2>1. job_list[k] = 0
    BY <1>3, <1>7
  <2> QED BY <2>1, ListTypes DEF Over, ServiceInv, ListTrue, MAD!Live, MAD!Runs
<1>11. UNCHANGED <<job_state, em_state, counter, emq, dmq>>
  BY <1>1 DEF gwdv, tryv
<1>12. /\ About(to_mad, to_mad', Commands, k) /\ About(from_mad, from_mad', Lines, k)
       /\ \A i \in DOMAIN from_mad' : from_mad'[i][1] # "SUBMIT" => Report(from_mad'[i])
       /\ From(to_mad, to_mad', {}) /\ From(from_mad, from_mad', {l})
  BY <1>1, <1>2, <1>4, <1>5, PipesAbout
<1>13. From(emq, emq', {}) /\ From(dmq, dmq', {})
  BY <1>11, QueueTypes, FromQueue
<1>14. SubmissionOf(k)'
  <2>1. NoSubmission(k)
    BY <1>6, NotSubmitted DEF ServiceInv, Submission, Unsent, Forgotten
  <2>2. ~Waiting(k)' /\ ~SubmitF(l, k)
    BY <1>5, <1>11, <2>1 DEF Waiting, NoSubmission, SubmitF
  <2> QED BY <1>12, <1>13, <2>1, <2>2, StaysSettled
<1>15. EndsOf(k)'
  <2>1. CASE Over(k)
    BY <1>9, <2>1 DEF EndsOf
  <2>2. CASE ~Over(k)
    <3>1. EndsOf(k) /\ ~Final(l)
      BY <1>10, <2>2 DEF ServiceInv, Ends
    <3>2. /\ \A x \in {l} : ~(x[2] = k /\ Final(x))
          /\ \A a \in answers' : a \in answers
          /\ Over(k) => Over(k)'
      BY <1>1, <1>9, <3>1
    <3>3. UNCHANGED <<job_state, emq, dmq>>
      BY <1>11
    <3> QED BY <1>12, <1>13, <2>2, <3>1, <3>2, <3>3, StaysTrue
  <2> QED BY <2>1, <2>2
<1>16. MadTypes'
  BY <1>1 DEF ServiceInv, Types, MadTypes
<1>17. CallbackOK'
  <2>1. \A e \in round' : e[2] # 0 /\ job_list'[e[1]] = e[2] /\ ~Called(e[1])'
    <3> SUFFICES ASSUME NEW e \in round
                 PROVE  e[2] # 0 /\ job_list[e[1]] = e[2] /\ ~Called(e[1])'
      BY <1>1
    <3>1. e[1] \in Jobs
      BY DEF ServiceInv, Types, MadTypes
    <3> QED BY <1>6, <3>1 DEF ServiceInv, CallbackOK
  <2> QED BY <1>1, <2>1 DEF CallbackOK
<1>18. ListTrue'
  <2>1. \A j \in Jobs : job_list'[j] # 0 /\ status'[job_list'[j]] = "DONE" => Called(j)'
    BY <1>1, <1>6, <1>7 DEF ServiceInv, ListTrue
  <2> QED BY <1>1, <1>8, <2>1 DEF ServiceInv, ListTrue
<1>19. \A j \in Jobs \ {k} : /\ \A a \in answers' : a[2] = j => a \in answers
                             /\ Forgotten(j) => Forgotten(j)'
                             /\ Over(j) => Over(j)'
  BY <1>1, <1>6, <1>8, <1>9 DEF Forgotten
<1>20. MadStep(k)
  BY <1>1, <1>12, <1>14, <1>15, <1>16, <1>17, <1>18, <1>19 DEF MadStep
<1> QED BY <1>20, MadStepServes

\* A remote job proceeds: it is the only one of its job that lives.
LEMMA RemoteStepServes ==
  ASSUME Steady, ServiceInv, NEW r \in MAD!Runs, Mad(MAD!RemoteStep(r))
  PROVE  /\ ServiceInv'
         /\ \E k \in Jobs :
              /\ MAD!Live(k) = {r} /\ MAD!Live(k)' \in {{}, {r}}
              /\ job_state[k] = "WRAPPER"
              /\ \A j \in Jobs \ {k} : MAD!Live(j)' = MAD!Live(j)
<1>1. /\ \/ remote[r].state = "PENDING" /\ remote' = [remote EXCEPT ![r].state = "ACTIVE"]
         \/ remote[r].state = "ACTIVE" /\ remote' = [remote EXCEPT ![r].state = "DONE"]
      /\ UNCHANGED <<job_list, status, round, callback>>
      /\ UNCHANGED <<gwdv, to_mad, from_mad, mad_up, tasks, answers>>
  BY DEF Mad, MAD!RemoteStep, MAD!pipes, Steady
<1>2. r \in DOMAIN remote /\ remote[r] \in [job : Jobs, state : {"PENDING", "ACTIVE", "DONE"}]
  <2>1. r \in DOMAIN remote
    BY DEF MAD!Runs
  <2> QED BY <2>1, ListTypes
<1>3. PICK k \in Jobs : remote[r].job = k
  BY <1>2
<1>4. PICK s \in {"ACTIVE", "DONE"} : remote' = [remote EXCEPT ![r].state = s]
  BY <1>1
<1>5. DOMAIN remote' = DOMAIN remote /\ remote'[r].job = k /\ remote'[r].state = s
      /\ \A n \in DOMAIN remote \ {r} : remote'[n] = remote[n]
  BY <1>2, <1>3, <1>4, ListTypes
<1>6. MAD!Live(k) = {r} /\ job_list[k] = r
  <2>1. r \in MAD!Live(k)
    BY <1>1, <1>2, <1>3 DEF MAD!Live, MAD!Runs, MAD!LiveStates
  <2> QED BY <2>1 DEF ServiceInv, ListTrue
<1>7. MAD!Live(k)' \in {{}, {r}} /\ \A j \in Jobs \ {k} : MAD!Live(j)' = MAD!Live(j)
  <2>1. MAD!Live(k)' \subseteq MAD!Live(k)
    BY <1>5, <1>6 DEF MAD!Live, MAD!Runs
  <2>2. ASSUME NEW j \in Jobs \ {k} PROVE MAD!Live(j)' = MAD!Live(j)
    BY <1>3, <1>5 DEF MAD!Live, MAD!Runs
  <2> QED BY <1>6, <2>1, <2>2
<1>8. job_state[k] = "WRAPPER"
  BY <1>6 DEF ServiceInv, Ends, EndsOf, Over
<1>9. MadTypes'
  <2>1. remote' \in Seq([job : Jobs, state : {"PENDING", "ACTIVE", "DONE"}])
        /\ Len(remote') = Len(remote)
    <3>1. [remote[r] EXCEPT !.state = s] \in [job : Jobs, state : {"PENDING", "ACTIVE", "DONE"}]
      BY <1>2
    <3>2. remote' = [remote EXCEPT ![r] = [remote[r] EXCEPT !.state = s]]
      BY <1>4
    <3> DEFINE rec == [remote[r] EXCEPT !.state = s]
    <3> HIDE DEF rec
    <3> QED BY <1>2, <3>1, <3>2, ListTypes DEF rec
  <2> QED BY <1>1, <2>1 DEF ServiceInv, Types, MadTypes
<1>10. CallbackOK'
  BY <1>1, <1>5 DEF ServiceInv, CallbackOK, Called
<1>11. ListTrue'
  <2>1. \A j \in Jobs : MAD!Live(j)' \subseteq {job_list'[j]}
    BY <1>1, <1>6, <1>7 DEF ServiceInv, ListTrue
  <2>2. ASSUME NEW j \in Jobs, job_list[j] # 0 PROVE remote'[job_list[j]].job = j
    <3>1. job_list[j] \in DOMAIN remote /\ remote[job_list[j]].job = j
      BY <2>2, ListTypes DEF ServiceInv, ListTrue
    <3> QED BY <1>3, <1>5, <3>1
  <2>3. ASSUME NEW n \in DOMAIN remote, status[n] = "DONE" PROVE remote'[n].state = "DONE"
    <3>1. remote[n].state = "DONE"
      BY <2>3 DEF ServiceInv, ListTrue
    <3> QED BY <1>1, <1>5, <3>1
  <2>4. \A j \in Jobs : job_list'[j] # 0 /\ status'[job_list'[j]] = "DONE" => Called(j)'
    BY <1>1 DEF ServiceInv, ListTrue, Called
  <2> QED BY <1>1, <1>5, <2>1, <2>2, <2>3, <2>4 DEF ListTrue
<1>12. ~Forgotten(k) /\ ~Over(k)
  BY <1>6 DEF Forgotten, Over
<1>13. \A j \in Jobs \ {k} : (Forgotten(j) => Forgotten(j)') /\ (Over(j) => Over(j)')
  BY <1>1, <1>7 DEF Forgotten, Over, Called
<1>14. ServiceInv'
  BY <1>1, <1>9, <1>10, <1>11, <1>12, <1>13, QuietStepServes
<1> QED BY <1>6, <1>7, <1>8, <1>14

-----------------------------------------------------------------------------
(* What the dispatch manager sees: the refinement of Wrappers.             *)

asked   == {j \in Jobs : job_state[j] \in ExecStates}
running == {j \in Jobs : MAD!Live(j) # {}}

\* A step that the DM, as Wrappers has it, may see: one of its actions or none.
Serves == ServiceInv' /\ (Service!Next \/ UNCHANGED <<asked, running>>)

\* Under Steady a job is either in WRAPPER or not being executed.
LEMMA AskedIs ==
  ASSUME ServiceInv
  PROVE  asked = {j \in Jobs : job_state[j] = "WRAPPER"}
BY DEF ServiceInv, Types, GwdTypes, JobTypes, asked, ExecStates, CancelStates

\* A step that neither starts nor ends a wrapper, nor opens or closes a request.
LEMMA Unnoticed ==
  ASSUME ServiceInv, ServiceInv', UNCHANGED job_state,
         \A j \in Jobs : MAD!Live(j)' = MAD!Live(j)
  PROVE  Serves
<1>1. asked' = asked /\ running' = running
  BY DEF asked, running
<1> QED BY <1>1 DEF Serves

\* The steps of gwd leave the remote jobs alone.
LEMMA GwdRunning ==
  ASSUME ServiceInv, UNCHANGED madv
  PROVE  running' = running
BY MadUnchanged DEF running

\* gw_dm_wrapper opens a request.
LEMMA DispatchRefines ==
  ASSUME Steady, ServiceInv, NEW k \in Jobs, NEW h \in Hosts, Gwd(DMDispatch(k, h))
  PROVE  Serves
<1>1. ServiceInv'
  BY DispatchServes
<1>2. job_state[k] = "PENDING" /\ job_state' = [job_state EXCEPT ![k] = "WRAPPER"]
  BY DEF Gwd, DMDispatch, ToWrapper, Steady
<1>3. asked' = asked \union {k} /\ k \notin asked
  <2>1. job_state \in [Jobs -> {"PENDING", "WRAPPER", "EPILOG"}]
    BY DEF ServiceInv, Types, GwdTypes, JobTypes
  <2> QED BY <1>2, <2>1 DEF asked, ExecStates, CancelStates
<1>4. running' = running
  BY GwdRunning DEF Gwd
<1> QED BY <1>1, <1>3, <1>4 DEF Serves, Service!Next, Service!Ask, asked, running

\* gw_dm_epilog closes one, when the wrapper is over; a second end changes nothing.
LEMMA DMStepRefines ==
  ASSUME Steady, ServiceInv, Gwd(DMStep)
  PROVE  Serves
<1>1. ServiceInv'
  BY DMStepServes
<1>2. running' = running
  BY GwdRunning DEF Gwd
<1>3. CASE UNCHANGED job_state
  BY <1>1, <1>2, <1>3 DEF Serves, asked
<1>4. CASE job_state' # job_state
  <2>1. PICK k \in Jobs : dmq # <<>> /\ Head(dmq)[2] = k
    <3>1. dmq # <<>>
      BY DEF Gwd, DMStep
    <3>2. Head(dmq) \in DMEntries
      BY <3>1, QueueTypes
    <3> QED BY <3>1, <3>2 DEF DMEntries
  <2>2. Head(dmq)[1] = "EPILOG" /\ job_state' = [job_state EXCEPT ![k] = "EPILOG"]
    <3>1. Head(dmq)[1] # "WRAPPER"
      BY <2>1, QueueTypes DEF DMEntries
    <3> QED BY <1>4, <2>1, <3>1 DEF Gwd, DMStep, DMWrapperDone, DMWrapperFailed
  <2>3. Over(k)
    <3>1. dmq[1][2] = k /\ dmq[1][1] = "EPILOG" /\ 1 \in DOMAIN dmq
      BY <2>1, <2>2, QueueTypes
    <3> QED BY <3>1 DEF ServiceInv, Ends, EndsOf
  <2>4. k \notin running
    BY <2>3 DEF Over, running
  <2>5. asked' = asked \ {k}
    <3>1. job_state \in [Jobs -> {"PENDING", "WRAPPER", "EPILOG"}]
      BY DEF ServiceInv, Types, GwdTypes, JobTypes
    <3> QED BY <2>2, <3>1 DEF asked, ExecStates, CancelStates
  <2>6. CASE k \in asked
    <3>1. Service!Close(k)
      BY <1>2, <2>4, <2>5, <2>6 DEF Service!Close, asked, running
    <3> QED BY <1>1, <3>1 DEF Serves, Service!Next
  <2>7. CASE k \notin asked
    BY <1>1, <1>2, <2>5, <2>7 DEF Serves
  <2> QED BY <2>6, <2>7
<1> QED BY <1>3, <1>4

\* A job that is scheduled again was not being executed.
LEMMA RescheduleRefines ==
  ASSUME Steady, ServiceInv, NEW k \in Jobs, Gwd(DMReschedule(k))
  PROVE  Serves
<1>1. ServiceInv'
  BY DMRescheduleServes
<1>2. job_state[k] = "EPILOG" /\ job_state' = [job_state EXCEPT ![k] = "PENDING"]
  BY DEF Gwd, DMReschedule
<1>3. asked' = asked
  <2>1. job_state \in [Jobs -> {"PENDING", "WRAPPER", "EPILOG"}]
    BY DEF ServiceInv, Types, GwdTypes, JobTypes
  <2> QED BY <1>2, <2>1 DEF asked, ExecStates, CancelStates
<1>4. running' = running
  BY GwdRunning DEF Gwd
<1> QED BY <1>1, <1>3, <1>4 DEF Serves

\* The EM and the listener leave the states of the jobs alone.
LEMMA EMRefines ==
  ASSUME Steady, ServiceInv,
         Gwd(EMStep) \/ Gwd(EMListen) \/ \E k \in Jobs : Gwd(EMPoll(k)) \/ Gwd(EMRetry(k))
  PROVE  Serves
<1>1. ServiceInv'
  BY EMStepServes, EMListenServes, EMPollServes, EMRetryServes
<1>2. UNCHANGED madv
  BY DEF Gwd
<1>3. UNCHANGED job_state
  <2>1. CASE Gwd(EMStep)
    BY <2>1 DEF Gwd, EMStep, EMSubmit, EMCancel, EMPhase, EMDone, EMFailed
  <2>2. CASE Gwd(EMListen)
    BY <2>2 DEF Gwd, EMListen
  <2>3. CASE \E k \in Jobs : Gwd(EMPoll(k)) \/ Gwd(EMRetry(k))
    BY <2>3 DEF Gwd, EMPoll, EMRetry
  <2> QED BY <2>1, <2>2, <2>3
<1> QED BY <1>1, <1>2, <1>3, MadUnchanged, Unnoticed

\* do_SUBMIT starts a wrapper, unless the batch system refuses it.
LEMMA MadReadRefines ==
  ASSUME Steady, ServiceInv, Mad(MAD!MadRead)
  PROVE  Serves
<1> DEFINE c == Head(to_mad)
           k == c[2]
<1>1. MAD!MadRead /\ UNCHANGED gwdv
  BY DEF Mad
<1>2. /\ to_mad # <<>> /\ to_mad' = Tail(to_mad)
      /\ UNCHANGED <<mad_up, answers, round, callback, crashes>>
  BY <1>1 DEF MAD!MadRead
<1>3. k \in Jobs /\ (c = <<"SUBMIT", k, 0>> \/ c = <<"POLL", k, 0>>)
  <2>1. c \in Commands
    BY <1>2, QueueTypes
  <2> QED BY <2>1 DEF Commands
<1>4. UNCHANGED job_state /\ asked' = asked
  BY <1>1 DEF gwdv, asked
<1>5. CASE UNCHANGED remote
  <2>1. \A j \in Jobs : MAD!Live(j)' = MAD!Live(j)
    BY <1>5 DEF MAD!Live, MAD!Runs
  <2> QED BY <1>4, <2>1, MadReadServes, Unnoticed
<1>6. ASSUME remote' # remote PROVE Serves
  <2>1. c = <<"SUBMIT", k, 0>>
    BY <1>1, <1>3, <1>6 DEF MAD!MadRead
  <2>2. MAD!MadSubmit(k) /\ UNCHANGED tasks
    BY <1>1, <2>1 DEF MAD!MadRead
  <2>3. ASSUME NEW r, r = Len(remote) + 1,
               remote' = Append(remote, [job |-> k, state |-> "PENDING"]),
               status' = Append(status, "None"),
               job_list' = [job_list EXCEPT ![k] = r],
               from_mad' = Append(from_mad, <<"SUBMIT", k, TRUE, r>>)
        PROVE  Serves
    <3>1. PICK m \in Jobs : m = k
      BY <1>3
    <3>2. /\ ServiceInv'
          /\ MAD!Live(m) = {} /\ MAD!Live(m)' = {r} /\ job_state[m] = "WRAPPER"
          /\ \A j \in Jobs \ {m} : MAD!Live(j)' = MAD!Live(j)
      <4>1. Head(to_mad) = <<"SUBMIT", m, 0>>
        BY <2>1, <3>1
      <4>2. /\ job_list' = [job_list EXCEPT ![m] = r]
            /\ remote' = Append(remote, [job |-> m, state |-> "PENDING"])
            /\ from_mad' = Append(from_mad, <<"SUBMIT", m, TRUE, r>>)
        BY <2>3, <3>1
      <4> HIDE DEF k, c
      <4> QED BY <1>1, <1>2, <2>2, <2>3, <4>1, <4>2, SubmitAcceptedServes
    <3>3. m \in asked /\ m \notin running /\ running' = running \union {m}
      BY <3>2, AskedIs DEF running
    <3>4. Service!Start(m)
      BY <1>4, <3>3 DEF Service!Start, asked, running
    <3> QED BY <3>2, <3>4 DEF Serves, Service!Next
  <2> QED BY <1>6, <2>2, <2>3 DEF MAD!MadSubmit, MAD!Say
<1> QED BY <1>5, <1>6

\* A wrapper ends, or its remote job proceeds and still lives.
LEMMA RemoteStepRefines ==
  ASSUME Steady, ServiceInv, NEW r \in MAD!Runs, Mad(MAD!RemoteStep(r))
  PROVE  Serves
<1>1. /\ ServiceInv'
      /\ \E k \in Jobs : /\ MAD!Live(k) = {r} /\ MAD!Live(k)' \in {{}, {r}}
                         /\ job_state[k] = "WRAPPER"
                         /\ \A j \in Jobs \ {k} : MAD!Live(j)' = MAD!Live(j)
  BY RemoteStepServes
<1>2. PICK k \in Jobs : /\ MAD!Live(k) = {r} /\ MAD!Live(k)' \in {{}, {r}}
                        /\ \A j \in Jobs \ {k} : MAD!Live(j)' = MAD!Live(j)
  BY <1>1
<1>3. UNCHANGED job_state
  BY DEF Mad, gwdv
<1>4. CASE MAD!Live(k)' = {r}
  BY <1>1, <1>2, <1>3, <1>4, Unnoticed
<1>5. CASE MAD!Live(k)' = {}
  <2>1. k \in running /\ running' = running \ {k} /\ asked' = asked
    BY <1>2, <1>3, <1>5 DEF running, asked
  <2>2. Service!Finish(k)
    BY <2>1 DEF Service!Finish, running, asked
  <2> QED BY <1>1, <2>2 DEF Serves, Service!Next
<1> QED BY <1>2, <1>4, <1>5

\* The pool and the callback thread start and end nothing.
LEMMA ThreadsRefine ==
  ASSUME Steady, ServiceInv,
         \/ Mad(MAD!CallbackThread)
         \/ \E k \in Jobs : Mad(MAD!PoolPoll(k))
         \/ \E a \in answers : Mad(MAD!PoolPrint(a))
  PROVE  Serves
<1>1. ServiceInv'
  <2>1. CASE Mad(MAD!CallbackThread)
    <3>1. \/ Mad(MAD!CallbackRound) \/ Mad(MAD!CallbackDelete) \/ Mad(MAD!CallbackReport)
          \/ \E j \in Jobs, r \in MAD!Runs : Mad(MAD!CallbackRefresh(j, r))
      BY <2>1 DEF Mad, MAD!CallbackThread
    <3> QED BY <3>1, CallbackRoundServes, CallbackDeleteServes, CallbackReportServes,
               CallbackRefreshServes
  <2> QED BY <2>1, PoolPollServes, PoolPrintServes
<1>2. UNCHANGED job_state
  BY DEF Mad, gwdv
<1>3. UNCHANGED remote
  BY DEF Mad, MAD!CallbackThread, MAD!CallbackRound, MAD!CallbackDelete,
         MAD!CallbackReport, MAD!CallbackRefresh, MAD!PoolPoll, MAD!PoolPrint
<1>4. \A j \in Jobs : MAD!Live(j)' = MAD!Live(j)
  BY <1>3 DEF MAD!Live, MAD!Runs
<1> QED BY <1>1, <1>2, <1>4, Unnoticed

\* The steps that Steady excludes: a cancel, a crash, and what follows them.
LEMMA Excluded ==
  ASSUME Steady, ServiceInv
  PROVE  /\ \A j \in Jobs, op \in {"STOP", "KILL"} : ~Gwd(DMCancel(j, op))
         /\ ~Gwd(EMReload) /\ ~Mad(MAD!MadCrash)
         /\ \A j \in Jobs : ~Mad(MAD!PoolCancel(j))
<1>1. \A j \in Jobs, op \in {"STOP", "KILL"} : ~Gwd(DMCancel(j, op))
  BY DEF Steady, Gwd, DMCancel
<1>2. ~Gwd(EMReload)
  BY DEF ServiceInv, Types, PipeTypes, Gwd, EMReload
<1>3. ~Mad(MAD!MadCrash)
  BY DEF Steady, Mad, MAD!MadCrash
<1>4. \A j \in Jobs : ~Mad(MAD!PoolCancel(j))
  BY DEF ServiceInv, Types, MadTypes, Mad, MAD!PoolCancel
<1> QED BY <1>1, <1>2, <1>3, <1>4

\* Every step of Execution serves the DM.
LEMMA StepServes ==
  ASSUME Steady, ServiceInv, [Next]_vars
  PROVE  Serves
<1>1. CASE Gwd(EMNext)
  <2>1. \/ Gwd(DMStep) \/ Gwd(EMStep) \/ Gwd(EMListen) \/ Gwd(EMReload)
        \/ \E j \in Jobs :
             \/ \E h \in Hosts : Gwd(DMDispatch(j, h))
             \/ \E op \in {"STOP", "KILL"} : Gwd(DMCancel(j, op))
             \/ Gwd(DMReschedule(j)) \/ Gwd(EMPoll(j)) \/ Gwd(EMRetry(j))
    BY <1>1 DEF Gwd, EMNext
  <2> QED BY <2>1, Excluded, DMStepRefines, EMRefines, DispatchRefines, RescheduleRefines
<1>2. CASE Mad(MAD!MadNext)
  <2>1. \/ Mad(MAD!MadRead) \/ Mad(MAD!CallbackThread) \/ Mad(MAD!MadCrash)
        \/ \E j \in Jobs : Mad(MAD!PoolPoll(j)) \/ Mad(MAD!PoolCancel(j))
        \/ \E a \in answers : Mad(MAD!PoolPrint(a))
        \/ \E r \in MAD!Runs : Mad(MAD!RemoteStep(r))
    BY <1>2 DEF Mad, MAD!MadNext
  <2> QED BY <2>1, Excluded, MadReadRefines, ThreadsRefine, RemoteStepRefines
<1>3. CASE UNCHANGED vars
  <2>1. UNCHANGED <<madv, emvars>>
    BY <1>3 DEF vars
  <2>2. UNCHANGED <<job_state, em_state, counter, tries, emq, dmq, to_mad, from_mad, mad_up>>
    BY <2>1 DEF emvars, tryv, pipv
  <2>3. UNCHANGED <<answers, tasks, callback, job_list, status, remote, round>>
    BY <2>1 DEF madv
  <2>4. Types'
    BY <2>2, MadUnchanged, <2>1 DEF ServiceInv, Types, GwdTypes, JobTypes, PipeTypes
  <2>5. Submission'
    <3> SUFFICES ASSUME NEW j \in Jobs PROVE SubmissionOf(j)'
      BY DEF Submission
    <3>1. Aside(j)
      <4>1. /\ Kept(emq, emq', j) /\ Kept(dmq, dmq', j)
            /\ Kept(to_mad, to_mad', j) /\ Kept(from_mad, from_mad', j)
        BY <2>2, QueueTypes, KeptQueue
      <4> QED BY <2>1, <2>2, <2>3, <4>1, MadUnchanged DEF Aside
    <3> QED BY <2>4, <3>1, SubmissionAside DEF ServiceInv, Submission
  <2>6. Ends'
    <3> SUFFICES ASSUME NEW j \in Jobs PROVE EndsOf(j)'
      BY DEF Ends
    <3>1. EndsOf(j)
      BY DEF ServiceInv, Ends
    <3> QED BY <2>1, <2>2, <2>3, <3>1, MadUnchanged DEF EndsOf
  <2>7. ServiceInv'
    BY <2>1, <2>4, <2>5, <2>6, MadUnchanged DEF ServiceInv
  <2> QED BY <2>1, <2>2, <2>7, MadUnchanged, Unnoticed
<1> QED BY <1>1, <1>2, <1>3 DEF Next

\* At the start no job is executed and no remote job was submitted.
LEMMA InitServes ==
  ASSUME Steady, Init
  PROVE  ServiceInv /\ Service!Init
<1>1. /\ job_state = [j \in Jobs |-> "PENDING"] /\ em_state = [j \in Jobs |-> "INIT"]
      /\ counter = [j \in Jobs |-> -1] /\ tries = [j \in Jobs |-> 0]
      /\ emq = <<>> /\ dmq = <<>> /\ to_mad = <<>> /\ from_mad = <<>> /\ mad_up
  BY DEF Init, EMInit
<1>2. /\ job_list = [j \in Jobs |-> 0] /\ status = <<>> /\ remote = <<>>
      /\ tasks = {} /\ answers = {} /\ round = {} /\ callback = <<>>
  BY DEF Init, MAD!MadInit
<1>3. \A j \in Jobs : MAD!Live(j) = {} /\ Over(j)
  BY <1>2 DEF MAD!Live, MAD!Runs, Over
<1>4. GwdTypes /\ PipeTypes
  BY <1>1 DEF GwdTypes, JobTypes, PipeTypes, EMStates
<1>5. MadTypes
  BY <1>2 DEF MadTypes
<1>6. CallbackOK /\ ListTrue
  BY <1>2, <1>3 DEF CallbackOK, ListTrue
<1>7. Submission
  BY <1>1 DEF Submission, SubmissionOf, Waiting
<1>8. Ends
  BY <1>3 DEF Ends, EndsOf
<1>9. Service!Init
  BY <1>1, <1>3 DEF Service!Init, ExecStates, CancelStates
<1> QED BY <1>4, <1>5, <1>6, <1>7, <1>8, <1>9 DEF ServiceInv, Types

\* The invariant holds of every behaviour of Execution under Steady.
LEMMA ServiceInvariance == Steady /\ Spec => [](Steady /\ ServiceInv)
<1> DEFINE Inv == Steady /\ ServiceInv
<1>1. Steady /\ Init => Inv
  BY InitServes
<1>2. Inv /\ [Next]_vars => Inv'
  BY StepServes DEF Serves, Steady
<1> QED BY <1>1, <1>2, PTL DEF Spec

\* Polls, callbacks and retries together never have two wrappers of one job running
\* (gw_em_failed, gw_em_timer, do_SUBMIT, do_CALLBACK), for any number of jobs, hosts,
\* retries, polls and faults that Steady allows.
THEOREM OneWrapper == Steady /\ Spec => []OneRun
<1>1. ServiceInv => OneRun
  <2> SUFFICES ASSUME ServiceInv, NEW j \in Jobs
               PROVE  Cardinality(MAD!Live(j)) <= 1
    BY DEF OneRun
  <2>1. MAD!Live(j) = {} \/ MAD!Live(j) = {job_list[j]}
    BY DEF ServiceInv, ListTrue
  <2>2. Cardinality({}) = 0 /\ Cardinality({job_list[j]}) = 1
    BY FS_EmptySet, FS_Singleton
  <2> QED BY <2>1, <2>2
<1> QED BY <1>1, ServiceInvariance, PTL

\* gwd and the execution MAD together implement Wrappers: no wrapper runs before the
\* dispatch manager asked for it or after gw_dm_wrapper_done_cb and gw_dm_epilog closed
\* the request, whatever the order in which the answers to SUBMIT, the polls and the
\* callbacks arrive.
THEOREM Implements == Steady /\ Spec => ServiceSpec
<1>1. Steady /\ Init => Service!Init
  BY InitServes
<1>2. Steady /\ ServiceInv /\ [Next]_vars
        => [Service!Next]_<<{j \in Jobs : job_state[j] \in ExecStates},
                            {j \in Jobs : MAD!Live(j) # {}}>>
  BY StepServes DEF Serves, asked, running
<1> QED BY <1>1, <1>2, ServiceInvariance, PTL DEF Spec, ServiceSpec, Service!Spec

-----------------------------------------------------------------------------
(* The charges: slots and active jobs of a host.                           *)

\* What the proofs of the charges add to Steady, as EMWrapper: the answer to a poll
\* is read before the next poll of the job is due.
Unhurried == Steady /\ MaxPolls <= 1

\* Of the polls of j at most one is under way: the MAD will read it ...
PollE(e, j) == e[2] = j /\ e[1] = "POLL"

OnlyPoll(q, i, j) == \A k \in DOMAIN q : PollE(q[k], j) => k = i
NoPoll(q, j) == \A k \in DOMAIN q : ~PollE(q[k], j)
NoAnswer(j) == \A a \in answers : a[2] # j

PollRead(i, j) ==
  /\ polling[j] = 1 /\ OnlyPoll(to_mad, i, j)
  /\ <<"POLL", j>> \notin tasks /\ NoAnswer(j) /\ NoPoll(from_mad, j)

\* ... or a thread of the pool has it ...
PollTaken(j) ==
  /\ polling[j] = 1 /\ NoPoll(to_mad, j)
  /\ NoAnswer(j) /\ NoPoll(from_mad, j)

\* ... or the thread is about to print the answer ...
PollAnswered(x, j) ==
  /\ polling[j] = 1 /\ NoPoll(to_mad, j)
  /\ <<"POLL", j>> \notin tasks /\ NoPoll(from_mad, j)
  /\ \A a \in answers : a[2] = j => a = x

\* ... or the listener will read it.
PollPrinted(i, j) ==
  /\ polling[j] = 1 /\ NoPoll(to_mad, j)
  /\ <<"POLL", j>> \notin tasks /\ NoAnswer(j) /\ OnlyPoll(from_mad, i, j)

PollOf(j) ==
  /\ polling[j] \in 0..MaxPolls
  /\ \A i \in DOMAIN to_mad : PollE(to_mad[i], j) => PollRead(i, j)
  /\ <<"POLL", j>> \in tasks => PollTaken(j)
  /\ \A a \in answers : a[2] = j => PollAnswered(a, j)
  /\ \A i \in DOMAIN from_mad : PollE(from_mad[i], j) => PollPrinted(i, j)

\* What is said of j after the entry i of a queue says that its wrapper is done.
DoneE(e, j) == e[2] = j /\ e[1] = "DONE"
FinalL(l, j) == l[2] = j /\ Final(l)

NoMoreE(i, j) == \A k \in DOMAIN emq : k > i /\ emq[k][2] = j => emq[k][1] = "DONE"
NoMoreL(i, j) == \A k \in DOMAIN from_mad : k > i /\ from_mad[k][2] = j => Final(from_mad[k])
NoMoreA(j) == \A a \in answers : a[2] = j => Final(a)

\* The DM knows, or will know, that the wrapper of j is done; or j has none.
Known(j) ==
  \/ job_state[j] # "WRAPPER"
  \/ \E i \in DOMAIN dmq : dmq[i][2] = j /\ dmq[i][1] # "WRAPPER_FAILED"

\* Once it is said that the wrapper of j is done, nothing else is said of it.
OrderOf(j) ==
  /\ \A i \in DOMAIN emq : DoneE(emq[i], j) =>
       NoMoreE(i, j) /\ NoMoreL(0, j) /\ NoMoreA(j)
  /\ \A i \in DOMAIN from_mad : FinalL(from_mad[i], j) => NoMoreL(i, j) /\ NoMoreA(j)
  /\ Known(j) =>
       NoMoreE(0, j) /\ NoMoreL(0, j) /\ NoMoreA(j) /\ em_state[j] \notin Submitted

\* The DM is told once: an end in its queue is the last thing said of j.
ToldOf(j) ==
  /\ em_state[j] = "DONE" => \E i \in DOMAIN dmq : dmq[i] = <<"WRAPPER_DONE", j>>
  /\ \A i \in DOMAIN dmq : dmq[i] = <<"WRAPPER_DONE", j>> =>
       /\ em_state[j] = "DONE"
       /\ \A k \in DOMAIN dmq : k > i => dmq[k][2] # j

\* A job leaves the list of the MAD when it is DONE.
Deleted == callback # <<>> /\ callback[3] = "deleted" => status[callback[2]] = "DONE"

\* The wrapper of j takes a slot: the DM has not yet handled its end.
Closing(q, j) == \E i \in DOMAIN q : q[i] = <<"EPILOG", j>>
ChargedJobs == {j \in Jobs : job_state[j] = "WRAPPER" /\ ~Closing(dmq, j)}
ActiveJobs  == {j \in Jobs : em_state[j] = "ACTIVE"}

\* f counts, for each host, the jobs of S that are there.
OnHost(hst, S, h) == {j \in S : hst[j] = h}
Counts(f, hst, S) ==
  /\ f \in [Hosts -> Int]
  /\ \A h \in Hosts : /\ IsFiniteSet(OnHost(hst, S, h))
                      /\ f[h] = Cardinality(OnHost(hst, S, h))

Polled == \A j \in Jobs : PollOf(j)
Ordered == Deleted /\ \A j \in Jobs : OrderOf(j) /\ ToldOf(j)
Charges ==
  /\ host \in [Jobs -> Hosts \union {NoHost}]
  /\ Counts(used_slots, host, ChargedJobs)
  /\ Counts(active_jobs, host, ActiveJobs)

\* A job is tried number_of_retries times more, and has been tried when it fails.
Submits(e, j) == e[2] = j /\ e[1] = "SUBMIT"
Fails(e, j) == e[2] = j /\ e[1] = "FAILED"
TriesOf(j) ==
  /\ tries[j] \in 0..number_of_retries + 1
  /\ counter[j] \in {-1} \union 1..number_of_retries
  /\ \A i \in DOMAIN emq : Submits(emq[i], j) => tries[j] <= number_of_retries
  /\ \A i \in DOMAIN emq : Fails(emq[i], j) => tries[j] > 0
  /\ \A i \in DOMAIN to_mad : Submits(to_mad[i], j) => tries[j] > 0
  /\ \A i \in DOMAIN from_mad : Submits(from_mad[i], j) => tries[j] > 0
  /\ Waiting(j) => tries[j] <= number_of_retries

Tries == \A j \in Jobs : TriesOf(j)

\* The line l names a remote job there is.
Named(l) == l[1] = "SUBMIT" /\ l[3] => l[4] \in 1..MaxRuns

Limits ==
  /\ records \in [Jobs -> 0..MaxRecords]
  /\ failed_polls \in [Jobs -> 0..4] /\ cancel_tries \in [Jobs -> Nat]
  /\ Len(remote) <= MaxRuns
  /\ contact \in [Jobs -> 0..MaxRuns]
  /\ polling \in [Jobs -> Int]
  /\ \A i \in DOMAIN from_mad : Named(from_mad[i])

-----------------------------------------------------------------------------
(* The steps of Execution under Steady, one by one.                        *)

Handles(q, a, k) == q # <<>> /\ Head(q) = <<a, k>>

\* gw_dm_epilog closes the request.
DMEpilog(k) ==
  /\ job_state' = [job_state EXCEPT ![k] = "EPILOG"] /\ dmq' = Tail(dmq)
  /\ UNCHANGED <<em_state, recv, tryv, contact, polling, hstv, emq, pipv>>

\* What is posted for the line l about k.
Posts(l, k) ==
  \/ UNCHANGED emq
  \/ /\ job_state[k] = "WRAPPER"
     /\ \E x \in EMEntries :
          /\ emq' = Append(emq, x) /\ x[2] = k /\ x[1] # "SUBMIT"
          /\ x[1] = "FAILED" <=> SubmitF(l, k)
          /\ x[1] = "DONE" <=> Final(l)

\* gw_em_listener reads the line l about k.
Listens(l, k) ==
  /\ from_mad # <<>> /\ Head(from_mad) = l /\ l[2] = k /\ from_mad' = Tail(from_mad)
  /\ polling' = IF l[1] = "POLL" THEN [polling EXCEPT ![k] = @ - 1] ELSE polling
  /\ Posts(l, k)
  /\ \/ UNCHANGED contact
     \/ l[1] = "SUBMIT" /\ l[3] /\ contact' = [contact EXCEPT ![k] = l[4]]
  /\ \/ UNCHANGED failed_polls
     \/ failed_polls[k] < 4 /\ failed_polls' = [failed_polls EXCEPT ![k] = @ + 1]
  /\ UNCHANGED <<job_state, em_state, recv, tries, counter, cancel_tries, hstv, dmq,
                 to_mad, mad_up>>

GwdStepOf(k) ==
  /\ UNCHANGED madv
  /\ \/ \E h \in Hosts : DMDispatch(k, h) /\ Quiet(k)
     \/ Handles(dmq, "WRAPPER_DONE", k) /\ DMWrapperDone(k)
     \/ Handles(dmq, "WRAPPER_FAILED", k) /\ DMWrapperFailed(k)
     \/ Handles(dmq, "EPILOG", k) /\ DMEpilog(k)
     \/ DMReschedule(k)
     \/ Handles(emq, "SUBMIT", k) /\ EMSubmit(k)
     \/ \E s \in Submitted : Handles(emq, s, k) /\ EMPhase(k, s)
     \/ Handles(emq, "DONE", k) /\ EMDone(k)
     \/ Handles(emq, "FAILED", k) /\ EMFailed(k)
     \/ EMPoll(k) \/ EMRetry(k)
     \/ \E l \in Lines : Listens(l, k)

MadStepOf(k) ==
  /\ UNCHANGED gwdv
  /\ \/ /\ to_mad # <<>> /\ Head(to_mad) = <<"SUBMIT", k, 0>> /\ to_mad' = Tail(to_mad)
        /\ MAD!MadSubmit(k) /\ UNCHANGED <<tasks, answers, callback>>
     \/ /\ to_mad # <<>> /\ Head(to_mad) = <<"POLL", k, 0>> /\ to_mad' = Tail(to_mad)
        /\ tasks' = tasks \union {<<"POLL", k>>}
        /\ UNCHANGED <<from_mad, remote, status, job_list, answers, callback>>
     \/ MAD!PoolPoll(k)
     \/ \E a \in answers : a[2] = k /\ MAD!PoolPrint(a)
     \/ callback # <<>> /\ callback[1] = k /\ MAD!CallbackReport

\* The other steps of the MAD and of the batch systems say nothing.
Inner ==
  /\ UNCHANGED <<gwdv, to_mad, from_mad, tasks, answers>>
  /\ Len(remote') = Len(remote) /\ (Deleted => Deleted')

\* gw_em_listener, under Steady.
LEMMA ListenIs ==
  ASSUME Steady, ServiceInv, EMListen
  PROVE  \E k \in Jobs, l \in Lines : Listens(l, k)
<1> DEFINE l == Head(from_mad)
           k == l[2]
           post == Posted(l[1], l[2], l[3], l[4])
           e == <<post[1], k>>
<1>1. from_mad # <<>> /\ from_mad' = Tail(from_mad)
  BY DEF EMListen
<1>2. l \in Lines /\ k \in Jobs
  <2>1. 1 \in DOMAIN from_mad /\ l = from_mad[1] /\ l \in Lines
    BY <1>1, QueueTypes
  <2> QED BY <2>1 DEF Lines
<1>3. CASE job_state[k] \notin ExecStates
  <2>1. UNCHANGED <<tries, failed_polls, contact, emq>>
    BY <1>3 DEF EMListen
  <2> QED BY <1>1, <1>2, <2>1 DEF EMListen, Listens, Posts
<1>4. CASE job_state[k] \in ExecStates
  <2>1. /\ emq' = emq \o [i \in DOMAIN post |-> <<post[i], k>>]
        /\ contact' = IF l[1] = "SUBMIT" /\ l[3] THEN [contact EXCEPT ![k] = l[4]] ELSE contact
        /\ failed_polls' = IF l[1] = "POLL" /\ ~l[3] /\ failed_polls[k] < 4
                             THEN [failed_polls EXCEPT ![k] = @ + 1] ELSE failed_polls
        /\ tries' = IF l[1] = "RECOVER" /\ l[3] /\ l[4] = "FAILED"
                      THEN [tries EXCEPT ![k] = number_of_retries] ELSE tries
    BY <1>4 DEF EMListen
  <2>2. tries' = tries
    BY <1>2, <2>1 DEF Lines
  <2>3. job_state[k] = "WRAPPER"
    BY <1>2, <1>4, QueueTypes DEF JobTypes, ExecStates, CancelStates
  <2>4. \/ post = <<>>
        \/ l[1] = "SUBMIT" /\ ~l[3] /\ post = <<"FAILED">>
        \/ l[1] = "SUBMIT" /\ l[3] /\ post = <<"PENDING">>
        \/ l[1] # "SUBMIT" /\ Final(l) /\ post = <<"DONE">>
        \/ l[1] # "SUBMIT" /\ ~Final(l) /\ \E s \in Submitted : post = <<s>>
    BY <1>1, <1>4, WhatIsPosted
  <2>5. CASE post = <<>>
    <3>1. [i \in DOMAIN post |-> <<post[i], k>>] = <<>>
      BY <2>5
    <3>2. emq' = emq \o <<>>
      BY <2>1, <3>1
    <3>3. emq' = emq
      <4> HIDE DEF post, l, k
      <4> QED BY <3>2, QueueTypes
    <3>4. Posts(l, k)
      BY <3>3 DEF Posts
    <3> QED BY <1>1, <1>2, <2>1, <2>2, <3>4 DEF EMListen, Listens
  <2>6. CASE post # <<>>
    <3>1. post = <<post[1]>> /\ e \in EMEntries /\ post[1] # "SUBMIT"
      <4> HIDE DEF post, k, l
      <4>1. /\ post = <<post[1]>> /\ post[1] # "SUBMIT"
            /\ post[1] \in {"SUBMIT", "PENDING", "ACTIVE", "SUSPENDED", "DONE", "FAILED"}
        BY <2>4, <2>6 DEF Submitted
      <4> QED BY <1>2, <4>1 DEF EMEntries
    <3>2. [i \in DOMAIN post |-> <<post[i], k>>] = <<e>>
      <4> HIDE DEF post
      <4> QED BY <3>1
    <3>3. emq' = Append(emq, e)
      <4>1. emq' = emq \o <<e>>
        BY <2>1, <3>2
      <4> HIDE DEF e
      <4> QED BY <3>1, <4>1, QueueTypes
    <3>4. (post[1] = "FAILED" <=> SubmitF(l, k)) /\ (post[1] = "DONE" <=> Final(l))
      <4>1. l[2] = k
        OBVIOUS
      <4> HIDE DEF post, l, k
      <4> QED BY <2>4, <2>6, <4>1 DEF Submitted, SubmitF, Final
    <3>5. Posts(l, k)
      <4>1. e[2] = k /\ e[1] = post[1]
        OBVIOUS
      <4> HIDE DEF e, post, l, k
      <4> QED BY <2>3, <3>1, <3>3, <3>4, <4>1 DEF Posts
    <3> QED BY <1>1, <1>2, <2>1, <2>2, <3>5 DEF EMListen, Listens
  <2> QED BY <2>5, <2>6
<1> QED BY <1>3, <1>4

\* Every step is one of them.
LEMMA Kinds ==
  ASSUME Steady, ServiceInv, [Next]_vars
  PROVE  Inner \/ \E k \in Jobs : GwdStepOf(k) \/ MadStepOf(k)
<1>1. CASE Gwd(EMNext)
  <2>1. \/ Gwd(DMStep) \/ Gwd(EMStep) \/ Gwd(EMListen) \/ Gwd(EMReload)
        \/ \E j \in Jobs :
             \/ \E h \in Hosts : Gwd(DMDispatch(j, h))
             \/ \E op \in {"STOP", "KILL"} : Gwd(DMCancel(j, op))
             \/ Gwd(DMReschedule(j)) \/ Gwd(EMPoll(j)) \/ Gwd(EMRetry(j))
    BY <1>1 DEF Gwd, EMNext
  <2>2. CASE Gwd(DMStep)
    <3>1. DMStep /\ UNCHANGED madv /\ dmq # <<>>
      BY <2>2 DEF Gwd, DMStep
    <3>2. PICK k \in Jobs, a \in {"WRAPPER_DONE", "WRAPPER_FAILED", "EPILOG"} :
            Head(dmq) = <<a, k>>
      <4>1. Head(dmq) \in DMEntries
        BY <3>1, QueueTypes
      <4> QED BY <4>1 DEF DMEntries
    <3>3. \/ a = "WRAPPER_DONE" /\ DMWrapperDone(k)
          \/ a = "WRAPPER_FAILED" /\ DMWrapperFailed(k)
          \/ a = "EPILOG" /\ DMEpilog(k)
      BY <3>1, <3>2 DEF DMStep, DMEpilog
    <3> QED BY <3>1, <3>2, <3>3 DEF GwdStepOf, Handles
  <2>3. CASE Gwd(EMStep)
    <3>1. EMStep /\ UNCHANGED madv /\ emq # <<>>
      BY <2>3 DEF Gwd, EMStep
    <3>2. PICK k \in Jobs,
               a \in {"SUBMIT", "PENDING", "ACTIVE", "SUSPENDED", "DONE", "FAILED"} :
            Head(emq) = <<a, k>>
      <4>1. Head(emq) \in EMEntries
        BY <3>1, QueueTypes
      <4> QED BY <4>1 DEF EMEntries
    <3>3. \/ a = "SUBMIT" /\ EMSubmit(k)
          \/ a \in Submitted /\ EMPhase(k, a)
          \/ a = "DONE" /\ EMDone(k)
          \/ a = "FAILED" /\ EMFailed(k)
      BY <3>1, <3>2 DEF EMStep
    <3> QED BY <3>1, <3>2, <3>3 DEF GwdStepOf, Handles
  <2>4. CASE Gwd(EMListen)
    BY <2>4, ListenIs DEF Gwd, GwdStepOf
  <2>5. ASSUME NEW j \in Jobs, NEW h \in Hosts, Gwd(DMDispatch(j, h))
        PROVE  GwdStepOf(j)
    <3>1. Starts(j)
      BY <2>5, QueueTypes DEF Gwd, DMDispatch, ToWrapper, Steady, Starts, JobTypes
    <3> QED BY <2>5, <3>1 DEF Gwd, Steady, GwdStepOf
  <2>6. ASSUME NEW j \in Jobs, Gwd(DMReschedule(j)) \/ Gwd(EMPoll(j)) \/ Gwd(EMRetry(j))
        PROVE  GwdStepOf(j)
    BY <2>6 DEF Gwd, GwdStepOf
  <2> QED BY <2>1, <2>2, <2>3, <2>4, <2>5, <2>6, Excluded
<1>2. CASE Mad(MAD!MadNext)
  <2>1. \/ Mad(MAD!MadRead) \/ Mad(MAD!CallbackThread) \/ Mad(MAD!MadCrash)
        \/ \E j \in Jobs : Mad(MAD!PoolPoll(j)) \/ Mad(MAD!PoolCancel(j))
        \/ \E a \in answers : Mad(MAD!PoolPrint(a))
        \/ \E r \in MAD!Runs : Mad(MAD!RemoteStep(r))
    BY <1>2 DEF Mad, MAD!MadNext
  <2>2. CASE Mad(MAD!MadRead)
    <3>1. MAD!MadRead /\ UNCHANGED gwdv /\ to_mad # <<>>
      BY <2>2 DEF Mad, MAD!MadRead
    <3>2. PICK k \in Jobs : Head(to_mad) = <<"SUBMIT", k, 0>> \/ Head(to_mad) = <<"POLL", k, 0>>
      <4>1. Head(to_mad) \in Commands
        BY <3>1, QueueTypes
      <4> QED BY <4>1 DEF Commands
    <3>3. MadStepOf(k)
      BY <3>1, <3>2 DEF MadStepOf, MAD!MadRead
    <3> QED BY <3>3
  <2>3. CASE Mad(MAD!CallbackThread)
    <3>1. \/ MAD!CallbackRound \/ MAD!CallbackDelete \/ MAD!CallbackReport
          \/ \E j \in Jobs, r \in MAD!Runs : MAD!CallbackRefresh(j, r)
      BY <2>3 DEF Mad, MAD!CallbackThread
    <3>2. UNCHANGED gwdv
      BY <2>3 DEF Mad
    <3>3. CASE MAD!CallbackRound
      BY <3>2, <3>3 DEF MAD!CallbackRound, MAD!pipes, Inner, Deleted
    <3>4. CASE MAD!CallbackDelete
      <4>1. /\ status[callback[2]] \in {"DONE", "FAILED"} /\ callback # <<>>
            /\ callback' = [callback EXCEPT ![3] = "deleted"]
            /\ UNCHANGED <<gwdv, to_mad, from_mad, tasks, answers, remote, status>>
        BY <3>2, <3>4 DEF MAD!CallbackDelete, MAD!pipes, MAD!Ended
      <4>2. callback \in Jobs \X Nat \X {"refreshed", "deleted"} /\ callback[2] \in DOMAIN status
        BY <4>1 DEF ServiceInv, Types, MadTypes, CallbackOK
      <4>3. status[callback[2]] \in States
        BY <4>2 DEF ServiceInv, Types, MadTypes
      <4>4. status[callback[2]] = "DONE"
        BY <4>1, <4>3 DEF States
      <4>5. callback'[2] = callback[2]
        BY <4>1, <4>2
      <4> QED BY <4>1, <4>4, <4>5 DEF Inner, Deleted
    <3>5. CASE MAD!CallbackReport
      <4>1. callback # <<>> /\ callback[1] \in Jobs
        BY <3>5 DEF MAD!CallbackReport, ServiceInv, Types, MadTypes
      <4> QED BY <3>2, <3>5, <4>1 DEF MadStepOf
    <3>6. ASSUME NEW j \in Jobs, NEW r \in MAD!Runs, MAD!CallbackRefresh(j, r) PROVE Inner
      <4>1. /\ callback' = <<j, r, "refreshed">> \/ callback' = <<>>
            /\ UNCHANGED <<gwdv, to_mad, from_mad, tasks, answers, remote>>
        BY <3>2, <3>6 DEF MAD!CallbackRefresh, Steady
      <4> QED BY <4>1 DEF Inner, Deleted
    <3> QED BY <3>1, <3>2, <3>3, <3>4, <3>5, <3>6
  <2>4. ASSUME NEW j \in Jobs, Mad(MAD!PoolPoll(j)) PROVE MadStepOf(j)
    BY <2>4 DEF Mad, MadStepOf
  <2>5. ASSUME NEW a \in answers, Mad(MAD!PoolPrint(a)) PROVE \E k \in Jobs : MadStepOf(k)
    <3>1. a[2] \in Jobs
      BY DEF ServiceInv, Types, MadTypes, Report, Lines
    <3> QED BY <2>5, <3>1 DEF Mad, MadStepOf
  <2>6. ASSUME NEW r \in MAD!Runs, Mad(MAD!RemoteStep(r)) PROVE Inner
    <3>1. /\ UNCHANGED <<gwdv, to_mad, from_mad, tasks, answers, callback, status>>
          /\ \E s : remote' = [remote EXCEPT ![r].state = s]
      BY <2>6 DEF Mad, MAD!RemoteStep, MAD!pipes
    <3>2. Len(remote') = Len(remote)
      BY <3>1 DEF ServiceInv, Types, MadTypes
    <3> QED BY <3>1, <3>2 DEF Inner, Deleted
  <2> QED BY <2>1, <2>2, <2>3, <2>4, <2>5, <2>6, Excluded
<1>3. CASE UNCHANGED vars
  BY <1>3 DEF vars, emvars, madv, gwdv, pipv, Inner, Deleted
<1> QED BY <1>1, <1>2, <1>3 DEF Next

-----------------------------------------------------------------------------
(* Polls.                                                                  *)

\* Each poll of j in p was one in q, the first entry of which may be taken.
KeptPolls(q, p, j) ==
  \E d \in {0, 1} : \A i \in DOMAIN p :
    PollE(p[i], j) => i + d \in DOMAIN q /\ PollE(q[i + d], j)

LEMMA KeptPollsQueue ==
  ASSUME NEW S, NEW q \in Seq(S), NEW j
  PROVE  /\ KeptPolls(q, q, j)
         /\ q # <<>> => KeptPolls(q, Tail(q), j)
         /\ \A x \in S : ~PollE(x, j) => KeptPolls(q, Append(q, x), j)
<1>1. KeptPolls(q, q, j)
  BY DEF KeptPolls
<1>2. q # <<>> => KeptPolls(q, Tail(q), j)
  BY DEF KeptPolls
<1>3. \A x \in S : ~PollE(x, j) => KeptPolls(q, Append(q, x), j)
  BY DEF KeptPolls
<1> QED BY <1>1, <1>2, <1>3

\* No new poll of j is under way.
SamePolls(j) ==
  /\ polling'[j] = polling[j]
  /\ KeptPolls(to_mad, to_mad', j) /\ KeptPolls(from_mad, from_mad', j)
  /\ <<"POLL", j>> \in tasks' => <<"POLL", j>> \in tasks
  /\ \A a \in answers' : a[2] = j => a \in answers

LEMMA PollsAside ==
  ASSUME Types, Types', NEW j \in Jobs, PollOf(j), SamePolls(j)
  PROVE  PollOf(j)'
<1>1. /\ NoPoll(to_mad, j) => NoPoll(to_mad', j)
      /\ NoPoll(from_mad, j) => NoPoll(from_mad', j)
  BY DEF SamePolls, KeptPolls, NoPoll
<1>2. NoAnswer(j) => NoAnswer(j)'
  BY DEF SamePolls, NoAnswer
<1>3. /\ to_mad \in Seq(Commands) /\ to_mad' \in Seq(Commands)
      /\ from_mad \in Seq(Lines) /\ from_mad' \in Seq(Lines)
  BY DEF Types, PipeTypes
<1>4. ASSUME NEW i \in DOMAIN to_mad', PollE(to_mad'[i], j) PROVE PollRead(i, j)'
  <2>1. PICK d \in {0, 1} : \A n \in DOMAIN to_mad' :
          PollE(to_mad'[n], j) => n + d \in DOMAIN to_mad /\ PollE(to_mad[n + d], j)
    BY DEF SamePolls, KeptPolls
  <2>2. PollRead(i + d, j)
    BY <1>4, <2>1 DEF PollOf
  <2>3. OnlyPoll(to_mad', i, j)
    <3> SUFFICES ASSUME NEW n \in DOMAIN to_mad', PollE(to_mad'[n], j) PROVE n = i
      BY DEF OnlyPoll
    <3>1. n + d = i + d /\ n \in Nat /\ i \in Nat
      BY <1>3, <2>1, <2>2 DEF PollRead, OnlyPoll
    <3> QED BY <3>1
  <2> QED BY <1>1, <1>2, <2>2, <2>3 DEF PollRead, SamePolls
<1>5. <<"POLL", j>> \in tasks' => PollTaken(j)'
  BY <1>1, <1>2 DEF PollOf, SamePolls, PollTaken
<1>6. ASSUME NEW a \in answers', a[2] = j PROVE PollAnswered(a, j)'
  BY <1>1, <1>6 DEF PollOf, SamePolls, PollAnswered
<1>7. ASSUME NEW i \in DOMAIN from_mad', PollE(from_mad'[i], j) PROVE PollPrinted(i, j)'
  <2>1. PICK d \in {0, 1} : \A n \in DOMAIN from_mad' :
          PollE(from_mad'[n], j) => n + d \in DOMAIN from_mad /\ PollE(from_mad[n + d], j)
    BY DEF SamePolls, KeptPolls
  <2>2. PollPrinted(i + d, j)
    BY <1>7, <2>1 DEF PollOf
  <2>3. OnlyPoll(from_mad', i, j)
    <3> SUFFICES ASSUME NEW n \in DOMAIN from_mad', PollE(from_mad'[n], j) PROVE n = i
      BY DEF OnlyPoll
    <3>1. n + d = i + d /\ n \in Nat /\ i \in Nat
      BY <1>3, <2>1, <2>2 DEF PollPrinted, OnlyPoll
    <3> QED BY <3>1
  <2> QED BY <1>1, <1>2, <2>2, <2>3 DEF PollPrinted, SamePolls
<1>8. polling'[j] \in 0..MaxPolls
  BY DEF PollOf, SamePolls
<1> QED BY <1>4, <1>5, <1>6, <1>7, <1>8 DEF PollOf

\* A step that says nothing of polls but to take entries from the pipes.
LEMMA PollsUntouched ==
  ASSUME ServiceInv, ServiceInv', Polled, UNCHANGED <<polling, tasks, answers>>,
         \/ UNCHANGED to_mad
         \/ to_mad # <<>> /\ to_mad' = Tail(to_mad)
         \/ \E x \in Commands : x[1] = "SUBMIT" /\ to_mad' = Append(to_mad, x),
         \/ UNCHANGED from_mad
         \/ \E x \in Lines : x[1] # "POLL" /\ from_mad' = Append(from_mad, x)
  PROVE  Polled'
<1> SUFFICES ASSUME NEW j \in Jobs PROVE PollOf(j)'
  BY DEF Polled
<1>1. \A x : x[1] # "POLL" => ~PollE(x, j)
  BY DEF PollE
<1>2. KeptPolls(to_mad, to_mad', j)
  <2>1. \A x \in Commands : x[1] = "SUBMIT" => ~PollE(x, j)
    BY DEF PollE
  <2> QED BY <2>1, QueueTypes, KeptPollsQueue
<1>3. KeptPolls(from_mad, from_mad', j)
  BY <1>1, QueueTypes, KeptPollsQueue
<1> QED BY <1>2, <1>3, PollsAside DEF SamePolls, Polled, ServiceInv

\* gw_em_timer polls a job when no other poll of it is under way.
LEMMA PollSent ==
  ASSUME Unhurried, ServiceInv, ServiceInv', Polled, UNCHANGED madv,
         NEW k \in Jobs, EMPoll(k), polling \in [Jobs -> Int]
  PROVE  Polled'
<1> DEFINE c == <<"POLL", k, 0>>
<1>1. /\ polling[k] < MaxPolls /\ polling' = [polling EXCEPT ![k] = @ + 1]
      /\ to_mad' = Append(to_mad, c) /\ from_mad' = from_mad
      /\ UNCHANGED <<tasks, answers>>
  BY DEF EMPoll, ToMad, ServiceInv, Types, PipeTypes, madv
<1>2. c \in Commands /\ \A j : PollE(c, j) <=> j = k
  BY DEF Commands, PollE
<1>3. \A j \in Jobs \ {k} : PollOf(j)'
  <2> SUFFICES ASSUME NEW j \in Jobs \ {k} PROVE PollOf(j)'
    OBVIOUS
  <2>1. KeptPolls(to_mad, to_mad', j) /\ KeptPolls(from_mad, from_mad', j)
    BY <1>1, <1>2, QueueTypes, KeptPollsQueue
  <2> QED BY <1>1, <2>1, PollsAside DEF SamePolls, Polled, ServiceInv
<1>4. /\ polling[k] = 0 /\ polling'[k] = 1 /\ polling'[k] \in 0..MaxPolls
  <2>1. polling[k] \in 0..MaxPolls /\ MaxPolls \in Nat /\ MaxPolls <= 1
    BY EMAssumption DEF Unhurried, Polled, PollOf
  <2>2. polling'[k] = polling[k] + 1
    BY <1>1
  <2> QED BY <1>1, <2>1, <2>2
<1>5. /\ NoPoll(to_mad, k) /\ <<"POLL", k>> \notin tasks /\ NoAnswer(k) /\ NoPoll(from_mad, k)
  BY <1>4 DEF Polled, PollOf, PollRead, PollTaken, PollAnswered, PollPrinted, NoPoll, NoAnswer
<1>6. ASSUME NEW i \in DOMAIN to_mad', PollE(to_mad'[i], k) PROVE PollRead(i, k)'
  <2>1. \A n \in DOMAIN to_mad' : PollE(to_mad'[n], k) => n = Len(to_mad) + 1
    <3> HIDE DEF c
    <3> QED BY <1>1, <1>2, <1>5, QueueTypes DEF NoPoll
  <2> QED BY <1>1, <1>4, <1>5, <1>6, <2>1 DEF PollRead, OnlyPoll, NoAnswer
<1>7. PollOf(k)'
  BY <1>1, <1>4, <1>5, <1>6 DEF PollOf, NoPoll, NoAnswer
<1> QED BY <1>3, <1>7 DEF Polled

\* gw_em_listener reads the answer to the only poll.
LEMMA PollHeard ==
  ASSUME Unhurried, ServiceInv, ServiceInv', Polled, UNCHANGED madv,
         NEW k \in Jobs, NEW l \in Lines, Listens(l, k), polling \in [Jobs -> Int]
  PROVE  Polled'
<1>1. /\ from_mad # <<>> /\ from_mad[1] = l /\ l[2] = k /\ from_mad' = Tail(from_mad)
      /\ polling' = IF l[1] = "POLL" THEN [polling EXCEPT ![k] = @ - 1] ELSE polling
      /\ to_mad' = to_mad /\ UNCHANGED <<tasks, answers>> /\ 1 \in DOMAIN from_mad
  BY QueueTypes DEF Listens, madv
<1>2. ASSUME NEW j \in Jobs, j # k \/ l[1] # "POLL" PROVE PollOf(j)'
  <2>1. KeptPolls(to_mad, to_mad', j) /\ KeptPolls(from_mad, from_mad', j)
    BY <1>1, QueueTypes, KeptPollsQueue
  <2>2. polling'[j] = polling[j]
    BY <1>1, <1>2
  <2> QED BY <1>1, <2>1, <2>2, PollsAside DEF SamePolls, Polled, ServiceInv
<1>3. ASSUME l[1] = "POLL" PROVE PollOf(k)'
  <2>1. PollPrinted(1, k)
    BY <1>1, <1>3 DEF Polled, PollOf, PollE
  <2>2. NoPoll(from_mad', k)
    BY <1>1, <2>1, QueueTypes DEF PollPrinted, OnlyPoll, NoPoll
  <2>3. polling'[k] = 0
    BY <1>1, <1>3, <2>1 DEF PollPrinted
  <2> QED BY <1>1, <2>1, <2>2, <2>3, EMAssumption DEF PollPrinted, PollOf, NoPoll, NoAnswer
<1> QED BY <1>2, <1>3 DEF Polled

\* The main thread of the MAD gives the only poll to the pool.
LEMMA PollGiven ==
  ASSUME ServiceInv, ServiceInv', Polled, UNCHANGED gwdv, NEW k \in Jobs,
         to_mad # <<>>, Head(to_mad) = <<"POLL", k, 0>>, to_mad' = Tail(to_mad),
         tasks' = tasks \union {<<"POLL", k>>}, UNCHANGED <<from_mad, answers>>
  PROVE  Polled'
<1>1. polling' = polling /\ 1 \in DOMAIN to_mad /\ PollE(to_mad[1], k)
  BY QueueTypes DEF gwdv, PollE
<1>2. ASSUME NEW j \in Jobs \ {k} PROVE PollOf(j)'
  <2>1. KeptPolls(to_mad, to_mad', j) /\ KeptPolls(from_mad, from_mad', j)
    BY QueueTypes, KeptPollsQueue
  <2> QED BY <1>1, <2>1, PollsAside DEF SamePolls, Polled, ServiceInv
<1>3. PollRead(1, k)
  BY <1>1 DEF Polled, PollOf
<1>4. NoPoll(to_mad', k)
  BY <1>3, QueueTypes DEF PollRead, OnlyPoll, NoPoll
<1>5. PollOf(k)'
  BY <1>1, <1>3, <1>4 DEF Polled, PollOf, PollRead, PollTaken, NoPoll, NoAnswer
<1> QED BY <1>2, <1>5 DEF Polled

\* do_POLL answers the only poll.
LEMMA PollDone ==
  ASSUME Steady, ServiceInv, ServiceInv', Polled, UNCHANGED gwdv, NEW k \in Jobs,
         MAD!PoolPoll(k)
  PROVE  Polled'
<1>1. PICK a : a[2] = k /\ answers' = answers \union {a}
  BY DEF MAD!PoolPoll
<1>2. /\ polling' = polling /\ UNCHANGED <<to_mad, from_mad>>
      /\ <<"POLL", k>> \in tasks /\ tasks' = tasks \ {<<"POLL", k>>}
  BY DEF gwdv, MAD!PoolPoll, MAD!pipes
<1>3. ASSUME NEW j \in Jobs \ {k} PROVE PollOf(j)'
  <2>1. KeptPolls(to_mad, to_mad', j) /\ KeptPolls(from_mad, from_mad', j)
    BY <1>2, QueueTypes, KeptPollsQueue
  <2> QED BY <1>1, <1>2, <2>1, PollsAside DEF SamePolls, Polled, ServiceInv
<1>4. PollTaken(k)
  BY <1>2 DEF Polled, PollOf
<1>5. PollOf(k)'
  BY <1>1, <1>2, <1>4 DEF Polled, PollOf, PollTaken, PollAnswered, NoPoll, NoAnswer
<1> QED BY <1>3, <1>5 DEF Polled

\* The only answer is printed.
LEMMA PollSaid ==
  ASSUME Steady, ServiceInv, ServiceInv', Polled, UNCHANGED gwdv, NEW k \in Jobs,
         NEW a \in answers, a[2] = k, MAD!PoolPrint(a)
  PROVE  Polled'
<1>1. /\ polling' = polling /\ UNCHANGED <<to_mad, tasks>>
      /\ answers' = answers \ {a} /\ from_mad' = Append(from_mad, a)
  BY DEF gwdv, MAD!PoolPrint, MAD!Say
<1>2. a \in Lines /\ \A j \in Jobs : PollE(a, j) <=> j = k
  BY DEF ServiceInv, Types, MadTypes, Report, PollE
<1>3. ASSUME NEW j \in Jobs \ {k} PROVE PollOf(j)'
  <2>1. KeptPolls(to_mad, to_mad', j) /\ KeptPolls(from_mad, from_mad', j)
    BY <1>1, <1>2, QueueTypes, KeptPollsQueue
  <2> QED BY <1>1, <2>1, PollsAside DEF SamePolls, Polled, ServiceInv
<1>4. PollAnswered(a, k)
  BY DEF Polled, PollOf
<1>5. NoAnswer(k)'
  BY <1>1, <1>4 DEF PollAnswered, NoAnswer
<1>6. ASSUME NEW i \in DOMAIN from_mad', PollE(from_mad'[i], k) PROVE PollPrinted(i, k)'
  <2>1. \A n \in DOMAIN from_mad' : PollE(from_mad'[n], k) => n = Len(from_mad) + 1
    BY <1>1, <1>4, QueueTypes DEF PollAnswered, NoPoll
  <2> QED BY <1>1, <1>4, <1>5, <1>6, <2>1 DEF PollAnswered, PollPrinted, OnlyPoll, NoPoll
<1>7. PollOf(k)'
  BY <1>1, <1>4, <1>5, <1>6 DEF Polled, PollOf, PollAnswered, NoPoll, NoAnswer
<1> QED BY <1>3, <1>7 DEF Polled

\* At most one poll of a job is under way.
LEMMA StepPolls ==
  ASSUME Unhurried, ServiceInv, ServiceInv', Polled, polling \in [Jobs -> Int], [Next]_vars
  PROVE  Polled'
<1>1. ASSUME NEW k \in Jobs, GwdStepOf(k) PROVE Polled'
  <2>1. UNCHANGED <<tasks, answers>> /\ mad_up
    BY <1>1 DEF GwdStepOf, madv, ServiceInv, Types, PipeTypes
  <2>2. CASE EMPoll(k)
    BY <1>1, <2>2, PollSent DEF GwdStepOf
  <2>3. CASE \E l \in Lines : Listens(l, k)
    BY <1>1, <2>3, PollHeard DEF GwdStepOf
  <2>4. CASE EMSubmit(k)
    <3>1. UNCHANGED <<polling, from_mad>>
          /\ (to_mad' = to_mad \/ to_mad' = Append(to_mad, <<"SUBMIT", k, 0>>))
      BY <2>1, <2>4 DEF EMSubmit, ToMad
    <3>2. <<"SUBMIT", k, 0>> \in Commands
      BY DEF Commands
    <3> QED BY <2>1, <3>1, <3>2, PollsUntouched
  <2>5. CASE ~EMPoll(k) /\ ~EMSubmit(k) /\ ~(\E l \in Lines : Listens(l, k))
    <3>1. UNCHANGED <<polling, to_mad, from_mad>>
      BY <1>1, <2>5 DEF GwdStepOf, DMDispatch, NewRecord, ToWrapper, DMWrapperDone, DMWrapperFailed, DMEpilog,
         DMReschedule, EMPhase, EMDone, EMFailed, EMRetry, pipv
    <3> QED BY <2>1, <3>1, PollsUntouched
  <2> QED BY <2>2, <2>3, <2>4, <2>5
<1>2. ASSUME NEW k \in Jobs, MadStepOf(k) PROVE Polled'
  <2>1. UNCHANGED gwdv /\ polling' = polling
    BY <1>2 DEF MadStepOf, gwdv
  <2>2. CASE /\ to_mad # <<>> /\ Head(to_mad) = <<"SUBMIT", k, 0>> /\ to_mad' = Tail(to_mad)
             /\ MAD!MadSubmit(k) /\ UNCHANGED <<tasks, answers, callback>>
    <3>1. PICK x : x[1] # "POLL" /\ from_mad' = Append(from_mad, x)
      BY <2>2 DEF MAD!MadSubmit, MAD!Say
    <3>2. x \in Lines
      <4>1. from_mad' \in Seq(Lines) /\ from_mad \in Seq(Lines)
        BY DEF ServiceInv, Types, PipeTypes
      <4>2. Len(from_mad) + 1 \in DOMAIN from_mad' /\ from_mad'[Len(from_mad) + 1] = x
        BY <3>1, <4>1
      <4> QED BY <4>1, <4>2
    <3> QED BY <2>1, <2>2, <3>1, <3>2, PollsUntouched
  <2>3. CASE /\ to_mad # <<>> /\ Head(to_mad) = <<"POLL", k, 0>> /\ to_mad' = Tail(to_mad)
             /\ tasks' = tasks \union {<<"POLL", k>>}
             /\ UNCHANGED <<from_mad, remote, status, job_list, answers, callback>>
    BY <2>1, <2>3, PollGiven
  <2>4. CASE MAD!PoolPoll(k)
    BY <2>1, <2>4, PollDone DEF Unhurried
  <2>5. CASE \E a \in answers : a[2] = k /\ MAD!PoolPrint(a)
    BY <2>1, <2>5, PollSaid DEF Unhurried
  <2>6. CASE MAD!CallbackReport
    <3>1. /\ from_mad' = Append(from_mad, <<"CALLBACK", callback[1], TRUE, status[callback[2]]>>)
          /\ UNCHANGED <<to_mad, tasks, answers>>
      BY <2>6 DEF MAD!CallbackReport, MAD!Say
    <3>2. PICK x : x[1] # "POLL" /\ from_mad' = Append(from_mad, x)
      BY <3>1
    <3>3. x \in Lines
      <4>1. from_mad' \in Seq(Lines) /\ from_mad \in Seq(Lines)
        BY DEF ServiceInv, Types, PipeTypes
      <4>2. Len(from_mad) + 1 \in DOMAIN from_mad' /\ from_mad'[Len(from_mad) + 1] = x
        BY <3>2, <4>1
      <4> QED BY <4>1, <4>2
    <3> QED BY <2>1, <3>1, <3>2, <3>3, PollsUntouched
  <2> QED BY <1>2, <2>2, <2>3, <2>4, <2>5, <2>6 DEF MadStepOf
<1>3. CASE Inner
  <2>1. UNCHANGED <<polling, to_mad, from_mad, tasks, answers>>
    BY <1>3 DEF Inner, gwdv
  <2> QED BY <2>1, PollsUntouched
<1> QED BY <1>1, <1>2, <1>3, Kinds DEF Unhurried

-----------------------------------------------------------------------------
(* What is said of the end of a wrapper.                                   *)

\* The entry e stays in the queue.
Stays(q, p, e) == (\E i \in DOMAIN q : q[i] = e) => \E n \in DOMAIN p : p[n] = e

LEMMA StaysQueue ==
  ASSUME NEW S, NEW q \in Seq(S), NEW e
  PROVE  /\ Stays(q, q, e)
         /\ \A x \in S : Stays(q, Append(q, x), e)
         /\ q # <<>> /\ q[1] # e => /\ Stays(q, Tail(q), e)
                                    /\ \A x \in S : Stays(q, Append(Tail(q), x), e)
<1> SUFFICES ASSUME NEW i \in DOMAIN q, q[i] = e
             PROVE  /\ Stays(q, q, e)
                    /\ \A x \in S : Stays(q, Append(q, x), e)
                    /\ q # <<>> /\ q[1] # e => /\ Stays(q, Tail(q), e)
                                               /\ \A x \in S : Stays(q, Append(Tail(q), x), e)
  BY DEF Stays
<1>1. \A x \in S : i \in DOMAIN Append(q, x) /\ Append(q, x)[i] = e
  OBVIOUS
<1>2. ASSUME q # <<>>, q[1] # e
      PROVE  /\ i - 1 \in DOMAIN Tail(q) /\ Tail(q)[i - 1] = e
             /\ \A x \in S : /\ i - 1 \in DOMAIN Append(Tail(q), x)
                             /\ Append(Tail(q), x)[i - 1] = e
  <2>1. i # 1 /\ i \in 1..Len(q)
    BY <1>2
  <2>2. i - 1 \in DOMAIN Tail(q) /\ Tail(q)[i - 1] = e
    BY <1>2, <2>1
  <2>3. \A x \in S : /\ i - 1 \in DOMAIN Append(Tail(q), x)
                     /\ Append(Tail(q), x)[i - 1] = e
    BY <1>2, <2>1
  <2> QED BY <2>2, <2>3
<1> QED BY <1>1, <1>2 DEF Stays

\* A step that says nothing more of the wrapper of j.
Same(j) ==
  /\ Kept(emq, emq', j) /\ Kept(from_mad, from_mad', j)
  /\ Kept(dmq, dmq', j) /\ Stays(dmq, dmq', <<"WRAPPER_DONE", j>>)
  /\ job_state'[j] = job_state[j] /\ em_state'[j] = em_state[j]
  /\ \A a \in answers' : a[2] = j => a \in answers

LEMMA SameOrder ==
  ASSUME Types, Types', NEW j \in Jobs, OrderOf(j), Kept(emq, emq', j),
         Kept(from_mad, from_mad', j), \A a \in answers' : a[2] = j => a \in answers,
         Known(j)' => Known(j) /\ em_state'[j] \notin Submitted
  PROVE  OrderOf(j)'
<1>1. /\ emq \in Seq(EMEntries) /\ emq' \in Seq(EMEntries)
      /\ from_mad \in Seq(Lines) /\ from_mad' \in Seq(Lines)
  BY DEF Types, GwdTypes, PipeTypes
<1>2. PICK d \in {0, 1} : \A i \in DOMAIN emq' :
        emq'[i][2] = j => i + d \in DOMAIN emq /\ emq[i + d] = emq'[i]
  BY DEF Kept
<1>3. PICK c \in {0, 1} : \A i \in DOMAIN from_mad' :
        from_mad'[i][2] = j => i + c \in DOMAIN from_mad /\ from_mad[i + c] = from_mad'[i]
  BY DEF Kept
<1>4. NoMoreE(0, j) => NoMoreE(0, j)'
  BY <1>1, <1>2 DEF NoMoreE
<1>5. NoMoreL(0, j) => NoMoreL(0, j)'
  BY <1>1, <1>3 DEF NoMoreL
<1>6. NoMoreA(j) => NoMoreA(j)'
  BY DEF NoMoreA
<1>7. ASSUME NEW i \in DOMAIN emq', DoneE(emq'[i], j)
      PROVE  NoMoreE(i, j)' /\ NoMoreL(0, j)' /\ NoMoreA(j)'
  <2>1. i + d \in DOMAIN emq /\ DoneE(emq[i + d], j)
    BY <1>2, <1>7 DEF DoneE
  <2>2. NoMoreE(i + d, j) /\ NoMoreL(0, j) /\ NoMoreA(j)
    BY <2>1 DEF OrderOf
  <2>3. NoMoreE(i, j)'
    <3> SUFFICES ASSUME NEW n \in DOMAIN emq', n > i, emq'[n][2] = j
                 PROVE  emq'[n][1] = "DONE"
      BY DEF NoMoreE
    <3>1. n + d \in DOMAIN emq /\ emq[n + d] = emq'[n] /\ n + d > i + d
      BY <1>1, <1>2
    <3> QED BY <2>2, <3>1 DEF NoMoreE
  <2> QED BY <1>5, <1>6, <2>2, <2>3
<1>8. ASSUME NEW i \in DOMAIN from_mad', FinalL(from_mad'[i], j)
      PROVE  NoMoreL(i, j)' /\ NoMoreA(j)'
  <2>1. i + c \in DOMAIN from_mad /\ FinalL(from_mad[i + c], j)
    BY <1>3, <1>8 DEF FinalL
  <2>2. NoMoreL(i + c, j) /\ NoMoreA(j)
    BY <2>1 DEF OrderOf
  <2>3. NoMoreL(i, j)'
    <3> SUFFICES ASSUME NEW n \in DOMAIN from_mad', n > i, from_mad'[n][2] = j
                 PROVE  Final(from_mad'[n])
      BY DEF NoMoreL
    <3>1. n + c \in DOMAIN from_mad /\ from_mad[n + c] = from_mad'[n] /\ n + c > i + c
      BY <1>1, <1>3
    <3> QED BY <2>2, <3>1 DEF NoMoreL
  <2> QED BY <1>6, <2>2, <2>3
<1>9. Known(j)' =>
        NoMoreE(0, j)' /\ NoMoreL(0, j)' /\ NoMoreA(j)' /\ em_state'[j] \notin Submitted
  BY <1>4, <1>5, <1>6 DEF OrderOf
<1> QED BY <1>7, <1>8, <1>9 DEF OrderOf

LEMMA SameTold ==
  ASSUME Types, Types', NEW j \in Jobs, ToldOf(j), Kept(dmq, dmq', j),
         Stays(dmq, dmq', <<"WRAPPER_DONE", j>>), em_state'[j] = em_state[j]
  PROVE  ToldOf(j)'
<1>1. dmq \in Seq(DMEntries) /\ dmq' \in Seq(DMEntries)
  BY DEF Types, GwdTypes
<1>2. PICK d \in {0, 1} : \A i \in DOMAIN dmq' :
        dmq'[i][2] = j => i + d \in DOMAIN dmq /\ dmq[i + d] = dmq'[i]
  BY DEF Kept
<1>3. em_state'[j] = "DONE" => \E i \in DOMAIN dmq' : dmq'[i] = <<"WRAPPER_DONE", j>>
  <2> SUFFICES ASSUME em_state[j] = "DONE"
               PROVE  \E i \in DOMAIN dmq' : dmq'[i] = <<"WRAPPER_DONE", j>>
    OBVIOUS
  <2>1. PICK i \in DOMAIN dmq : dmq[i] = <<"WRAPPER_DONE", j>>
    BY DEF ToldOf
  <2> QED BY <2>1 DEF Stays
<1>4. ASSUME NEW i \in DOMAIN dmq', dmq'[i] = <<"WRAPPER_DONE", j>>
      PROVE  em_state'[j] = "DONE" /\ \A k \in DOMAIN dmq' : k > i => dmq'[k][2] # j
  <2>1. i + d \in DOMAIN dmq /\ dmq[i + d] = <<"WRAPPER_DONE", j>>
    BY <1>2, <1>4
  <2>2. em_state[j] = "DONE" /\ \A k \in DOMAIN dmq : k > i + d => dmq[k][2] # j
    BY <2>1 DEF ToldOf
  <2>3. ASSUME NEW k \in DOMAIN dmq', k > i, dmq'[k][2] = j PROVE FALSE
    <3>1. k + d \in DOMAIN dmq /\ dmq[k + d][2] = j /\ k + d > i + d
      BY <1>1, <1>2, <2>3
    <3> QED BY <2>2, <3>1
  <2> QED BY <2>2, <2>3
<1> QED BY <1>3, <1>4 DEF ToldOf

LEMMA SameKept ==
  ASSUME Types, Types', NEW j \in Jobs, OrderOf(j), ToldOf(j), Same(j)
  PROVE  OrderOf(j)' /\ ToldOf(j)'
<1>1. Known(j)' => Known(j)
  BY DEF Known, Same, Kept
<1>2. em_state[j] \in Submitted => ~Known(j)
  BY DEF OrderOf
<1>3. OrderOf(j)'
  BY <1>1, <1>2, SameOrder DEF Same
<1> QED BY <1>3, SameTold DEF Same

\* A step of gwd about k is the same for the other jobs.
LEMMA SameOthers ==
  ASSUME ServiceInv, ServiceInv', Ordered, NEW k \in Jobs,
         About(emq, emq', EMEntries, k), About(dmq, dmq', DMEntries, k),
         dmq' = dmq \/ (dmq # <<>> /\ dmq[1][2] = k) \/ Len(dmq') > Len(dmq),
         About(from_mad, from_mad', Lines, k),
         \A j \in Jobs \ {k} : job_state'[j] = job_state[j] /\ em_state'[j] = em_state[j],
         \A a \in answers' : a[2] # k => a \in answers
  PROVE  \A j \in Jobs \ {k} : OrderOf(j)' /\ ToldOf(j)'
<1> SUFFICES ASSUME NEW j \in Jobs \ {k} PROVE OrderOf(j)' /\ ToldOf(j)'
  OBVIOUS
<1>1. Kept(emq, emq', j) /\ Kept(dmq, dmq', j) /\ Kept(from_mad, from_mad', j)
  <2>1. Kept(emq, emq', j)
    BY QueueTypes, AboutKept
  <2>2. Kept(dmq, dmq', j)
    BY QueueTypes, AboutKept
  <2>3. Kept(from_mad, from_mad', j)
    BY QueueTypes, AboutKept
  <2> QED BY <2>1, <2>2, <2>3
<1>2. Stays(dmq, dmq', <<"WRAPPER_DONE", j>>)
  <2>1. dmq \in Seq(DMEntries)
    BY QueueTypes
  <2>2. CASE dmq' = dmq
    BY <2>1, <2>2, StaysQueue
  <2>3. CASE dmq # <<>> /\ dmq[1][2] = k
    <3>1. dmq[1] # <<"WRAPPER_DONE", j>>
      BY <2>3
    <3> DEFINE e == <<"WRAPPER_DONE", j>>
    <3>2. /\ Stays(dmq, dmq, e) /\ Stays(dmq, Tail(dmq), e)
          /\ \A x \in DMEntries : /\ Stays(dmq, Append(dmq, x), e)
                                 /\ Stays(dmq, Append(Tail(dmq), x), e)
      <4> HIDE DEF e
      <4> QED BY <2>1, <2>3, <3>1, StaysQueue DEF e
    <3> QED BY <3>2 DEF About
  <2>4. CASE Len(dmq') > Len(dmq)
    <3>1. dmq' # dmq /\ ~(dmq # <<>> /\ dmq' = Tail(dmq))
      BY <2>1, <2>4
    <3>2. \A x \in DMEntries : ~(dmq # <<>> /\ dmq' = Append(Tail(dmq), x))
      BY <2>1, <2>4
    <3>3. PICK x \in DMEntries : dmq' = Append(dmq, x)
      BY <3>1, <3>2 DEF About
    <3> QED BY <2>1, <3>3, StaysQueue
  <2> QED BY <2>2, <2>3, <2>4
<1>3. Same(j)
  BY <1>1, <1>2 DEF Same
<1> QED BY <1>3, SameKept DEF Ordered, ServiceInv

\* What an entry that is appended adds.
LEMMA Appended ==
  ASSUME NEW S, NEW q \in Seq(S), NEW x \in S
  PROVE  /\ \A i \in DOMAIN Append(q, x) :
              \/ i \in DOMAIN q /\ Append(q, x)[i] = q[i]
              \/ i = Len(q) + 1 /\ Append(q, x)[i] = x
         /\ Len(q) + 1 \in DOMAIN Append(q, x) /\ Append(q, x)[Len(q) + 1] = x
         /\ \A i \in DOMAIN Append(q, x) : i <= Len(q) + 1
         /\ \A i \in DOMAIN q : i \in Nat /\ i <= Len(q)
         /\ Len(q) \in Nat
OBVIOUS

\* Nothing says that the wrapper of k is done.
LEMMA NotOver ==
  ASSUME NEW k \in Jobs,
         \A i \in DOMAIN emq' : ~DoneE(emq'[i], k),
         \A i \in DOMAIN from_mad' : ~FinalL(from_mad'[i], k),
         ~Known(k)'
  PROVE  OrderOf(k)'
BY DEF OrderOf

\* A step of gwd that reads no line.
LEMMA OrderGwd ==
  ASSUME ServiceInv, ServiceInv', Ordered, NEW k \in Jobs, UNCHANGED <<madv, from_mad>>,
         About(emq, emq', EMEntries, k), About(dmq, dmq', DMEntries, k),
         dmq' = dmq \/ (dmq # <<>> /\ dmq[1][2] = k) \/ Len(dmq') > Len(dmq),
         \A j \in Jobs \ {k} : job_state'[j] = job_state[j] /\ em_state'[j] = em_state[j],
         OrderOf(k)', ToldOf(k)'
  PROVE  Ordered'
<1>1. About(from_mad, from_mad', Lines, k)
  BY DEF About
<1>2. UNCHANGED <<answers, callback, status>>
  BY DEF madv
<1>3. \A j \in Jobs \ {k} : OrderOf(j)' /\ ToldOf(j)'
  BY <1>1, <1>2, SameOthers
<1> QED BY <1>2, <1>3 DEF Ordered, Deleted

\* The head of the queue of the DM.
LEMMA HeadOfDM ==
  ASSUME ServiceInv, NEW a, NEW k \in Jobs, Handles(dmq, a, k)
  PROVE  /\ dmq # <<>> /\ dmq \in Seq(DMEntries) /\ 1 \in DOMAIN dmq /\ dmq[1] = <<a, k>>
         /\ Tail(dmq) \in Seq(DMEntries)
         /\ Kept(dmq, Tail(dmq), k)
BY QueueTypes, KeptQueue DEF Handles

\* gw_dm_wrapper_done_cb: the end that is handled was the only one.
LEMMA OrderDone ==
  ASSUME Steady, ServiceInv, ServiceInv', Ordered, NEW k \in Jobs, UNCHANGED madv,
         Handles(dmq, "WRAPPER_DONE", k), DMWrapperDone(k)
  PROVE  Ordered'
<1> DEFINE e == <<"EPILOG", k>>
<1>1. /\ UNCHANGED <<job_state, emq, from_mad>>
      /\ em_state' = [em_state EXCEPT ![k] = "INIT"]
      /\ dmq' = Tail(dmq) \/ dmq' = Append(Tail(dmq), e)
  BY DEF DMWrapperDone, pipv, ServiceInv, Types, GwdTypes, JobTypes, ExecStates, CancelStates
<1>2. /\ dmq # <<>> /\ 1 \in DOMAIN dmq /\ dmq[1] = <<"WRAPPER_DONE", k>>
      /\ Tail(dmq) \in Seq(DMEntries) /\ dmq \in Seq(DMEntries)
  BY HeadOfDM
<1>3. e \in DMEntries
  BY DEF DMEntries
<1>4. em_state'[k] = "INIT" /\ \A j \in Jobs \ {k} : em_state'[j] = em_state[j]
  BY <1>1, QueueTypes DEF JobTypes
<1>5. \A i \in DOMAIN Tail(dmq) : Tail(dmq)[i][2] # k
  <2>1. \A n \in DOMAIN dmq : n > 1 => dmq[n][2] # k
    BY <1>2 DEF Ordered, ToldOf
  <2> QED BY <1>2, <2>1
<1>6. \A i \in DOMAIN dmq' : dmq'[i][2] = k => dmq'[i] = e
  <2>1. \A i \in DOMAIN Append(Tail(dmq), e) :
          \/ i \in DOMAIN Tail(dmq) /\ Append(Tail(dmq), e)[i] = Tail(dmq)[i]
          \/ i = Len(Tail(dmq)) + 1 /\ Append(Tail(dmq), e)[i] = e
    BY <1>2, <1>3, Appended
  <2> HIDE DEF e
  <2> QED BY <1>1, <1>5, <2>1
<1>7. ToldOf(k)'
  BY <1>4, <1>6 DEF ToldOf
<1>8. OrderOf(k)'
  <2>1. Known(k)
    BY <1>2 DEF Known
  <2>2. Kept(emq, emq', k) /\ Kept(from_mad, from_mad', k) /\ UNCHANGED answers
    BY <1>1, QueueTypes, KeptQueue DEF madv
  <2> QED BY <1>4, <2>1, <2>2, SameOrder DEF Ordered, ServiceInv, Submitted
<1>9. About(emq, emq', EMEntries, k) /\ About(dmq, dmq', DMEntries, k)
  <2>1. About(dmq, Tail(dmq), DMEntries, k) /\ About(dmq, Append(Tail(dmq), e), DMEntries, k)
    BY <1>2, <1>3, AboutAppend DEF About
  <2> QED BY <1>1, <2>1 DEF About
<1> QED BY <1>1, <1>2, <1>4, <1>7, <1>8, <1>9, OrderGwd

\* gw_dm_wrapper_failed_cb: nothing else is said of the job.
LEMMA OrderFailed ==
  ASSUME Steady, ServiceInv, ServiceInv', Ordered, NEW k \in Jobs, UNCHANGED madv,
         Handles(dmq, "WRAPPER_FAILED", k), DMWrapperFailed(k)
  PROVE  Ordered'
<1> DEFINE e == <<"EPILOG", k>>
<1>1. /\ UNCHANGED <<job_state, emq, from_mad>>
      /\ em_state' = [em_state EXCEPT ![k] = "INIT"]
      /\ dmq' = Append(Tail(dmq), e)
  BY DEF DMWrapperFailed, pipv
<1>2. /\ dmq # <<>> /\ 1 \in DOMAIN dmq /\ dmq[1] = <<"WRAPPER_FAILED", k>>
      /\ Tail(dmq) \in Seq(DMEntries) /\ dmq \in Seq(DMEntries)
  BY HeadOfDM
<1>3. e \in DMEntries
  BY DEF DMEntries
<1>4. em_state'[k] = "INIT" /\ \A j \in Jobs \ {k} : em_state'[j] = em_state[j]
  BY <1>1, QueueTypes DEF JobTypes
<1>5. InDM(1, k)
  BY <1>2 DEF SubmitD, ServiceInv, Submission, SubmissionOf
<1>6. \A i \in DOMAIN dmq' : dmq'[i][2] = k => dmq'[i] = e
  <2>1. Silent(Tail(dmq), k)
    BY <1>2, <1>5, OnlyQueue DEF InDM
  <2> HIDE DEF e
  <2> QED BY <1>1, <1>2, <1>3, <2>1 DEF Silent
<1>7. ToldOf(k)'
  BY <1>4, <1>6 DEF ToldOf
<1>8. OrderOf(k)'
  <2>1. Silent(emq', k) /\ Silent(from_mad', k) /\ \A a \in answers' : a[2] # k
    BY <1>1, <1>5 DEF InDM, Unsent, Forgotten, madv
  <2> QED BY <1>4, <2>1 DEF OrderOf, DoneE, FinalL, NoMoreE, NoMoreL, NoMoreA, Silent, Submitted
<1>9. About(emq, emq', EMEntries, k) /\ About(dmq, dmq', DMEntries, k)
  <2>1. About(dmq, Append(Tail(dmq), e), DMEntries, k)
    BY <1>2, <1>3, AboutAppend
  <2> QED BY <1>1, <2>1 DEF About
<1>10. /\ UNCHANGED <<madv, from_mad>> /\ dmq[1][2] = k
       /\ \A j \in Jobs \ {k} : job_state'[j] = job_state[j] /\ em_state'[j] = em_state[j]
  BY <1>1, <1>2, <1>4
<1> HIDE DEF e
<1> QED BY <1>2, <1>10, <1>7, <1>8, <1>9, OrderGwd

\* gw_dm_epilog, and the return of a job that is not being executed.
LEMMA OrderClosed ==
  ASSUME Steady, ServiceInv, ServiceInv', Ordered, NEW k \in Jobs, UNCHANGED madv,
         \/ Handles(dmq, "EPILOG", k) /\ DMEpilog(k)
         \/ DMReschedule(k)
  PROVE  Ordered'
<1> DEFINE w == <<"WRAPPER_DONE", k>>
<1>1. /\ UNCHANGED <<em_state, emq, from_mad>>
      /\ \A j \in Jobs \ {k} : job_state'[j] = job_state[j]
  BY QueueTypes DEF DMEpilog, DMReschedule, pipv, JobTypes
<1>2. Known(k)
  <2>1. CASE Handles(dmq, "EPILOG", k)
    BY <2>1, HeadOfDM DEF Known
  <2>2. CASE DMReschedule(k)
    BY <2>2 DEF Known, DMReschedule
  <2> QED BY <2>1, <2>2
<1>3. /\ Kept(dmq, dmq', k) /\ Stays(dmq, dmq', w) /\ About(dmq, dmq', DMEntries, k)
      /\ dmq' = dmq \/ (dmq # <<>> /\ dmq[1][2] = k)
  <2>1. CASE Handles(dmq, "EPILOG", k) /\ DMEpilog(k)
    <3>1. dmq # <<>> /\ dmq[1] = <<"EPILOG", k>> /\ dmq' = Tail(dmq) /\ Kept(dmq, Tail(dmq), k)
      BY <2>1, HeadOfDM DEF DMEpilog
    <3>2. dmq[1] # w
      BY <3>1
    <3>3. Stays(dmq, Tail(dmq), w)
      <4> HIDE DEF w
      <4> QED BY <3>1, <3>2, QueueTypes, StaysQueue
    <3> QED BY <3>1, <3>3 DEF About
  <2>2. CASE DMReschedule(k)
    <3>1. dmq' = dmq
      BY <2>2 DEF DMReschedule
    <3> QED BY <3>1, QueueTypes, KeptQueue DEF About, Stays
  <2> QED BY <2>1, <2>2
<1>4. ToldOf(k)'
  BY <1>1, <1>3, SameTold DEF Ordered, ServiceInv
<1>5. OrderOf(k)'
  <2>1. Kept(emq, emq', k) /\ Kept(from_mad, from_mad', k) /\ UNCHANGED answers
    BY <1>1, QueueTypes, KeptQueue DEF madv
  <2>2. em_state'[k] \notin Submitted
    BY <1>1, <1>2 DEF Ordered, OrderOf
  <2> QED BY <1>2, <2>1, <2>2, SameOrder DEF Ordered, ServiceInv
<1>6. About(emq, emq', EMEntries, k)
  BY <1>1 DEF About
<1> QED BY <1>1, <1>3, <1>4, <1>5, <1>6, OrderGwd

\* gw_dm_wrapper: nothing is said of the job.
LEMMA OrderDispatch ==
  ASSUME Steady, ServiceInv, ServiceInv', Ordered, NEW k \in Jobs, UNCHANGED madv,
         NEW h \in Hosts, DMDispatch(k, h), Quiet(k)
  PROVE  Ordered'
<1> DEFINE e == <<"SUBMIT", k>>
<1>1. /\ job_state' = [job_state EXCEPT ![k] = "WRAPPER"]
      /\ em_state' = [em_state EXCEPT ![k] = "INIT"]
      /\ emq' = Append(emq, e) /\ UNCHANGED <<dmq, from_mad>>
  BY DEF DMDispatch, ToWrapper, NewRecord, Steady, pipv
<1>2. /\ job_state'[k] = "WRAPPER" /\ em_state'[k] = "INIT"
      /\ \A j \in Jobs \ {k} : job_state'[j] = job_state[j] /\ em_state'[j] = em_state[j]
  BY <1>1, QueueTypes DEF JobTypes
<1>3. Silent(emq, k) /\ Silent(dmq, k) /\ Silent(from_mad, k)
  BY DEF Quiet, Silent
<1>4. e \in EMEntries
  BY DEF EMEntries
<1>5. \A i \in DOMAIN emq' : ~DoneE(emq'[i], k)
  <2>1. ~DoneE(e, k)
    BY DEF DoneE
  <2> HIDE DEF e
  <2> QED BY <1>1, <1>3, <1>4, <2>1, QueueTypes DEF Silent, DoneE
<1>6. OrderOf(k)'
  BY <1>1, <1>2, <1>3, <1>5, NotOver DEF Silent, FinalL, Known
<1>7. ToldOf(k)'
  BY <1>1, <1>2, <1>3 DEF ToldOf, Silent
<1>8. About(emq, emq', EMEntries, k) /\ About(dmq, dmq', DMEntries, k)
  <2>1. About(emq, Append(emq, e), EMEntries, k)
    BY <1>4, AboutAppend
  <2> QED BY <1>1, <2>1 DEF About
<1> QED BY <1>1, <1>2, <1>6, <1>7, <1>8, OrderGwd

\* The head of the queue of the EM.
LEMMA HeadOfEM ==
  ASSUME ServiceInv, NEW a, NEW k \in Jobs, Handles(emq, a, k)
  PROVE  /\ emq # <<>> /\ emq \in Seq(EMEntries) /\ 1 \in DOMAIN emq /\ emq[1] = <<a, k>>
         /\ Tail(emq) \in Seq(EMEntries)
         /\ Kept(emq, Tail(emq), k)
         /\ About(emq, Tail(emq), EMEntries, k)
BY QueueTypes, KeptQueue DEF Handles, About

\* gw_em_submit, gw_em_failed and a retry: no remote job was started.
LEMMA OrderSubmit ==
  ASSUME Steady, ServiceInv, ServiceInv', Ordered, NEW k \in Jobs, UNCHANGED madv,
         \/ Handles(emq, "SUBMIT", k) /\ EMSubmit(k)
         \/ Handles(emq, "FAILED", k) /\ EMFailed(k)
         \/ EMRetry(k)
  PROVE  Ordered'
<1> DEFINE d == <<"WRAPPER_FAILED", k>>
           s == <<"SUBMIT", k>>
<1>1. d \in DMEntries /\ s \in EMEntries
  BY DEF DMEntries, EMEntries
<1>2. /\ Unsent(k) /\ Silent(dmq, k) /\ Silent(from_mad, k)
      /\ IF EMRetry(k) /\ ~(emq # <<>>) THEN Silent(emq, k) ELSE emq # <<>> /\ Only(emq, 1, k)
  <2>1. CASE EMRetry(k)
    <3>1. InTimer(k) /\ emq = <<>>
      BY <2>1 DEF EMRetry, ServiceInv, Submission, SubmissionOf, Waiting
    <3> QED BY <2>1, <3>1 DEF InTimer
  <2>2. CASE Handles(emq, "SUBMIT", k) \/ Handles(emq, "FAILED", k)
    <3>1. emq # <<>> /\ 1 \in DOMAIN emq /\ SubmitE(emq[1], k)
      BY <2>2, HeadOfEM DEF SubmitE
    <3>2. InEM(1, k)
      BY <3>1 DEF ServiceInv, Submission, SubmissionOf
    <3> QED BY <3>1, <3>2 DEF InEM
  <2> QED BY <2>1, <2>2
<1>3. /\ UNCHANGED <<job_state, from_mad>>
      /\ em_state' \in {em_state, [em_state EXCEPT ![k] = "INIT"], [em_state EXCEPT ![k] = "FAILED"]}
      /\ dmq' = dmq \/ dmq' = Append(dmq, d)
      /\ \/ emq # <<>> /\ emq' = Tail(emq)
         \/ emq = <<>> /\ (emq' = emq \/ emq' = Append(emq, s))
  BY DEF Handles, EMSubmit, EMFailed, EMRetry, TellDM, pipv
<1>4. /\ job_state'[k] = "WRAPPER" /\ em_state'[k] \in {"INIT", "FAILED"}
      /\ \A j \in Jobs \ {k} : job_state'[j] = job_state[j] /\ em_state'[j] = em_state[j]
  BY <1>2, <1>3, QueueTypes DEF JobTypes, Unsent
<1>5. \A i \in DOMAIN emq' : emq'[i][2] = k => emq'[i] = s
  <2>1. CASE emq # <<>>
    <3>1. emq' = Tail(emq) /\ Only(emq, 1, k)
      BY <1>2, <1>3, <2>1
    <3>2. Silent(Tail(emq), k)
      BY <2>1, <3>1, QueueTypes, OnlyQueue
    <3> QED BY <3>1, <3>2 DEF Silent
  <2>2. CASE emq = <<>>
    <3>1. emq' = <<>> \/ emq' = <<s>>
      <4> HIDE DEF s
      <4> QED BY <1>1, <1>3, <2>2
    <3> HIDE DEF s
    <3> QED BY <3>1
  <2> QED BY <2>1, <2>2
<1>6. \A i \in DOMAIN dmq' : dmq'[i][2] = k => dmq'[i] = d
  <2>1. \A i \in DOMAIN Append(dmq, d) :
          \/ i \in DOMAIN dmq /\ Append(dmq, d)[i] = dmq[i]
          \/ i = Len(dmq) + 1 /\ Append(dmq, d)[i] = d
    BY <1>1, QueueTypes, Appended
  <2> HIDE DEF d
  <2> QED BY <1>2, <1>3, <2>1 DEF Silent
<1>7. OrderOf(k)'
  <2>1. \A i \in DOMAIN emq' : ~DoneE(emq'[i], k)
    BY <1>5 DEF DoneE
  <2>2. ~Known(k)'
    BY <1>4, <1>6 DEF Known
  <2> QED BY <1>2, <1>3, <2>1, <2>2, NotOver DEF Silent, FinalL
<1>8. ToldOf(k)'
  BY <1>4, <1>6 DEF ToldOf
<1>9. About(emq, emq', EMEntries, k) /\ About(dmq, dmq', DMEntries, k)
  <2>1. About(emq, Append(emq, s), EMEntries, k) /\ About(dmq, Append(dmq, d), DMEntries, k)
    BY <1>1, AboutAppend
  <2> QED BY <1>3, <2>1 DEF About
<1>10. dmq' = dmq \/ Len(dmq') > Len(dmq)
  BY <1>1, <1>3, QueueTypes
<1> QED BY <1>3, <1>4, <1>7, <1>8, <1>9, <1>10, OrderGwd

\* gw_em_pending, gw_em_active, gw_em_suspended: the wrapper is not known to be done.
LEMMA OrderPhase ==
  ASSUME Steady, ServiceInv, ServiceInv', Ordered, NEW k \in Jobs, UNCHANGED madv,
         NEW s \in Submitted, Handles(emq, s, k), EMPhase(k, s)
  PROVE  ~Known(k) /\ Ordered'
<1>1. /\ emq' = Tail(emq) /\ UNCHANGED <<job_state, dmq, from_mad>>
      /\ em_state' = [em_state EXCEPT ![k] = s]
  BY QueueTypes DEF EMPhase, RetryCancel, pipv, JobTypes, CancelStates
<1>2. /\ em_state'[k] = s /\ \A j \in Jobs \ {k} : em_state'[j] = em_state[j]
  BY <1>1, QueueTypes DEF JobTypes
<1>3. ~Known(k)
  <2>1. emq \in Seq(EMEntries) /\ 1 \in DOMAIN emq /\ emq[1] = <<s, k>> /\ s # "DONE"
    BY HeadOfEM DEF Submitted
  <2>2. ~NoMoreE(0, k)
    BY <2>1 DEF NoMoreE
  <2> QED BY <2>2 DEF Ordered, OrderOf
<1>4. ~Known(k)'
  BY <1>1, <1>3 DEF Known
<1>5. OrderOf(k)'
  <2>1. Kept(emq, emq', k) /\ Kept(from_mad, from_mad', k) /\ UNCHANGED answers
    BY <1>1, HeadOfEM, QueueTypes, KeptQueue DEF madv
  <2> QED BY <1>4, <2>1, SameOrder DEF Ordered, ServiceInv
<1>6. ToldOf(k)'
  <2>1. \A i \in DOMAIN dmq : dmq[i] # <<"WRAPPER_DONE", k>>
    BY <1>3 DEF Known
  <2> QED BY <1>1, <1>2, <2>1 DEF ToldOf, Submitted
<1>7. About(emq, emq', EMEntries, k) /\ About(dmq, dmq', DMEntries, k)
  BY <1>1, HeadOfEM DEF About
<1> QED BY <1>1, <1>2, <1>3, <1>5, <1>6, <1>7, OrderGwd

\* gw_em_done: the first report of the end is passed on, a second one is dropped.
LEMMA OrderEnd ==
  ASSUME Steady, ServiceInv, ServiceInv', Ordered, NEW k \in Jobs, UNCHANGED madv,
         Handles(emq, "DONE", k), EMDone(k)
  PROVE  Ordered'
<1> DEFINE w == <<"WRAPPER_DONE", k>>
<1>1. /\ emq' = Tail(emq) /\ UNCHANGED <<job_state, from_mad>>
      /\ IF em_state[k] = "DONE" THEN UNCHANGED <<em_state, dmq>>
         ELSE em_state' = [em_state EXCEPT ![k] = "DONE"] /\ dmq' = Append(dmq, w)
  BY DEF EMDone, TellDM, pipv
<1>2. em_state'[k] = "DONE" /\ \A j \in Jobs \ {k} : em_state'[j] = em_state[j]
  BY <1>1, QueueTypes DEF JobTypes
<1>3. w \in DMEntries
  BY DEF DMEntries
<1>4. /\ NoMoreE(1, k) /\ NoMoreL(0, k) /\ NoMoreA(k)
      /\ emq \in Seq(EMEntries) /\ emq # <<>>
  <2>1. emq \in Seq(EMEntries) /\ 1 \in DOMAIN emq /\ emq[1] = <<"DONE", k>> /\ emq # <<>>
    BY HeadOfEM
  <2>2. DoneE(emq[1], k)
    BY <2>1 DEF DoneE
  <2> QED BY <2>1, <2>2 DEF Ordered, OrderOf
<1>5. NoMoreE(0, k)' /\ NoMoreL(0, k)' /\ NoMoreA(k)'
  <2>1. NoMoreE(0, k)'
    BY <1>1, <1>4 DEF NoMoreE
  <2> QED BY <1>1, <1>4, <2>1 DEF NoMoreL, NoMoreA, madv
<1>6. OrderOf(k)'
  <2>1. emq' \in Seq(EMEntries) /\ from_mad' \in Seq(Lines)
    BY QueueTypes DEF ServiceInv, Types, GwdTypes, PipeTypes
  <2>2. /\ \A i \in DOMAIN emq' : NoMoreE(i, k)'
        /\ \A i \in DOMAIN from_mad' : NoMoreL(i, k)'
    BY <1>5, <2>1 DEF NoMoreE, NoMoreL
  <2> QED BY <1>2, <1>5, <2>2 DEF OrderOf, Submitted
<1>7. ToldOf(k)'
  <2>1. CASE em_state[k] = "DONE"
    BY <1>1, <2>1 DEF Ordered, ToldOf
  <2>2. CASE em_state[k] # "DONE"
    <3>1. \A i \in DOMAIN dmq : dmq[i] # w
      BY <2>2 DEF Ordered, ToldOf
    <3>2. /\ Len(dmq) + 1 \in DOMAIN dmq' /\ dmq'[Len(dmq) + 1] = w
          /\ \A i \in DOMAIN dmq' : dmq'[i] = w => i = Len(dmq) + 1
          /\ \A i \in DOMAIN dmq' : ~(i > Len(dmq) + 1)
      <4>1. dmq' = Append(dmq, w) /\ dmq \in Seq(DMEntries)
        BY <1>1, <2>2, QueueTypes
      <4>2. /\ \A i \in DOMAIN dmq' :
                 \/ i \in DOMAIN dmq /\ dmq'[i] = dmq[i]
                 \/ i = Len(dmq) + 1 /\ dmq'[i] = w
            /\ Len(dmq) + 1 \in DOMAIN dmq' /\ dmq'[Len(dmq) + 1] = w
            /\ \A i \in DOMAIN dmq' : i <= Len(dmq) + 1
            /\ \A i \in DOMAIN dmq : i \in Nat
            /\ Len(dmq) \in Nat
        BY <1>3, <4>1, Appended
      <4> HIDE DEF w
      <4> QED BY <3>1, <4>2
    <3> QED BY <1>2, <3>2 DEF ToldOf
  <2> QED BY <2>1, <2>2
<1>8. /\ About(emq, emq', EMEntries, k) /\ About(dmq, dmq', DMEntries, k)
      /\ dmq' = dmq \/ Len(dmq') > Len(dmq)
  <2>1. About(dmq, Append(dmq, w), DMEntries, k)
    BY <1>3, AboutAppend
  <2>2. Len(Append(dmq, w)) > Len(dmq)
    BY <1>3, QueueTypes
  <2> QED BY <1>1, <2>1, <2>2, HeadOfEM DEF About
<1> QED BY <1>1, <1>2, <1>6, <1>7, <1>8, OrderGwd

\* gw_em_listener: after a line that ends the wrapper only such lines come.
LEMMA OrderHeard ==
  ASSUME Steady, ServiceInv, ServiceInv', Ordered, NEW k \in Jobs, UNCHANGED madv,
         NEW l \in Lines, Listens(l, k)
  PROVE  Ordered'
<1>1. /\ from_mad # <<>> /\ from_mad[1] = l /\ l[2] = k /\ from_mad' = Tail(from_mad)
      /\ from_mad \in Seq(Lines) /\ 1 \in DOMAIN from_mad
      /\ emq \in Seq(EMEntries)
      /\ Posts(l, k) /\ UNCHANGED <<job_state, em_state, dmq, answers>>
  BY QueueTypes DEF Listens, madv
<1>2. About(from_mad, from_mad', Lines, k) /\ About(dmq, dmq', DMEntries, k)
  BY <1>1 DEF About
<1>3. /\ NoMoreL(0, k) => NoMoreL(0, k)' /\ Final(l)
      /\ NoMoreL(1, k) => NoMoreL(0, k)'
      /\ \A i \in DOMAIN from_mad' : /\ i + 1 \in DOMAIN from_mad /\ from_mad'[i] = from_mad[i + 1]
                                     /\ NoMoreL(i + 1, k) => NoMoreL(i, k)'
  <2>1. \A i \in DOMAIN from_mad' : /\ i + 1 \in DOMAIN from_mad /\ from_mad'[i] = from_mad[i + 1]
                                    /\ i \in Nat /\ i > 0
    BY <1>1
  <2>2. NoMoreL(0, k) => NoMoreL(0, k)' /\ Final(l)
    BY <1>1, <2>1 DEF NoMoreL
  <2>3. NoMoreL(1, k) => NoMoreL(0, k)'
    BY <1>1, <2>1 DEF NoMoreL
  <2>4. \A i \in DOMAIN from_mad' : NoMoreL(i + 1, k) => NoMoreL(i, k)'
    BY <1>1, <2>1 DEF NoMoreL
  <2> QED BY <2>1, <2>2, <2>3, <2>4
<1>4. NoMoreA(k) => NoMoreA(k)'
  BY <1>1 DEF NoMoreA
<1>5. Known(k)' <=> Known(k)
  BY <1>1 DEF Known
<1>6. \A i \in DOMAIN from_mad' : FinalL(from_mad'[i], k) => NoMoreL(i, k)' /\ NoMoreA(k)'
  BY <1>3, <1>4 DEF Ordered, OrderOf
<1>7. About(emq, emq', EMEntries, k) /\ OrderOf(k)'
  <2>1. CASE UNCHANGED emq
    <3>1. \A i \in DOMAIN emq' : DoneE(emq'[i], k) =>
            NoMoreE(i, k)' /\ NoMoreL(0, k)' /\ NoMoreA(k)'
      BY <1>3, <1>4, <2>1 DEF Ordered, OrderOf, NoMoreE
    <3>2. Known(k)' =>
            NoMoreE(0, k)' /\ NoMoreL(0, k)' /\ NoMoreA(k)' /\ em_state'[k] \notin Submitted
      BY <1>1, <1>3, <1>4, <1>5, <2>1 DEF Ordered, OrderOf, NoMoreE
    <3> QED BY <1>6, <2>1, <3>1, <3>2 DEF OrderOf, About
  <2>2. ASSUME NEW x \in EMEntries, emq' = Append(emq, x), x[2] = k, x[1] = "DONE" <=> Final(l)
        PROVE  About(emq, emq', EMEntries, k) /\ OrderOf(k)'
    <3>1. /\ \A i \in DOMAIN emq' : \/ i \in DOMAIN emq /\ emq'[i] = emq[i]
                                    \/ i = Len(emq) + 1 /\ emq'[i] = x
          /\ \A i \in DOMAIN emq' : i <= Len(emq) + 1
          /\ Len(emq) \in Nat
      BY <1>1, <2>2, Appended
    <3>2. ASSUME NEW i, i \in DOMAIN emq \/ i = 0, NoMoreE(i, k), Final(l) PROVE NoMoreE(i, k)'
      BY <2>2, <3>1, <3>2 DEF NoMoreE
    <3>3. ASSUME NEW i \in DOMAIN emq', DoneE(emq'[i], k)
          PROVE  NoMoreE(i, k)' /\ NoMoreL(0, k)' /\ NoMoreA(k)'
      <4>1. CASE i \in DOMAIN emq /\ emq'[i] = emq[i]
        BY <1>3, <1>4, <3>2, <3>3, <4>1 DEF Ordered, OrderOf
      <4>2. CASE i = Len(emq) + 1 /\ emq'[i] = x
        <5>1. FinalL(from_mad[1], k)
          BY <1>1, <2>2, <3>3, <4>2 DEF DoneE, FinalL
        <5>2. NoMoreL(1, k) /\ NoMoreA(k)
          BY <1>1, <5>1 DEF Ordered, OrderOf
        <5>3. NoMoreE(i, k)'
          <6>1. ASSUME NEW n \in DOMAIN emq', n > i PROVE FALSE
            <7>1. n <= Len(emq) + 1 /\ n \in Int
              BY <3>1
            <7> QED BY <3>1, <4>2, <6>1, <7>1
          <6> QED BY <6>1 DEF NoMoreE
        <5> QED BY <1>3, <1>4, <5>2, <5>3
      <4> QED BY <3>1, <4>1, <4>2
    <3>4. Known(k)' =>
            NoMoreE(0, k)' /\ NoMoreL(0, k)' /\ NoMoreA(k)' /\ em_state'[k] \notin Submitted
      BY <1>1, <1>3, <1>4, <1>5, <3>2 DEF Ordered, OrderOf
    <3>5. OrderOf(k)'
      BY <1>6, <3>3, <3>4 DEF OrderOf
    <3> QED BY <2>2, <3>5 DEF About
  <2> QED BY <1>1, <2>1, <2>2 DEF Posts
<1>8. ToldOf(k)'
  BY <1>1 DEF Ordered, ToldOf
<1>9. \A j \in Jobs \ {k} : OrderOf(j)' /\ ToldOf(j)'
  BY <1>1, <1>2, <1>7, SameOthers
<1>10. Deleted'
  BY DEF Ordered, Deleted, madv
<1> QED BY <1>7, <1>8, <1>9, <1>10 DEF Ordered

\* It is said, or known, that the wrapper of k is done.
Said(k) ==
  \/ \E i \in DOMAIN emq : DoneE(emq[i], k)
  \/ \E i \in DOMAIN from_mad : FinalL(from_mad[i], k)
  \/ Known(k)

LEMMA SaidIsTrue ==
  ASSUME ServiceInv, Ordered, NEW k \in Jobs, Said(k)
  PROVE  Over(k) /\ NoMoreA(k)
<1>1. NoMoreA(k)
  BY DEF Said, Ordered, OrderOf
<1>2. EndsOf(k)
  BY DEF ServiceInv, Ends
<1> QED BY <1>1, <1>2 DEF Said, EndsOf, DoneE, FinalL, Known

\* A thread of the MAD says something about k: nothing but an end once one is said.
LEMMA OrderMad ==
  ASSUME ServiceInv, ServiceInv', Ordered, NEW k \in Jobs, UNCHANGED gwdv, Deleted',
         \A a \in answers' : a[2] # k => a \in answers,
         Said(k) => NoMoreA(k)',
         \/ UNCHANGED from_mad
         \/ \E x \in Lines : /\ from_mad' = Append(from_mad, x) /\ x[2] = k
                             /\ Said(k) => Final(x)
                             /\ Final(x) => NoMoreA(k)'
  PROVE  Ordered'
<1>1. UNCHANGED <<job_state, em_state, emq, dmq>>
  BY DEF gwdv
<1>2. /\ About(emq, emq', EMEntries, k) /\ About(dmq, dmq', DMEntries, k)
      /\ About(from_mad, from_mad', Lines, k)
  BY <1>1, QueueTypes DEF About
<1>3. \A j \in Jobs \ {k} : OrderOf(j)' /\ ToldOf(j)'
  BY <1>1, <1>2, SameOthers
<1>4. ToldOf(k)'
  BY <1>1 DEF Ordered, ToldOf
<1>5. OrderOf(k)'
  <2>1. from_mad \in Seq(Lines)
    BY QueueTypes
  <2>2. Known(k)' <=> Known(k)
    BY <1>1 DEF Known
  <2>3. \A i : NoMoreE(i, k) => NoMoreE(i, k)'
    BY <1>1 DEF NoMoreE
  <2>4. CASE UNCHANGED from_mad
    <3>1. \A i : NoMoreL(i, k) => NoMoreL(i, k)'
      BY <2>4 DEF NoMoreL
    <3> QED BY <1>1, <2>2, <2>3, <2>4, <3>1 DEF Ordered, OrderOf, Said
  <2>5. ASSUME NEW x \in Lines, from_mad' = Append(from_mad, x), x[2] = k,
               Said(k) => Final(x), Final(x) => NoMoreA(k)'
        PROVE  OrderOf(k)'
    <3>1. /\ \A i \in DOMAIN from_mad' : \/ i \in DOMAIN from_mad /\ from_mad'[i] = from_mad[i]
                                         \/ i = Len(from_mad) + 1 /\ from_mad'[i] = x
          /\ \A i \in DOMAIN from_mad' : i <= Len(from_mad) + 1 /\ i \in Nat
          /\ Len(from_mad) \in Nat
      BY <2>1, <2>5, Appended
    <3>2. ASSUME NEW i, NoMoreL(i, k), Said(k) PROVE NoMoreL(i, k)'
      BY <2>5, <3>1, <3>2 DEF NoMoreL
    <3>3. ASSUME NEW i \in DOMAIN from_mad', FinalL(from_mad'[i], k)
          PROVE  NoMoreL(i, k)' /\ NoMoreA(k)'
      <4>1. CASE i \in DOMAIN from_mad /\ from_mad'[i] = from_mad[i]
        BY <3>2, <3>3, <4>1 DEF Ordered, OrderOf, Said
      <4>2. CASE i = Len(from_mad) + 1 /\ from_mad'[i] = x
        <5>1. NoMoreL(i, k)'
          <6>1. ASSUME NEW n \in DOMAIN from_mad', n > i PROVE FALSE
            <7>1. n <= Len(from_mad) + 1 /\ n \in Nat
              BY <3>1
            <7> QED BY <3>1, <4>2, <6>1, <7>1
          <6> QED BY <6>1 DEF NoMoreL
        <5> QED BY <2>5, <3>3, <4>2, <5>1 DEF FinalL
      <4> QED BY <3>1, <4>1, <4>2
    <3>4. ASSUME NEW i \in DOMAIN emq', DoneE(emq'[i], k)
          PROVE  NoMoreE(i, k)' /\ NoMoreL(0, k)' /\ NoMoreA(k)'
      <4>1. Said(k) /\ NoMoreE(i, k) /\ NoMoreL(0, k)
        BY <1>1, <3>4 DEF Said, Ordered, OrderOf
      <4> QED BY <2>3, <3>2, <4>1
    <3>5. Known(k)' =>
            NoMoreE(0, k)' /\ NoMoreL(0, k)' /\ NoMoreA(k)' /\ em_state'[k] \notin Submitted
      <4> SUFFICES ASSUME Known(k)
                   PROVE  /\ NoMoreE(0, k)' /\ NoMoreL(0, k)' /\ NoMoreA(k)'
                          /\ em_state'[k] \notin Submitted
        BY <2>2
      <4>1. Said(k) /\ NoMoreE(0, k) /\ NoMoreL(0, k) /\ em_state[k] \notin Submitted
        BY DEF Said, Ordered, OrderOf
      <4> QED BY <1>1, <2>3, <3>2, <4>1
    <3> QED BY <3>3, <3>4, <3>5 DEF OrderOf
  <2> QED BY <2>4, <2>5
<1> QED BY <1>3, <1>4, <1>5 DEF Ordered

\* do_SUBMIT: no remote job was started before.
LEMMA OrderStarted ==
  ASSUME Steady, ServiceInv, ServiceInv', Ordered, NEW k \in Jobs, UNCHANGED gwdv,
         to_mad # <<>>, Head(to_mad) = <<"SUBMIT", k, 0>>, to_mad' = Tail(to_mad),
         MAD!MadSubmit(k), UNCHANGED <<tasks, answers, callback>>
  PROVE  Ordered'
<1>1. InMad(1, k)
  <2>1. 1 \in DOMAIN to_mad /\ SubmitT(to_mad[1], k)
    BY QueueTypes DEF SubmitT
  <2> QED BY <2>1 DEF ServiceInv, Submission, SubmissionOf
<1>2. ~Said(k)
  BY <1>1 DEF Said, InMad, Unsent, Silent, DoneE, FinalL, Known
<1>3. PICK x : from_mad' = Append(from_mad, x) /\ x[1] = "SUBMIT" /\ x[2] = k
  <2>1. CASE from_mad' = Append(from_mad, <<"SUBMIT", k, TRUE, Len(remote) + 1>>)
    <3> DEFINE l == <<"SUBMIT", k, TRUE, Len(remote) + 1>>
    <3>1. l[1] = "SUBMIT" /\ l[2] = k
      OBVIOUS
    <3>2. from_mad' = Append(from_mad, l)
      BY <2>1
    <3> HIDE DEF l
    <3> QED BY <3>1, <3>2
  <2>2. CASE from_mad' = Append(from_mad, <<"SUBMIT", k, FALSE, "-">>)
    <3> DEFINE l == <<"SUBMIT", k, FALSE, "-">>
    <3>1. l[1] = "SUBMIT" /\ l[2] = k
      OBVIOUS
    <3>2. from_mad' = Append(from_mad, l)
      BY <2>2
    <3> HIDE DEF l
    <3> QED BY <3>1, <3>2
  <2> QED BY <2>1, <2>2 DEF MAD!MadSubmit, MAD!Say
<1>4. x \in Lines
  <2>1. from_mad' \in Seq(Lines) /\ from_mad \in Seq(Lines)
    BY DEF ServiceInv, Types, PipeTypes
  <2>2. Len(from_mad) + 1 \in DOMAIN from_mad' /\ from_mad'[Len(from_mad) + 1] = x
    BY <1>3, <2>1
  <2> QED BY <2>1, <2>2
<1>5. Deleted'
  <2>1. callback # <<>> => callback[2] \in DOMAIN status /\ status \in Seq(States)
    BY DEF ServiceInv, CallbackOK, Types, MadTypes
  <2>2. status' = status \/ status' = Append(status, "None")
    BY DEF MAD!MadSubmit
  <2>3. callback # <<>> => status'[callback[2]] = status[callback[2]]
    BY <2>1, <2>2 DEF States
  <2> QED BY <2>3 DEF Ordered, Deleted
<1> QED BY <1>2, <1>3, <1>4, <1>5, OrderMad DEF Final

\* do_POLL: when an end was said, the job has left the list or is DONE in it.
LEMMA OrderPolled ==
  ASSUME Steady, ServiceInv, ServiceInv', Ordered, NEW k \in Jobs, UNCHANGED gwdv,
         MAD!PoolPoll(k)
  PROVE  Ordered'
<1>1. UNCHANGED <<from_mad, callback, status>>
  BY DEF MAD!PoolPoll, MAD!pipes
<1>2. PICK a : a[2] = k /\ answers' = answers \union {a} /\ (Over(k) => Final(a))
  <2>1. CASE /\ job_list[k] # 0
             /\ answers' = answers \union {<<"POLL", k, TRUE, status[job_list[k]]>>}
    <3>1. Over(k) => Final(<<"POLL", k, TRUE, status[job_list[k]]>>)
      BY <2>1 DEF Over, Final
    <3> QED BY <2>1, <3>1
  <2>2. CASE /\ job_list[k] = 0
             /\ answers' = answers \union {<<"POLL", k, FALSE, "-">>}
    <3>1. Final(<<"POLL", k, FALSE, "-">>)
      BY DEF Final
    <3> QED BY <2>2, <3>1
  <2> QED BY <2>1, <2>2 DEF MAD!PoolPoll, Steady
<1>3. Said(k) => NoMoreA(k)'
  BY <1>2, SaidIsTrue DEF NoMoreA
<1>4. Deleted'
  BY <1>1 DEF Ordered, Deleted
<1> QED BY <1>1, <1>2, <1>3, <1>4, OrderMad

\* An answer that is printed was the only one of its job.
LEMMA OrderPrinted ==
  ASSUME Steady, ServiceInv, ServiceInv', Ordered, Polled, NEW k \in Jobs, UNCHANGED gwdv,
         NEW a \in answers, a[2] = k, MAD!PoolPrint(a)
  PROVE  Ordered'
<1>1. answers' = answers \ {a} /\ from_mad' = Append(from_mad, a) /\ UNCHANGED <<callback, status>>
  BY DEF MAD!PoolPrint, MAD!Say
<1>2. a \in Lines
  BY DEF ServiceInv, Types, MadTypes, Report
<1>3. PollAnswered(a, k)
  BY DEF Polled, PollOf
<1>4. NoMoreA(k)'
  BY <1>1, <1>3 DEF PollAnswered, NoMoreA
<1>5. Said(k) => Final(a)
  BY SaidIsTrue DEF NoMoreA
<1>6. Deleted'
  BY <1>1 DEF Ordered, Deleted
<1> QED BY <1>1, <1>2, <1>4, <1>5, <1>6, OrderMad

\* do_CALLBACK reports an end when the pool has printed its answers.
LEMMA OrderReported ==
  ASSUME Steady, ServiceInv, ServiceInv', Ordered, NEW k \in Jobs, UNCHANGED gwdv,
         callback # <<>>, callback[1] = k, MAD!CallbackReport
  PROVE  Ordered'
<1> DEFINE x == <<"CALLBACK", k, TRUE, status[callback[2]]>>
<1>1. /\ from_mad' = Append(from_mad, x) /\ callback' = <<>> /\ UNCHANGED <<answers, status>>
      /\ \/ callback[3] = "deleted" /\ answers = {}
         \/ status[callback[2]] \notin {"DONE", "FAILED"}
  BY DEF MAD!CallbackReport, MAD!Say, MAD!Ended, Steady
<1>2. Final(x) <=> status[callback[2]] = "DONE"
  BY DEF Final
<1>3. x \in Lines
  <2>1. from_mad' \in Seq(Lines) /\ from_mad \in Seq(Lines)
    BY DEF ServiceInv, Types, PipeTypes
  <2> HIDE DEF x
  <2>2. Len(from_mad) + 1 \in DOMAIN from_mad' /\ from_mad'[Len(from_mad) + 1] = x
    BY <1>1, <2>1
  <2> QED BY <2>1, <2>2
<1>4. Said(k) => Final(x)
  <2> SUFFICES ASSUME Said(k) PROVE status[callback[2]] = "DONE"
    BY <1>2
  <2>1. CASE callback[3] = "deleted"
    BY <2>1 DEF Ordered, Deleted
  <2>2. CASE callback[3] # "deleted"
    <3>1. callback[2] \in DOMAIN remote /\ job_list[k] = callback[2]
      BY <2>2 DEF ServiceInv, CallbackOK
    <3>2. job_list[k] # 0
      BY <3>1 DEF ServiceInv, Types, MadTypes
    <3> QED BY <3>1, <3>2, SaidIsTrue DEF Over
  <2> QED BY <2>1, <2>2
<1>5. Final(x) => NoMoreA(k)'
  <2> SUFFICES ASSUME status[callback[2]] = "DONE" PROVE NoMoreA(k)'
    BY <1>2
  <2>1. answers' = {}
    BY <1>1
  <2> QED BY <2>1 DEF NoMoreA
<1>6. Said(k) => NoMoreA(k)'
  BY <1>4, <1>5
<1>7. Deleted' /\ x[2] = k
  BY <1>1 DEF Deleted
<1> HIDE DEF x
<1> QED BY <1>1, <1>3, <1>4, <1>5, <1>6, <1>7, OrderMad

\* The polls of gwd, and the steps of the MAD that say nothing.
LEMMA OrderSame ==
  ASSUME ServiceInv, ServiceInv', Ordered, Deleted',
         UNCHANGED <<job_state, em_state, emq, dmq, from_mad, answers>>
  PROVE  Ordered'
<1> SUFFICES ASSUME NEW j \in Jobs PROVE OrderOf(j)' /\ ToldOf(j)'
  BY DEF Ordered
<1>1. Same(j)
  BY QueueTypes, KeptQueue DEF Same, Stays
<1> QED BY <1>1, SameKept DEF Ordered, ServiceInv

\* Once it is said that a wrapper is done, nothing else is said of it.
LEMMA StepOrder ==
  ASSUME Steady, ServiceInv, ServiceInv', Ordered, Polled, [Next]_vars
  PROVE  Ordered'
<1>1. ASSUME NEW k \in Jobs, GwdStepOf(k) PROVE Ordered'
  <2>1. UNCHANGED madv
    BY <1>1 DEF GwdStepOf
  <2>2. CASE EMPoll(k)
    <3>1. Deleted'
      BY <2>1 DEF Ordered, Deleted, madv
    <3>2. UNCHANGED <<job_state, em_state, emq, dmq, from_mad, answers>>
      BY <2>1, <2>2 DEF EMPoll, madv
    <3> QED BY <3>1, <3>2, OrderSame
  <2> QED BY <1>1, <2>1, <2>2, OrderDispatch, OrderDone, OrderFailed, OrderClosed, OrderSubmit, OrderPhase,
             OrderEnd, OrderHeard DEF GwdStepOf
<1>2. ASSUME NEW k \in Jobs, MadStepOf(k) PROVE Ordered'
  <2>1. UNCHANGED gwdv
    BY <1>2 DEF MadStepOf
  <2>2. CASE UNCHANGED <<from_mad, remote, status, job_list, answers, callback>>
    BY <2>1, <2>2, OrderSame DEF gwdv, Ordered, Deleted
  <2> QED BY <1>2, <2>1, <2>2, OrderStarted, OrderPolled, OrderPrinted, OrderReported DEF MadStepOf
<1>3. CASE Inner
  BY <1>3, OrderSame DEF Inner, gwdv, Ordered
<1> QED BY <1>1, <1>2, <1>3, Kinds

-----------------------------------------------------------------------------
(* The counters of the hosts.                                              *)

\* A job that leaves its host, one that joins it, and one that is on none.
LEMMA CountLeaves ==
  ASSUME NEW f, NEW hst, NEW S, Counts(f, hst, S), NEW k \in S
  PROVE  Counts([f EXCEPT ![hst[k]] = @ - 1], hst, S \ {k})
<1> DEFINE g == [f EXCEPT ![hst[k]] = @ - 1]
<1>1. g \in [Hosts -> Int]
  <2>1. f \in [Hosts -> Int]
    BY DEF Counts
  <2>2. CASE hst[k] \in Hosts
    BY <2>1, <2>2
  <2>3. CASE hst[k] \notin Hosts
    <3>1. g = f
      BY <2>1, <2>3
    <3> QED BY <2>1, <3>1
  <2> QED BY <2>2, <2>3
<1>2. ASSUME NEW h \in Hosts
      PROVE  /\ IsFiniteSet(OnHost(hst, S \ {k}, h))
             /\ g[h] = Cardinality(OnHost(hst, S \ {k}, h))
  <2>1. IsFiniteSet(OnHost(hst, S, h)) /\ f[h] = Cardinality(OnHost(hst, S, h)) /\ f[h] \in Int
    BY DEF Counts
  <2>2. CASE hst[k] = h
    <3>1. OnHost(hst, S \ {k}, h) = OnHost(hst, S, h) \ {k} /\ k \in OnHost(hst, S, h)
      BY <2>2 DEF OnHost
    <3>2. /\ IsFiniteSet(OnHost(hst, S, h) \ {k})
          /\ Cardinality(OnHost(hst, S, h) \ {k}) = Cardinality(OnHost(hst, S, h)) - 1
      BY <2>1, <3>1, FS_RemoveElement
    <3>3. g[h] = f[h] - 1
      BY <2>2 DEF Counts
    <3> QED BY <2>1, <3>1, <3>2, <3>3
  <2>3. CASE hst[k] # h
    <3>1. OnHost(hst, S \ {k}, h) = OnHost(hst, S, h)
      BY <2>3 DEF OnHost
    <3>2. g[h] = f[h]
      BY <2>3 DEF Counts
    <3> QED BY <2>1, <3>1, <3>2
  <2> QED BY <2>2, <2>3
<1> HIDE DEF g
<1>3. Counts(g, hst, S \ {k})
  BY <1>1, <1>2 DEF Counts
<1> QED BY <1>3 DEF g

LEMMA CountJoins ==
  ASSUME NEW f, NEW hst, NEW S, Counts(f, hst, S), NEW k, k \notin S
  PROVE  Counts([f EXCEPT ![hst[k]] = @ + 1], hst, S \union {k})
<1> DEFINE g == [f EXCEPT ![hst[k]] = @ + 1]
<1>1. g \in [Hosts -> Int]
  <2>1. f \in [Hosts -> Int]
    BY DEF Counts
  <2>2. CASE hst[k] \in Hosts
    BY <2>1, <2>2
  <2>3. CASE hst[k] \notin Hosts
    <3>1. g = f
      BY <2>1, <2>3
    <3> QED BY <2>1, <3>1
  <2> QED BY <2>2, <2>3
<1>2. ASSUME NEW h \in Hosts
      PROVE  /\ IsFiniteSet(OnHost(hst, S \union {k}, h))
             /\ g[h] = Cardinality(OnHost(hst, S \union {k}, h))
  <2>1. IsFiniteSet(OnHost(hst, S, h)) /\ f[h] = Cardinality(OnHost(hst, S, h)) /\ f[h] \in Int
    BY DEF Counts
  <2>2. CASE hst[k] = h
    <3>1. /\ OnHost(hst, S \union {k}, h) = OnHost(hst, S, h) \union {k}
          /\ k \notin OnHost(hst, S, h)
      BY <2>2 DEF OnHost
    <3>2. /\ IsFiniteSet(OnHost(hst, S, h) \union {k})
          /\ Cardinality(OnHost(hst, S, h) \union {k}) = Cardinality(OnHost(hst, S, h)) + 1
      BY <2>1, <3>1, FS_AddElement
    <3>3. g[h] = f[h] + 1
      BY <2>2 DEF Counts
    <3> QED BY <2>1, <3>1, <3>2, <3>3
  <2>3. CASE hst[k] # h
    <3>1. OnHost(hst, S \union {k}, h) = OnHost(hst, S, h)
      BY <2>3 DEF OnHost
    <3>2. g[h] = f[h]
      BY <2>3 DEF Counts
    <3> QED BY <2>1, <3>1, <3>2
  <2> QED BY <2>2, <2>3
<1> HIDE DEF g
<1>3. Counts(g, hst, S \union {k})
  BY <1>1, <1>2 DEF Counts
<1> QED BY <1>3 DEF g

LEMMA CountMoves ==
  ASSUME NEW f, NEW hst, NEW S, S \subseteq DOMAIN hst, Counts(f, hst, S), NEW k, k \notin S, NEW h
  PROVE  Counts(f, [hst EXCEPT ![k] = h], S)
<1>1. \A g : OnHost([hst EXCEPT ![k] = h], S, g) = OnHost(hst, S, g)
  BY DEF OnHost
<1> QED BY <1>1 DEF Counts

\* What a queue of the DM says of the jobs to be closed.
LEMMA ClosingQueue ==
  ASSUME NEW q \in Seq(DMEntries), NEW j
  PROVE  /\ \A x \in DMEntries :
              Closing(Append(q, x), j) <=> Closing(q, j) \/ x = <<"EPILOG", j>>
         /\ q # <<>> => (Closing(q, j) <=> q[1] = <<"EPILOG", j>> \/ Closing(Tail(q), j))
<1> DEFINE e == <<"EPILOG", j>>
<1>1. \A x \in DMEntries : Closing(Append(q, x), j) <=> Closing(q, j) \/ x = e
  <2> SUFFICES ASSUME NEW x \in DMEntries
               PROVE  Closing(Append(q, x), j) <=> Closing(q, j) \/ x = e
    OBVIOUS
  <2>1. /\ \A i \in DOMAIN Append(q, x) : \/ i \in DOMAIN q /\ Append(q, x)[i] = q[i]
                                          \/ i = Len(q) + 1 /\ Append(q, x)[i] = x
        /\ Len(q) + 1 \in DOMAIN Append(q, x) /\ Append(q, x)[Len(q) + 1] = x
    BY Appended
  <2>2. \A i \in DOMAIN q : i \in DOMAIN Append(q, x) /\ Append(q, x)[i] = q[i]
    OBVIOUS
  <2> HIDE DEF e
  <2>3. Closing(q, j) <=> \E i \in DOMAIN q : q[i] = e
    BY DEF Closing, e
  <2>4. Closing(Append(q, x), j) <=> \E i \in DOMAIN Append(q, x) : Append(q, x)[i] = e
    BY DEF Closing, e
  <2> QED BY <2>1, <2>2, <2>3, <2>4
<1>2. ASSUME q # <<>> PROVE Closing(q, j) <=> q[1] = e \/ Closing(Tail(q), j)
  <2>1. /\ \A i \in DOMAIN Tail(q) : i + 1 \in DOMAIN q /\ Tail(q)[i] = q[i + 1]
        /\ \A i \in DOMAIN q : i = 1 \/ (i - 1 \in DOMAIN Tail(q) /\ Tail(q)[i - 1] = q[i])
        /\ 1 \in DOMAIN q
    BY <1>2
  <2> HIDE DEF e
  <2>2. Closing(q, j) <=> \E i \in DOMAIN q : q[i] = e
    BY DEF Closing, e
  <2>3. Closing(Tail(q), j) <=> \E i \in DOMAIN Tail(q) : Tail(q)[i] = e
    BY DEF Closing, e
  <2> QED BY <2>1, <2>2, <2>3
<1> QED BY <1>1, <1>2

\* gw_dm_wrapper: the new record is charged for.
LEMMA ChargeDispatch ==
  ASSUME Steady, ServiceInv, Ordered, Charges, NEW k \in Jobs, NEW h \in Hosts,
         DMDispatch(k, h), Quiet(k)
  PROVE  Charges'
<1>1. /\ job_state[k] = "PENDING"
      /\ job_state' = [job_state EXCEPT ![k] = "WRAPPER"]
      /\ em_state' = [em_state EXCEPT ![k] = "INIT"]
      /\ UNCHANGED <<dmq, active_jobs>>
      /\ host' = [host EXCEPT ![k] = h]
      /\ used_slots' = [used_slots EXCEPT ![h] = @ + 1]
  BY DEF DMDispatch, ToWrapper, NewRecord, Steady
<1>2. host' \in [Jobs -> Hosts \union {NoHost}] /\ host'[k] = h /\ DOMAIN host = Jobs
  BY <1>1 DEF Charges
<1>3. k \notin ChargedJobs /\ k \notin ActiveJobs
  <2>1. Known(k)
    BY <1>1 DEF Known
  <2> QED BY <1>1, <2>1 DEF ChargedJobs, ActiveJobs, Ordered, OrderOf, Submitted
<1>4. ChargedJobs' = ChargedJobs \union {k}
  <2>1. ~Closing(dmq, k)
    <3>1. \A i \in DOMAIN dmq : dmq[i][2] # k
      BY DEF Quiet
    <3> QED BY <3>1 DEF Closing
  <2> QED BY <1>1, <2>1, QueueTypes DEF ChargedJobs, JobTypes
<1>5. ActiveJobs' = ActiveJobs
  BY <1>1, <1>3, QueueTypes DEF ActiveJobs, JobTypes
<1>6. Counts(used_slots, host', ChargedJobs) /\ Counts(active_jobs, host', ActiveJobs)
  BY <1>1, <1>2, <1>3, CountMoves DEF Charges, ChargedJobs, ActiveJobs
<1>7. Counts([used_slots EXCEPT ![host'[k]] = @ + 1], host', ChargedJobs \union {k})
  BY <1>3, <1>6, CountJoins
<1> QED BY <1>1, <1>2, <1>4, <1>5, <1>6, <1>7 DEF Charges

\* gw_dm_wrapper_done_cb and gw_dm_wrapper_failed_cb: an end frees the slot of a job
\* that is charged for, once.
LEMMA ChargeEnded ==
  ASSUME Steady, ServiceInv, Ordered, Charges, NEW k \in Jobs,
         \/ Handles(dmq, "WRAPPER_DONE", k) /\ DMWrapperDone(k)
         \/ Handles(dmq, "WRAPPER_FAILED", k) /\ DMWrapperFailed(k)
  PROVE  Charges'
<1> DEFINE e == <<"EPILOG", k>>
<1>1. /\ UNCHANGED <<job_state, host, active_jobs>>
      /\ em_state' = [em_state EXCEPT ![k] = "INIT"]
      /\ \/ /\ dmq' = Append(Tail(dmq), e)
            /\ used_slots' = [used_slots EXCEPT ![host[k]] = @ - 1]
         \/ /\ job_state[k] # "WRAPPER" /\ dmq' = Tail(dmq) /\ UNCHANGED used_slots
      /\ job_state[k] = "WRAPPER" => dmq' = Append(Tail(dmq), e)
      /\ job_state[k] # "WRAPPER" /\ Handles(dmq, "WRAPPER_DONE", k) => dmq' = Tail(dmq)
  <2>1. job_state[k] \in {"PENDING", "WRAPPER", "EPILOG"}
    BY QueueTypes DEF JobTypes
  <2>2. CASE Handles(dmq, "WRAPPER_DONE", k) /\ DMWrapperDone(k)
    <3>1. CASE job_state[k] = "WRAPPER"
      BY <2>2, <3>1 DEF DMWrapperDone, recv, ExecStates, CancelStates
    <3>2. CASE job_state[k] # "WRAPPER"
      <4>1. job_state[k] \notin ExecStates
        BY <2>1, <3>2 DEF ExecStates, CancelStates
      <4> QED BY <2>2, <3>2, <4>1 DEF DMWrapperDone, recv
    <3> QED BY <3>1, <3>2
  <2>3. CASE Handles(dmq, "WRAPPER_FAILED", k) /\ DMWrapperFailed(k)
    <3>1. dmq' = Append(Tail(dmq), e)
      BY <2>3 DEF DMWrapperFailed
    <3>2. dmq[1] = <<"WRAPPER_FAILED", k>> /\ ~Handles(dmq, "WRAPPER_DONE", k)
      BY <2>3, HeadOfDM DEF Handles
    <3> QED BY <2>3, <3>1, <3>2 DEF DMWrapperFailed, recv
  <2> QED BY <2>2, <2>3
<1>2. /\ dmq \in Seq(DMEntries) /\ Tail(dmq) \in Seq(DMEntries) /\ dmq # <<>>
      /\ dmq[1] \in {<<"WRAPPER_DONE", k>>, <<"WRAPPER_FAILED", k>>}
  BY HeadOfDM
<1>3. e \in DMEntries
  BY DEF DMEntries
<1>4. \A j \in Jobs : Closing(Tail(dmq), j) <=> Closing(dmq, j)
  BY <1>2, ClosingQueue
<1>5. em_state[k] # "ACTIVE" /\ (job_state[k] = "WRAPPER" => ~Closing(dmq, k))
  <2>1. CASE dmq[1] = <<"WRAPPER_DONE", k>>
    <3>1. em_state[k] = "DONE" /\ \A n \in DOMAIN dmq : n > 1 => dmq[n][2] # k
      <4>1. 1 \in DOMAIN dmq
        BY <1>2
      <4> QED BY <2>1, <4>1 DEF Ordered, ToldOf
    <3>2. ~Closing(dmq, k)
      BY <1>2, <2>1, <3>1 DEF Closing
    <3> QED BY <3>1, <3>2
  <2>2. CASE dmq[1] = <<"WRAPPER_FAILED", k>>
    <3>1. 1 \in DOMAIN dmq
      BY <1>2
    <3>2. InDM(1, k)
      BY <2>2, <3>1 DEF SubmitD, ServiceInv, Submission, SubmissionOf
    <3>3. ~Closing(dmq, k)
      BY <2>2, <3>2 DEF Closing, InDM, Only
    <3> QED BY <3>2, <3>3 DEF InDM, Unsent
  <2> QED BY <1>2, <2>1, <2>2
<1>6. ActiveJobs' = ActiveJobs
  BY <1>1, <1>5, QueueTypes DEF ActiveJobs, JobTypes
<1>7. CASE dmq' = Tail(dmq) /\ job_state[k] # "WRAPPER" /\ UNCHANGED used_slots
  <2>1. ChargedJobs' = ChargedJobs
    BY <1>1, <1>4, <1>7 DEF ChargedJobs
  <2> QED BY <1>1, <1>6, <1>7, <2>1 DEF Charges
<1>8. CASE /\ dmq' = Append(Tail(dmq), e) /\ used_slots' = [used_slots EXCEPT ![host[k]] = @ - 1]
  <2>1. job_state[k] = "WRAPPER"
    <3>1. CASE Handles(dmq, "WRAPPER_DONE", k)
      <4>1. Tail(dmq) # Append(Tail(dmq), e)
        <5>1. Len(Append(Tail(dmq), e)) = Len(Tail(dmq)) + 1
          BY <1>2, <1>3
        <5> QED BY <1>2, <5>1
      <4> QED BY <1>1, <1>8, <3>1, <4>1
    <3>2. CASE Handles(dmq, "WRAPPER_FAILED", k)
      <4>1. 1 \in DOMAIN dmq /\ SubmitD(dmq[1], k)
        BY <3>2, HeadOfDM DEF SubmitD
      <4>2. InDM(1, k)
        BY <4>1 DEF ServiceInv, Submission, SubmissionOf
      <4> QED BY <4>2 DEF InDM, Unsent
    <3> QED BY <3>1, <3>2
  <2>2. k \in ChargedJobs
    BY <1>5, <2>1 DEF ChargedJobs
  <2>3. \A j \in Jobs : Closing(dmq', j) <=> Closing(dmq, j) \/ j = k
    <3>1. \A j \in Jobs : Closing(Append(Tail(dmq), e), j) <=> Closing(Tail(dmq), j) \/ e = <<"EPILOG", j>>
      <4> HIDE DEF e
      <4> QED BY <1>2, <1>3, ClosingQueue
    <3>2. \A j \in Jobs : e = <<"EPILOG", j>> <=> j = k
      OBVIOUS
    <3> HIDE DEF e
    <3> QED BY <1>4, <1>8, <3>1, <3>2
  <2>4. ChargedJobs' = ChargedJobs \ {k}
    BY <1>1, <2>3 DEF ChargedJobs
  <2>5. Counts([used_slots EXCEPT ![host[k]] = @ - 1], host, ChargedJobs \ {k})
    BY <2>2, CountLeaves DEF Charges
  <2> QED BY <1>1, <1>6, <1>8, <2>4, <2>5 DEF Charges
<1> QED BY <1>1, <1>7, <1>8

\* gw_dm_epilog, and the return of a job: its slot is free already.
LEMMA ChargeClosed ==
  ASSUME Steady, ServiceInv, Charges, NEW k \in Jobs,
         \/ Handles(dmq, "EPILOG", k) /\ DMEpilog(k)
         \/ DMReschedule(k)
  PROVE  Charges'
<1>1. /\ UNCHANGED <<em_state, host, used_slots, active_jobs>>
      /\ job_state'[k] # "WRAPPER" /\ \A j \in Jobs \ {k} : job_state'[j] = job_state[j]
  BY QueueTypes DEF DMEpilog, DMReschedule, recv, hstv, JobTypes
<1>2. k \notin ChargedJobs /\ \A j \in Jobs \ {k} : Closing(dmq', j) <=> Closing(dmq, j)
  <2>1. CASE Handles(dmq, "EPILOG", k) /\ DMEpilog(k)
    <3>1. dmq \in Seq(DMEntries) /\ dmq # <<>> /\ dmq[1] = <<"EPILOG", k>> /\ dmq' = Tail(dmq)
      BY <2>1, HeadOfDM DEF DMEpilog
    <3>2. Closing(dmq, k)
      BY <3>1, ClosingQueue
    <3>3. \A j \in Jobs \ {k} : Closing(dmq, j) <=> Closing(Tail(dmq), j)
      BY <3>1, ClosingQueue
    <3> QED BY <3>1, <3>2, <3>3 DEF ChargedJobs
  <2>2. CASE DMReschedule(k)
    BY <2>2 DEF DMReschedule, ChargedJobs
  <2> QED BY <2>1, <2>2
<1>3. ChargedJobs' = ChargedJobs
  BY <1>1, <1>2 DEF ChargedJobs
<1>4. ActiveJobs' = ActiveJobs
  BY <1>1 DEF ActiveJobs
<1> QED BY <1>1, <1>3, <1>4 DEF Charges

\* The EM only tells the DM how a wrapper ended: the charges for slots are the same.
LEMMA ChargeEM ==
  ASSUME ServiceInv, Charges, NEW k \in Jobs,
         UNCHANGED <<job_state, host, used_slots>>,
         dmq' = dmq \/ \E x \in {"WRAPPER_DONE", "WRAPPER_FAILED"} : dmq' = Append(dmq, <<x, k>>)
  PROVE  Counts(used_slots', host', ChargedJobs') /\ host' \in [Jobs -> Hosts \union {NoHost}]
<1>1. \A j \in Jobs : Closing(dmq', j) <=> Closing(dmq, j)
  <2>1. ASSUME NEW x \in {"WRAPPER_DONE", "WRAPPER_FAILED"}, dmq' = Append(dmq, <<x, k>>),
               NEW j \in Jobs
        PROVE  Closing(dmq', j) <=> Closing(dmq, j)
    <3> DEFINE w == <<x, k>>
    <3>1. w \in DMEntries /\ w # <<"EPILOG", j>>
      BY DEF DMEntries
    <3>2. Closing(Append(dmq, w), j) <=> Closing(dmq, j) \/ w = <<"EPILOG", j>>
      <4> HIDE DEF w
      <4> QED BY <3>1, QueueTypes, ClosingQueue
    <3> QED BY <2>1, <3>1, <3>2
  <2> QED BY <2>1
<1>2. ChargedJobs' = ChargedJobs
  BY <1>1 DEF ChargedJobs
<1> QED BY <1>2 DEF Charges

\* The state of the wrapper of k is s: it is counted as active, or no longer.
LEMMA ChargePhase ==
  ASSUME ServiceInv, Charges, NEW k \in Jobs, NEW s, UNCHANGED host,
         em_state' = [em_state EXCEPT ![k] = s],
         IF s # "ACTIVE" THEN LeaveActive(k)
         ELSE IF em_state[k] # "ACTIVE" THEN CountActive(k, 1)
         ELSE UNCHANGED active_jobs
  PROVE  Counts(active_jobs', host', ActiveJobs')
<1>1. em_state'[k] = s /\ \A j \in Jobs \ {k} : em_state'[j] = em_state[j]
  BY QueueTypes DEF JobTypes
<1>2. CASE s = "ACTIVE" /\ em_state[k] # "ACTIVE"
  <2>1. ActiveJobs' = ActiveJobs \union {k} /\ k \notin ActiveJobs
    BY <1>1, <1>2 DEF ActiveJobs
  <2>2. active_jobs' = [active_jobs EXCEPT ![host[k]] = @ + 1]
    BY <1>2 DEF CountActive
  <2> QED BY <2>1, <2>2, CountJoins DEF Charges
<1>3. CASE s # "ACTIVE" /\ em_state[k] = "ACTIVE"
  <2>1. ActiveJobs' = ActiveJobs \ {k} /\ k \in ActiveJobs
    BY <1>1, <1>3 DEF ActiveJobs
  <2>2. active_jobs' = [active_jobs EXCEPT ![host[k]] = @ - 1]
    <3>1. active_jobs' = [active_jobs EXCEPT ![host[k]] = @ + -1]
      BY <1>3 DEF LeaveActive, CountActive
    <3>2. \A h \in Hosts : active_jobs[h] + -1 = active_jobs[h] - 1
      BY DEF Charges, Counts
    <3> QED BY <3>1, <3>2 DEF Charges, Counts
  <2> QED BY <2>1, <2>2, CountLeaves DEF Charges
<1>4. CASE s = "ACTIVE" <=> em_state[k] = "ACTIVE"
  <2>1. ActiveJobs' = ActiveJobs
    BY <1>1, <1>4 DEF ActiveJobs
  <2> QED BY <1>4, <2>1 DEF Charges, LeaveActive
<1> QED BY <1>2, <1>3, <1>4

\* The counters of a host are the numbers of its jobs.
LEMMA StepCharges ==
  ASSUME Steady, ServiceInv, Ordered, Charges, [Next]_vars
  PROVE  Charges'
<1>1. ASSUME NEW k \in Jobs, GwdStepOf(k) PROVE Charges'
  <2>1. CASE EMPhase(k, "PENDING") \/ EMPhase(k, "ACTIVE") \/ EMPhase(k, "SUSPENDED")
    BY <2>1, ChargeEM, ChargePhase DEF EMPhase, recv, Charges
  <2>2. ASSUME NEW s \in Submitted, EMPhase(k, s) PROVE Charges'
    BY <2>1, <2>2 DEF Submitted
  <2>3. CASE EMDone(k)
    <3>1. CASE em_state[k] = "DONE"
      BY <2>3, <3>1, ChargeEM DEF EMDone, recv, Charges, ActiveJobs
    <3>2. CASE em_state[k] # "DONE"
      <4>1. /\ em_state' = [em_state EXCEPT ![k] = "DONE"] /\ LeaveActive(k)
            /\ dmq' = Append(dmq, <<"WRAPPER_DONE", k>>)
            /\ UNCHANGED <<job_state, host, used_slots>>
        BY <2>3, <3>2 DEF EMDone, TellDM, recv
      <4>2. Counts(active_jobs', host', ActiveJobs')
        BY <4>1, ChargePhase
      <4> QED BY <4>1, <4>2, ChargeEM DEF Charges
    <3> QED BY <3>1, <3>2
  <2>4. CASE \/ Handles(emq, "SUBMIT", k) /\ EMSubmit(k)
             \/ Handles(emq, "FAILED", k) /\ EMFailed(k)
    <3>1. em_state[k] # "ACTIVE"
      <4>1. 1 \in DOMAIN emq /\ SubmitE(emq[1], k)
        BY <2>4, HeadOfEM DEF SubmitE
      <4>2. InEM(1, k)
        BY <4>1 DEF ServiceInv, Submission, SubmissionOf
      <4> QED BY <4>2 DEF InEM, Unsent
    <3>2. /\ UNCHANGED <<job_state, host, used_slots, active_jobs>>
          /\ dmq' = dmq \/ dmq' = Append(dmq, <<"WRAPPER_FAILED", k>>)
          /\ \E s \in {"INIT", "FAILED"} : em_state' = [em_state EXCEPT ![k] = s]
      BY <2>4, <3>1 DEF EMSubmit, EMFailed, TellDM, LeaveActive, recv, hstv
    <3>3. ActiveJobs' = ActiveJobs
      BY <3>1, <3>2, QueueTypes DEF ActiveJobs, JobTypes
    <3> QED BY <3>2, <3>3, ChargeEM DEF Charges
  <2>5. CASE EMPoll(k) \/ EMRetry(k) \/ \E l \in Lines : Listens(l, k)
    <3>1. UNCHANGED <<job_state, em_state, host, used_slots, active_jobs, dmq>>
      BY <2>5 DEF EMPoll, EMRetry, Listens, recv, hstv
    <3> QED BY <3>1 DEF Charges, ChargedJobs, ActiveJobs
  <2> QED BY <1>1, <2>2, <2>3, <2>4, <2>5, ChargeDispatch, ChargeEnded, ChargeClosed DEF GwdStepOf
<1>2. CASE Inner \/ \E k \in Jobs : MadStepOf(k)
  <2>1. UNCHANGED <<job_state, em_state, host, used_slots, active_jobs, dmq>>
    BY <1>2 DEF Inner, MadStepOf, gwdv, recv, hstv
  <2> QED BY <2>1 DEF Charges, ChargedJobs, ActiveJobs
<1> QED BY <1>1, <1>2, Kinds

-----------------------------------------------------------------------------
(* The tries of a wrapper, and the other bounds.                           *)

\* A step that is not about j.
LEMMA TriesAside ==
  ASSUME NEW j \in Jobs, TriesOf(j), tries'[j] = tries[j], counter'[j] = counter[j],
         em_state'[j] = em_state[j], Kept(emq, emq', j), Kept(to_mad, to_mad', j),
         Kept(from_mad, from_mad', j)
  PROVE  TriesOf(j)'
<1>1. Waiting(j)' <=> Waiting(j)
  BY DEF Waiting
<1>2. \A i \in DOMAIN emq' : Submits(emq'[i], j) => tries[j] <= number_of_retries
  BY DEF Kept, Submits, TriesOf
<1>3. \A i \in DOMAIN emq' : Fails(emq'[i], j) => tries[j] > 0
  BY DEF Kept, Fails, TriesOf
<1>4. \A i \in DOMAIN to_mad' : Submits(to_mad'[i], j) => tries[j] > 0
  BY DEF Kept, Submits, TriesOf
<1>5. \A i \in DOMAIN from_mad' : Submits(from_mad'[i], j) => tries[j] > 0
  BY DEF Kept, Submits, TriesOf
<1> QED BY <1>1, <1>2, <1>3, <1>4, <1>5 DEF TriesOf

\* A step about k that does not try again.
LEMMA TriesFrom ==
  ASSUME NEW k \in Jobs, TriesOf(k), tries'[k] = tries[k], NEW E, NEW T, NEW F,
         From(emq, emq', E), From(to_mad, to_mad', T), From(from_mad, from_mad', F),
         \A x \in E : /\ Submits(x, k) => tries[k] <= number_of_retries
                      /\ Fails(x, k) => tries[k] > 0,
         \A x \in T \union F : Submits(x, k) => tries[k] > 0,
         counter'[k] \in {-1} \union 1..number_of_retries,
         Waiting(k)' => tries[k] <= number_of_retries
  PROVE  TriesOf(k)'
<1>2. \A i \in DOMAIN emq' : Submits(emq'[i], k) => tries[k] <= number_of_retries
  BY DEF From, TriesOf
<1>3. \A i \in DOMAIN emq' : Fails(emq'[i], k) => tries[k] > 0
  BY DEF From, TriesOf
<1>4. \A i \in DOMAIN to_mad' : Submits(to_mad'[i], k) => tries[k] > 0
  BY DEF From, TriesOf
<1>5. \A i \in DOMAIN from_mad' : Submits(from_mad'[i], k) => tries[k] > 0
  BY DEF From, TriesOf
<1> QED BY <1>2, <1>3, <1>4, <1>5 DEF TriesOf

\* The jobs a step is not about.
LEMMA TriesAbout ==
  ASSUME ServiceInv, Tries, NEW k \in Jobs, TriesOf(k)',
         About(emq, emq', EMEntries, k), About(to_mad, to_mad', Commands, k),
         About(from_mad, from_mad', Lines, k),
         \A j \in Jobs \ {k} : /\ tries'[j] = tries[j] /\ counter'[j] = counter[j]
                               /\ em_state'[j] = em_state[j]
  PROVE  Tries'
<1> SUFFICES ASSUME NEW j \in Jobs \ {k} PROVE TriesOf(j)'
  BY DEF Tries
<1>1. Kept(emq, emq', j)
  BY QueueTypes, AboutKept
<1>2. Kept(to_mad, to_mad', j)
  BY QueueTypes, AboutKept
<1>3. Kept(from_mad, from_mad', j)
  BY QueueTypes, AboutKept
<1> QED BY <1>1, <1>2, <1>3, TriesAside DEF Tries

\* gw_job_history_add: a new record has not been tried.
LEMMA TriesDispatch ==
  ASSUME Steady, ServiceInv, Tries, NEW k \in Jobs, NEW h \in Hosts,
         DMDispatch(k, h), Quiet(k)
  PROVE  Tries'
<1> DEFINE e == <<"SUBMIT", k>>
<1>1. /\ tries' = [tries EXCEPT ![k] = 0] /\ counter' = [counter EXCEPT ![k] = -1]
      /\ em_state' = [em_state EXCEPT ![k] = "INIT"]
      /\ emq' = Append(emq, e) /\ UNCHANGED <<to_mad, from_mad>>
  BY DEF DMDispatch, NewRecord, ToWrapper, pipv
<1>2. /\ tries'[k] = 0 /\ counter'[k] = -1
      /\ \A j \in Jobs \ {k} : /\ tries'[j] = tries[j] /\ counter'[j] = counter[j]
                               /\ em_state'[j] = em_state[j]
  BY <1>1, QueueTypes DEF JobTypes
<1>3. Silent(emq, k) /\ Silent(to_mad, k) /\ Silent(from_mad, k)
  BY DEF Quiet, Silent
<1>4. e \in EMEntries /\ e[2] = k /\ ~Fails(e, k)
  BY DEF EMEntries, Fails
<1>5. \A i \in DOMAIN emq' : ~Fails(emq'[i], k)
  <2> HIDE DEF e
  <2> QED BY <1>1, <1>3, <1>4, QueueTypes, FromQueue DEF From, Silent, Fails
<1>6. TriesOf(k)'
  <2>1. ~Waiting(k)'
    BY <1>2 DEF Waiting
  <2>2. 0 \in 0..number_of_retries + 1 /\ 0 <= number_of_retries
    BY EMAssumption
  <2>3. \A i \in DOMAIN to_mad' : ~Submits(to_mad'[i], k)
    BY <1>1, <1>3 DEF Silent, Submits
  <2>4. \A i \in DOMAIN from_mad' : ~Submits(from_mad'[i], k)
    BY <1>1, <1>3 DEF Silent, Submits
  <2> QED BY <1>2, <1>5, <2>1, <2>2, <2>3, <2>4 DEF TriesOf
<1>7. About(emq, emq', EMEntries, k)
  <2> HIDE DEF e
  <2> QED BY <1>1, <1>4, AboutAppend
<1>8. About(to_mad, to_mad', Commands, k) /\ About(from_mad, from_mad', Lines, k)
  BY <1>1 DEF About
<1> QED BY <1>2, <1>6, <1>7, <1>8, TriesAbout

\* gw_em_submit: one more try.
LEMMA TriesSubmit ==
  ASSUME Steady, ServiceInv, Tries, NEW k \in Jobs, Handles(emq, "SUBMIT", k), EMSubmit(k)
  PROVE  Tries'
<1> DEFINE c == <<"SUBMIT", k, 0>>
<1>1. /\ counter' = [counter EXCEPT ![k] = -1]
      /\ tries' = tries \/ tries' = [tries EXCEPT ![k] = @ + 1]
      /\ em_state' \in {[em_state EXCEPT ![k] = "INIT"], [em_state EXCEPT ![k] = "FAILED"]}
      /\ emq' = Tail(emq) /\ UNCHANGED from_mad
      /\ to_mad' = to_mad \/ (to_mad' = Append(to_mad, c) /\ tries' = [tries EXCEPT ![k] = @ + 1])
  BY DEF EMSubmit, ToMad
<1>2. /\ emq # <<>> /\ 1 \in DOMAIN emq /\ emq[1] = <<"SUBMIT", k>> /\ emq \in Seq(EMEntries)
      /\ About(emq, Tail(emq), EMEntries, k)
  BY HeadOfEM
<1>3. c \in Commands /\ c[2] = k
  BY DEF Commands
<1>4. /\ counter'[k] = -1 /\ tries'[k] \in {tries[k], tries[k] + 1}
      /\ to_mad' = to_mad \/ (to_mad' = Append(to_mad, c) /\ tries'[k] = tries[k] + 1)
      /\ \A j \in Jobs \ {k} : /\ tries'[j] = tries[j] /\ counter'[j] = counter[j]
                               /\ em_state'[j] = em_state[j]
  BY <1>1, QueueTypes DEF JobTypes
<1>5. /\ tries[k] \in Int /\ tries[k] >= 0 /\ tries[k] <= number_of_retries
      /\ number_of_retries \in Nat
  <2>1. Submits(emq[1], k)
    BY <1>2 DEF Submits
  <2>2. TriesOf(k)
    BY DEF Tries
  <2>3. tries[k] \in 0..number_of_retries + 1 /\ tries[k] <= number_of_retries
    BY <1>2, <2>1, <2>2 DEF TriesOf
  <2> QED BY <2>3, EMAssumption
<1>6. \A i \in DOMAIN emq' : emq'[i][2] # k
  <2>1. Only(emq, 1, k)
    <3>1. SubmitE(emq[1], k)
      BY <1>2 DEF SubmitE
    <3> QED BY <1>2, <3>1 DEF ServiceInv, Submission, SubmissionOf, InEM
  <2>2. Silent(Tail(emq), k)
    BY <1>2, <2>1, OnlyQueue
  <2> QED BY <1>1, <2>2 DEF Silent
<1>7. TriesOf(k)'
  <2>1. \A i \in DOMAIN to_mad' : Submits(to_mad'[i], k) => tries'[k] > 0
    <3>1. CASE to_mad' = to_mad
      BY <1>4, <1>5, <3>1 DEF Tries, TriesOf
    <3>2. CASE to_mad' = Append(to_mad, c) /\ tries'[k] = tries[k] + 1
      BY <1>5, <3>2
    <3> QED BY <1>4, <3>1, <3>2
  <2>2. \A i \in DOMAIN from_mad' : Submits(from_mad'[i], k) => tries'[k] > 0
    BY <1>1, <1>4, <1>5 DEF Tries, TriesOf
  <2>3. tries'[k] \in 0..number_of_retries + 1 /\ ~Waiting(k)'
    BY <1>4, <1>5 DEF Waiting
  <2> QED BY <1>4, <1>6, <2>1, <2>2, <2>3 DEF TriesOf, Submits, Fails
<1>8. About(to_mad, to_mad', Commands, k) /\ About(from_mad, from_mad', Lines, k)
  <2>1. About(to_mad, Append(to_mad, c), Commands, k)
    <3> HIDE DEF c
    <3> QED BY <1>3, AboutAppend
  <2> QED BY <1>1, <2>1 DEF About
<1> QED BY <1>1, <1>2, <1>4, <1>7, <1>8, TriesAbout

\* gw_em_failed plans another try while there is one left, gw_em_timer starts it.
LEMMA TriesAgain ==
  ASSUME Steady, ServiceInv, Tries, NEW k \in Jobs,
         (Handles(emq, "FAILED", k) /\ EMFailed(k)) \/ EMRetry(k)
  PROVE  Tries'
<1> DEFINE s == <<"SUBMIT", k>>
<1>1. /\ UNCHANGED <<tries, to_mad, from_mad>>
      /\ \A j \in Jobs \ {k} : counter'[j] = counter[j] /\ em_state'[j] = em_state[j]
  BY QueueTypes DEF EMFailed, EMRetry, pipv, JobTypes
<1>2. s \in EMEntries /\ s[2] = k /\ ~Fails(s, k)
  BY DEF EMEntries, Fails
<1>3. number_of_retries \in Nat /\ tries[k] \in Int /\ TriesOf(k)
  BY EMAssumption, QueueTypes DEF Tries, JobTypes
<1>4. /\ About(emq, emq', EMEntries, k) /\ counter'[k] \in {-1} \union 1..number_of_retries
      /\ Waiting(k)' => tries[k] <= number_of_retries
      /\ From(emq, emq', {s}) /\ (EMRetry(k) => tries[k] <= number_of_retries)
      /\ EMFailed(k) /\ emq # <<>> => From(emq, emq', {})
  <2>1. CASE Handles(emq, "FAILED", k) /\ EMFailed(k)
    <3>1. emq # <<>> /\ emq' = Tail(emq) /\ About(emq, Tail(emq), EMEntries, k)
      BY <2>1, HeadOfEM DEF EMFailed
    <3>2. tries[k] > 0
      <4>1. 1 \in DOMAIN emq /\ Fails(emq[1], k)
        BY <2>1, HeadOfEM DEF Fails
      <4> QED BY <1>3, <4>1 DEF TriesOf
    <3>3. \/ counter'[k] = -1
          \/ counter'[k] = tries[k] /\ tries[k] < number_of_retries
      BY <1>3, <2>1, QueueTypes DEF EMFailed, JobTypes
    <3>4. \A E : From(emq, Tail(emq), E)
      BY <3>1, QueueTypes, FromQueue
    <3>5. ~EMRetry(k)
      BY <3>1 DEF EMRetry
    <3> QED BY <1>3, <3>1, <3>2, <3>3, <3>4, <3>5 DEF Waiting
  <2>2. CASE EMRetry(k)
    <3>1. Waiting(k) /\ emq = <<>>
      BY <2>2 DEF EMRetry, Waiting
    <3>2. tries[k] <= number_of_retries /\ counter[k] \in 1..number_of_retries
      BY <1>3, <3>1 DEF TriesOf, Waiting
    <3>3. counter'[k] \in {-1} \union 1..number_of_retries
      <4>1. CASE counter[k] = 1
        <5>1. counter'[k] = -1
          BY <2>2, <4>1, QueueTypes DEF EMRetry, JobTypes
        <5> QED BY <5>1
      <4>2. CASE counter[k] # 1
        <5>1. counter'[k] = counter[k] - 1
          BY <2>2, <4>2, QueueTypes DEF EMRetry, JobTypes
        <5> QED BY <1>3, <3>2, <4>2, <5>1
      <4> QED BY <4>1, <4>2
    <3>4. emq' = emq \/ emq' = Append(emq, s)
      BY <2>2 DEF EMRetry
    <3>5. /\ About(emq, emq', EMEntries, k) /\ From(emq, emq', {s})
      <4> HIDE DEF s
      <4>1. About(emq, Append(emq, s), EMEntries, k) /\ From(emq, Append(emq, s), {s})
        BY <1>2, AboutAppend, QueueTypes, FromQueue
      <4>2. About(emq, emq, EMEntries, k) /\ From(emq, emq, {s})
        BY QueueTypes, FromQueue DEF About
      <4> QED BY <3>4, <4>1, <4>2
    <3> QED BY <3>1, <3>2, <3>3, <3>5
  <2> QED BY <2>1, <2>2
<1>5. TriesOf(k)'
  <2>1. \A E : From(to_mad, to_mad', E) /\ From(from_mad, from_mad', E)
    BY <1>1, QueueTypes, FromQueue
  <2> HIDE DEF s
  <2>2. CASE EMRetry(k)
    <3>1. /\ \A x \in {s} : /\ Submits(x, k) => tries[k] <= number_of_retries
                            /\ Fails(x, k) => tries[k] > 0
          /\ From(emq, emq', {s})
      BY <1>2, <1>4, <2>2
    <3>2. From(to_mad, to_mad', {}) /\ From(from_mad, from_mad', {}) /\ tries'[k] = tries[k]
      BY <1>1, <2>1
    <3> QED BY <1>3, <1>4, <3>1, <3>2, TriesFrom
  <2>3. CASE Handles(emq, "FAILED", k) /\ EMFailed(k)
    <3>1. From(emq, emq', {}) /\ tries'[k] = tries[k]
      BY <1>1, <1>4, <2>3, HeadOfEM
    <3>2. From(to_mad, to_mad', {}) /\ From(from_mad, from_mad', {})
      BY <2>1
    <3> QED BY <1>3, <1>4, <3>1, <3>2, TriesFrom
  <2> QED BY <2>2, <2>3
<1>6. About(to_mad, to_mad', Commands, k) /\ About(from_mad, from_mad', Lines, k)
  BY <1>1 DEF About
<1> QED BY <1>1, <1>4, <1>5, <1>6, TriesAbout

\* gw_em_listener: a submission that failed was a try.
LEMMA TriesHeard ==
  ASSUME Steady, ServiceInv, Tries, NEW k \in Jobs, NEW l \in Lines, Listens(l, k)
  PROVE  Tries'
<1>1. /\ from_mad # <<>> /\ from_mad[1] = l /\ l[2] = k /\ from_mad' = Tail(from_mad)
      /\ 1 \in DOMAIN from_mad /\ Posts(l, k)
      /\ UNCHANGED <<tries, counter, em_state, to_mad>>
  BY QueueTypes DEF Listens
<1>2. TriesOf(k) /\ (SubmitF(l, k) => tries[k] > 0)
  BY <1>1 DEF Tries, TriesOf, Submits, SubmitF
<1>3. /\ \A E : From(to_mad, to_mad', E) /\ From(from_mad, from_mad', E)
      /\ About(to_mad, to_mad', Commands, k) /\ About(from_mad, from_mad', Lines, k)
  BY <1>1, QueueTypes, FromQueue DEF About
<1>4. counter'[k] \in {-1} \union 1..number_of_retries /\ (Waiting(k)' => tries[k] <= number_of_retries)
  BY <1>1, <1>2 DEF TriesOf, Waiting
<1>5. CASE UNCHANGED emq
  <2>1. From(emq, emq', {}) /\ About(emq, emq', EMEntries, k)
    BY <1>5, QueueTypes, FromQueue DEF About
  <2>2. From(to_mad, to_mad', {}) /\ From(from_mad, from_mad', {}) /\ tries'[k] = tries[k]
    BY <1>1, <1>3
  <2>3. TriesOf(k)'
    BY <1>2, <1>4, <2>1, <2>2, TriesFrom
  <2> QED BY <1>1, <1>3, <2>1, <2>3, TriesAbout
<1>6. ASSUME NEW x \in EMEntries, emq' = Append(emq, x), x[2] = k, x[1] # "SUBMIT",
             x[1] = "FAILED" <=> SubmitF(l, k)
      PROVE  Tries'
  <2>1. From(emq, emq', {x}) /\ About(emq, emq', EMEntries, k)
    BY <1>6, QueueTypes, FromQueue, AboutAppend
  <2>2. From(to_mad, to_mad', {}) /\ From(from_mad, from_mad', {}) /\ tries'[k] = tries[k]
    BY <1>1, <1>3
  <2>3. \A y \in {x} : /\ Submits(y, k) => tries[k] <= number_of_retries
                       /\ Fails(y, k) => tries[k] > 0
    BY <1>2, <1>6 DEF Submits, Fails
  <2>4. TriesOf(k)'
    BY <1>2, <1>4, <2>1, <2>2, <2>3, TriesFrom
  <2> QED BY <1>1, <1>3, <2>1, <2>4, TriesAbout
<1> QED BY <1>1, <1>5, <1>6 DEF Posts

\* The other steps neither try nor fail.
LEMMA TriesSame ==
  ASSUME Steady, ServiceInv, Tries, NEW k \in Jobs, UNCHANGED <<tries, counter, from_mad>>,
         \A j \in Jobs \ {k} : em_state'[j] = em_state[j], Waiting(k)' => Waiting(k),
         emq' = emq \/ (emq # <<>> /\ emq' = Tail(emq)),
         to_mad' = to_mad \/ to_mad' = Append(to_mad, <<"POLL", k, 0>>)
  PROVE  Tries'
<1> DEFINE c == <<"POLL", k, 0>>
<1>1. c \in Commands /\ c[2] = k /\ ~Submits(c, k)
  BY DEF Commands, Submits
<1>2. TriesOf(k) /\ tries'[k] = tries[k] /\ counter'[k] \in {-1} \union 1..number_of_retries
  BY DEF Tries, TriesOf
<1>3. Waiting(k)' => tries[k] <= number_of_retries
  BY <1>2 DEF TriesOf
<1>4. About(emq, emq', EMEntries, k) /\ From(emq, emq', {})
  BY QueueTypes, FromQueue DEF About
<1>5. About(from_mad, from_mad', Lines, k) /\ From(from_mad, from_mad', {})
  BY QueueTypes, FromQueue DEF About
<1>6. About(to_mad, to_mad', Commands, k) /\ From(to_mad, to_mad', {c})
  <2> HIDE DEF c
  <2>1. About(to_mad, Append(to_mad, c), Commands, k) /\ From(to_mad, Append(to_mad, c), {c})
    BY <1>1, AboutAppend, QueueTypes, FromQueue
  <2>2. About(to_mad, to_mad, Commands, k) /\ From(to_mad, to_mad, {c})
    BY QueueTypes, FromQueue DEF About
  <2> QED BY <2>1, <2>2 DEF c
<1>7. TriesOf(k)'
  <2> HIDE DEF c
  <2>1. \A x \in {c} \union {} : Submits(x, k) => tries[k] > 0
    BY <1>1
  <2> QED BY <1>2, <1>3, <1>4, <1>5, <1>6, <2>1, TriesFrom
<1> QED BY <1>4, <1>5, <1>6, <1>7, TriesAbout

\* The MAD answers a submission it has read.
LEMMA TriesMad ==
  ASSUME Steady, ServiceInv, Tries, NEW k \in Jobs, UNCHANGED gwdv,
         to_mad' = to_mad \/ (to_mad # <<>> /\ to_mad' = Tail(to_mad)),
         \/ UNCHANGED from_mad
         \/ \E x \in Lines : /\ from_mad' = Append(from_mad, x) /\ x[2] = k
                             /\ x[1] = "SUBMIT" => to_mad # <<>> /\ Head(to_mad) = <<"SUBMIT", k, 0>>
  PROVE  Tries'
<1>1. UNCHANGED <<tries, counter, em_state, emq>>
  BY DEF gwdv, tryv
<1>2. TriesOf(k) /\ tries'[k] = tries[k] /\ counter'[k] \in {-1} \union 1..number_of_retries
  BY <1>1 DEF Tries, TriesOf
<1>3. Waiting(k)' => tries[k] <= number_of_retries
  BY <1>1, <1>2 DEF TriesOf, Waiting
<1>4. About(emq, emq', EMEntries, k) /\ From(emq, emq', {})
  BY <1>1, QueueTypes, FromQueue DEF About
<1>5. About(to_mad, to_mad', Commands, k) /\ From(to_mad, to_mad', {})
  BY QueueTypes, FromQueue DEF About
<1>6. CASE UNCHANGED from_mad
  <2>1. About(from_mad, from_mad', Lines, k) /\ From(from_mad, from_mad', {})
    BY <1>6, QueueTypes, FromQueue DEF About
  <2>2. TriesOf(k)'
    BY <1>2, <1>3, <1>4, <1>5, <2>1, TriesFrom
  <2> QED BY <1>1, <1>4, <1>5, <2>1, <2>2, TriesAbout
<1>7. ASSUME NEW x \in Lines, from_mad' = Append(from_mad, x), x[2] = k,
             x[1] = "SUBMIT" => to_mad # <<>> /\ Head(to_mad) = <<"SUBMIT", k, 0>>
      PROVE  Tries'
  <2>1. About(from_mad, from_mad', Lines, k) /\ From(from_mad, from_mad', {x})
    BY <1>7, AboutAppend, QueueTypes, FromQueue
  <2>2. \A y \in {} \union {x} : Submits(y, k) => tries[k] > 0
    <3>1. SUFFICES ASSUME x[1] = "SUBMIT" PROVE tries[k] > 0
      BY DEF Submits
    <3>2. 1 \in DOMAIN to_mad /\ to_mad[1] = <<"SUBMIT", k, 0>>
      BY <1>7, <3>1, QueueTypes
    <3>3. Submits(to_mad[1], k)
      BY <3>2 DEF Submits
    <3> QED BY <1>2, <3>2, <3>3 DEF TriesOf
  <2>3. TriesOf(k)'
    BY <1>2, <1>3, <1>4, <1>5, <2>1, <2>2, TriesFrom
  <2> QED BY <1>1, <1>4, <1>5, <2>1, <2>3, TriesAbout
<1> QED BY <1>6, <1>7

\* What a step of the MAD about k says.
LEMMA MadSays ==
  ASSUME Steady, ServiceInv, ServiceInv', NEW k \in Jobs, MadStepOf(k)
  PROVE  /\ to_mad' = to_mad \/ (to_mad # <<>> /\ to_mad' = Tail(to_mad))
         /\ \/ UNCHANGED from_mad
            \/ \E x \in Lines :
                 /\ from_mad' = Append(from_mad, x) /\ x[2] = k
                 /\ x[1] = "SUBMIT" => /\ to_mad # <<>> /\ Head(to_mad) = <<"SUBMIT", k, 0>>
                                       /\ Len(remote) <= MaxRuns => Named(x)
         /\ Len(remote) <= MaxRuns => Len(remote') <= MaxRuns
<1>1. CASE /\ to_mad # <<>> /\ Head(to_mad) = <<"SUBMIT", k, 0>> /\ to_mad' = Tail(to_mad)
           /\ MAD!MadSubmit(k)
  <2>1. CASE /\ Len(remote) < MaxRuns /\ from_mad' = Append(from_mad, <<"SUBMIT", k, TRUE, Len(remote) + 1>>)
             /\ remote' = Append(remote, [job |-> k, state |-> "PENDING"])
    <3> DEFINE x == <<"SUBMIT", k, TRUE, Len(remote) + 1>>
    <3>1. Len(remote) \in Nat /\ Len(remote') = Len(remote) + 1 /\ MaxRuns \in Nat
      <4>1. remote \in Seq([job : Jobs, state : {"PENDING", "ACTIVE", "DONE"}])
        BY DEF ServiceInv, Types, MadTypes
      <4> QED BY <2>1, <4>1, MadAssumption
    <3>2. x \in Lines /\ x[2] = k /\ Named(x)
      <4> DEFINE n == Len(remote) + 1
      <4>1. n \in Nat /\ n \in 1..MaxRuns
        BY <2>1, <3>1
      <4> HIDE DEF n
      <4>2. <<"SUBMIT", k, TRUE, n>> \in Lines
        BY <4>1 DEF Lines
      <4>3. x = <<"SUBMIT", k, TRUE, n>>
        BY DEF n
      <4>4. x[2] = k /\ x[4] = n
        BY <4>3
      <4> HIDE DEF x
      <4> QED BY <4>1, <4>2, <4>3, <4>4 DEF Named
    <3>3. from_mad' = Append(from_mad, x)
      BY <2>1
    <3>4. Len(remote') <= MaxRuns
      BY <2>1, <3>1
    <3> HIDE DEF x
    <3>5. /\ x \in Lines /\ from_mad' = Append(from_mad, x) /\ x[2] = k
          /\ to_mad # <<>> /\ Head(to_mad) = <<"SUBMIT", k, 0>> /\ to_mad' = Tail(to_mad) /\ Named(x)
      BY <1>1, <3>2, <3>3
    <3> QED BY <3>4, <3>5
  <2>2. CASE from_mad' = Append(from_mad, <<"SUBMIT", k, FALSE, "-">>) /\ UNCHANGED remote
    <3> DEFINE x == <<"SUBMIT", k, FALSE, "-">>
    <3>1. x \in Lines /\ x[2] = k /\ Named(x)
      BY DEF Lines, Named
    <3>2. from_mad' = Append(from_mad, x)
      BY <2>2
    <3> HIDE DEF x
    <3> QED BY <1>1, <2>2, <3>1, <3>2
  <2> QED BY <1>1, <2>1, <2>2 DEF MAD!MadSubmit, MAD!Say
<1>2. CASE /\ to_mad # <<>> /\ to_mad' = Tail(to_mad) /\ UNCHANGED <<from_mad, remote>>
  BY <1>2
<1>3. CASE MAD!PoolPoll(k)
  BY <1>3 DEF MAD!PoolPoll, MAD!pipes
<1>4. ASSUME NEW a \in answers, a[2] = k, MAD!PoolPrint(a)
      PROVE  /\ UNCHANGED <<to_mad, remote>> /\ from_mad' = Append(from_mad, a)
             /\ a \in Lines /\ a[1] # "SUBMIT"
  BY <1>4 DEF MAD!PoolPrint, MAD!Say, ServiceInv, Types, MadTypes, Report
<1>5. CASE callback # <<>> /\ callback[1] = k /\ MAD!CallbackReport
  <2> DEFINE x == <<"CALLBACK", k, TRUE, status[callback[2]]>>
  <2>1. from_mad' = Append(from_mad, x) /\ UNCHANGED <<to_mad, remote>>
    BY <1>5 DEF MAD!CallbackReport, MAD!Say
  <2>2. x[1] # "SUBMIT" /\ x[2] = k
    OBVIOUS
  <2>3. x \in Lines
    <3>1. from_mad' \in Seq(Lines) /\ from_mad \in Seq(Lines)
      BY DEF ServiceInv, Types, PipeTypes
    <3> HIDE DEF x
    <3>2. Len(from_mad) + 1 \in DOMAIN from_mad' /\ from_mad'[Len(from_mad) + 1] = x
      BY <2>1, <3>1
    <3> QED BY <3>1, <3>2
  <2> HIDE DEF x
  <2> QED BY <2>1, <2>2, <2>3
<1> QED BY <1>1, <1>2, <1>3, <1>4, <1>5 DEF MadStepOf

\* A wrapper is tried number_of_retries times more at most.
LEMMA StepTries ==
  ASSUME Steady, ServiceInv, ServiceInv', Tries, [Next]_vars
  PROVE  Tries'
<1>1. ASSUME NEW k \in Jobs, GwdStepOf(k) PROVE Tries'
  <2>1. CASE \/ Handles(dmq, "WRAPPER_DONE", k) /\ DMWrapperDone(k)
             \/ Handles(dmq, "WRAPPER_FAILED", k) /\ DMWrapperFailed(k)
             \/ Handles(dmq, "EPILOG", k) /\ DMEpilog(k)
             \/ DMReschedule(k) \/ EMPoll(k)
    <3>1. /\ UNCHANGED <<tries, counter, from_mad, emq>>
          /\ em_state' = em_state \/ em_state' = [em_state EXCEPT ![k] = "INIT"]
          /\ to_mad' = to_mad \/ to_mad' = Append(to_mad, <<"POLL", k, 0>>)
      BY <2>1 DEF DMWrapperDone, DMWrapperFailed, DMEpilog, DMReschedule, EMPoll, ToMad, tryv, pipv
    <3>2. /\ \A j \in Jobs \ {k} : em_state'[j] = em_state[j]
          /\ Waiting(k)' => Waiting(k)
      BY <3>1, QueueTypes DEF JobTypes, Waiting
    <3> QED BY <3>1, <3>2, TriesSame
  <2>2. ASSUME NEW s \in Submitted, Handles(emq, s, k), EMPhase(k, s) PROVE Tries'
    <3>1. /\ UNCHANGED <<tries, counter, from_mad, to_mad>> /\ emq' = Tail(emq)
          /\ em_state' = [em_state EXCEPT ![k] = s]
      BY <2>2, QueueTypes DEF EMPhase, RetryCancel, tryv, pipv, JobTypes, CancelStates
    <3>2. /\ \A j \in Jobs \ {k} : em_state'[j] = em_state[j]
          /\ ~Waiting(k)'
      BY <3>1, QueueTypes DEF JobTypes, Waiting, Submitted
    <3> QED BY <2>2, <3>1, <3>2, TriesSame, HeadOfEM
  <2>3. CASE Handles(emq, "DONE", k) /\ EMDone(k)
    <3>1. /\ UNCHANGED <<tries, counter, from_mad, to_mad>> /\ emq' = Tail(emq)
          /\ em_state' = em_state \/ em_state' = [em_state EXCEPT ![k] = "DONE"]
      BY <2>3 DEF EMDone, tryv, pipv
    <3>2. /\ \A j \in Jobs \ {k} : em_state'[j] = em_state[j]
          /\ Waiting(k)' => Waiting(k)
      BY <3>1, QueueTypes DEF JobTypes, Waiting
    <3> QED BY <2>3, <3>1, <3>2, TriesSame, HeadOfEM
  <2> QED BY <1>1, <2>1, <2>2, <2>3, TriesDispatch, TriesSubmit, TriesAgain, TriesHeard
          DEF GwdStepOf
<1>2. ASSUME NEW k \in Jobs, MadStepOf(k) PROVE Tries'
  <2>1. UNCHANGED gwdv
    BY <1>2 DEF MadStepOf
  <2> QED BY <1>2, <2>1, MadSays, TriesMad
<1>3. CASE Inner
  <2>1. UNCHANGED <<tries, counter, em_state, emq, to_mad, from_mad>>
    BY <1>3 DEF Inner, gwdv, tryv
  <2> QED BY <2>1 DEF Tries, TriesOf, Waiting
<1> QED BY <1>1, <1>2, <1>3, Kinds

\* The other counters of gwd.
LEMMA StepLimits ==
  ASSUME Steady, ServiceInv, ServiceInv', Limits, [Next]_vars
  PROVE  Limits'
<1>1. ASSUME NEW k \in Jobs, GwdStepOf(k) PROVE Limits'
  <2>1. Len(remote') <= MaxRuns
    BY <1>1 DEF GwdStepOf, madv, Limits
  <2>2. ASSUME NEW h \in Hosts, DMDispatch(k, h) PROVE Limits'
    <3>1. /\ UNCHANGED <<contact, polling, from_mad>>
          /\ records[k] < MaxRecords /\ records' = [records EXCEPT ![k] = @ + 1]
          /\ failed_polls' = [failed_polls EXCEPT ![k] = 0]
      BY <2>2 DEF DMDispatch, NewRecord, pipv
    <3>2. PICK g \in Garbage : cancel_tries' = [cancel_tries EXCEPT ![k] = g]
      BY <2>2 DEF DMDispatch, NewRecord
    <3>3. cancel_tries' \in [Jobs -> Nat]
      BY <3>2, EMAssumption DEF Limits
    <3>4. records' \in [Jobs -> 0..MaxRecords]
      BY <3>1, EMAssumption DEF Limits
    <3>5. failed_polls' \in [Jobs -> 0..4]
      BY <3>1 DEF Limits
    <3> QED BY <2>1, <3>1, <3>3, <3>4, <3>5 DEF Limits
  <2>3. CASE \/ DMWrapperDone(k) \/ DMWrapperFailed(k) \/ DMEpilog(k) \/ DMReschedule(k)
             \/ EMSubmit(k) \/ EMDone(k) \/ EMFailed(k) \/ EMRetry(k)
             \/ \E s \in Submitted : EMPhase(k, s)
    <3>1. UNCHANGED <<records, failed_polls, cancel_tries, contact, polling, from_mad>>
      BY <2>3 DEF DMWrapperDone, DMWrapperFailed, DMEpilog, DMReschedule, EMSubmit, EMDone,
                  EMFailed, EMRetry, EMPhase, recv, tryv, pipv
    <3> QED BY <2>1, <3>1 DEF Limits
  <2>4. CASE EMPoll(k)
    <3>1. /\ UNCHANGED <<records, failed_polls, cancel_tries, contact, from_mad>>
          /\ polling' = [polling EXCEPT ![k] = @ + 1]
      BY <2>4 DEF EMPoll, recv, tryv
    <3>2. polling' \in [Jobs -> Int]
      BY <3>1 DEF Limits
    <3> QED BY <2>1, <3>1, <3>2 DEF Limits
  <2>5. ASSUME NEW l \in Lines, Listens(l, k) PROVE Limits'
    <3>1. /\ from_mad # <<>> /\ from_mad[1] = l /\ 1 \in DOMAIN from_mad
          /\ from_mad' = Tail(from_mad) /\ from_mad \in Seq(Lines)
          /\ UNCHANGED <<records, cancel_tries>>
      BY <2>5, QueueTypes DEF Listens, recv
    <3>2. polling' \in [Jobs -> Int]
      BY <2>5 DEF Listens, Limits
    <3>3. failed_polls' \in [Jobs -> 0..4]
      <4>1. failed_polls \in [Jobs -> 0..4]
        BY DEF Limits
      <4>2. CASE failed_polls[k] < 4 /\ failed_polls' = [failed_polls EXCEPT ![k] = @ + 1]
        <5>1. failed_polls[k] + 1 \in 0..4
          BY <4>1, <4>2
        <5> QED BY <4>1, <4>2, <5>1
      <4> QED BY <2>5, <4>1, <4>2 DEF Listens
    <3>4. contact' \in [Jobs -> 0..MaxRuns]
      <4>1. CASE l[1] = "SUBMIT" /\ l[3]
        <5>1. l[4] \in 1..MaxRuns
          BY <3>1, <4>1 DEF Limits, Named
        <5>2. l[4] \in 0..MaxRuns
          BY <5>1, MadAssumption
        <5> QED BY <2>5, <5>2 DEF Listens, Limits
      <4> QED BY <2>5, <4>1 DEF Listens, Limits
    <3>5. \A i \in DOMAIN from_mad' : Named(from_mad'[i])
      <4>1. \A i \in DOMAIN Tail(from_mad) : i + 1 \in DOMAIN from_mad /\ Tail(from_mad)[i] = from_mad[i + 1]
        BY <3>1
      <4> QED BY <3>1, <4>1 DEF Limits
    <3> QED BY <2>1, <3>1, <3>2, <3>3, <3>4, <3>5 DEF Limits
  <2> QED BY <1>1, <2>2, <2>3, <2>4, <2>5 DEF GwdStepOf
<1>2. ASSUME NEW k \in Jobs, MadStepOf(k) PROVE Limits'
  <2>1. UNCHANGED <<records, failed_polls, cancel_tries, contact, polling>>
    BY <1>2 DEF MadStepOf, gwdv, recv, tryv
  <2>2. /\ Len(remote') <= MaxRuns
        /\ \/ UNCHANGED from_mad
           \/ \E x \in Lines : from_mad' = Append(from_mad, x) /\ (x[1] = "SUBMIT" => Named(x))
    BY <1>2, MadSays DEF Limits
  <2>3. \A i \in DOMAIN from_mad' : Named(from_mad'[i])
    <3>1. ASSUME NEW x \in Lines, from_mad' = Append(from_mad, x), x[1] = "SUBMIT" => Named(x),
                 NEW i \in DOMAIN from_mad'
          PROVE  Named(from_mad'[i])
      <4>1. Named(x)
        BY <3>1 DEF Named
      <4>2. from_mad'[i] = x \/ (i \in DOMAIN from_mad /\ from_mad'[i] = from_mad[i])
        BY <3>1, QueueTypes, Appended
      <4> QED BY <4>1, <4>2 DEF Limits
    <3> QED BY <2>2, <3>1 DEF Limits
  <2> QED BY <2>1, <2>2, <2>3 DEF Limits
<1>3. CASE Inner
  BY <1>3 DEF Inner, gwdv, recv, tryv, Limits
<1> QED BY <1>1, <1>2, <1>3, Kinds

-----------------------------------------------------------------------------
(* The invariant of the charges, and what follows from it.                 *)

ChargeInv == ServiceInv /\ Polled /\ Ordered /\ Charges /\ Tries /\ Limits

LEMMA InitCharges ==
  ASSUME Unhurried, Init
  PROVE  ChargeInv
<1>1. ServiceInv
  BY InitServes DEF Unhurried
<1>2. /\ job_state = [j \in Jobs |-> "PENDING"] /\ em_state = [j \in Jobs |-> "INIT"]
      /\ host = [j \in Jobs |-> NoHost] /\ records = [j \in Jobs |-> 0]
      /\ tries = [j \in Jobs |-> 0] /\ counter = [j \in Jobs |-> -1]
      /\ failed_polls = [j \in Jobs |-> 0] /\ cancel_tries = [j \in Jobs |-> 0]
      /\ contact = [j \in Jobs |-> 0] /\ polling = [j \in Jobs |-> 0]
      /\ active_jobs = [h \in Hosts |-> 0] /\ used_slots = [h \in Hosts |-> 0]
      /\ emq = <<>> /\ dmq = <<>> /\ to_mad = <<>> /\ from_mad = <<>>
      /\ remote = <<>> /\ tasks = {} /\ answers = {} /\ callback = <<>>
  BY DEF Init, EMInit, MAD!MadInit
<1>3. Polled
  BY <1>2, EMAssumption DEF Polled, PollOf
<1>4. Ordered
  BY <1>2 DEF Ordered, Deleted, OrderOf, ToldOf, NoMoreE, NoMoreL, NoMoreA, Submitted
<1>5. Charges
  <2>1. ChargedJobs = {} /\ ActiveJobs = {}
    BY <1>2 DEF ChargedJobs, ActiveJobs
  <2>2. \A h : OnHost(host, {}, h) = {}
    BY DEF OnHost
  <2>3. IsFiniteSet({}) /\ Cardinality({}) = 0
    BY FS_EmptySet
  <2>4. Counts(used_slots, host, {}) /\ Counts(active_jobs, host, {})
    <3>1. /\ used_slots \in [Hosts -> Int] /\ active_jobs \in [Hosts -> Int]
          /\ \A h \in Hosts : used_slots[h] = 0 /\ active_jobs[h] = 0
      BY <1>2
    <3> QED BY <2>2, <2>3, <3>1 DEF Counts
  <2>5. host \in [Jobs -> Hosts \union {NoHost}]
    BY <1>2
  <2> QED BY <2>1, <2>4, <2>5 DEF Charges
<1>6. Tries
  <2>1. \A j \in Jobs : ~Waiting(j)
    BY <1>2 DEF Waiting
  <2> QED BY <1>2, <2>1, EMAssumption DEF Tries, TriesOf
<1>7. Limits
  BY <1>2, EMAssumption, MadAssumption DEF Limits
<1> QED BY <1>1, <1>3, <1>4, <1>5, <1>6, <1>7 DEF ChargeInv

LEMMA ChargeInvariance == Unhurried /\ Spec => [](Unhurried /\ ChargeInv)
<1> DEFINE Inv == Unhurried /\ ChargeInv
<1>1. Unhurried /\ Init => Inv
  BY InitCharges
<1>2. Inv /\ [Next]_vars => Inv'
  <2> SUFFICES ASSUME Inv, [Next]_vars PROVE Inv'
    OBVIOUS
  <2>1. Unhurried' /\ Steady /\ ServiceInv /\ ServiceInv'
    BY StepServes DEF Serves, ChargeInv, Unhurried, Steady
  <2>2. Polled' /\ Ordered'
    BY <2>1, StepPolls, StepOrder DEF ChargeInv, Limits
  <2>3. Charges' /\ Tries' /\ Limits'
    BY <2>1, StepCharges, StepTries, StepLimits DEF ChargeInv
  <2> QED BY <2>1, <2>2, <2>3 DEF ChargeInv
<1> QED BY <1>1, <1>2, PTL DEF Spec

\* The variables of gwd keep their types and the counters their bounds: gw_em_failed and
\* gw_em_timer keep the periods until the next try between 1 and number_of_retries, and
\* what job.contact names is one of the remote jobs that do_SUBMIT can start.
THEOREM TypeCorrect == Unhurried /\ Spec => []TypeOK
<1>1. ChargeInv => TypeOK
  <2> SUFFICES ASSUME ChargeInv PROVE TypeOK
    OBVIOUS
  <2>1. JobTypes /\ mad_up = TRUE
    BY DEF ChargeInv, ServiceInv, Types, GwdTypes, PipeTypes
  <2>2. job_state \in [Jobs -> JobStates] /\ em_state \in [Jobs -> EMStates]
    BY <2>1 DEF JobTypes, JobStates, ExecStates
  <2>3. /\ tries \in [Jobs -> 0..2 * number_of_retries + 2]
        /\ counter \in [Jobs -> {-1} \union 1..number_of_retries]
    <3>1. \A j \in Jobs : /\ tries[j] \in 0..2 * number_of_retries + 2
                          /\ counter[j] \in {-1} \union 1..number_of_retries
      <4> SUFFICES ASSUME NEW j \in Jobs
                   PROVE  /\ tries[j] \in 0..2 * number_of_retries + 2
                          /\ counter[j] \in {-1} \union 1..number_of_retries
        OBVIOUS
      <4>1. /\ tries[j] \in 0..number_of_retries + 1
            /\ counter[j] \in {-1} \union 1..number_of_retries
        BY DEF ChargeInv, Tries, TriesOf
      <4> QED BY <4>1, EMAssumption
    <3> QED BY <2>1, <3>1 DEF JobTypes
  <2>4. polling \in [Jobs -> 0..MaxPolls]
    BY DEF ChargeInv, Limits, Polled, PollOf
  <2> QED BY <2>1, <2>2, <2>3, <2>4 DEF TypeOK, ChargeInv, Charges, Counts, Limits
<1> QED BY <1>1, ChargeInvariance, PTL

\* An end that a poll and a callback both report frees one slot only: gw_em_done drops
\* the second report, or gw_dm_wrapper_done_cb finds the job elsewhere.  used_slots is
\* the number of the jobs of the host whose end the DM has not handled.
THEOREM SlotsFreed == Unhurried /\ Spec => []SlotFreedOnce
<1>1. ChargeInv => SlotFreedOnce
  <2> SUFFICES ASSUME ChargeInv, NEW h \in Hosts PROVE used_slots[h] >= 0
    BY DEF SlotFreedOnce
  <2>1. /\ IsFiniteSet(OnHost(host, ChargedJobs, h))
        /\ used_slots[h] = Cardinality(OnHost(host, ChargedJobs, h))
    BY DEF ChargeInv, Charges, Counts
  <2> QED BY <2>1, FS_CardinalityType
<1> QED BY <1>1, ChargeInvariance, PTL

\* When no job is executed no slot is charged for and no wrapper is counted as active:
\* each gw_host_inc_ajobs_nb of gw_em_active has had its gw_host_dec_ajobs_nb, whichever
\* of the poll, the callback and the answer to SUBMIT came last.
THEOREM CountersZero == Unhurried /\ Spec => []CountersReturned
<1>1. ChargeInv => CountersReturned
  <2> SUFFICES ASSUME ChargeInv, AtRest, NEW h \in Hosts
               PROVE  used_slots[h] = 0 /\ active_jobs[h] = 0
    BY DEF CountersReturned
  <2>1. ChargedJobs = {}
    BY DEF AtRest, ChargedJobs
  <2>2. ActiveJobs = {}
    <3> SUFFICES ASSUME NEW j \in Jobs PROVE em_state[j] # "ACTIVE"
      BY DEF ActiveJobs
    <3>1. Known(j)
      BY DEF AtRest, Known
    <3> QED BY <3>1 DEF ChargeInv, Ordered, OrderOf, Submitted
  <2>3. OnHost(host, {}, h) = {} /\ Cardinality({}) = 0
    BY FS_EmptySet DEF OnHost
  <2> QED BY <2>1, <2>2, <2>3 DEF ChargeInv, Charges, Counts
<1> QED BY <1>1, ChargeInvariance, PTL
=============================================================================
