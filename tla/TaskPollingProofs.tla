------------------------- MODULE TaskPollingProofs -------------------------
(***************************************************************************)
(* Proofs about TaskPolling, for any number of tasks, channels and         *)
(* pollers, any limits and any number of faults: a video task is billed at *)
(* most once and a task that has ended stays ended.  The inductive         *)
(* invariant says who may still bill a task: at most one job, and only     *)
(* after the row has become terminal, so the status that UpdateWithStatus  *)
(* compares with stands for the right to bill.  The second half adds what  *)
(* the job has billed so far, which gives the bill of every outcome.       *)
(***************************************************************************)
EXTENDS TaskPolling, TLAPS

\* What a job on a video task t looks like: it compares with an open status,
\* and it carries one of the adjustments only for a terminal status.
GoodJob(w, t) ==
    /\ w.stage # "save"
    /\ w.stage \in {"sweep", "poll", "answer"} => w.seen.status \in Open
    /\ w.stage \in {"answer", "adjust", "token"} => w.delta \in Adjustments(t)
    /\ w.stage = "answer" =>
        /\ w.next.status \in Open \union Terminal
        /\ w.delta # 0 => w.next.status \in Terminal

\* A job that is not about to bill.
Calm(w, t) == GoodJob(w, t) /\ w.stage # "adjust" /\ (w.stage = "poll" => Exists(t))

OneBill(t) == \E c \in Charges(t), d \in Adjustments(t) : paid[t] = c + d

TaskInv(t) ==
    /\ \A p \in Pollers : GoodJob(work[p][t], t)
    /\ \A p \in Pollers : work[p][t].stage = "poll" => Exists(t)
    /\ \A p \in Pollers : work[p][t].stage = "adjust" =>
            row[t].status \in Terminal /\ paid[t] \in Charges(t)
    /\ \A p, q \in Pollers :
            work[p][t].stage = "adjust" /\ work[q][t].stage = "adjust" => p = q
    /\ row[t].status \in Open => paid[t] \in Charges(t)
    /\ Exists(t) => OneBill(t)

FetchInv == \A t \in Tasks : fetch[t].on => t \in Live

IInv == TypeOK /\ FetchInv /\ \A t \in Plain : TaskInv(t)

-----------------------------------------------------------------------------
(* Types.                                                                  *)

LEMMA JobType ==
    ASSUME NEW st \in Stages, NEW s \in Rows, NEW n \in Rows, NEW d \in Int
    PROVE  /\ Job(st, s, n, d) \in Work
           /\ Job(st, s, n, d).stage = st /\ Job(st, s, n, d).seen = s
           /\ Job(st, s, n, d).next = n /\ Job(st, s, n, d).delta = d
  BY DEF Job, Work

LEMMA RowType ==
    ASSUME NEW s \in Status, NEW f \in BOOLEAN
    PROVE  Row(s, f) \in Rows /\ Row(s, f).status = s /\ Row(s, f).full = f
  BY DEF Row, Rows

LEMMA NoJobType ==
    /\ NoRow \in Rows
    /\ NoJob \in Work /\ NoJob.stage = "none"
  <1>1. NoRow \in Rows
    BY DEF NoRow, Row, Rows, Status
  <1>2. "none" \in Stages /\ 0 \in Int
    BY DEF Stages
  <1> QED BY <1>1, <1>2, JobType DEF NoJob

\* Changing the stage of a job keeps its type and the rest of it.
LEMMA StageType ==
    ASSUME NEW w \in Work, NEW st \in Stages
    PROVE  /\ [w EXCEPT !.stage = st] \in Work
           /\ [w EXCEPT !.stage = st].stage = st
           /\ [w EXCEPT !.stage = st].delta = w.delta
           /\ [w EXCEPT !.stage = st].seen = w.seen
           /\ [w EXCEPT !.stage = st].next = w.next
  BY DEF Work

\* SetJob replaces one job and no other.
LEMMA SetJobEffect ==
    ASSUME TypeOK, NEW p \in Pollers, NEW t \in Tasks, NEW j \in Work, SetJob(p, t, j)
    PROVE  /\ work' \in [Pollers -> [Tasks -> Work]]
           /\ work'[p][t] = j
           /\ \A q \in Pollers, u \in Tasks : q # p \/ u # t => work'[q][u] = work[q][u]
  BY DEF TypeOK, SetJob

\* Replacing all jobs of one pass.
LEMMA SetPassEffect ==
    ASSUME TypeOK, NEW p \in Pollers, NEW f \in [Tasks -> Work],
           work' = [work EXCEPT ![p] = f]
    PROVE  /\ work' \in [Pollers -> [Tasks -> Work]]
           /\ \A t \in Tasks : work'[p][t] = f[t]
           /\ \A q \in Pollers \ {p}, u \in Tasks : work'[q][u] = work[q][u]
  BY DEF TypeOK

\* The guarded UPDATE changes one row, and only if the status matched.
LEMMA UpdateEffect ==
    ASSUME TypeOK, NEW t \in Tasks, NEW from, NEW r \in Rows,
           UpdateWithStatus(t, from, r)
    PROVE  /\ row' \in [Tasks -> Rows]
           /\ \A u \in Tasks \ {t} : row'[u] = row[u]
           /\ Won(t, from) => row'[t] = r
           /\ ~Won(t, from) => row'[t] = row[t]
  BY DEF TypeOK, UpdateWithStatus, Won

\* The bookkeeping of faults is well typed.
LEMMA FaultType ==
    ASSUME TypeOK, NEW S \in SUBSET Tasks, Fault(S) \/ NoFault
    PROVE  faults' \in 0..MaxFaults /\ hurt' \subseteq Tasks
  <1>1. CASE NoFault
    BY <1>1 DEF TypeOK, NoFault
  <1>2. CASE Fault(S)
    <2>1. hurt' \subseteq Tasks
      BY <1>2 DEF TypeOK, Fault
    <2>2. faults' \in 0..MaxFaults
      BY <1>2, ConstantsAssumption DEF TypeOK, Fault
    <2> QED BY <2>1, <2>2
  <1> QED BY <1>1, <1>2

LEMMA SelectedType ==
    ASSUME TypeOK, NEW S \in SUBSET Tasks, NEW R, Selected(S, R)
    PROVE  R \subseteq S /\ faults' \in 0..MaxFaults /\ hurt' \subseteq Tasks
  <1>1. CASE R = S /\ NoFault
    BY <1>1, FaultType
  <1>2. CASE R = {} /\ S # {} /\ Fault({})
    BY <1>2, FaultType
  <1> QED BY <1>1, <1>2 DEF Selected

LEMMA PickType ==
    ASSUME TypeOK, NEW R \in SUBSET Tasks, NEW st \in Stages
    PROVE  /\ Pick(R, st) \in [Tasks -> Work]
           /\ \A t \in R : Pick(R, st)[t].stage = st /\ Pick(R, st)[t].seen = row[t]
           /\ \A t \in Tasks \ R : Pick(R, st)[t] = NoJob
  <1>1. \A t \in Tasks : row[t] \in Rows
    BY DEF TypeOK
  <1> QED BY <1>1, NoJobType, JobType DEF Pick

LEMMA RecalculateType ==
    ASSUME NEW t \in Tasks, NEW a \in Actuals
    PROVE  Recalculate(t, a) \in Int /\ Recalculate(t, a) \in Adjustments(t)
  BY ConstantsAssumption DEF Recalculate, Adjustments

LEMMA QuotaType == \A t \in Tasks : Quota[t] \in Int /\ -Quota[t] \in Int /\ Pre[t] \in Int
  BY ConstantsAssumption

\* The answers are jobs at the stage answer, and those on a video task good.
LEMMA AnswerType ==
    ASSUME TypeOK, NEW p \in Pollers, NEW t \in Tasks, NEW a \in Answers(p, t)
    PROVE  /\ a \in Work /\ a.stage = "answer" /\ a.seen = work[p][t].seen
           /\ t \in Plain => /\ a.delta \in Adjustments(t)
                             /\ a.next.status \in Open \union Terminal
                             /\ a.delta # 0 => a.next.status \in Terminal
  <1> DEFINE s == work[p][t].seen
  <1>1. s \in Rows /\ s.status \in Status
    BY DEF TypeOK, Work, Rows
  <1>2. "answer" \in Stages /\ {"IN_PROGRESS", "SUCCESS", "FAILURE"} \subseteq Status
    BY DEF Stages, Status, Open, Terminal
  <1>3. CASE t \in Suno
    <2>1. PICK x \in {s.status, "IN_PROGRESS", "SUCCESS", "FAILURE"}, why \in BOOLEAN :
              a = Job("answer", s, Row(x, why \/ x \in Terminal),
                      IF why \/ x = "FAILURE" THEN -Quota[t] ELSE 0)
      BY <1>3 DEF Answers, SunoAnswers
    <2>2. Row(x, why \/ x \in Terminal) \in Rows
      BY <1>1, <1>2, RowType
    <2>3. (IF why \/ x = "FAILURE" THEN -Quota[t] ELSE 0) \in Int
      BY QuotaType
    <2>4. t \notin Plain
      BY <1>3 DEF Plain
    <2> QED BY <1>1, <1>2, <2>1, <2>2, <2>3, <2>4, JobType
  <1>4. CASE t \notin Suno
    <2>0. a \in VideoAnswers(t, s)
      BY <1>4 DEF Answers
    <2>1. CASE \E f \in BOOLEAN : a = Job("answer", s, Row("IN_PROGRESS", f), 0)
      <3>1. PICK f \in BOOLEAN : a = Job("answer", s, Row("IN_PROGRESS", f), 0)
        BY <2>1
      <3>2. Row("IN_PROGRESS", f) \in Rows /\ Row("IN_PROGRESS", f).status = "IN_PROGRESS"
        BY <1>2, RowType
      <3> QED BY <1>1, <1>2, <3>1, <3>2, JobType DEF Adjustments, Open
    <2>2. CASE \E c \in Actuals : a = Job("answer", s, Row("SUCCESS", TRUE), Recalculate(t, c))
      <3>1. PICK c \in Actuals : a = Job("answer", s, Row("SUCCESS", TRUE), Recalculate(t, c))
        BY <2>2
      <3>2. Row("SUCCESS", TRUE) \in Rows /\ Row("SUCCESS", TRUE).status = "SUCCESS"
        BY <1>2, RowType
      <3>3. Recalculate(t, c) \in Int /\ Recalculate(t, c) \in Adjustments(t)
        BY RecalculateType
      <3>4. a \in Work /\ a.stage = "answer" /\ a.seen = s
        BY <1>1, <1>2, <3>1, <3>2, <3>3 DEF Job, Work
      <3>5. a.next.status = "SUCCESS"
        BY <3>1 DEF Job, Row
      <3>6. a.delta = Recalculate(t, c)
        BY <3>1 DEF Job
      <3>7. a.delta \in Adjustments(t)
        BY <3>3, <3>6, Zenon
      <3> QED BY <3>4, <3>5, <3>7 DEF Terminal
    <2>3. CASE a = Job("answer", s, Row("FAILURE", TRUE), -Quota[t])
      <3>2. Row("FAILURE", TRUE) \in Rows /\ Row("FAILURE", TRUE).status = "FAILURE"
        BY <1>2, RowType
      <3>3. -Quota[t] \in Int /\ -Quota[t] \in Adjustments(t)
        BY QuotaType DEF Adjustments
      <3>4. a \in Work /\ a.stage = "answer" /\ a.seen = s
        BY <1>1, <1>2, <2>3, <3>2, <3>3 DEF Job, Work
      <3>5. a.next.status = "FAILURE"
        BY <2>3 DEF Job, Row
      <3>6. a.delta = -Quota[t]
        BY <2>3 DEF Job
      <3>7. a.delta \in Adjustments(t)
        BY <3>3, <3>6, Zenon
      <3> QED BY <3>4, <3>5, <3>7 DEF Terminal
    <2> QED BY <2>0, <2>1, <2>2, <2>3 DEF VideoAnswers
  <1> QED BY <1>3, <1>4

-----------------------------------------------------------------------------
(* The parts of a step that all actions share.                             *)

\* A video task that has ended stays ended in this step.
Stays == \A t \in Plain : row[t].status \in Terminal => row'[t].status \in Terminal

\* The kinds of the channels never change, so neither does Plain.
LEMMA Kinds == ASSUME channel' = channel PROVE Plain' = Plain /\ Suno' = Suno /\ Live' = Live
  BY DEF Plain, Suno, Live

\* A task keeps its invariant if its row and its charge stay as they are and
\* no job on it starts to bill.
LEMMA Untouched ==
    ASSUME NEW t \in Tasks, TaskInv(t), row'[t] = row[t], paid'[t] = paid[t],
           \A p \in Pollers : \/ work'[p][t] = work[p][t]
                               \/ Calm(work'[p][t], t)
    PROVE  TaskInv(t)'
  <1>1. \A p \in Pollers : GoodJob(work'[p][t], t)
    BY DEF TaskInv, Calm
  <1>2. \A p \in Pollers : work'[p][t].stage = "adjust" => work[p][t].stage = "adjust"
    BY DEF Calm
  <1>3. \A p \in Pollers : work'[p][t].stage = "poll" => Exists(t)
    BY DEF TaskInv, Calm
  <1> QED BY <1>1, <1>2, <1>3 DEF TaskInv, Exists, OneBill, GoodJob, Adjustments, Charges

\* The same for a task whose row changes, if it is not open afterwards and
\* its bill is right already.
LEMMA Closed ==
    ASSUME NEW t \in Tasks, TaskInv(t), paid'[t] = paid[t],
           row'[t].status \in Terminal, Exists(t),
           \A p \in Pollers : \/ work'[p][t] = work[p][t]
                               \/ Calm(work'[p][t], t)
    PROVE  TaskInv(t)'
  <1>1. \A p \in Pollers : GoodJob(work'[p][t], t)
    BY DEF TaskInv, Calm
  <1>2. \A p \in Pollers : work'[p][t].stage = "adjust" => work[p][t].stage = "adjust"
    BY DEF Calm
  <1>3. row'[t].status \notin Open
    BY DEF Open, Terminal
  <1> QED BY <1>1, <1>2, <1>3 DEF TaskInv, Exists, OneBill, GoodJob, Adjustments, Charges

LEMMA NoJobGood == \A t : GoodJob(NoJob, t) /\ Calm(NoJob, t)
  BY NoJobType DEF GoodJob, Calm

\* An open row has a bill nobody has adjusted, so it is one of the charges.
LEMMA ChargeIsBill ==
    ASSUME NEW t \in Tasks, paid[t] \in Charges(t)
    PROVE  OneBill(t)
  <1>1. 0 \in Adjustments(t)
    BY DEF Adjustments
  <1>2. paid[t] = paid[t] + 0
    BY QuotaType DEF Charges
  <1> QED BY <1>1, <1>2 DEF OneBill

\* The invariant of the next state, from its parts.
LEMMA Assemble ==
    ASSUME TypeOK', channel' = channel, FetchInv', \A t \in Plain : TaskInv(t)'
    PROVE  IInv'
  BY Kinds DEF IInv

LEMMA InitIInv == Init => IInv
  <1> SUFFICES ASSUME Init PROVE IInv
    OBVIOUS
  <1>1. TypeOK
    BY NoJobType, ConstantsAssumption
    DEF Init, TypeOK, Fetches, NoFetch, Open
  <1>2. FetchInv
    BY DEF Init, FetchInv, NoFetch
  <1>3. ASSUME NEW t \in Tasks PROVE TaskInv(t)
    <2>1. \A p \in Pollers : work[p][t] = NoJob
      BY DEF Init
    <2>2. row[t].status = "NONE"
      BY DEF Init, NoRow, Row
    <2> QED BY <2>1, <2>2, NoJobGood, NoJobType DEF TaskInv, Exists, Open, Terminal
  <1> QED BY <1>1, <1>2, <1>3 DEF IInv, Plain

-----------------------------------------------------------------------------
(* One lemma per action.                                                   *)

LEMMA RelayTaskStep ==
    ASSUME IInv, NEW t \in Tasks, RelayTask(t)
    PROVE  IInv' /\ Stays
  <1>0. TypeOK /\ channel' = channel /\ work' = work /\ fetch' = fetch
    BY DEF IInv, RelayTask, envVars, passVars, userVars
  <1>1. PICK c \in {Quota[t], Pre[t]}, s \in {"NOT_START", "LOST"} :
          /\ IF c = Quota[t] /\ s = "NOT_START" THEN NoFault ELSE Fault({t})
          /\ row' = [row EXCEPT ![t] = Row(s, FALSE)]
          /\ paid' = [paid EXCEPT ![t] = c]
          /\ tok' = [tok EXCEPT ![t] = c]
    BY DEF RelayTask
  <1>2. c \in Int /\ c \in Charges(t)
    BY QuotaType DEF Charges
  <1>3. Row(s, FALSE) \in Rows /\ Row(s, FALSE).status = s
    BY RowType DEF Status, Open
  <1>4. faults' \in 0..MaxFaults /\ hurt' \subseteq Tasks
    BY <1>0, <1>1, FaultType
  <1>5. TypeOK'
    BY <1>0, <1>1, <1>2, <1>3, <1>4
    DEF TypeOK, RelayTask, envVars, passVars, userVars
  <1>6. FetchInv'
    BY <1>0, Kinds DEF IInv, FetchInv
  <1>7. row[t].status = "NONE" /\ row'[t].status = s /\ paid'[t] = c
    BY <1>0, <1>1, <1>3 DEF RelayTask, TypeOK
  <1>8. ASSUME NEW u \in Plain PROVE TaskInv(u)' /\ (row[u].status \in Terminal => row'[u].status \in Terminal)
    <2>0. u \in Tasks /\ TaskInv(u)
      BY DEF IInv, Plain
    <2>1. CASE u # t
      <3>1. row'[u] = row[u] /\ paid'[u] = paid[u]
        BY <1>0, <1>1, <2>0, <2>1 DEF TypeOK
      <3> QED BY <1>0, <2>0, <3>1, Untouched
    <2>2. CASE u = t
      <3>1. \A p \in Pollers : /\ work'[p][t].stage \notin {"adjust", "poll"}
                               /\ GoodJob(work'[p][t], t)
        BY <1>0, <1>7, <2>0, <2>2 DEF TaskInv, Exists, Open, Terminal
      <3>2. paid'[t] \in Charges(t)
        BY <1>2, <1>7
      <3>3. OneBill(t)'
        <4>1. 0 \in Adjustments(t) /\ paid'[t] = paid'[t] + 0
          BY <1>2, <1>7 DEF Adjustments
        <4> QED BY <3>2, <4>1 DEF OneBill, Adjustments, Charges
      <3>4. TaskInv(t)'
        BY <3>1, <3>2, <3>3 DEF TaskInv, GoodJob, Adjustments, Charges
      <3> QED BY <1>7, <2>2, <3>4 DEF Terminal
    <2> QED BY <2>1, <2>2
  <1> QED BY <1>0, <1>5, <1>6, <1>8, Assemble DEF Stays

\* Steps that touch neither the rows nor the charges nor the jobs.
LEMMA EnvironmentStep ==
    ASSUME IInv, (\E t \in Tasks : TimeOut(t)) \/ (\E c \in Deletable : DeleteChannel(c)) \/ LoseLease
    PROVE  IInv' /\ Stays
  <1>0. /\ TypeOK /\ channel' = channel /\ work' = work /\ fetch' = fetch
        /\ row' = row /\ paid' = paid
    BY DEF IInv, TimeOut, DeleteChannel, LoseLease, envVars, moneyVars, passVars, userVars
  <1>1. TypeOK'
    <2>1. CASE \E t \in Tasks : TimeOut(t)
      BY <1>0, <2>1 DEF TypeOK, TimeOut, moneyVars, passVars, userVars
    <2>2. CASE \E c \in Deletable : DeleteChannel(c)
      BY <1>0, <2>2 DEF TypeOK, DeleteChannel, moneyVars, passVars, userVars
    <2>3. CASE LoseLease
      <3>1. Suno \in SUBSET Tasks
        BY DEF Suno
      <3>2. faults' \in 0..MaxFaults /\ hurt' \subseteq Tasks
        BY <1>0, <2>3, <3>1, FaultType DEF LoseLease
      <3> QED BY <1>0, <2>3, <3>2 DEF TypeOK, LoseLease, envVars, moneyVars, userVars
    <2> QED BY <2>1, <2>2, <2>3
  <1>2. FetchInv'
    BY <1>0, Kinds DEF IInv, FetchInv
  <1>3. ASSUME NEW u \in Plain PROVE TaskInv(u)'
    BY <1>0, Untouched DEF IInv, Plain
  <1> QED BY <1>0, <1>1, <1>2, <1>3, Assemble DEF Stays

\* The selections of a pass: only unfinished rows, seen as they are.
LEMMA SelectStep ==
    ASSUME IInv, NEW p \in Pollers, Start(p) \/ Find(p)
    PROVE  IInv' /\ Stays
  <1>0. /\ TypeOK /\ channel' = channel /\ fetch' = fetch
        /\ row' = row /\ paid' = paid
    BY DEF IInv, Start, Find, envVars, moneyVars, userVars
  <1>1. \E S, R \in SUBSET Tasks, st \in {"sweep", "poll"} :
           /\ \A t \in S : Unfinished(t)
           /\ Selected(S, R) /\ work' = [work EXCEPT ![p] = Pick(R, st)]
    <2>1. CASE Start(p)
      <3>1. First(GetTimedOutUnfinishedTasks, SweepLimit) \in SUBSET Tasks
        BY <1>0 DEF First, GetTimedOutUnfinishedTasks, TypeOK
      <3>2. \A t \in First(GetTimedOutUnfinishedTasks, SweepLimit) : Unfinished(t)
        BY DEF First, GetTimedOutUnfinishedTasks
      <3>3. PICK R \in SUBSET Tasks :
           /\ Selected(First(GetTimedOutUnfinishedTasks, SweepLimit), R)
           /\ work' = [work EXCEPT ![p] = Pick(R, "sweep")]
        BY <2>1 DEF Start
      <3> QED BY <3>1, <3>2, <3>3
    <2>2. CASE Find(p)
      <3>1. First(GetAllUnFinishSyncTasks, QueryLimit) \in SUBSET Tasks
        BY DEF First, GetAllUnFinishSyncTasks
      <3>2. \A t \in First(GetAllUnFinishSyncTasks, QueryLimit) : Unfinished(t)
        BY DEF First, GetAllUnFinishSyncTasks
      <3>3. PICK R \in SUBSET Tasks :
           /\ Selected(First(GetAllUnFinishSyncTasks, QueryLimit), R)
           /\ work' = [work EXCEPT ![p] = Pick(R, "poll")]
        BY <2>2 DEF Find
      <3> QED BY <3>1, <3>2, <3>3
    <2> QED BY <2>1, <2>2
  <1>2. PICK S, R \in SUBSET Tasks, st \in {"sweep", "poll"} :
           /\ \A t \in S : Unfinished(t)
           /\ Selected(S, R) /\ work' = [work EXCEPT ![p] = Pick(R, st)]
    BY <1>1
  <1>3. R \subseteq S /\ faults' \in 0..MaxFaults /\ hurt' \subseteq Tasks
    BY <1>0, <1>2, SelectedType
  <1>4. /\ Pick(R, st) \in [Tasks -> Work]
        /\ \A t \in R : Pick(R, st)[t].stage = st /\ Pick(R, st)[t].seen = row[t]
        /\ \A t \in Tasks \ R : Pick(R, st)[t] = NoJob
    BY <1>0, <1>2, <1>3, PickType DEF Stages
  <1>5. /\ work' \in [Pollers -> [Tasks -> Work]]
        /\ \A t \in Tasks : work'[p][t] = Pick(R, st)[t]
        /\ \A q \in Pollers \ {p}, u \in Tasks : work'[q][u] = work[q][u]
    BY <1>0, <1>2, <1>4, SetPassEffect
  <1>6. TypeOK'
    BY <1>0, <1>3, <1>5 DEF TypeOK, Start, Find, envVars, moneyVars, userVars
  <1>7. FetchInv'
    BY <1>0, Kinds DEF IInv, FetchInv
  <1>8. ASSUME NEW u \in Plain PROVE TaskInv(u)'
    <2>0. u \in Tasks /\ TaskInv(u)
      BY DEF IInv, Plain
    <2>1. Calm(work'[p][u], u)
      <3>1. CASE u \in R
        <4>1. work'[p][u].stage \in {"sweep", "poll"} /\ work'[p][u].seen = row[u]
          BY <1>4, <1>5, <2>0, <3>1
        <4>2. row[u].status \in Open
          BY <1>2, <1>3, <3>1 DEF Unfinished
        <4> QED BY <4>1, <4>2 DEF GoodJob, Calm, Exists
      <3>2. CASE u \notin R
        BY <1>4, <1>5, <2>0, <3>2, NoJobGood, NoJobType
      <3> QED BY <3>1, <3>2
    <2> QED BY <1>0, <1>5, <2>0, <2>1, Untouched
  <1> QED BY <1>0, <1>6, <1>7, <1>8, Assemble DEF Stays

\* The winner of the guarded UPDATE of an open row may be the one who bills:
\* nobody has billed the row, and nobody is about to.
LEMMA Winner ==
    ASSUME NEW t \in Tasks, NEW p \in Pollers, TaskInv(t), row[t].status \in Open,
           paid'[t] = paid[t], row'[t].status \in Open \union Terminal,
           GoodJob(work'[p][t], t),
           work'[p][t].stage = "adjust" => row'[t].status \in Terminal,
           \A q \in Pollers \ {p} : work'[q][t] = work[q][t]
    PROVE  TaskInv(t)'
  <1>1. paid'[t] \in Charges(t) /\ OneBill(t)
    BY ChargeIsBill DEF TaskInv
  <1>2. \A q \in Pollers : work[q][t].stage # "adjust"
    BY DEF TaskInv, Open, Terminal
  <1>3. \A q \in Pollers : GoodJob(work'[q][t], t)
    BY DEF TaskInv
  <1>4. \A q \in Pollers : work'[q][t].stage = "adjust" => q = p
    BY <1>2
  <1>5. OneBill(t)'
    BY <1>1 DEF OneBill, Adjustments, Charges
  <1>6. Exists(t)'
    BY DEF Exists
  <1> QED BY <1>1, <1>3, <1>4, <1>5, <1>6 DEF TaskInv, GoodJob, Adjustments, Charges

LEMMA SweepStep ==
    ASSUME IInv, NEW p \in Pollers, NEW t \in Tasks, sweepTimedOutTasks(p, t)
    PROVE  IInv' /\ Stays
  <1> DEFINE from == work[p][t].seen.status
             r == Row("FAILURE", TRUE)
             bill == Job("adjust", work[p][t].seen, NoRow, -Quota[t])
  <1>0. /\ TypeOK /\ channel' = channel /\ fetch' = fetch /\ paid' = paid
        /\ work[p][t].stage = "sweep"
    BY DEF IInv, sweepTimedOutTasks, envVars, moneyVars, userVars
  <1>1. r \in Rows /\ r.status = "FAILURE"
    BY RowType DEF Status, Terminal
  <1>2. work[p][t].seen \in Rows
    BY <1>0 DEF TypeOK, Work
  <1>3. bill \in Work /\ bill.stage = "adjust" /\ bill.delta = -Quota[t]
    BY <1>2, JobType, NoJobType, QuotaType DEF Stages
  <1>4. PICK j \in {bill, NoJob} :
          /\ SetJob(p, t, j)
          /\ \/ /\ UpdateWithStatus(t, from, r) /\ NoFault
                /\ j = bill => Won(t, from)
             \/ Fault({}) /\ j = NoJob /\ row' = row
    <2>1. CASE /\ UpdateWithStatus(t, from, r)
               /\ SetJob(p, t, IF Won(t, from) /\ t \notin Legacy /\ Quota[t] # 0
                               THEN bill ELSE NoJob)
               /\ NoFault
      <3>1. CASE Won(t, from) /\ t \notin Legacy /\ Quota[t] # 0
        BY <2>1, <3>1
      <3>2. CASE ~(Won(t, from) /\ t \notin Legacy /\ Quota[t] # 0)
        <4>1. SetJob(p, t, NoJob)
          BY <2>1, <3>2
        <4>2. NoJob # bill
          BY <1>3, NoJobType
        <4> QED BY <2>1, <4>1, <4>2
      <3> QED BY <3>1, <3>2
    <2>2. CASE Fault({}) /\ SetJob(p, t, NoJob) /\ UNCHANGED row
      BY <2>2
    <2> QED BY <2>1, <2>2 DEF sweepTimedOutTasks
  <1>5. j \in Work
    BY <1>3, NoJobType
  <1>6. /\ work' \in [Pollers -> [Tasks -> Work]] /\ work'[p][t] = j
        /\ \A q \in Pollers, u \in Tasks : q # p \/ u # t => work'[q][u] = work[q][u]
    BY <1>0, <1>4, <1>5, SetJobEffect
  <1>7. /\ row' \in [Tasks -> Rows]
        /\ \A u \in Tasks \ {t} : row'[u] = row[u]
        /\ \/ row'[t] = row[t] /\ j = NoJob
           \/ row'[t] = r /\ row[t].status = from
    <2>1. CASE UpdateWithStatus(t, from, r) /\ (j = bill => Won(t, from))
      <3>1. /\ row' \in [Tasks -> Rows]
            /\ \A u \in Tasks \ {t} : row'[u] = row[u]
            /\ Won(t, from) => row'[t] = r
            /\ ~Won(t, from) => row'[t] = row[t]
        BY <1>0, <1>1, <2>1, UpdateEffect
      <3> QED BY <1>4, <2>1, <3>1 DEF Won
    <2>2. CASE j = NoJob /\ row' = row
      BY <1>0, <2>2 DEF TypeOK
    <2> QED BY <1>4, <2>1, <2>2
  <1>8. TypeOK'
    <2>1. faults' \in 0..MaxFaults /\ hurt' \subseteq Tasks
      BY <1>0, <1>4, FaultType
    <2> QED BY <1>0, <1>6, <1>7, <2>1
        DEF TypeOK, sweepTimedOutTasks, envVars, moneyVars, userVars
  <1>9. FetchInv'
    BY <1>0, Kinds DEF IInv, FetchInv
  <1>10. ASSUME NEW u \in Plain
         PROVE TaskInv(u)' /\ (row[u].status \in Terminal => row'[u].status \in Terminal)
    <2>0. u \in Tasks /\ TaskInv(u)
      BY DEF IInv, Plain
    <2>1. CASE u # t \/ (row'[t] = row[t] /\ j = NoJob)
      <3>1. row'[u] = row[u] /\ paid'[u] = paid[u]
        BY <1>0, <1>7, <2>0, <2>1
      <3>2. \A q \in Pollers : \/ work'[q][u] = work[q][u]
                               \/ Calm(work'[q][u], u)
        BY <1>6, <2>0, <2>1, NoJobGood, NoJobType
      <3> QED BY <2>0, <3>1, <3>2, Untouched
    <2>2. CASE u = t /\ row'[t] = r /\ row[t].status = from
      <3>1. row[t].status \in Open
        BY <1>0, <2>0, <2>2 DEF TaskInv, GoodJob
      <3>2. GoodJob(work'[p][t], t)
        <4>1. CASE j = NoJob
          BY <1>6, <4>1, NoJobGood
        <4>2. CASE j = bill
          <5>1. -Quota[t] \in Adjustments(t)
            BY DEF Adjustments
          <5>2. bill.delta \in Adjustments(t)
            BY <1>3, <5>1, Zenon
          <5> QED BY <1>3, <1>6, <4>2, <5>2 DEF GoodJob
        <4> QED BY <4>1, <4>2
      <3>3. row'[t].status \in Terminal
        BY <1>1, <2>2 DEF Terminal
      <3>4. \A q \in Pollers \ {p} : work'[q][t] = work[q][t]
        BY <1>6
      <3> QED BY <1>0, <2>0, <2>2, <3>1, <3>2, <3>3, <3>4, Winner
    <2> QED BY <1>7, <2>1, <2>2
  <1> QED BY <1>0, <1>8, <1>9, <1>10, Assemble DEF Stays

LEMMA VideoStep ==
    ASSUME IInv, NEW p \in Pollers, NEW t \in Tasks, updateVideoSingleTask(p, t)
    PROVE  IInv' /\ Stays
  <1> DEFINE w == work[p][t]
             from == w.seen.status
             bill == [w EXCEPT !.stage = "adjust"]
  <1>0. /\ TypeOK /\ channel' = channel /\ fetch' = fetch /\ paid' = paid
        /\ w.stage = "answer"
    BY DEF IInv, updateVideoSingleTask, envVars, moneyVars, userVars
  <1>1. w \in Work /\ w.next \in Rows
    BY <1>0 DEF TypeOK, Work
  <1>3. bill \in Work /\ bill.stage = "adjust" /\ bill.delta = w.delta
    BY <1>1, StageType DEF Stages
  <1>4. PICK j \in {bill, NoJob} :
          /\ SetJob(p, t, j)
          /\ \/ /\ UpdateWithStatus(t, from, w.next) /\ NoFault
                /\ j = bill => Won(t, from) /\ w.delta # 0
             \/ Fault({}) /\ j = NoJob /\ row' = row
    <2>1. CASE /\ UpdateWithStatus(t, from, w.next)
               /\ SetJob(p, t, IF Won(t, from) /\ w.delta # 0 THEN bill ELSE NoJob)
               /\ NoFault
      <3>1. CASE Won(t, from) /\ w.delta # 0
        BY <2>1, <3>1
      <3>2. CASE ~(Won(t, from) /\ w.delta # 0)
        <4>1. SetJob(p, t, NoJob)
          BY <2>1, <3>2
        <4>2. NoJob # bill
          BY <1>3, NoJobType
        <4> QED BY <2>1, <4>1, <4>2
      <3> QED BY <3>1, <3>2
    <2>2. CASE Fault({}) /\ SetJob(p, t, NoJob) /\ UNCHANGED row
      BY <2>2
    <2> QED BY <2>1, <2>2 DEF updateVideoSingleTask
  <1>5. j \in Work
    BY <1>3, NoJobType
  <1>6. /\ work' \in [Pollers -> [Tasks -> Work]] /\ work'[p][t] = j
        /\ \A q \in Pollers, u \in Tasks : q # p \/ u # t => work'[q][u] = work[q][u]
    BY <1>0, <1>4, <1>5, SetJobEffect
  <1>7. /\ row' \in [Tasks -> Rows]
        /\ \A u \in Tasks \ {t} : row'[u] = row[u]
        /\ \/ row'[t] = row[t] /\ j = NoJob
           \/ /\ row'[t] = w.next /\ row[t].status = from
              /\ j = bill => w.delta # 0
    <2>1. CASE UpdateWithStatus(t, from, w.next) /\ (j = bill => Won(t, from) /\ w.delta # 0)
      <3>1. /\ row' \in [Tasks -> Rows]
            /\ \A u \in Tasks \ {t} : row'[u] = row[u]
            /\ Won(t, from) => row'[t] = w.next
            /\ ~Won(t, from) => row'[t] = row[t]
        BY <1>0, <1>1, <2>1, UpdateEffect
      <3> QED BY <1>4, <2>1, <3>1 DEF Won
    <2>2. CASE j = NoJob /\ row' = row
      BY <1>0, <2>2 DEF TypeOK
    <2> QED BY <1>4, <2>1, <2>2
  <1>8. TypeOK'
    <2>1. faults' \in 0..MaxFaults /\ hurt' \subseteq Tasks
      BY <1>0, <1>4, FaultType
    <2> QED BY <1>0, <1>6, <1>7, <2>1
        DEF TypeOK, updateVideoSingleTask, envVars, moneyVars, userVars
  <1>9. FetchInv'
    BY <1>0, Kinds DEF IInv, FetchInv
  <1>10. ASSUME NEW u \in Plain
         PROVE TaskInv(u)' /\ (row[u].status \in Terminal => row'[u].status \in Terminal)
    <2>0. u \in Tasks /\ TaskInv(u)
      BY DEF IInv, Plain
    <2>1. CASE u # t \/ (row'[t] = row[t] /\ j = NoJob)
      <3>1. row'[u] = row[u] /\ paid'[u] = paid[u]
        BY <1>0, <1>7, <2>0, <2>1
      <3>2. \A q \in Pollers : \/ work'[q][u] = work[q][u]
                               \/ Calm(work'[q][u], u)
        BY <1>6, <2>0, <2>1, NoJobGood, NoJobType
      <3> QED BY <2>0, <3>1, <3>2, Untouched
    <2>2. CASE /\ u = t /\ row'[t] = w.next /\ row[t].status = from
               /\ j = bill => w.delta # 0
      <3>0. GoodJob(w, t)
        BY <2>0, <2>2 DEF TaskInv
      <3>1. row[t].status \in Open
        BY <1>0, <2>2, <3>0 DEF GoodJob
      <3>2. GoodJob(work'[p][t], t)
        <4>1. CASE j = NoJob
          BY <1>6, <4>1, NoJobGood
        <4>2. CASE j = bill
          BY <1>0, <1>3, <1>6, <3>0, <4>2 DEF GoodJob
        <4> QED BY <4>1, <4>2
      <3>3. row'[t].status \in Open \union Terminal
        BY <1>0, <2>2, <3>0 DEF GoodJob
      <3>4. work'[p][t].stage = "adjust" => row'[t].status \in Terminal
        BY <1>0, <1>6, <2>2, <3>0, NoJobType DEF GoodJob
      <3>5. \A q \in Pollers \ {p} : work'[q][t] = work[q][t]
        BY <1>6
      <3>6. row[t].status \notin Terminal
        BY <3>1 DEF Open, Terminal
      <3> QED BY <1>0, <2>0, <2>2, <3>1, <3>2, <3>3, <3>4, <3>5, <3>6, Winner
    <2> QED BY <1>7, <2>1, <2>2
  <1> QED BY <1>0, <1>8, <1>9, <1>10, Assemble DEF Stays

\* A step of one pass that touches neither rows nor charges and starts no bill
\* of a video task.
LEMMA HarmlessPass ==
    ASSUME IInv, TypeOK', NEW p \in Pollers, channel' = channel, fetch' = fetch,
           row' = row, paid' = paid,
           \A q \in Pollers \ {p}, u \in Tasks : work'[q][u] = work[q][u],
           \A u \in Plain : \/ work'[p][u] = work[p][u]
                            \/ Calm(work'[p][u], u)
    PROVE  IInv' /\ Stays
  <1>1. FetchInv'
    BY Kinds DEF IInv, FetchInv
  <1>2. ASSUME NEW u \in Plain PROVE TaskInv(u)'
    <2>1. u \in Tasks /\ TaskInv(u)
      BY DEF IInv, Plain
    <2>2. \A q \in Pollers : \/ work'[q][u] = work[q][u]
                             \/ Calm(work'[q][u], u)
      BY <2>1
    <2> QED BY <2>1, <2>2, Untouched
  <1> QED BY <1>1, <1>2, Assemble DEF Stays

LEMMA FetchTaskStep ==
    ASSUME IInv, NEW p \in Pollers, NEW c, FetchTask(p, c)
    PROVE  IInv' /\ Stays
  <1> DEFINE T == {t \in Waiting(p, c) : t \in Suno \/ \A u \in Waiting(p, c) : t <= u}
  <1>0. /\ TypeOK /\ channel' = channel /\ fetch' = fetch /\ row' = row /\ paid' = paid
        /\ NoFault
    BY DEF IInv, FetchTask, envVars, moneyVars, userVars
  <1>r. PICK R \in SUBSET T :
          \E a \in [R -> UNION {Answers(p, t) : t \in R}] :
            /\ \A t \in R : a[t] \in Answers(p, t)
            /\ work' = [work EXCEPT ![p] = [t \in Tasks |->
                  IF t \in R THEN a[t] ELSE IF t \in T THEN NoJob ELSE work[p][t]]]
    BY Zenon DEF FetchTask
  <1>1. PICK a \in [R -> UNION {Answers(p, t) : t \in R}] :
          /\ \A t \in R : a[t] \in Answers(p, t)
          /\ work' = [work EXCEPT ![p] = [t \in Tasks |->
                IF t \in R THEN a[t] ELSE IF t \in T THEN NoJob ELSE work[p][t]]]
    BY <1>r, Zenon
  <1> DEFINE f == [t \in Tasks |->
                IF t \in R THEN a[t] ELSE IF t \in T THEN NoJob ELSE work[p][t]]
  <1>2. \A t \in R : t \in Tasks /\ work[p][t].stage = "poll"
    BY DEF Waiting, Jobs
  <1>3. \A t \in R : /\ a[t] \in Work /\ a[t].stage = "answer" /\ a[t].seen = work[p][t].seen
                     /\ t \in Plain => /\ a[t].delta \in Adjustments(t)
                                       /\ a[t].next.status \in Open \union Terminal
                                       /\ a[t].delta # 0 => a[t].next.status \in Terminal
    BY <1>0, <1>1, <1>2, AnswerType
  <1>4. f \in [Tasks -> Work]
    BY <1>0, <1>3, NoJobType DEF TypeOK
  <1> HIDE DEF T
  <1>5. /\ work' \in [Pollers -> [Tasks -> Work]]
        /\ \A t \in Tasks : work'[p][t] = f[t]
        /\ \A q \in Pollers \ {p}, u \in Tasks : work'[q][u] = work[q][u]
    BY <1>0, <1>1, <1>4, SetPassEffect
  <1>6. TypeOK'
    BY <1>0, <1>5 DEF TypeOK, NoFault, FetchTask, envVars, moneyVars, userVars
  <1>7. ASSUME NEW u \in Plain
        PROVE \/ work'[p][u] = work[p][u]
              \/ Calm(work'[p][u], u)
    <2>0. u \in Tasks /\ TaskInv(u)
      BY DEF IInv, Plain
    <2>1. CASE u \in R
      <3>1. work'[p][u] = a[u]
        BY <1>5, <2>0, <2>1
      <3>2. work[p][u].seen.status \in Open
        BY <1>2, <2>0, <2>1 DEF TaskInv, GoodJob
      <3> QED BY <1>3, <2>1, <3>1, <3>2 DEF GoodJob, Calm
    <2>2. CASE u \notin R
      <3>1. work'[p][u] = NoJob \/ work'[p][u] = work[p][u]
        BY <1>5, <2>0, <2>2
      <3> QED BY <3>1, NoJobGood, NoJobType
    <2> QED BY <2>1, <2>2
  <1> QED BY <1>0, <1>5, <1>6, <1>7, HarmlessPass

LEMMA BulkStep ==
    ASSUME IInv, NEW p \in Pollers, NEW c, TaskBulkUpdateByID(p, c)
    PROVE  IInv' /\ Stays
  <1> DEFINE S == Waiting(p, c)
             f == [t \in Tasks |-> IF t \in S THEN NoJob ELSE work[p][t]]
             r == Row("FAILURE", TRUE)
  <1>0. /\ TypeOK /\ channel' = channel /\ fetch' = fetch /\ paid' = paid
        /\ work' = [work EXCEPT ![p] = f]
    BY DEF IInv, TaskBulkUpdateByID, envVars, moneyVars, userVars
  <1>1. r \in Rows /\ r.status \in Terminal
    BY RowType DEF Status, Terminal
  <1>2. S \subseteq Tasks
    BY DEF Waiting, Jobs
  <1>3. f \in [Tasks -> Work]
    BY <1>0, NoJobType DEF TypeOK
  <1>4. /\ work' \in [Pollers -> [Tasks -> Work]]
        /\ \A t \in Tasks : work'[p][t] = f[t]
        /\ \A q \in Pollers \ {p}, u \in Tasks : work'[q][u] = work[q][u]
    BY <1>0, <1>3, SetPassEffect
  <1>5. /\ row' \in [Tasks -> Rows] /\ faults' \in 0..MaxFaults /\ hurt' \subseteq Tasks
        /\ \A u \in Tasks : row'[u] = row[u] \/ (u \in S /\ row'[u] = r)
    <2>1. CASE /\ row' = [t \in Tasks |-> IF t \in S THEN r ELSE row[t]]
               /\ hurt' = hurt \union S /\ UNCHANGED faults
      BY <1>0, <1>1, <1>2, <2>1 DEF TypeOK
    <2>2. CASE Fault({}) /\ UNCHANGED row
      BY <1>0, <2>2, FaultType DEF TypeOK
    <2>3. CASE /\ row' = [t \in Tasks |-> IF t \in S THEN r ELSE row[t]]
               /\ Fault(S)
      <3>1. faults' \in 0..MaxFaults /\ hurt' \subseteq Tasks
        BY <1>0, <1>2, <2>3, FaultType
      <3> QED BY <1>0, <1>1, <2>3, <3>1 DEF TypeOK
    <2> QED BY <2>1, <2>2, <2>3 DEF TaskBulkUpdateByID
  <1>6. TypeOK'
    BY <1>0, <1>4, <1>5
    DEF TypeOK, TaskBulkUpdateByID, envVars, moneyVars, userVars
  <1>7. FetchInv'
    BY <1>0, Kinds DEF IInv, FetchInv
  <1>8. ASSUME NEW u \in Plain
        PROVE TaskInv(u)' /\ (row[u].status \in Terminal => row'[u].status \in Terminal)
    <2>0. u \in Tasks /\ TaskInv(u)
      BY DEF IInv, Plain
    <2>1. \A q \in Pollers : \/ work'[q][u] = work[q][u]
                             \/ Calm(work'[q][u], u)
      BY <1>4, <2>0, NoJobGood, NoJobType
    <2>2. CASE row'[u] = row[u]
      BY <1>0, <2>0, <2>1, <2>2, Untouched
    <2>3. CASE u \in S /\ row'[u] = r
      <3>1. CASE Exists(u)
        BY <1>0, <1>1, <2>0, <2>1, <2>3, <3>1, Closed
      <3>2. CASE ~Exists(u)
        <4>1. FALSE
          <5>1. work[p][u].stage = "poll"
            BY <2>3 DEF Waiting, Jobs
          <5> QED BY <2>0, <3>2, <5>1 DEF TaskInv
        <4> QED BY <4>1
      <3> QED BY <3>1, <3>2
    <2> QED BY <1>5, <2>0, <2>2, <2>3, <1>1
  <1> QED BY <1>0, <1>6, <1>7, <1>8, Assemble DEF Stays

LEMMA SunoStep ==
    ASSUME IInv, NEW p \in Pollers, NEW t \in Tasks, updateSunoTasks(p, t)
    PROVE  IInv' /\ Stays
  <1> DEFINE st == IF work[p][t].delta # 0 THEN "adjust" ELSE "save"
  <1>0. /\ TypeOK /\ channel' = channel /\ fetch' = fetch /\ row' = row /\ paid' = paid
        /\ NoFault /\ t \in Suno /\ work' = [work EXCEPT ![p][t].stage = st]
    BY DEF IInv, updateSunoTasks, envVars, moneyVars, userVars
  <1>1. st \in Stages /\ work[p][t] \in Work
    BY <1>0 DEF Stages, TypeOK
  <1>2. [work[p][t] EXCEPT !.stage = st] \in Work
    BY <1>1, StageType
  <1> HIDE DEF st
  <1>3. SetJob(p, t, [work[p][t] EXCEPT !.stage = st])
    BY <1>0 DEF SetJob, TypeOK
  <1>4. /\ work' \in [Pollers -> [Tasks -> Work]]
        /\ \A q \in Pollers, u \in Tasks : q # p \/ u # t => work'[q][u] = work[q][u]
    BY <1>0, <1>2, <1>3, SetJobEffect
  <1>5. TypeOK'
    BY <1>0, <1>4 DEF TypeOK, NoFault, updateSunoTasks, envVars, moneyVars, userVars
  <1>6. \A u \in Plain : work'[p][u] = work[p][u]
    BY <1>0, <1>4 DEF Plain
  <1> QED BY <1>0, <1>4, <1>5, <1>6, HarmlessPass

LEMMA BilledType ==
    ASSUME TypeOK, NEW p \in Pollers, NEW t \in Tasks
    PROVE  Billed(p, t) \in Work /\ (t \in Plain => Billed(p, t) = NoJob)
  <1>1. work[p][t] \in Work /\ "save" \in Stages
    BY DEF TypeOK, Stages
  <1>2. [work[p][t] EXCEPT !.stage = "save"] \in Work
    BY <1>1, StageType
  <1>3. Billed(p, t) \in Work
    BY <1>2, NoJobType DEF Billed
  <1>4. t \in Plain => Billed(p, t) = NoJob
    BY DEF Billed, Plain
  <1> QED BY <1>3, <1>4

\* The one job that may bill does so, and leaves the stage adjust.
LEMMA FundingStep ==
    ASSUME IInv, NEW p \in Pollers, NEW t \in Tasks, taskAdjustFunding(p, t)
    PROVE  IInv' /\ Stays
  <1> DEFINE w == work[p][t]
             next == [w EXCEPT !.stage = "token"]
  <1>0. /\ TypeOK /\ channel' = channel /\ fetch' = fetch /\ row' = row
        /\ w.stage = "adjust"
    BY DEF IInv, taskAdjustFunding, envVars, userVars
  <1>1. w \in Work /\ w.delta \in Int /\ paid[t] \in Int
    BY <1>0 DEF TypeOK, Work
  <1>2. /\ next \in Work /\ next.stage = "token" /\ next.delta = w.delta
    BY <1>1, StageType DEF Stages
  <1>3. Billed(p, t) \in Work /\ (t \in Plain => Billed(p, t) = NoJob)
    BY <1>0, BilledType
  <1>4. PICK j \in Work :
          /\ SetJob(p, t, j)
          /\ \/ paid' = [paid EXCEPT ![t] = @ + w.delta] /\ NoFault /\ j = next
             \/ Fault({t}) /\ paid' = paid /\ j = Billed(p, t)
    BY <1>2, <1>3 DEF taskAdjustFunding
  <1>5. /\ work' \in [Pollers -> [Tasks -> Work]] /\ work'[p][t] = j
        /\ \A q \in Pollers, u \in Tasks : q # p \/ u # t => work'[q][u] = work[q][u]
    BY <1>0, <1>4, SetJobEffect
  <1>6. /\ paid' \in [Tasks -> Int] /\ faults' \in 0..MaxFaults /\ hurt' \subseteq Tasks
        /\ \A u \in Tasks \ {t} : paid'[u] = paid[u]
        /\ \/ paid'[t] = paid[t] + w.delta /\ j = next
           \/ paid'[t] = paid[t] /\ j = Billed(p, t)
    <2>1. faults' \in 0..MaxFaults /\ hurt' \subseteq Tasks
      BY <1>0, <1>4, FaultType
    <2>2. CASE paid' = [paid EXCEPT ![t] = @ + w.delta] /\ j = next
      BY <1>0, <1>1, <2>1, <2>2 DEF TypeOK
    <2>3. CASE paid' = paid /\ j = Billed(p, t)
      BY <1>0, <2>1, <2>3 DEF TypeOK
    <2> QED BY <1>4, <2>2, <2>3
  <1>7. TypeOK'
    BY <1>0, <1>5, <1>6 DEF TypeOK, taskAdjustFunding, envVars, userVars
  <1>8. FetchInv'
    BY <1>0, Kinds DEF IInv, FetchInv
  <1>9. ASSUME NEW u \in Plain PROVE TaskInv(u)'
    <2>0. u \in Tasks /\ TaskInv(u)
      BY DEF IInv, Plain
    <2>1. CASE u # t \/ paid'[t] = paid[t]
      <3>1. row'[u] = row[u] /\ paid'[u] = paid[u]
        BY <1>0, <1>6, <2>0, <2>1
      <3>2. \A q \in Pollers : \/ work'[q][u] = work[q][u]
                               \/ Calm(work'[q][u], u)
        <4>1. CASE u # t
          BY <1>5, <2>0, <4>1
        <4>2. CASE u = t
          <5>1. Calm(j, t)
            <6>1. CASE j = Billed(p, t)
              BY <1>3, <4>2, <6>1, NoJobGood
            <6>2. CASE j = next
              BY <1>0, <1>2, <2>0, <4>2, <6>2 DEF TaskInv, GoodJob, Calm
            <6> QED BY <1>6, <6>1, <6>2
          <5> QED BY <1>5, <4>2, <5>1
        <4> QED BY <4>1, <4>2
      <3> QED BY <2>0, <3>1, <3>2, Untouched
    <2>2. CASE u = t /\ paid'[t] = paid[t] + w.delta /\ j = next
      <3>1. paid[t] \in Charges(t) /\ row[t].status \in Terminal /\ w.delta \in Adjustments(t)
        BY <1>0, <2>0, <2>2 DEF TaskInv, GoodJob
      <3>2. OneBill(t)'
        BY <2>2, <3>1 DEF OneBill, Charges, Adjustments
      <3>3. row[t].status \notin Open
        BY <3>1 DEF Open, Terminal
      <3>4. \A q \in Pollers : work'[q][t].stage # "adjust"
        <4>1. work'[p][t].stage # "adjust"
          BY <1>2, <1>5, <2>2
        <4>2. \A q \in Pollers \ {p} : work[q][t].stage # "adjust"
          BY <1>0, <2>0, <2>2 DEF TaskInv
        <4> QED BY <1>5, <4>1, <4>2
      <3>5. \A q \in Pollers : GoodJob(work'[q][t], t)
        <4>1. GoodJob(next, t)
          BY <1>2, <3>1 DEF GoodJob
        <4> QED BY <1>5, <2>0, <2>2, <4>1 DEF TaskInv
      <3>6. Exists(t)'
        BY <1>0, <3>1 DEF Exists
      <3> QED BY <1>0, <2>2, <3>2, <3>3, <3>4, <3>5, <3>6
          DEF TaskInv, GoodJob, Charges, Adjustments
    <2> QED BY <1>6, <2>1, <2>2
  <1> QED BY <1>0, <1>7, <1>8, <1>9, Assemble DEF Stays

LEMMA TokenStep ==
    ASSUME IInv, NEW p \in Pollers, NEW t \in Tasks, taskAdjustTokenQuota(p, t)
    PROVE  IInv' /\ Stays
  <1>0. /\ TypeOK /\ channel' = channel /\ fetch' = fetch /\ row' = row /\ paid' = paid
        /\ SetJob(p, t, Billed(p, t))
    BY DEF IInv, taskAdjustTokenQuota, envVars, userVars
  <1>1. Billed(p, t) \in Work /\ (t \in Plain => Billed(p, t) = NoJob)
    BY <1>0, BilledType
  <1>2. /\ work' \in [Pollers -> [Tasks -> Work]] /\ work'[p][t] = Billed(p, t)
        /\ \A q \in Pollers, u \in Tasks : q # p \/ u # t => work'[q][u] = work[q][u]
    BY <1>0, <1>1, SetJobEffect
  <1>3. tok' \in [Tasks -> Int]
    <2>1. work[p][t].delta \in Int
      BY <1>0 DEF TypeOK, Work
    <2> QED BY <1>0, <2>1 DEF TypeOK, taskAdjustTokenQuota
  <1>4. faults' \in 0..MaxFaults /\ hurt' \subseteq Tasks
    BY <1>0, FaultType DEF taskAdjustTokenQuota
  <1>5. TypeOK'
    BY <1>0, <1>2, <1>3, <1>4 DEF TypeOK, taskAdjustTokenQuota, envVars, userVars
  <1>6. \A u \in Plain : work'[p][u] = work[p][u] \/ Calm(work'[p][u], u)
    BY <1>1, <1>2, NoJobGood DEF Plain
  <1> QED BY <1>0, <1>2, <1>5, <1>6, HarmlessPass

\* The unconditional Save concerns Suno tasks only.
LEMMA SaveStep ==
    ASSUME IInv, NEW p \in Pollers, NEW t \in Tasks, Update(p, t)
    PROVE  IInv' /\ Stays
  <1>0. /\ TypeOK /\ channel' = channel /\ fetch' = fetch /\ paid' = paid
        /\ SetJob(p, t, NoJob) /\ work[p][t].stage = "save"
    BY DEF IInv, Update, envVars, moneyVars, userVars
  <1>1. t \notin Plain
    BY <1>0 DEF IInv, TaskInv, GoodJob
  <1>2. /\ work' \in [Pollers -> [Tasks -> Work]]
        /\ \A q \in Pollers, u \in Tasks : q # p \/ u # t => work'[q][u] = work[q][u]
    BY <1>0, NoJobType, SetJobEffect
  <1>3. row' \in [Tasks -> Rows] /\ \A u \in Tasks \ {t} : row'[u] = row[u]
    <2>1. work[p][t].next \in Rows
      BY <1>0 DEF TypeOK, Work
    <2> QED BY <1>0, <2>1 DEF TypeOK, Update
  <1>4. faults' \in 0..MaxFaults /\ hurt' \subseteq Tasks
    <2>1. (IF work[p][t].delta # 0 THEN {t} ELSE {}) \in SUBSET Tasks
      OBVIOUS
    <2> QED BY <1>0, <2>1, FaultType DEF Update
  <1>5. TypeOK'
    BY <1>0, <1>2, <1>3, <1>4 DEF TypeOK, Update, envVars, moneyVars, userVars
  <1>6. FetchInv'
    BY <1>0, Kinds DEF IInv, FetchInv
  <1>7. ASSUME NEW u \in Plain PROVE TaskInv(u)' /\ row'[u] = row[u]
    <2>1. u \in Tasks /\ u # t /\ TaskInv(u)
      BY <1>1 DEF IInv, Plain
    <2>2. row'[u] = row[u] /\ paid'[u] = paid[u] /\ \A q \in Pollers : work'[q][u] = work[q][u]
      BY <1>0, <1>2, <1>3, <2>1
    <2> QED BY <2>1, <2>2, Untouched
  <1> QED BY <1>0, <1>5, <1>6, <1>7, Assemble DEF Stays

LEMMA PassEndStep ==
    ASSUME IInv, NEW p \in Pollers, Finish(p) \/ Cancel(p) \/ Crash(p)
    PROVE  IInv' /\ Stays
  <1>0. /\ TypeOK /\ channel' = channel /\ fetch' = fetch /\ row' = row /\ paid' = paid
    BY DEF IInv, Finish, Cancel, Crash, envVars, moneyVars, userVars
  <1>1. Released(p) \in Pollers \union {NoOne}
    BY <1>0 DEF TypeOK, Released
  <1>2. CASE Finish(p)
    <2>1. TypeOK' /\ work' = work
      BY <1>0, <1>1, <1>2 DEF TypeOK, Finish, envVars, moneyVars, userVars
    <2> QED BY <1>0, <2>1, HarmlessPass
  <1>3. CASE Cancel(p)
    <2> DEFINE f == [t \in Tasks |-> IF t \in Dropped(p) THEN NoJob ELSE work[p][t]]
    <2>1. f \in [Tasks -> Work] /\ work' = [work EXCEPT ![p] = f]
      BY <1>0, <1>3, NoJobType DEF TypeOK, Cancel
    <2>2. /\ work' \in [Pollers -> [Tasks -> Work]]
          /\ \A t \in Tasks : work'[p][t] = f[t]
          /\ \A q \in Pollers \ {p}, u \in Tasks : work'[q][u] = work[q][u]
      BY <1>0, <2>1, SetPassEffect
    <2>3. TypeOK'
      BY <1>0, <1>3, <2>2 DEF TypeOK, Cancel, envVars, moneyVars, userVars
    <2>4. \A u \in Plain : work'[p][u] = work[p][u] \/ Calm(work'[p][u], u)
      BY <2>2, NoJobGood DEF Plain
    <2> QED BY <1>0, <2>2, <2>3, <2>4, HarmlessPass
  <1>4. CASE Crash(p)
    <2> DEFINE f == [t \in Tasks |-> NoJob]
    <2>1. f \in [Tasks -> Work] /\ work' = [work EXCEPT ![p] = f]
      BY <1>4, NoJobType DEF Crash
    <2>2. /\ work' \in [Pollers -> [Tasks -> Work]]
          /\ \A t \in Tasks : work'[p][t] = f[t]
          /\ \A q \in Pollers \ {p}, u \in Tasks : work'[q][u] = work[q][u]
      BY <1>0, <2>1, SetPassEffect
    <2>3. faults' \in 0..MaxFaults /\ hurt' \subseteq Tasks
      <3>1. {t \in Jobs(p, Billing) : work[p][t].delta # 0} \in SUBSET Tasks
        BY DEF Jobs
      <3> QED BY <1>0, <1>4, <3>1, FaultType DEF Crash
    <2>4. TypeOK'
      BY <1>0, <1>1, <1>4, <2>2, <2>3 DEF TypeOK, Crash, envVars, moneyVars, userVars
    <2>5. \A u \in Plain : Calm(work'[p][u], u)
      BY <2>2, NoJobGood DEF Plain
    <2> QED BY <1>0, <2>2, <2>4, <2>5, HarmlessPass
  <1> QED BY <1>2, <1>3, <1>4

LEMMA UserStep ==
    ASSUME IInv, NEW t \in Tasks, tryRealtimeFetch(t) \/ FetchWrite(t)
    PROVE  IInv' /\ Stays
  <1>0. TypeOK /\ channel' = channel /\ paid' = paid /\ work' = work
    BY DEF IInv, tryRealtimeFetch, FetchWrite, envVars, moneyVars, passVars
  <1>1. CASE tryRealtimeFetch(t)
    <2>1. LiveAnswers \subseteq Rows
      BY RowType DEF LiveAnswers, Status, Open, Terminal
    <2>2. row' = row /\ t \in Live
      BY <1>1 DEF tryRealtimeFetch
    <2>3. PICK n \in LiveAnswers :
            fetch' = [fetch EXCEPT ![t] = [on |-> TRUE, seen |-> row[t], next |-> n]]
      BY <1>1 DEF tryRealtimeFetch
    <2>4. fetch' \in [Tasks -> Fetches]
      BY <1>0, <2>1, <2>3 DEF TypeOK, Fetches
    <2>5. fetches' \in 0..MaxFetches
      BY <1>0, <1>1, ConstantsAssumption DEF TypeOK, tryRealtimeFetch
    <2>6. TypeOK'
      BY <1>0, <1>1, <2>4, <2>5 DEF TypeOK, tryRealtimeFetch, envVars, moneyVars, passVars
    <2>7. \A u \in Tasks \ {t} : fetch'[u] = fetch[u]
      BY <1>0, <2>3 DEF TypeOK
    <2>8. FetchInv'
      BY <1>0, <2>2, <2>7, Kinds DEF IInv, FetchInv
    <2>9. ASSUME NEW u \in Plain PROVE TaskInv(u)'
      BY <1>0, <2>2, Untouched DEF IInv, Plain
    <2> QED BY <1>0, <2>2, <2>6, <2>8, <2>9, Assemble DEF Stays
  <1>2. CASE FetchWrite(t)
    <2>1. t \in Live /\ t \notin Plain
      BY <1>2 DEF IInv, FetchInv, FetchWrite, Plain
    <2>2. row' \in [Tasks -> Rows] /\ \A u \in Tasks \ {t} : row'[u] = row[u]
      <3>1. fetch[t].next \in Rows
        BY <1>0 DEF TypeOK, Fetches
      <3>2. CASE UpdateWithStatus(t, fetch[t].seen.status, fetch[t].next)
        BY <1>0, <3>1, <3>2, UpdateEffect
      <3>3. CASE UNCHANGED row
        BY <1>0, <3>3 DEF TypeOK
      <3> QED BY <1>2, <3>2, <3>3 DEF FetchWrite
    <2>3. faults' \in 0..MaxFaults /\ hurt' \subseteq Tasks
      BY <1>0, <1>2, FaultType DEF FetchWrite
    <2>4. NoFetch \in Fetches /\ NoFetch.on = FALSE
      BY NoJobType DEF NoFetch, Fetches
    <2>5. fetch' \in [Tasks -> Fetches] /\ \A u \in Tasks : fetch'[u] = fetch[u] \/ ~fetch'[u].on
      BY <1>0, <1>2, <2>4 DEF TypeOK, FetchWrite
    <2>6. TypeOK'
      BY <1>0, <1>2, <2>2, <2>3, <2>5 DEF TypeOK, FetchWrite, envVars, moneyVars, passVars
    <2>7. FetchInv'
      BY <1>0, <2>5, Kinds DEF IInv, FetchInv
    <2>8. ASSUME NEW u \in Plain PROVE TaskInv(u)' /\ row'[u] = row[u]
      <3>1. u \in Tasks /\ u # t /\ TaskInv(u)
        BY <2>1 DEF IInv, Plain
      <3> QED BY <1>0, <2>2, <3>1, Untouched
    <2> QED BY <1>0, <2>6, <2>7, <2>8, Assemble DEF Stays
  <1> QED BY <1>1, <1>2

-----------------------------------------------------------------------------
(* The theorems.                                                           *)

LEMMA NextIInv == ASSUME IInv, [Next]_vars PROVE IInv' /\ Stays
  <1>1. CASE UNCHANGED vars
    <2>1. /\ TypeOK' /\ channel' = channel /\ fetch' = fetch
          /\ row' = row /\ paid' = paid /\ work' = work
      BY <1>1 DEF IInv, TypeOK, vars
    <2>2. FetchInv'
      BY <2>1, Kinds DEF IInv, FetchInv
    <2>3. \A u \in Plain : TaskInv(u)'
      BY <2>1, Untouched DEF IInv, Plain
    <2> QED BY <2>1, <2>2, <2>3, Assemble DEF Stays
  <1>2. ASSUME NEW p \in Pollers, NEW t \in Tasks, PassStep(p, t) PROVE IInv' /\ Stays
    BY <1>2, SweepStep, FetchTaskStep, BulkStep, VideoStep, SunoStep,
       FundingStep, TokenStep, SaveStep DEF PassStep, LocalStep
  <1>3. ASSUME NEW p \in Pollers,
               Start(p) \/ Find(p) \/ Finish(p) \/ Cancel(p) \/ Crash(p)
        PROVE IInv' /\ Stays
    BY <1>3, SelectStep, PassEndStep
  <1>4. ASSUME NEW t \in Tasks,
               RelayTask(t) \/ TimeOut(t) \/ tryRealtimeFetch(t) \/ FetchWrite(t)
        PROVE IInv' /\ Stays
    BY <1>4, RelayTaskStep, EnvironmentStep, UserStep
  <1>5. CASE (\E c \in Deletable : DeleteChannel(c)) \/ LoseLease
    BY <1>5, EnvironmentStep
  <1> QED BY <1>1, <1>2, <1>3, <1>4, <1>5 DEF Next

\* The invariant holds throughout: at most one job may bill a video task, and
\* only once its row is terminal.
THEOREM Invariance == Spec => []IInv
  BY InitIInv, NextIInv, PTL DEF Spec

\* Rows, jobs and counters keep their types.
THEOREM TypeCorrect == Spec => []TypeOK
  <1>1. IInv => TypeOK
    BY DEF IInv
  <1> QED BY <1>1, Invariance, PTL

\* A video task outside Gemini and Vertex is refunded or settled at most once,
\* whatever passes overlap, crash or fail: UpdateWithStatus grants the bill.
THEOREM VideoBilledOnce == Spec => []BilledOnce
  <1>1. IInv => BilledOnce
    BY DEF IInv, BilledOnce, TaskInv, OneBill
  <1> QED BY <1>1, Invariance, PTL

\* No late answer reopens a video task that has ended.
THEOREM TerminalForGood == Spec => TerminalStays
  <1>1. IInv /\ [Next]_vars =>
          [\A t \in Plain : row[t].status \in Terminal => row'[t].status \in Terminal]_vars
    BY NextIInv DEF Stays
  <1> QED BY <1>1, Invariance, PTL DEF Spec, TerminalStays

-----------------------------------------------------------------------------
(* BilledByOutcome.  A job on a task that met no fault says how far its     *)
(* bill has come: charged in full, funding adjusted, token adjusted.  For a *)
(* video task the row is terminal by then; the row of a Suno task is saved  *)
(* last, which is right as long as its pass is the only one.                *)

\* The quota q is what a task with the row r has to pay.
Due(t, r, q) ==
    /\ r.status = "FAILURE" /\ t \notin Legacy => q = 0
    /\ t \notin Suno /\ r.status = "SUCCESS" => q \in {Quota[t]} \union (Actuals \ {0})
    /\ r.status \in Open /\ ~r.full => q = Quota[t]

\* The row that the billing of a job is for: a Suno task is billed and then saved.
Target(p, t) == IF t \in Suno /\ pc[p] = "poll" THEN work[p][t].next ELSE row[t]

Pays(t, m, n) == paid[t] = m /\ tok[t] = n

JobFits(p, t) ==
    LET w == work[p][t]
        q == Quota[t]
    IN
    /\ w.stage = "answer" => Due(t, w.next, q + w.delta)
    /\ w.stage \in Billing => Due(t, Target(p, t), q + w.delta)
    /\ w.stage \in {"adjust", "token"} => w.delta # 0
    /\ w.stage = "adjust" => Pays(t, q, q)
    /\ w.stage = "token" => Pays(t, q + w.delta, q)
    /\ w.stage = "save" => Pays(t, q + w.delta, q + w.delta)
    /\ t \notin Suno /\ w.stage \in Billing => row[t].status \in Terminal
    /\ t \in Suno /\ w.stage # "none" =>
          IF pc[p] = "sweep" /\ w.stage \in Billing
          THEN row[t].status \in Terminal ELSE Unfinished(t)

\* The jobs that a task has only one of.
Acts(p, t) == \/ work[p][t].stage \in Billing
              \/ t \in Suno /\ work[p][t].stage # "none"

ExactInv(t) ==
    /\ \A p \in Pollers : JobFits(p, t)
    /\ \A p, q \in Pollers : Acts(p, t) /\ Acts(q, t) => p = q
    /\ Quiet(t) /\ Exists(t) => Pays(t, paid[t], paid[t]) /\ Due(t, row[t], paid[t])
    /\ t \notin Suno /\ row[t].status \in Open => paid[t] = Quota[t]

\* What a pass does in which phase, and that while a Suno task is unharmed
\* only the holder of the lease has a pass.
PassInv ==
    /\ \A p \in Pollers, t \in Tasks :
        /\ pc[p] = "idle" => work[p][t].stage = "none"
        /\ pc[p] = "sweep" => work[p][t].stage \in {"none", "sweep", "adjust", "token"}
        /\ pc[p] = "poll" => work[p][t].stage # "sweep"
    /\ Suno \subseteq hurt \/ \A p \in Pollers : pc[p] # "idle" => holder = p

OutcomeInv == PassInv /\ \A t \in (Tasks \ Live) \ hurt : ExactInv(t)

\* A job that may end without having billed anything.
Idles(p, t) == work[p][t].stage \in Billing =>
                  work[p][t].stage = "save" /\ work[p][t].delta = 0

\* The provider has answered a job that was waiting.
Answered(p, t) ==
    /\ work[p][t].stage = "poll" /\ work'[p][t].stage = "answer" /\ pc'[p] = pc[p]
    /\ Due(t, work'[p][t].next, Quota[t] + work'[p][t].delta)

\* A task keeps its invariant when its jobs stay as they are, are answered, or
\* end before they have billed.
LEMMA Left ==
    ASSUME TypeOK, NEW t \in Tasks, ExactInv(t), channel' = channel,
           row'[t] = row[t], paid'[t] = paid[t], tok'[t] = tok[t],
           \A q \in Pollers :
              \/ /\ work'[q][t] = work[q][t]
                 /\ pc'[q] = pc[q] \/ work[q][t].stage = "none"
              \/ work'[q][t].stage = "none" /\ Idles(q, t)
              \/ Answered(q, t)
    PROVE  ExactInv(t)'
  <1> USE Kinds
  <1>1. \A q \in Pollers : JobFits(q, t)'
    <2> SUFFICES ASSUME NEW q \in Pollers PROVE JobFits(q, t)'
      OBVIOUS
    <2>1. CASE work'[q][t].stage = "none"
      BY <2>1 DEF JobFits, Billing
    <2>2. CASE work'[q][t] = work[q][t] /\ pc'[q] = pc[q]
      <3>1. JobFits(q, t)
        BY DEF ExactInv
      <3> QED BY <2>2, <3>1 DEF JobFits, Due, Target, Pays, Unfinished
    <2>3. CASE Answered(q, t)
      <3>1. t \in Suno => Unfinished(t)
        BY <2>3 DEF ExactInv, JobFits, Answered, Billing
      <3> QED BY <2>3, <3>1 DEF JobFits, Due, Answered, Unfinished, Billing
    <2> QED BY <2>1, <2>2, <2>3
  <1>2. \A q \in Pollers : Acts(q, t)' => Acts(q, t)
    BY DEF Acts, Billing, Answered
  <1>3. Pays(t, paid[t], paid[t]) /\ Due(t, row[t], paid[t])
        => (Pays(t, paid[t], paid[t]) /\ Due(t, row[t], paid[t]))'
    BY DEF Pays, Due
  <1>4. ASSUME Quiet(t)', Exists(t)' PROVE Pays(t, paid[t], paid[t]) /\ Due(t, row[t], paid[t])
    <2>1. Exists(t)
      BY <1>4 DEF Exists
    <2>2. CASE Quiet(t)
      BY <2>1, <2>2 DEF ExactInv
    <2>3. CASE ~Quiet(t)
      <3>1. PICK q \in Pollers : work[q][t].stage \in Billing
        BY <2>3 DEF Quiet
      <3>2. work[q][t].stage = "save" /\ work[q][t].delta = 0
        BY <1>4, <3>1 DEF Idles, Quiet, Answered, Billing
      <3>3. JobFits(q, t) /\ Quota[t] + 0 = Quota[t]
        BY QuotaType DEF ExactInv
      <3>4. Pays(t, Quota[t], Quota[t]) /\ Due(t, Target(q, t), Quota[t])
        BY <3>1, <3>2, <3>3 DEF JobFits
      <3>5. CASE t \in Suno /\ pc[q] = "poll"
        <4>1. Unfinished(t)
          BY <3>2, <3>3, <3>5 DEF JobFits
        <4> QED BY <3>4, <4>1 DEF Unfinished, Due, Pays, Open
      <3>6. CASE ~(t \in Suno /\ pc[q] = "poll")
        BY <3>4, <3>6 DEF Target, Pays
      <3> QED BY <3>5, <3>6
    <2> QED BY <2>2, <2>3
  <1> QED BY <1>1, <1>2, <1>3, <1>4 DEF ExactInv

\* A step of the only job that acts on a task: the others say nothing of its
\* row and its charge.
LEMMA Solo ==
    ASSUME NEW t \in Tasks, NEW p \in Pollers, ExactInv(t), channel' = channel, pc' = pc,
           \A q \in Pollers \ {p} : work'[q][t] = work[q][t] /\ ~Acts(q, t),
           JobFits(p, t)',
           work'[p][t].stage \notin Billing /\ Exists(t)' =>
               Pays(t, paid[t], paid[t])' /\ Due(t, row'[t], paid'[t]),
           t \notin Suno /\ row'[t].status \in Open => paid'[t] = Quota[t]
    PROVE  ExactInv(t)'
  <1> USE Kinds
  <1>1. ASSUME NEW q \in Pollers \ {p} PROVE JobFits(q, t)' /\ ~Acts(q, t)'
    <2>1. JobFits(q, t) /\ ~Acts(q, t) /\ work'[q][t] = work[q][t]
      BY DEF ExactInv
    <2> QED BY <2>1 DEF JobFits, Acts, Due, Billing
  <1>2. \A q, r \in Pollers : Acts(q, t)' /\ Acts(r, t)' => q = r
    BY <1>1
  <1>3. Due(t, row'[t], paid'[t]) => Due(t, row[t], paid[t])'
    BY DEF Due
  <1>4. Quiet(t)' => work'[p][t].stage \notin Billing
    BY DEF Quiet, Billing
  <1> QED BY <1>1, <1>2, <1>3, <1>4 DEF ExactInv

\* A step on one job: nothing else moves.
Touches(p, t) ==
    /\ channel' = channel /\ pc' = pc /\ holder' = holder /\ hurt \subseteq hurt'
    /\ \A q \in Pollers, u \in Tasks : q # p \/ u # t => work'[q][u] = work[q][u]
    /\ \A u \in Tasks \ {t} : row'[u] = row[u] /\ paid'[u] = paid[u] /\ tok'[u] = tok[u]

Phase(p, t) ==
    /\ pc[p] = "idle" => work[p][t].stage = "none"
    /\ pc[p] = "sweep" => work[p][t].stage \in {"none", "sweep", "adjust", "token"}
    /\ pc[p] = "poll" => work[p][t].stage # "sweep"

LEMMA OneJobStep ==
    ASSUME TypeOK, OutcomeInv, NEW p \in Pollers, NEW t \in Tasks, Touches(p, t),
           Phase(p, t)', t \notin Live \union hurt' => ExactInv(t)'
    PROVE  OutcomeInv'
  <1>1. Live' = Live /\ Suno' = Suno
    BY Kinds DEF Touches
  <1>2. PassInv'
    <2>1. \A q \in Pollers, u \in Tasks : Phase(q, u)'
      <3> SUFFICES ASSUME NEW q \in Pollers, NEW u \in Tasks, q # p \/ u # t PROVE Phase(q, u)'
        OBVIOUS
      <3> QED BY DEF Touches, Phase, OutcomeInv, PassInv
    <2> QED BY <1>1, <2>1 DEF PassInv, Phase, OutcomeInv, Touches
  <1>3. ASSUME NEW u \in Tasks, u \notin Live, u \notin hurt' PROVE ExactInv(u)'
    <2>1. CASE u = t
      BY <1>3, <2>1
    <2>2. CASE u # t
      <3>1. ExactInv(u)
        BY <1>3 DEF OutcomeInv, Touches
      <3>2. \A q \in Pollers : work'[q][u] = work[q][u] /\ pc'[q] = pc[q]
        BY <2>2 DEF Touches
      <3> QED BY <2>2, <3>1, <3>2, Left DEF Touches
    <2> QED BY <2>1, <2>2
  <1> QED BY <1>1, <1>2, <1>3 DEF OutcomeInv

\* A fault only adds to hurt.
LEMMA HurtGrows ==
    ASSUME NEW S, Fault(S) \/ NoFault
    PROVE  hurt \subseteq hurt' /\ (Fault(S) => S \subseteq hurt')
  BY DEF Fault, NoFault

LEMMA InitOutcome == Init => OutcomeInv
  <1> SUFFICES ASSUME Init PROVE OutcomeInv
    OBVIOUS
  <1>1. \A p \in Pollers : pc[p] = "idle" /\ \A t \in Tasks : work[p][t].stage = "none"
    BY NoJobType DEF Init
  <1>2. \A t \in Tasks : row[t].status = "NONE"
    BY DEF Init, NoRow, Row
  <1>3. PassInv
    BY <1>1 DEF PassInv
  <1>4. \A t \in Tasks : ExactInv(t)
    BY <1>1, <1>2 DEF ExactInv, JobFits, Acts, Exists, Open, Terminal, Billing
  <1> QED BY <1>3, <1>4 DEF OutcomeInv

-----------------------------------------------------------------------------
(* One lemma per action, for OutcomeInv.                                   *)

\* Where nothing bills a task yet, it pays its quota.
LEMMA StillCharged ==
    ASSUME NEW t \in Tasks, ExactInv(t),
           \/ t \notin Suno /\ row[t].status \in Open
           \/ \E p \in Pollers : /\ t \in Suno /\ work[p][t].stage \in {"sweep", "poll", "answer"}
    PROVE  /\ Pays(t, Quota[t], Quota[t]) /\ row[t].status \in Open
           /\ Quiet(t)
  <1>1. CASE t \notin Suno /\ row[t].status \in Open
    <2>1. Quiet(t)
      BY <1>1 DEF Quiet, ExactInv, JobFits, Open, Terminal
    <2> QED BY <1>1, <2>1 DEF ExactInv, Exists, Pays
  <1>2. ASSUME NEW p \in Pollers, t \in Suno, work[p][t].stage \in {"sweep", "poll", "answer"}
        PROVE  Pays(t, Quota[t], Quota[t]) /\ row[t].status \in Open /\ Quiet(t)
    <2>1. work[p][t].stage \notin Billing /\ Acts(p, t)
      BY <1>2 DEF Billing, Acts
    <2>2. Quiet(t)
      BY <2>1 DEF Quiet, ExactInv, Acts
    <2>3. Unfinished(t)
      BY <1>2, <2>1 DEF ExactInv, JobFits
    <2> QED BY <2>2, <2>3 DEF ExactInv, Exists, Pays, Due, Unfinished
  <1> QED BY <1>1, <1>2

\* The other jobs do not act on a task that one job acts on, nor on a video
\* task that is open.
LEMMA Alone ==
    ASSUME NEW t \in Tasks, NEW p \in Pollers, ExactInv(t),
           Acts(p, t) \/ (t \notin Suno /\ row[t].status \in Open)
    PROVE  \A q \in Pollers \ {p} : ~Acts(q, t)
  BY DEF ExactInv, JobFits, Acts, Open, Terminal

LEMMA RelayTaskOutcome ==
    ASSUME IInv, OutcomeInv, NEW t \in Tasks, RelayTask(t)
    PROVE  OutcomeInv'
  <1>0. /\ TypeOK /\ channel' = channel /\ work' = work /\ pc' = pc /\ holder' = holder
        /\ row[t].status = "NONE"
    BY DEF IInv, RelayTask, envVars, passVars
  <1>1. PICK c \in {Quota[t], Pre[t]}, s \in {"NOT_START", "LOST"} :
          /\ IF c = Quota[t] /\ s = "NOT_START" THEN NoFault ELSE Fault({t})
          /\ row' = [row EXCEPT ![t] = Row(s, FALSE)]
          /\ paid' = [paid EXCEPT ![t] = c]
          /\ tok' = [tok EXCEPT ![t] = c]
    BY DEF RelayTask
  <1>2. hurt \subseteq hurt' /\ (t \notin hurt' => c = Quota[t] /\ s = "NOT_START")
    BY <1>1, HurtGrows
  <1>3. PassInv'
    BY <1>0, <1>2, Kinds DEF OutcomeInv, PassInv
  <1>4. ASSUME NEW u \in Tasks, u \notin Live, u \notin hurt', u # t PROVE ExactInv(u)'
    <2>1. row'[u] = row[u] /\ paid'[u] = paid[u] /\ tok'[u] = tok[u]
      BY <1>0, <1>1, <1>4 DEF TypeOK
    <2>2. ExactInv(u)
      BY <1>2, <1>4 DEF OutcomeInv
    <2> QED BY <1>0, <2>1, <2>2, Left
  <1>5. ASSUME t \notin Live, t \notin hurt' PROVE ExactInv(t)'
    <2>1. ExactInv(t)
      BY <1>2, <1>5 DEF OutcomeInv
    <2>2. row'[t].status = "NOT_START" /\ paid'[t] = Quota[t] /\ tok'[t] = Quota[t]
      BY <1>0, <1>1, <1>2, <1>5 DEF TypeOK, Row
    <2>3. \A p \in Pollers : ~Acts(p, t)
      BY <1>0, <2>1 DEF Acts, ExactInv, JobFits, Unfinished, Open, Terminal, Billing
    <2>4. Due(t, row'[t], Quota[t])
      BY <2>2 DEF Due
    <2>5. \A p \in Pollers : JobFits(p, t)' /\ ~Acts(p, t)'
      <3> SUFFICES ASSUME NEW p \in Pollers PROVE JobFits(p, t)' /\ ~Acts(p, t)'
        OBVIOUS
      <3>1. JobFits(p, t) /\ ~Acts(p, t)
        BY <2>1, <2>3 DEF ExactInv
      <3> QED BY <1>0, <3>1, Kinds DEF JobFits, Acts, Due, Billing
    <2> QED BY <1>0, <2>2, <2>4, <2>5, Kinds DEF ExactInv, Pays, Due
  <1> QED BY <1>0, <1>3, <1>4, <1>5, Kinds DEF OutcomeInv

\* Steps that touch no row, no charge and no job.
LEMMA EnvironmentOutcome ==
    ASSUME IInv, OutcomeInv,
           (\E t \in Tasks : TimeOut(t)) \/ (\E c \in Deletable : DeleteChannel(c)) \/ LoseLease
    PROVE  OutcomeInv'
  <1>0. /\ TypeOK /\ channel' = channel /\ work' = work /\ pc' = pc
        /\ row' = row /\ paid' = paid /\ tok' = tok
    BY DEF IInv, TimeOut, DeleteChannel, LoseLease, envVars, moneyVars, passVars
  <1>1. hurt \subseteq hurt' /\ (holder' = holder \/ Suno \subseteq hurt')
    BY HurtGrows DEF TimeOut, DeleteChannel, LoseLease, passVars
  <1>2. PassInv'
    BY <1>0, <1>1, Kinds DEF OutcomeInv, PassInv
  <1>3. ASSUME NEW u \in Tasks, u \notin Live, u \notin hurt' PROVE ExactInv(u)'
    <2>1. ExactInv(u)
      BY <1>1, <1>3 DEF OutcomeInv
    <2> QED BY <1>0, <2>1, Left
  <1> QED BY <1>0, <1>2, <1>3, Kinds DEF OutcomeInv

\* The selections of a pass.  While a Suno task is unharmed no other pass has
\* a job, on it or on anything else.
LEMMA SelectOutcome ==
    ASSUME IInv, OutcomeInv, NEW p \in Pollers, Start(p) \/ Find(p)
    PROVE  OutcomeInv'
  <1> DEFINE st == IF pc[p] = "idle" THEN "sweep" ELSE "poll"
  <1>0. /\ TypeOK /\ channel' = channel /\ row' = row /\ paid' = paid /\ tok' = tok
    BY DEF IInv, Start, Find, envVars, moneyVars
  <1>1. /\ \/ pc[p] = "idle" /\ holder = NoOne /\ holder' = p
           \/ pc[p] = "sweep" /\ holder' = holder
        /\ pc' = [pc EXCEPT ![p] = st]
    BY DEF Start, Find
  <1>2. \E S, R \in SUBSET Tasks :
           /\ \A t \in S : Unfinished(t)
           /\ Selected(S, R) /\ work' = [work EXCEPT ![p] = Pick(R, st)]
    <2>1. CASE Start(p)
      <3>1. First(GetTimedOutUnfinishedTasks, SweepLimit) \in SUBSET Tasks
        BY <1>0 DEF First, GetTimedOutUnfinishedTasks, TypeOK
      <3>2. \A t \in First(GetTimedOutUnfinishedTasks, SweepLimit) : Unfinished(t)
        BY DEF First, GetTimedOutUnfinishedTasks
      <3>3. PICK R \in SUBSET Tasks :
           /\ Selected(First(GetTimedOutUnfinishedTasks, SweepLimit), R)
           /\ work' = [work EXCEPT ![p] = Pick(R, "sweep")]
        BY <2>1 DEF Start
      <3>4. st = "sweep"
        BY <2>1 DEF Start
      <3> QED BY <3>1, <3>2, <3>3, <3>4
    <2>2. CASE Find(p)
      <3>1. First(GetAllUnFinishSyncTasks, QueryLimit) \in SUBSET Tasks
        BY DEF First, GetAllUnFinishSyncTasks
      <3>2. \A t \in First(GetAllUnFinishSyncTasks, QueryLimit) : Unfinished(t)
        BY DEF First, GetAllUnFinishSyncTasks
      <3>3. PICK R \in SUBSET Tasks :
           /\ Selected(First(GetAllUnFinishSyncTasks, QueryLimit), R)
           /\ work' = [work EXCEPT ![p] = Pick(R, "poll")]
        BY <2>2 DEF Find
      <3>4. st = "poll"
        BY <2>2 DEF Find
      <3> QED BY <3>1, <3>2, <3>3, <3>4
    <2> QED BY <2>1, <2>2
  <1>3. PICK S, R \in SUBSET Tasks :
           /\ \A t \in S : Unfinished(t)
           /\ Selected(S, R) /\ work' = [work EXCEPT ![p] = Pick(R, st)]
    BY <1>2
  <1>4. R \subseteq S /\ hurt \subseteq hurt'
    <2>1. R \subseteq S
      BY <1>0, <1>3, SelectedType
    <2> QED BY <1>3, <2>1, HurtGrows DEF Selected
  <1>5. \A t \in Tasks : /\ work[p][t].stage = "none" /\ work'[p][t].stage \in {"none", st}
                         /\ work'[p][t].stage = st => Unfinished(t)
                         /\ \A q \in Pollers \ {p} : work'[q][t] = work[q][t]
    <2>1. /\ Pick(R, st) \in [Tasks -> Work]
          /\ \A t \in R : Pick(R, st)[t].stage = st
          /\ \A t \in Tasks \ R : Pick(R, st)[t] = NoJob
      BY <1>0, <1>3, PickType DEF Stages
    <2>2. /\ \A t \in Tasks : work'[p][t] = Pick(R, st)[t]
          /\ \A q \in Pollers \ {p}, u \in Tasks : work'[q][u] = work[q][u]
      BY <1>0, <1>3, <2>1, SetPassEffect
    <2>3. \A t \in Tasks : work[p][t].stage = "none"
      BY <1>0 DEF OutcomeInv, PassInv, Start, Find, Jobs, TypeOK, Work
    <2> QED BY <1>3, <1>4, <2>1, <2>2, <2>3, NoJobType
  <1>6. \A q \in Pollers \ {p} : pc'[q] = pc[q] /\ (Suno \subseteq hurt \/ pc[q] = "idle")
    BY <1>0, <1>1, ConstantsAssumption DEF OutcomeInv, PassInv, TypeOK
  <1>7. PassInv'
    <2>1. pc'[p] = st /\ st \in {"sweep", "poll"}
      BY <1>0, <1>1 DEF TypeOK
    <2>2. \A q \in Pollers, t \in Tasks : Phase(q, t)'
      BY <1>5, <1>6, <2>1 DEF Phase, OutcomeInv, PassInv
    <2>3. Suno \subseteq hurt \/ \A q \in Pollers : pc'[q] # "idle" => holder' = q
      BY <1>1, <1>6 DEF OutcomeInv, PassInv
    <2>4. Suno' = Suno
      BY <1>0, Kinds
    <2> QED BY <1>4, <2>2, <2>3, <2>4 DEF PassInv, Phase
  <1>8. ASSUME NEW u \in Tasks, u \notin Live, u \notin hurt' PROVE ExactInv(u)'
    <2>1. ExactInv(u) /\ u \notin hurt
      BY <1>4, <1>8 DEF OutcomeInv
    <2>2. Suno' = Suno /\ Unfinished(u)' = Unfinished(u) /\ st \in {"sweep", "poll"}
      BY <1>0, Kinds DEF Unfinished
    <2>3. \A q \in Pollers \ {p} : JobFits(q, u)' /\ (Acts(q, u)' = Acts(q, u))
          /\ (u \in Suno => ~Acts(q, u))
      <3> SUFFICES ASSUME NEW q \in Pollers \ {p}
                   PROVE JobFits(q, u)' /\ (Acts(q, u)' = Acts(q, u)) /\ (u \in Suno => ~Acts(q, u))
        OBVIOUS
      <3>1. JobFits(q, u) /\ work'[q][u] = work[q][u] /\ pc'[q] = pc[q]
        BY <1>5, <1>6, <2>1 DEF ExactInv
      <3>2. u \in Suno => work[q][u].stage = "none"
        BY <1>6, <2>1 DEF OutcomeInv, PassInv
      <3> QED BY <1>0, <2>2, <3>1, <3>2 DEF JobFits, Acts, Due, Target, Pays, Billing
    <2>4. JobFits(p, u)' /\ work'[p][u].stage \notin Billing
      BY <1>5, <2>2 DEF JobFits, Billing
    <2>5. \A q, r \in Pollers : Acts(q, u)' /\ Acts(r, u)' => q = r
      BY <2>1, <2>2, <2>3, <2>4 DEF ExactInv, Acts
    <2>6. Quiet(u)' => Quiet(u)
      BY <1>5 DEF Quiet, Billing
    <2> QED BY <1>0, <2>1, <2>2, <2>3, <2>4, <2>5, <2>6 DEF ExactInv, Pays, Due, Exists
  <1> QED BY <1>0, <1>7, <1>8, Kinds DEF OutcomeInv

\* A job ends before it has billed.
LEMMA DropStep ==
    ASSUME TypeOK, OutcomeInv, NEW p \in Pollers, NEW t \in Tasks, SetJob(p, t, NoJob),
           channel' = channel, pc' = pc, holder' = holder, hurt \subseteq hurt',
           row' = row, paid' = paid, tok' = tok, t \notin hurt' => Idles(p, t)
    PROVE  OutcomeInv'
  <1>1. /\ work'[p][t].stage = "none"
        /\ \A q \in Pollers, u \in Tasks : q # p \/ u # t => work'[q][u] = work[q][u]
    BY SetJobEffect, NoJobType
  <1>2. Touches(p, t)
    BY <1>1 DEF Touches
  <1>3. Phase(p, t)'
    BY <1>1 DEF Phase
  <1>4. ASSUME t \notin Live, t \notin hurt' PROVE ExactInv(t)'
    <2>1. ExactInv(t)
      BY <1>4 DEF OutcomeInv
    <2> QED BY <1>1, <1>4, <2>1, Left
  <1> QED BY <1>2, <1>3, <1>4, OneJobStep

\* The sweep: the winner owes the refund, and nobody bills the task meanwhile.
LEMMA SweepOutcome ==
    ASSUME IInv, OutcomeInv, NEW p \in Pollers, NEW t \in Tasks, sweepTimedOutTasks(p, t)
    PROVE  OutcomeInv'
  <1> DEFINE from == work[p][t].seen.status
             r == Row("FAILURE", TRUE)
             bill == Job("adjust", work[p][t].seen, NoRow, -Quota[t])
  <1>0. /\ TypeOK /\ channel' = channel /\ paid' = paid /\ tok' = tok
        /\ pc' = pc /\ holder' = holder /\ pc[p] = "sweep" /\ work[p][t].stage = "sweep"
    BY DEF IInv, sweepTimedOutTasks, envVars, moneyVars
  <1>1. r \in Rows /\ r.status = "FAILURE"
    BY RowType DEF Status, Terminal
  <1>2. bill \in Work /\ bill.stage = "adjust" /\ bill.delta = -Quota[t]
    <2>1. work[p][t].seen \in Rows
      BY <1>0 DEF TypeOK, Work
    <2> QED BY <2>1, NoJobType, QuotaType, JobType DEF Stages
  <1>3. Suno' = Suno
    BY <1>0, Kinds
  <1> HIDE DEF r, bill
  <1>4. \/ /\ UpdateWithStatus(t, from, r) /\ NoFault
           /\ SetJob(p, t, IF Won(t, from) /\ t \notin Legacy /\ Quota[t] # 0 THEN bill ELSE NoJob)
        \/ Fault({}) /\ SetJob(p, t, NoJob) /\ UNCHANGED row
    BY DEF sweepTimedOutTasks, r, bill
  <1>5. CASE Won(t, from) /\ UpdateWithStatus(t, from, r) /\ NoFault
             /\ SetJob(p, t, IF Won(t, from) /\ t \notin Legacy /\ Quota[t] # 0 THEN bill ELSE NoJob)
    <2> DEFINE j == IF t \notin Legacy /\ Quota[t] # 0 THEN bill ELSE NoJob
    <2>0. j \in Work /\ SetJob(p, t, j)
      BY <1>2, <1>5, NoJobType
    <2>1. /\ row'[t] = r /\ (\A u \in Tasks \ {t} : row'[u] = row[u])
          /\ work'[p][t] = j
          /\ \A q \in Pollers, u \in Tasks : q # p \/ u # t => work'[q][u] = work[q][u]
      BY <1>0, <1>1, <1>5, <2>0, UpdateEffect, SetJobEffect
    <2>2. Touches(p, t)
      BY <1>0, <1>5, <2>1, HurtGrows DEF Touches
    <2>3. Phase(p, t)'
      BY <1>0, <1>2, <2>1, NoJobType DEF Phase
    <2>4. ASSUME t \notin Live, t \notin hurt' PROVE ExactInv(t)'
      <3>1. ExactInv(t) /\ (t \notin Suno => TaskInv(t))
        BY <2>2, <2>4 DEF OutcomeInv, Touches, IInv, Plain
      <3>2. t \notin Suno => row[t].status \in Open
        BY <1>0, <1>5, <3>1 DEF TaskInv, GoodJob, Won
      <3>3. Pays(t, Quota[t], Quota[t])
        BY <1>0, <3>1, <3>2, StillCharged
      <3>4. \A q \in Pollers \ {p} : ~Acts(q, t)
        BY <1>0, <3>1, <3>2, Alone DEF Acts
      <3>5. Due(t, r, 0) /\ (t \in Legacy \/ Quota[t] = 0 => Due(t, r, Quota[t]))
        BY <1>1 DEF Due, Open
      <3>6. JobFits(p, t)'
        <4>1. CASE j = NoJob
          BY <2>1, <4>1, NoJobType DEF JobFits, Billing
        <4>2. CASE j = bill /\ t \notin Legacy /\ Quota[t] # 0
          <5>1. /\ work'[p][t].stage = "adjust" /\ work'[p][t].delta = -Quota[t]
                /\ Quota[t] + work'[p][t].delta = 0 /\ -Quota[t] # 0
            BY <1>2, <2>1, <4>2, QuotaType
          <5>2. Due(t, row[t], 0)' /\ Target(p, t)' = row'[t]
            BY <1>0, <1>3, <2>1, <3>5 DEF Due, Target
          <5>3. Pays(t, Quota[t], Quota[t])' /\ row'[t].status \in Terminal
            BY <1>0, <1>1, <2>1, <3>3 DEF Pays, Terminal
          <5> QED BY <1>0, <5>1, <5>2, <5>3 DEF JobFits, Billing, Due
        <4> QED BY <4>1, <4>2
      <3>7. work'[p][t].stage \notin Billing => Pays(t, paid[t], paid[t])' /\ Due(t, row'[t], paid'[t])
        BY <1>0, <1>2, <2>1, <3>3, <3>5 DEF Pays, Billing
      <3>8. row'[t].status \notin Open
        BY <1>1, <2>1 DEF Open
      <3> QED BY <1>0, <2>1, <3>1, <3>4, <3>6, <3>7, <3>8, Solo
    <2> QED BY <1>0, <2>2, <2>3, <2>4, OneJobStep
  <1>6. CASE row' = row /\ SetJob(p, t, NoJob) /\ (Fault({}) \/ NoFault)
    <2>1. hurt \subseteq hurt' /\ Idles(p, t)
      BY <1>0, <1>6, HurtGrows DEF Idles, Billing
    <2> QED BY <1>0, <1>6, <2>1, DropStep
  <1>7. ~Won(t, from) /\ UpdateWithStatus(t, from, r) => row' = row
    BY DEF Won, UpdateWithStatus
  <1> QED BY <1>4, <1>5, <1>6, <1>7

\* The answers of a provider come with the adjustment that is due.
LEMMA AnswerDue ==
    ASSUME TypeOK, NEW p \in Pollers, NEW t \in Tasks, NEW a \in Answers(p, t)
    PROVE  Due(t, a.next, Quota[t] + a.delta)
  <1> DEFINE s == work[p][t].seen
  <1> USE QuotaType DEF Job, Row
  <1>1. CASE t \in Suno
    <2>1. PICK x \in {s.status, "IN_PROGRESS", "SUCCESS", "FAILURE"}, why \in BOOLEAN :
              a = Job("answer", s, Row(x, why \/ x \in Terminal),
                      IF why \/ x = "FAILURE" THEN -Quota[t] ELSE 0)
      BY <1>1 DEF Answers, SunoAnswers
    <2>2. /\ a.next.status = x /\ a.next.full = (why \/ x \in Terminal)
          /\ a.delta = IF why \/ x = "FAILURE" THEN -Quota[t] ELSE 0
      BY <2>1
    <2> QED BY <1>1, <2>2 DEF Due, Open, Terminal
  <1>2. CASE t \notin Suno
    <2>0. a \in VideoAnswers(t, s)
      BY <1>2 DEF Answers
    <2>1. CASE \E f \in BOOLEAN : a = Job("answer", s, Row("IN_PROGRESS", f), 0)
      <3>1. a.next.status = "IN_PROGRESS" /\ a.delta = 0
        BY <2>1
      <3> QED BY <3>1 DEF Due
    <2>2. CASE \E c \in Actuals : a = Job("answer", s, Row("SUCCESS", TRUE), Recalculate(t, c))
      <3>1. PICK c \in Actuals : a = Job("answer", s, Row("SUCCESS", TRUE), Recalculate(t, c))
        BY <2>2
      <3>2. a.next.status = "SUCCESS" /\ a.delta = Recalculate(t, c)
        BY <3>1
      <3>3. Quota[t] + Recalculate(t, c) \in {Quota[t]} \union (Actuals \ {0})
        BY ConstantsAssumption DEF Recalculate
      <3> QED BY <3>2, <3>3 DEF Due, Open
    <2>3. CASE a = Job("answer", s, Row("FAILURE", TRUE), -Quota[t])
      <3>1. a.next.status = "FAILURE" /\ a.delta = -Quota[t]
        BY <2>3
      <3> QED BY <3>1 DEF Due, Open
    <2> QED BY <2>0, <2>1, <2>2, <2>3 DEF VideoAnswers
  <1> QED BY <1>1, <1>2

\* The winner of a video task's UPDATE settles or refunds by what it wrote.
LEMMA VideoOutcome ==
    ASSUME IInv, OutcomeInv, NEW p \in Pollers, NEW t \in Tasks, updateVideoSingleTask(p, t)
    PROVE  OutcomeInv'
  <1> DEFINE w == work[p][t]
             bill == [w EXCEPT !.stage = "adjust"]
             j == IF w.delta # 0 THEN bill ELSE NoJob
  <1>0. /\ TypeOK /\ channel' = channel /\ paid' = paid /\ tok' = tok
        /\ pc' = pc /\ holder' = holder /\ w.stage = "answer" /\ t \notin Suno
    BY DEF IInv, updateVideoSingleTask, envVars, moneyVars
  <1>1. w \in Work /\ w.next \in Rows /\ w.delta \in Int
    BY <1>0 DEF TypeOK, Work
  <1>2. bill \in Work /\ bill.stage = "adjust" /\ bill.delta = w.delta
    BY <1>1, StageType DEF Stages
  <1>3. j \in Work
    BY <1>2, NoJobType
  <1>4. CASE /\ Won(t, w.seen.status) /\ UpdateWithStatus(t, w.seen.status, w.next)
             /\ SetJob(p, t, j) /\ NoFault
    <2>1. /\ row'[t] = w.next /\ (\A u \in Tasks \ {t} : row'[u] = row[u])
          /\ work'[p][t] = j
          /\ \A q \in Pollers, u \in Tasks : q # p \/ u # t => work'[q][u] = work[q][u]
      BY <1>0, <1>1, <1>3, <1>4, UpdateEffect, SetJobEffect
    <2>2. Touches(p, t)
      BY <1>0, <1>4, <2>1, HurtGrows DEF Touches
    <2>3. Phase(p, t)'
      <3>1. pc[p] = "poll"
        BY <1>0 DEF OutcomeInv, PassInv, TypeOK
      <3> QED BY <1>0, <1>2, <2>1, <3>1, NoJobType DEF Phase
    <2>4. ASSUME t \notin Live, t \notin hurt' PROVE ExactInv(t)'
      <3>1. ExactInv(t) /\ TaskInv(t)
        BY <1>0, <2>2, <2>4 DEF OutcomeInv, Touches, IInv, Plain
      <3>2. row[t].status \in Open /\ (w.delta # 0 => w.next.status \in Terminal)
        BY <1>0, <1>4, <3>1 DEF TaskInv, GoodJob, Won
      <3>3. Pays(t, Quota[t], Quota[t])
        BY <1>0, <3>1, <3>2, StillCharged
      <3>4. \A q \in Pollers \ {p} : ~Acts(q, t)
        BY <1>0, <3>1, <3>2, Alone
      <3>5. Due(t, w.next, Quota[t] + w.delta) /\ Quota[t] + 0 = Quota[t]
        BY <1>0, <3>1, QuotaType DEF ExactInv, JobFits
      <3>6. JobFits(p, t)'
        <4>1. CASE w.delta = 0
          BY <2>1, <4>1, NoJobType DEF JobFits, Billing
        <4>2. CASE w.delta # 0
          <5>1. work'[p][t].stage = "adjust" /\ work'[p][t].delta = w.delta
            BY <1>2, <2>1, <4>2
          <5>2. Due(t, row[t], Quota[t] + work[p][t].delta)' /\ Target(p, t)' = row'[t] /\ t \notin Suno'
            BY <1>0, <2>1, <3>5, <5>1, Kinds DEF Due, Target
          <5>3. Pays(t, Quota[t], Quota[t])' /\ row'[t].status \in Terminal
            BY <1>0, <2>1, <3>2, <3>3, <4>2 DEF Pays
          <5> QED BY <4>2, <5>1, <5>2, <5>3 DEF JobFits, Billing, Due
        <4> QED BY <4>1, <4>2
      <3>7. work'[p][t].stage \notin Billing => Pays(t, paid[t], paid[t])' /\ Due(t, row'[t], paid'[t])
        BY <1>0, <1>2, <2>1, <3>3, <3>5 DEF Pays, Billing
      <3>8. paid'[t] = Quota[t]
        BY <1>0, <3>3 DEF Pays
      <3> QED BY <1>0, <2>1, <3>1, <3>4, <3>6, <3>7, <3>8, Solo
    <2> QED BY <1>0, <2>2, <2>3, <2>4, OneJobStep
  <1>5. CASE row' = row /\ SetJob(p, t, NoJob) /\ (Fault({}) \/ NoFault)
    <2>1. hurt \subseteq hurt' /\ Idles(p, t)
      BY <1>0, <1>5, HurtGrows DEF Idles, Billing
    <2> QED BY <1>0, <1>5, <2>1, DropStep
  <1>6. \/ /\ UpdateWithStatus(t, w.seen.status, w.next) /\ NoFault
           /\ SetJob(p, t, IF Won(t, w.seen.status) /\ w.delta # 0 THEN bill ELSE NoJob)
        \/ Fault({}) /\ SetJob(p, t, NoJob) /\ UNCHANGED row
    BY DEF updateVideoSingleTask
  <1>7. ~Won(t, w.seen.status) /\ UpdateWithStatus(t, w.seen.status, w.next) => row' = row
    BY DEF Won, UpdateWithStatus
  <1> QED BY <1>4, <1>5, <1>6, <1>7

\* A Suno item is billed first; its row is still as it was selected.
LEMMA SunoOutcome ==
    ASSUME IInv, OutcomeInv, NEW p \in Pollers, NEW t \in Tasks, updateSunoTasks(p, t)
    PROVE  OutcomeInv'
  <1> DEFINE w == work[p][t]
             st == IF w.delta # 0 THEN "adjust" ELSE "save"
             j == [w EXCEPT !.stage = st]
  <1>0. /\ TypeOK /\ channel' = channel /\ row' = row /\ paid' = paid /\ tok' = tok
        /\ pc' = pc /\ holder' = holder /\ NoFault /\ t \in Suno /\ w.stage = "answer"
        /\ work' = [work EXCEPT ![p][t].stage = st]
    BY DEF IInv, updateSunoTasks, envVars, moneyVars
  <1>1. st \in Stages /\ st \in Billing /\ w \in Work /\ (w.delta = 0 <=> st = "save")
    BY <1>0 DEF Stages, Billing, TypeOK
  <1>2. /\ j \in Work /\ j.stage = st /\ j.delta = w.delta /\ j.next = w.next
    BY <1>1, StageType
  <1>3. st # "token"
    OBVIOUS
  <1> HIDE DEF st
  <1>4. SetJob(p, t, j)
    BY <1>0 DEF SetJob, TypeOK
  <1> HIDE DEF j
  <1>5. /\ work'[p][t] = j
        /\ \A q \in Pollers, u \in Tasks : q # p \/ u # t => work'[q][u] = work[q][u]
    BY <1>0, <1>2, <1>4, SetJobEffect
  <1>6. Touches(p, t)
    BY <1>0, <1>5, HurtGrows DEF Touches
  <1>7. pc[p] = "poll"
    BY <1>0 DEF OutcomeInv, PassInv, TypeOK
  <1>8. Phase(p, t)'
    BY <1>0, <1>1, <1>2, <1>5, <1>7 DEF Phase, Billing
  <1>9. ASSUME t \notin Live, t \notin hurt' PROVE ExactInv(t)'
    <2>1. ExactInv(t) /\ JobFits(p, t)
      BY <1>6, <1>9 DEF OutcomeInv, Touches, ExactInv
    <2>2. Pays(t, Quota[t], Quota[t]) /\ row[t].status \in Open
      BY <1>0, <2>1, StillCharged
    <2>3. \A q \in Pollers \ {p} : ~Acts(q, t)
      BY <1>0, <2>1, Alone DEF Acts
    <2>4. Due(t, w.next, Quota[t] + w.delta) /\ Unfinished(t) /\ Quota[t] + 0 = Quota[t]
      BY <1>0, <1>7, <2>1, QuotaType DEF JobFits
    <2>5. JobFits(p, t)'
      <3>1. /\ work'[p][t].stage = st /\ work'[p][t].delta = w.delta
            /\ work'[p][t].next = w.next
        BY <1>2, <1>5
      <3>2. t \in Suno' /\ pc'[p] = "poll" /\ Unfinished(t)' /\ Target(p, t)' = w.next
        BY <1>0, <1>7, <2>4, <3>1, Kinds DEF Unfinished, Target
      <3>3. Due(t, Target(p, t), Quota[t] + work[p][t].delta)'
        BY <1>0, <2>4, <3>1, <3>2, Kinds DEF Due
      <3>4. Pays(t, Quota[t], Quota[t])'
        BY <1>0, <2>2 DEF Pays
      <3>5. st = "save" => Pays(t, Quota[t] + work[p][t].delta, Quota[t] + work[p][t].delta)'
        BY <1>1, <2>4, <3>1, <3>4 DEF Pays
      <3> QED BY <1>1, <1>3, <3>1, <3>2, <3>3, <3>4, <3>5 DEF JobFits, Billing, Due, Pays
    <2>6. work'[p][t].stage \in Billing
      BY <1>1, <1>2, <1>5
    <2> QED BY <1>0, <1>5, <2>1, <2>3, <2>5, <2>6, Solo
  <1> QED BY <1>0, <1>6, <1>8, <1>9, OneJobStep

\* What is left after the billing of a job.
LEMMA BilledEffect ==
    ASSUME TypeOK, NEW p \in Pollers, NEW t \in Tasks
    PROVE  /\ Billed(p, t) \in Work
           /\ t \in Suno /\ pc[p] = "poll" => /\ Billed(p, t).stage = "save"
                                              /\ Billed(p, t).next = work[p][t].next
                                              /\ Billed(p, t).delta = work[p][t].delta
           /\ ~(t \in Suno /\ pc[p] = "poll") => Billed(p, t) = NoJob
  <1>1. work[p][t] \in Work /\ "save" \in Stages
    BY DEF TypeOK, Stages
  <1> QED BY <1>1, StageType, BilledType DEF Billed

\* The funding source has the adjustment, the token has not.
LEMMA FundingOutcome ==
    ASSUME IInv, OutcomeInv, NEW p \in Pollers, NEW t \in Tasks, taskAdjustFunding(p, t)
    PROVE  OutcomeInv'
  <1> DEFINE w == work[p][t]
             j == [w EXCEPT !.stage = "token"]
  <1>0. /\ TypeOK /\ channel' = channel /\ row' = row /\ tok' = tok
        /\ pc' = pc /\ holder' = holder /\ w.stage = "adjust"
    BY DEF IInv, taskAdjustFunding, envVars
  <1>1. w \in Work /\ w.delta \in Int
    BY <1>0 DEF TypeOK, Work
  <1>2. /\ j \in Work /\ j.stage = "token" /\ j.delta = w.delta /\ j.next = w.next
    BY <1>1, StageType DEF Stages
  <1> HIDE DEF j
  <1>3. CASE paid' = [paid EXCEPT ![t] = @ + w.delta] /\ SetJob(p, t, j) /\ NoFault
    <2>1. /\ work'[p][t] = j
          /\ \A q \in Pollers, u \in Tasks : q # p \/ u # t => work'[q][u] = work[q][u]
      BY <1>0, <1>2, <1>3, SetJobEffect
    <2>2. paid'[t] = paid[t] + w.delta /\ \A u \in Tasks \ {t} : paid'[u] = paid[u]
      BY <1>0, <1>3 DEF TypeOK
    <2>3. Touches(p, t)
      BY <1>0, <1>3, <2>1, <2>2, HurtGrows DEF Touches
    <2>4. Phase(p, t)'
      BY <1>0, <1>2, <2>1 DEF OutcomeInv, PassInv, Phase
    <2>5. ASSUME t \notin Live, t \notin hurt' PROVE ExactInv(t)'
      <3>1. ExactInv(t) /\ JobFits(p, t)
        BY <2>3, <2>5 DEF OutcomeInv, Touches, ExactInv
      <3>2. \A q \in Pollers \ {p} : ~Acts(q, t)
        BY <1>0, <3>1, Alone DEF Acts, Billing
      <3>3. JobFits(p, t)'
        <4>1. /\ work'[p][t].stage = "token" /\ work'[p][t].delta = w.delta
              /\ work'[p][t].next = w.next
          BY <1>2, <2>1
        <4>2. /\ Pays(t, Quota[t], Quota[t]) /\ w.delta # 0
              /\ Due(t, Target(p, t), Quota[t] + w.delta)
          BY <1>0, <3>1 DEF JobFits, Billing
        <4>3. Due(t, Target(p, t), Quota[t] + work[p][t].delta)'
          BY <1>0, <4>1, <4>2, Kinds DEF Due, Target
        <4>4. Pays(t, Quota[t] + work[p][t].delta, Quota[t])'
          BY <1>0, <2>2, <4>1, <4>2 DEF Pays
        <4>5. /\ t \notin Suno => row'[t].status \in Terminal
              /\ t \in Suno => IF pc'[p] = "sweep" THEN row'[t].status \in Terminal ELSE Unfinished(t)'
          BY <1>0, <3>1 DEF JobFits, Billing, Unfinished
        <4> QED BY <1>0, <4>1, <4>2, <4>3, <4>4, <4>5, Kinds DEF JobFits, Billing, Due, Pays
      <3>4. work'[p][t].stage \in Billing
        BY <1>2, <2>1 DEF Billing
      <3>5. t \notin Suno => row'[t].status \notin Open
        BY <1>0, <3>1 DEF JobFits, Billing, Open, Terminal
      <3> QED BY <1>0, <2>1, <3>1, <3>2, <3>3, <3>4, <3>5, Solo
    <2> QED BY <1>0, <2>3, <2>4, <2>5, OneJobStep
  <1>4. CASE Fault({t}) /\ SetJob(p, t, Billed(p, t)) /\ UNCHANGED paid
    <2>1. /\ work'[p][t] = Billed(p, t)
          /\ \A q \in Pollers, u \in Tasks : q # p \/ u # t => work'[q][u] = work[q][u]
      BY <1>0, <1>4, BilledEffect, SetJobEffect
    <2>2. Touches(p, t) /\ t \in hurt'
      BY <1>0, <1>4, <2>1, HurtGrows DEF Touches
    <2>3. Phase(p, t)'
      BY <1>0, <2>1, BilledEffect, NoJobType DEF Phase
    <2> QED BY <1>0, <2>2, <2>3, OneJobStep
  <1> QED BY <1>3, <1>4 DEF taskAdjustFunding, j

\* The token has it too: the bill is settled, or a Suno task waits for its save.
LEMMA TokenOutcome ==
    ASSUME IInv, OutcomeInv, NEW p \in Pollers, NEW t \in Tasks, taskAdjustTokenQuota(p, t)
    PROVE  OutcomeInv'
  <1> DEFINE w == work[p][t]
  <1>0. /\ TypeOK /\ channel' = channel /\ row' = row /\ paid' = paid
        /\ pc' = pc /\ holder' = holder /\ w.stage = "token" /\ SetJob(p, t, Billed(p, t))
    BY DEF IInv, taskAdjustTokenQuota, envVars
  <1>1. /\ work'[p][t] = Billed(p, t)
        /\ \A q \in Pollers, u \in Tasks : q # p \/ u # t => work'[q][u] = work[q][u]
    BY <1>0, BilledEffect, SetJobEffect
  <1>2. Phase(p, t)'
    BY <1>0, <1>1, BilledEffect, NoJobType DEF Phase
  <1>3. CASE tok' = [tok EXCEPT ![t] = @ + w.delta] /\ NoFault
    <2>1. tok'[t] = tok[t] + w.delta /\ \A u \in Tasks \ {t} : tok'[u] = tok[u]
      BY <1>0, <1>3 DEF TypeOK
    <2>2. Touches(p, t)
      BY <1>0, <1>1, <1>3, <2>1, HurtGrows DEF Touches
    <2>3. ASSUME t \notin Live, t \notin hurt' PROVE ExactInv(t)'
      <3>1. ExactInv(t) /\ JobFits(p, t)
        BY <2>2, <2>3 DEF OutcomeInv, Touches, ExactInv
      <3>2. \A q \in Pollers \ {p} : ~Acts(q, t)
        BY <1>0, <3>1, Alone DEF Acts, Billing
      <3>3. /\ paid'[t] = Quota[t] + w.delta /\ tok'[t] = Quota[t] + w.delta
            /\ Due(t, Target(p, t), Quota[t] + w.delta)
        BY <1>0, <2>1, <3>1 DEF JobFits, Billing, Pays
      <3>4. t \notin Suno => row'[t].status \notin Open
        BY <1>0, <3>1 DEF JobFits, Billing, Open, Terminal
      <3>5. CASE t \in Suno /\ pc[p] = "poll"
        <4>1. /\ work'[p][t].stage = "save" /\ work'[p][t].delta = w.delta
              /\ work'[p][t].next = w.next
          BY <1>1, <1>0, <3>5, BilledEffect
        <4>2. Due(t, Target(p, t), Quota[t] + work[p][t].delta)'
          BY <1>0, <3>3, <3>5, <4>1, Kinds DEF Due, Target
        <4>3. Pays(t, Quota[t] + work[p][t].delta, Quota[t] + work[p][t].delta)'
          BY <3>3, <4>1 DEF Pays
        <4>4. Unfinished(t)'
          BY <1>0, <3>1, <3>5 DEF JobFits, Unfinished
        <4>5. JobFits(p, t)'
          BY <1>0, <3>5, <4>1, <4>2, <4>3, <4>4, Kinds DEF JobFits, Billing, Due, Pays
        <4>6. work'[p][t].stage \in Billing
          BY <4>1 DEF Billing
        <4> QED BY <1>0, <1>1, <3>1, <3>2, <3>4, <4>5, <4>6, Solo
      <3>6. CASE ~(t \in Suno /\ pc[p] = "poll")
        <4>1. work'[p][t].stage = "none"
          BY <1>0, <1>1, <3>6, BilledEffect, NoJobType
        <4>2. JobFits(p, t)'
          BY <4>1 DEF JobFits, Billing
        <4>3. Pays(t, paid[t], paid[t])' /\ Due(t, row'[t], paid'[t])
          BY <1>0, <3>3, <3>6 DEF Pays, Target
        <4> QED BY <1>0, <1>1, <3>1, <3>2, <3>4, <4>2, <4>3, Solo
      <3> QED BY <3>5, <3>6
    <2> QED BY <1>0, <1>2, <2>2, <2>3, OneJobStep
  <1>4. CASE Fault({t}) /\ UNCHANGED tok
    <2>1. Touches(p, t) /\ t \in hurt'
      BY <1>0, <1>1, <1>4, HurtGrows DEF Touches
    <2> QED BY <1>0, <1>2, <2>1, OneJobStep
  <1> QED BY <1>3, <1>4 DEF taskAdjustTokenQuota

\* The save of a Suno task writes the row its bill was for.
LEMMA SaveOutcome ==
    ASSUME IInv, OutcomeInv, NEW p \in Pollers, NEW t \in Tasks, Update(p, t)
    PROVE  OutcomeInv'
  <1> DEFINE w == work[p][t]
             S == IF w.delta # 0 THEN {t} ELSE {}
  <1>0. /\ TypeOK /\ channel' = channel /\ paid' = paid /\ tok' = tok
        /\ pc' = pc /\ holder' = holder /\ w.stage = "save" /\ SetJob(p, t, NoJob)
    BY DEF IInv, Update, envVars, moneyVars
  <1>1. CASE row' = [row EXCEPT ![t] = w.next] /\ NoFault
    <2>1. /\ work'[p][t].stage = "none"
          /\ \A q \in Pollers, u \in Tasks : q # p \/ u # t => work'[q][u] = work[q][u]
      BY <1>0, SetJobEffect, NoJobType
    <2>2. row'[t] = w.next /\ \A u \in Tasks \ {t} : row'[u] = row[u]
      BY <1>0, <1>1 DEF TypeOK
    <2>3. Touches(p, t)
      BY <1>0, <1>1, <2>1, <2>2, HurtGrows DEF Touches
    <2>4. Phase(p, t)'
      BY <2>1 DEF Phase
    <2>5. ASSUME t \notin Live, t \notin hurt' PROVE ExactInv(t)'
      <3>1. ExactInv(t) /\ JobFits(p, t)
        BY <2>3, <2>5 DEF OutcomeInv, Touches, ExactInv
      <3>2. t \in Suno /\ pc[p] = "poll"
        <4>1. t \in Plain => FALSE
          BY <1>0 DEF IInv, TaskInv, GoodJob
        <4>2. t \in Suno
          BY <2>5, <4>1 DEF Plain
        <4> QED BY <1>0, <4>2 DEF OutcomeInv, PassInv, TypeOK
      <3>3. \A q \in Pollers \ {p} : ~Acts(q, t)
        BY <1>0, <3>1, Alone DEF Acts, Billing
      <3>4. Pays(t, paid[t], paid[t])' /\ Due(t, row'[t], paid'[t])
        BY <1>0, <2>2, <3>1, <3>2 DEF JobFits, Billing, Pays, Target
      <3>5. JobFits(p, t)'
        BY <2>1 DEF JobFits, Billing
      <3> QED BY <1>0, <2>1, <3>1, <3>2, <3>3, <3>4, <3>5, Solo
    <2> QED BY <1>0, <2>3, <2>4, <2>5, OneJobStep
  <1>2. CASE Fault(S) /\ UNCHANGED row
    <2>1. hurt \subseteq hurt' /\ S \subseteq hurt'
      BY <1>2, HurtGrows
    <2>2. t \notin hurt' => Idles(p, t)
      BY <1>0, <2>1 DEF Idles
    <2> QED BY <1>0, <1>2, <2>1, <2>2, DropStep
  <1> QED BY <1>1, <1>2 DEF Update

\* A step of a whole pass that keeps the rows and the charges.
LEMMA PassStepOutcome ==
    ASSUME TypeOK, OutcomeInv, NEW p \in Pollers, channel' = channel, hurt \subseteq hurt',
           paid' = paid, tok' = tok,
           \A q \in Pollers \ {p} : pc'[q] = pc[q] /\ \A u \in Tasks : work'[q][u] = work[q][u],
           \A u \in Tasks : Phase(p, u)',
           Suno \subseteq hurt' \/ \A q \in Pollers : pc'[q] # "idle" => holder' = q,
           \A u \in Tasks : u \notin Live \union hurt' =>
              /\ row'[u] = row[u]
              /\ \/ work'[p][u] = work[p][u] /\ (pc'[p] = pc[p] \/ work[p][u].stage = "none")
                 \/ work'[p][u].stage = "none" /\ Idles(p, u)
                 \/ Answered(p, u)
    PROVE  OutcomeInv'
  <1>1. Live' = Live /\ Suno' = Suno
    BY Kinds
  <1>2. PassInv'
    <2>1. \A q \in Pollers, u \in Tasks : Phase(q, u)'
      BY DEF Phase, OutcomeInv, PassInv
    <2> QED BY <1>1, <2>1 DEF PassInv, Phase
  <1>3. ASSUME NEW u \in Tasks, u \notin Live, u \notin hurt' PROVE ExactInv(u)'
    <2>1. ExactInv(u)
      BY <1>3 DEF OutcomeInv
    <2>2. \A q \in Pollers :
              \/ work'[q][u] = work[q][u] /\ (pc'[q] = pc[q] \/ work[q][u].stage = "none")
              \/ work'[q][u].stage = "none" /\ Idles(q, u)
              \/ Answered(q, u)
      BY <1>3
    <2> QED BY <1>3, <2>1, <2>2, Left
  <1> QED BY <1>1, <1>2, <1>3 DEF OutcomeInv

LEMMA FetchTaskOutcome ==
    ASSUME IInv, OutcomeInv, NEW p \in Pollers, NEW c, FetchTask(p, c)
    PROVE  OutcomeInv'
  <1> DEFINE T == {t \in Waiting(p, c) : t \in Suno \/ \A u \in Waiting(p, c) : t <= u}
  <1>0. /\ TypeOK /\ channel' = channel /\ row' = row /\ paid' = paid /\ tok' = tok
        /\ pc' = pc /\ holder' = holder /\ NoFault /\ pc[p] = "poll"
    BY DEF IInv, FetchTask, MayTurnTo, envVars, moneyVars
  <1>r. PICK R \in SUBSET T :
          \E a \in [R -> UNION {Answers(p, t) : t \in R}] :
            /\ \A t \in R : a[t] \in Answers(p, t)
            /\ work' = [work EXCEPT ![p] = [t \in Tasks |->
                  IF t \in R THEN a[t] ELSE IF t \in T THEN NoJob ELSE work[p][t]]]
    BY Zenon DEF FetchTask
  <1>1. PICK a \in [R -> UNION {Answers(p, t) : t \in R}] :
          /\ \A t \in R : a[t] \in Answers(p, t)
          /\ work' = [work EXCEPT ![p] = [t \in Tasks |->
                IF t \in R THEN a[t] ELSE IF t \in T THEN NoJob ELSE work[p][t]]]
    BY <1>r, Zenon
  <1> DEFINE f == [t \in Tasks |->
                IF t \in R THEN a[t] ELSE IF t \in T THEN NoJob ELSE work[p][t]]
  <1>2. \A t \in T : t \in Tasks /\ work[p][t].stage = "poll"
    BY DEF Waiting, Jobs
  <1>3. \A t \in R : /\ a[t] \in Work /\ a[t].stage = "answer"
                     /\ Due(t, a[t].next, Quota[t] + a[t].delta)
    BY <1>0, <1>1, <1>2, AnswerType, AnswerDue
  <1>4. f \in [Tasks -> Work]
    BY <1>0, <1>3, NoJobType DEF TypeOK
  <1> HIDE DEF T
  <1>5. /\ \A t \in Tasks : work'[p][t] = f[t]
        /\ \A q \in Pollers \ {p}, u \in Tasks : work'[q][u] = work[q][u]
    BY <1>0, <1>1, <1>4, SetPassEffect
  <1>6. ASSUME NEW u \in Tasks
        PROVE /\ Phase(p, u)'
              /\ \/ work'[p][u] = work[p][u]
                 \/ work'[p][u].stage = "none" /\ Idles(p, u)
                 \/ Answered(p, u)
    <2>1. CASE u \in R
      <3>1. work'[p][u] = a[u] /\ work[p][u].stage = "poll"
        BY <1>2, <1>5, <2>1
      <3> QED BY <1>0, <1>3, <2>1, <3>1 DEF Answered, Phase
    <2>2. CASE u \notin R /\ u \in T
      <3>1. work'[p][u].stage = "none" /\ work[p][u].stage = "poll"
        BY <1>2, <1>5, <2>2, NoJobType
      <3> QED BY <3>1 DEF Idles, Phase, Billing
    <2>3. CASE u \notin R /\ u \notin T
      <3>1. work'[p][u] = work[p][u]
        BY <1>5, <2>3
      <3> QED BY <1>0, <3>1 DEF Phase, OutcomeInv, PassInv
    <2> QED BY <2>1, <2>2, <2>3
  <1>7. hurt' = hurt
    BY <1>0 DEF NoFault
  <1>8. Suno \subseteq hurt' \/ \A q \in Pollers : pc'[q] # "idle" => holder' = q
    BY <1>0, <1>7 DEF OutcomeInv, PassInv
  <1> QED BY <1>0, <1>5, <1>6, <1>7, <1>8, PassStepOutcome

\* The unguarded UPDATE of a channel that cannot be loaded harms the tasks it fails.
LEMMA BulkOutcome ==
    ASSUME IInv, OutcomeInv, NEW p \in Pollers, NEW c, TaskBulkUpdateByID(p, c)
    PROVE  OutcomeInv'
  <1> DEFINE S == Waiting(p, c)
             f == [t \in Tasks |-> IF t \in S THEN NoJob ELSE work[p][t]]
  <1>0. /\ TypeOK /\ channel' = channel /\ paid' = paid /\ tok' = tok
        /\ pc' = pc /\ holder' = holder /\ pc[p] = "poll" /\ work' = [work EXCEPT ![p] = f]
    BY DEF IInv, TaskBulkUpdateByID, MayTurnTo, envVars, moneyVars
  <1>1. \A t \in S : t \in Tasks /\ work[p][t].stage = "poll"
    BY DEF Waiting, Jobs
  <1>2. f \in [Tasks -> Work]
    BY <1>0, NoJobType DEF TypeOK
  <1>3. /\ \A t \in Tasks : work'[p][t] = f[t]
        /\ \A q \in Pollers \ {p}, u \in Tasks : work'[q][u] = work[q][u]
    BY <1>0, <1>2, SetPassEffect
  <1>4. hurt \subseteq hurt' /\ \A u \in Tasks : u \notin hurt' => row'[u] = row[u]
    <2>1. CASE row' = row /\ Fault({})
      BY <2>1, HurtGrows
    <2>2. CASE /\ row' = [t \in Tasks |-> IF t \in S THEN Row("FAILURE", TRUE) ELSE row[t]]
               /\ hurt' = hurt \union S \/ Fault(S)
      <3>1. hurt \subseteq hurt' /\ S \subseteq hurt'
        BY <2>2, HurtGrows
      <3> QED BY <2>2, <3>1
    <2> QED BY <2>1, <2>2 DEF TaskBulkUpdateByID
  <1> HIDE DEF S
  <1>5. ASSUME NEW u \in Tasks
        PROVE /\ Phase(p, u)'
              /\ work'[p][u] = work[p][u] \/ (work'[p][u].stage = "none" /\ Idles(p, u))
    <2>1. CASE u \in S
      <3>1. work'[p][u].stage = "none" /\ work[p][u].stage = "poll"
        BY <1>1, <1>3, <2>1, NoJobType
      <3> QED BY <3>1 DEF Idles, Phase, Billing
    <2>2. CASE u \notin S
      <3>1. work'[p][u] = work[p][u]
        BY <1>3, <2>2
      <3> QED BY <1>0, <3>1 DEF Phase, OutcomeInv, PassInv
    <2> QED BY <2>1, <2>2
  <1>6. Suno \subseteq hurt' \/ \A q \in Pollers : pc'[q] # "idle" => holder' = q
    BY <1>0, <1>4 DEF OutcomeInv, PassInv
  <1> QED BY <1>0, <1>3, <1>4, <1>5, <1>6, PassStepOutcome

\* A pass ends, is cancelled or crashes.  A crash harms the tasks it was billing.
LEMMA PassEndOutcome ==
    ASSUME IInv, OutcomeInv, NEW p \in Pollers, Finish(p) \/ Cancel(p) \/ Crash(p)
    PROVE  OutcomeInv'
  <1>0. /\ TypeOK /\ channel' = channel /\ row' = row /\ paid' = paid /\ tok' = tok
    BY DEF IInv, Finish, Cancel, Crash, envVars, moneyVars
  <1>1. ASSUME pc' = [pc EXCEPT ![p] = "idle"], holder' = Released(p)
        PROVE  /\ pc'[p] = "idle" /\ \A q \in Pollers \ {p} : pc'[q] = pc[q]
               /\ Suno \subseteq hurt \/ \A q \in Pollers : pc'[q] # "idle" => holder' = q
    <2>1. pc'[p] = "idle" /\ \A q \in Pollers \ {p} : pc'[q] = pc[q]
      BY <1>0, <1>1 DEF TypeOK
    <2> QED BY <1>1, <2>1 DEF OutcomeInv, PassInv, Released
  <1>2. CASE Finish(p)
    <2>1. work' = work /\ hurt' = hurt /\ \A t \in Tasks : work[p][t].stage = "none"
      BY <1>0, <1>2 DEF Finish, Jobs, TypeOK, Work
    <2>2. /\ pc'[p] = "idle" /\ \A q \in Pollers \ {p} : pc'[q] = pc[q]
          /\ Suno \subseteq hurt \/ \A q \in Pollers : pc'[q] # "idle" => holder' = q
      BY <1>1, <1>2 DEF Finish
    <2>3. \A u \in Tasks : Phase(p, u)'
      BY <2>1, <2>2 DEF Phase
    <2> QED BY <1>0, <2>1, <2>2, <2>3, PassStepOutcome
  <1>3. CASE Cancel(p)
    <2> DEFINE f == [t \in Tasks |-> IF t \in Dropped(p) THEN NoJob ELSE work[p][t]]
    <2>0. pc' = pc /\ holder' = holder /\ hurt' = hurt /\ pc[p] = "poll"
      BY <1>3 DEF Cancel
    <2>1. f \in [Tasks -> Work] /\ work' = [work EXCEPT ![p] = f]
      BY <1>0, <1>3, NoJobType DEF TypeOK, Cancel
    <2>2. /\ \A t \in Tasks : work'[p][t] = f[t]
          /\ \A q \in Pollers \ {p}, u \in Tasks : work'[q][u] = work[q][u]
      BY <1>0, <2>1, SetPassEffect
    <2>3. ASSUME NEW u \in Tasks
          PROVE /\ Phase(p, u)'
                /\ work'[p][u] = work[p][u] \/ (work'[p][u].stage = "none" /\ Idles(p, u))
      <3>1. CASE u \in Dropped(p)
        <4>1. work'[p][u].stage = "none" /\ work[p][u].stage \in {"poll", "answer"}
          BY <2>2, <3>1, NoJobType DEF Dropped
        <4> QED BY <4>1 DEF Idles, Phase, Billing
      <3>2. CASE u \notin Dropped(p)
        <4>1. work'[p][u] = work[p][u]
          BY <2>2, <3>2
        <4> QED BY <2>0, <4>1 DEF Phase, OutcomeInv, PassInv
      <3> QED BY <3>1, <3>2
    <2>4. Suno \subseteq hurt' \/ \A q \in Pollers : pc'[q] # "idle" => holder' = q
      BY <2>0 DEF OutcomeInv, PassInv
    <2> QED BY <1>0, <2>0, <2>2, <2>3, <2>4, PassStepOutcome
  <1>4. CASE Crash(p)
    <2> DEFINE f == [t \in Tasks |-> NoJob]
               H == {t \in Jobs(p, Billing) : work[p][t].delta # 0}
    <2>1. f \in [Tasks -> Work] /\ work' = [work EXCEPT ![p] = f]
      BY <1>4, NoJobType DEF Crash
    <2>2. /\ \A t \in Tasks : work'[p][t].stage = "none"
          /\ \A q \in Pollers \ {p}, u \in Tasks : work'[q][u] = work[q][u]
      BY <1>0, <2>1, SetPassEffect, NoJobType
    <2>3. hurt \subseteq hurt' /\ H \subseteq hurt'
      BY <1>4, HurtGrows DEF Crash
    <2>4. /\ pc'[p] = "idle" /\ \A q \in Pollers \ {p} : pc'[q] = pc[q]
          /\ Suno \subseteq hurt \/ \A q \in Pollers : pc'[q] # "idle" => holder' = q
      BY <1>1, <1>4 DEF Crash
    <2>5. ASSUME NEW u \in Tasks, u \notin Live, u \notin hurt' PROVE Idles(p, u)
      <3>1. ExactInv(u) /\ JobFits(p, u)
        BY <2>3, <2>5 DEF OutcomeInv, ExactInv
      <3>2. work[p][u].stage \in Billing => work[p][u].delta = 0
        BY <2>3, <2>5 DEF Jobs
      <3> QED BY <3>1, <3>2 DEF Idles, JobFits, Billing
    <2>6. \A u \in Tasks : Phase(p, u)'
      BY <2>2 DEF Phase
    <2> QED BY <1>0, <2>2, <2>3, <2>4, <2>5, <2>6, PassStepOutcome
  <1> QED BY <1>2, <1>3, <1>4

\* The user's GET touches Gemini and Vertex tasks only.
LEMMA UserOutcome ==
    ASSUME IInv, OutcomeInv, NEW t \in Tasks, tryRealtimeFetch(t) \/ FetchWrite(t)
    PROVE  OutcomeInv'
  <1>0. /\ TypeOK /\ channel' = channel /\ paid' = paid /\ tok' = tok
        /\ work' = work /\ pc' = pc /\ holder' = holder
    BY DEF IInv, tryRealtimeFetch, FetchWrite, envVars, moneyVars, passVars
  <1>1. hurt \subseteq hurt'
    BY HurtGrows DEF tryRealtimeFetch, FetchWrite
  <1>2. t \in Live /\ \A u \in Tasks \ {t} : row'[u] = row[u]
    <2>1. CASE tryRealtimeFetch(t)
      BY <2>1 DEF tryRealtimeFetch
    <2>2. CASE FetchWrite(t)
      <3>1. t \in Live
        BY <2>2 DEF IInv, FetchInv, FetchWrite
      <3>2. fetch[t].next \in Rows
        BY <1>0 DEF TypeOK, Fetches
      <3> QED BY <1>0, <2>2, <3>1, <3>2, UpdateEffect DEF FetchWrite
    <2> QED BY <2>1, <2>2
  <1>3. ASSUME NEW u \in Tasks, u \notin Live, u \notin hurt' PROVE ExactInv(u)'
    <2>1. ExactInv(u) /\ u # t
      BY <1>1, <1>2, <1>3 DEF OutcomeInv
    <2> QED BY <1>0, <1>2, <2>1, Left
  <1>4. PassInv'
    BY <1>0, <1>1, Kinds DEF OutcomeInv, PassInv
  <1> QED BY <1>0, <1>3, <1>4, Kinds DEF OutcomeInv

LEMMA NextOutcome == ASSUME IInv, OutcomeInv, [Next]_vars PROVE OutcomeInv'
  <1>1. CASE UNCHANGED vars
    <2>1. /\ channel' = channel /\ row' = row /\ paid' = paid /\ tok' = tok /\ hurt' = hurt
          /\ work' = work /\ pc' = pc /\ holder' = holder /\ TypeOK
      BY <1>1 DEF vars, IInv
    <2>2. PassInv'
      BY <2>1, Kinds DEF OutcomeInv, PassInv
    <2>3. \A u \in Tasks : ExactInv(u) => ExactInv(u)'
      BY <2>1, Left
    <2> QED BY <2>1, <2>2, <2>3, Kinds DEF OutcomeInv
  <1>2. ASSUME NEW p \in Pollers, NEW t \in Tasks, PassStep(p, t) PROVE OutcomeInv'
    BY <1>2, SweepOutcome, FetchTaskOutcome, BulkOutcome, VideoOutcome, SunoOutcome,
       FundingOutcome, TokenOutcome, SaveOutcome DEF PassStep, LocalStep
  <1>3. ASSUME NEW p \in Pollers,
               Start(p) \/ Find(p) \/ Finish(p) \/ Cancel(p) \/ Crash(p)
        PROVE OutcomeInv'
    BY <1>3, SelectOutcome, PassEndOutcome
  <1>4. ASSUME NEW t \in Tasks,
               RelayTask(t) \/ TimeOut(t) \/ tryRealtimeFetch(t) \/ FetchWrite(t)
        PROVE OutcomeInv'
    BY <1>4, RelayTaskOutcome, EnvironmentOutcome, UserOutcome
  <1>5. CASE (\E c \in Deletable : DeleteChannel(c)) \/ LoseLease
    BY <1>5, EnvironmentOutcome
  <1> QED BY <1>1, <1>2, <1>3, <1>4, <1>5 DEF Next

\* A task that met no fault pays what its outcome calls for, on the funding
\* source and on the token alike, for any number of tasks and pollers:
\* sweepTimedOutTasks, updateVideoSingleTask and updateSunoTasks refund or
\* settle exactly the rows they bring to an end.
THEOREM OutcomesAreBilled == Spec => []BilledByOutcome
  <1>1. OutcomeInv => BilledByOutcome
    BY DEF OutcomeInv, ExactInv, Pays, Due, Unfinished, BilledByOutcome
  <1> QED BY <1>1, InitOutcome, Invariance, NextOutcome, PTL DEF Spec
===============================================================================
