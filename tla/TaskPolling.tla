---------------------------- MODULE TaskPolling ----------------------------
(***************************************************************************)
(* The life of an asynchronous task (a Suno song, a video) after it was    *)
(* submitted: the row of the tasks table, the polling passes that the      *)
(* system-task runner starts (time-out sweep, then one round over the      *)
(* unfinished tasks), the refund or settlement a finished task calls for,  *)
(* and the user's own GET of a Gemini or Vertex task, which asks the       *)
(* provider too and writes what it says.  One atomic step is one SQL       *)
(* statement or one call of a provider.                                    *)
(*                                                                         *)
(* A pass normally runs under the lease of SystemTask.  A runner that      *)
(* misses its heartbeats loses the lease and notices later, so a second    *)
(* pass may overlap the first one.                                         *)
(***************************************************************************)
EXTENDS Integers, FiniteSets

CONSTANTS
    Tasks,       \* primary keys, in the order of submission
    Pollers,     \* nodes that run passes
    NoOne,       \* nobody holds the lease
    Legacy,      \* tasks submitted before legacyTaskCutoff
    PerCall,     \* tasks with PerCallBilling
    Channels,    \* channel ids
    Kind,        \* what a channel serves: "suno", "video" or, for the video
                 \* channels of Gemini and Vertex, "live"
    Deletable,   \* channels an administrator may delete
    Quota,       \* task.Quota: what SettleBilling was asked to charge
    Pre,         \* what was pre-consumed before that
    Actuals,     \* quotas a finished task may turn out to cost; 0: unknown
    TaskTimeout, \* TaskTimeoutMinutes > 0
    SweepLimit,  \* tasks of one sweep
    QueryLimit,  \* TaskQueryLimit
    MaxFaults,   \* bound: failing statements, crashes, lost leases
    MaxFetches   \* bound: GETs of Gemini and Vertex tasks

ASSUME ConstantsAssumption ==
    /\ Tasks \subseteq Nat /\ NoOne \notin Pollers
    /\ Kind \in [Channels -> {"suno", "video", "live"}] /\ Deletable \subseteq Channels
    /\ Quota \in [Tasks -> Nat] /\ Pre \in [Tasks -> Nat] /\ Actuals \subseteq Nat
    /\ SweepLimit \in Nat /\ QueryLimit \in Nat
    /\ MaxFaults \in Nat /\ MaxFetches \in Nat

VARIABLES
    channel,  \* the channel the relay selects for a task: channel_id
    row,      \* status and progress of a task; full stands for "100%"
    paid,     \* taken from the user's wallet or subscription for a task
    tok,      \* taken from the API token's quota for a task
    old,      \* tasks with submit_time before the cutoff
    gone,     \* deleted channels
    holder,   \* the poller with the lease
    pc,       \* phase of each poller's pass
    work,     \* what a pass is doing with a task
    fetch,    \* the GET in progress on a task
    faults,   \* faults so far
    fetches,  \* GETs so far
    hurt      \* history: tasks whose billing met a fault

envVars == <<channel, old, gone>>
moneyVars == <<paid, tok>>
passVars == <<holder, pc, work>>
userVars == <<fetch, fetches>>
vars == <<channel, row, paid, tok, old, gone, holder, pc, work, fetch, faults,
          fetches, hurt>>

\* QUEUED and SUBMITTED behave as IN_PROGRESS.  "NONE": not submitted yet,
\* "LOST": submitted and paid, but the INSERT of the row failed.
Open == {"NOT_START", "IN_PROGRESS"}
Terminal == {"SUCCESS", "FAILURE"}
Status == {"NONE", "LOST"} \union Open \union Terminal
Rows == [status : Status, full : BOOLEAN]
Row(s, f) == [status |-> s, full |-> f]

\* sweep, poll: selected by the sweep or by the round; answer: the provider has
\* answered; adjust, token: RefundTaskQuota or RecalculateTaskQuota; save: the
\* Save of a Suno task.
Stages == {"none", "sweep", "poll", "answer", "adjust", "token", "save"}
\* seen is the row as selected, next the row to write, delta the quota to take.
Work == [stage : Stages, seen : Rows, next : Rows, delta : Int]
Job(st, s, n, d) == [stage |-> st, seen |-> s, next |-> n, delta |-> d]
NoRow == Row("NONE", FALSE)
NoJob == Job("none", NoRow, NoRow, 0)

Fetches == [on : BOOLEAN, seen : Rows, next : Rows]
NoFetch == [on |-> FALSE, seen |-> NoRow, next |-> NoRow]

Init ==
    /\ channel \in [Tasks -> Channels]
    /\ row = [t \in Tasks |-> NoRow]
    /\ paid = [t \in Tasks |-> 0]
    /\ tok = [t \in Tasks |-> 0]
    /\ old = {} /\ gone = {} /\ hurt = {}
    /\ holder = NoOne
    /\ pc = [p \in Pollers |-> "idle"]
    /\ work = [p \in Pollers |-> [t \in Tasks |-> NoJob]]
    /\ fetch = [t \in Tasks |-> NoFetch]
    /\ faults = 0 /\ fetches = 0

-----------------------------------------------------------------------------
(* Faults, queries and statements.                                         *)

NoFault == UNCHANGED <<faults, hurt>>
\* Something fails; the tasks of S are left with a bill that is not right.
Fault(S) == /\ faults < MaxFaults
            /\ faults' = faults + 1
            /\ hurt' = hurt \union S

Suno == {t \in Tasks : Kind[channel[t]] = "suno"}
Live == {t \in Tasks : Kind[channel[t]] = "live"}
Exists(t) == row[t].status \in Open \union Terminal
Unfinished(t) == row[t].status \in Open /\ ~row[t].full
\* LIMIT k of the rows S ordered by key; the query that fails returns nil.
First(S, k) == {t \in S : Cardinality({u \in S : u < t}) < k}
Selected(S, R) == \/ R = S /\ NoFault
                  \/ R = {} /\ S # {} /\ Fault({})

\* Mutant: the sweep wants the tasks that have started.
StartedTimedOutTasks == {t \in old : Unfinished(t) /\ row[t].status = "IN_PROGRESS"}

GetTimedOutUnfinishedTasks == {t \in old : Unfinished(t)}
GetAllUnFinishSyncTasks == {t \in Tasks : Unfinished(t)}

SetJob(p, t, j) == work' = [work EXCEPT ![p][t] = j]
Pick(R, st) == [t \in Tasks |-> IF t \in R THEN Job(st, row[t], NoRow, 0) ELSE NoJob]

\* Mutant: the UPDATE has no WHERE status = fromStatus.
UpdateAnyStatus(t, from, new) == row' = [row EXCEPT ![t] = new]

\* UPDATE tasks SET ... WHERE id = t AND status = from, and whether the caller
\* has won: RowsAffected > 0.
UpdateWithStatus(t, from, new) ==
    row' = IF row[t].status = from THEN [row EXCEPT ![t] = new] ELSE row

\* Mutant: RowsAffected is not looked at.
WonUnchecked(t, from) == TRUE

Won(t, from) == row[t].status = from

-----------------------------------------------------------------------------
(* Submission: the end of RelayTask.                                       *)

\* The provider took the task.  SettleBilling brings the charge to the task's
\* quota, or is refused and leaves what was pre-consumed; then the row is
\* inserted with that quota in either case, or the INSERT fails.
RelayTask(t) ==
    /\ row[t].status = "NONE"
    /\ \E c \in {Quota[t], Pre[t]}, s \in {"NOT_START", "LOST"} :
        /\ IF c = Quota[t] /\ s = "NOT_START" THEN NoFault ELSE Fault({t})
        /\ row' = [row EXCEPT ![t] = Row(s, FALSE)]
        /\ paid' = [paid EXCEPT ![t] = c]
        /\ tok' = [tok EXCEPT ![t] = c]
    /\ UNCHANGED <<envVars, passVars, userVars>>

\* submit_time falls behind the cutoff.
TimeOut(t) ==
    /\ TaskTimeout /\ Exists(t) /\ t \notin old
    /\ old' = old \union {t}
    /\ UNCHANGED <<row, moneyVars, channel, gone, passVars, userVars, faults, hurt>>

DeleteChannel(c) ==
    /\ c \in Deletable \ gone
    /\ gone' = gone \union {c}
    /\ UNCHANGED <<row, moneyVars, channel, old, passVars, userVars, faults, hurt>>

-----------------------------------------------------------------------------
(* A polling pass: RunTaskPollingOnce.                                     *)

Jobs(p, sts) == {t \in Tasks : work[p][t].stage \in sts}
Billing == {"adjust", "token", "save"}
InFlight == {"answer"} \union Billing

\* The runner claims the row of async_task_poll, and the sweep selects.
Start(p) ==
    /\ pc[p] = "idle" /\ holder = NoOne
    /\ \E t \in Tasks : Unfinished(t)
    /\ holder' = p
    /\ pc' = [pc EXCEPT ![p] = "sweep"]
    /\ \E R \in SUBSET Tasks :
        /\ Selected(First(GetTimedOutUnfinishedTasks, SweepLimit), R)
        /\ work' = [work EXCEPT ![p] = Pick(R, "sweep")]
    /\ UNCHANGED <<row, moneyVars, envVars, userVars>>

\* Mutant: a timed-out task is failed without its refund.
SweepWithoutRefund(p, t) ==
    /\ pc[p] = "sweep" /\ work[p][t].stage = "sweep"
    /\ Jobs(p, Billing) = {}
    /\ UpdateWithStatus(t, work[p][t].seen.status, Row("FAILURE", TRUE))
    /\ SetJob(p, t, NoJob)
    /\ NoFault
    /\ UNCHANGED <<moneyVars, envVars, holder, pc, userVars>>

\* One task of the sweep: the guarded UPDATE; its winner refunds the task.
sweepTimedOutTasks(p, t) ==
    /\ pc[p] = "sweep" /\ work[p][t].stage = "sweep"
    /\ Jobs(p, Billing) = {}
    /\ \A u \in Jobs(p, {"sweep"}) : t <= u
    /\ LET from == work[p][t].seen.status IN
       \/ /\ UpdateWithStatus(t, from, Row("FAILURE", TRUE))
          /\ SetJob(p, t, IF Won(t, from) /\ t \notin Legacy /\ Quota[t] # 0
                          THEN Job("adjust", work[p][t].seen, NoRow, -Quota[t])
                          ELSE NoJob)
          /\ NoFault
       \/ Fault({}) /\ SetJob(p, t, NoJob) /\ UNCHANGED row
    /\ UNCHANGED <<moneyVars, envVars, holder, pc, userVars>>

\* The sweep is over; the round selects the unfinished tasks.
Find(p) ==
    /\ pc[p] = "sweep" /\ Jobs(p, Stages \ {"none"}) = {}
    /\ pc' = [pc EXCEPT ![p] = "poll"]
    /\ \E R \in SUBSET Tasks :
        /\ Selected(First(GetAllUnFinishSyncTasks, QueryLimit), R)
        /\ work' = [work EXCEPT ![p] = Pick(R, "poll")]
    /\ UNCHANGED <<row, moneyVars, envVars, holder, userVars>>

\* The tasks of channel c that wait, when the pass may turn to them: it goes
\* platform by platform, Suno one channel after the other, the channels of a
\* video platform concurrently, the tasks of a channel one after the other.
Waiting(p, c) == {t \in Jobs(p, {"poll"}) : channel[t] = c}
MayTurnTo(p, c) ==
    /\ pc[p] = "poll" /\ Waiting(p, c) # {}
    /\ \A u \in Jobs(p, InFlight), t \in Waiting(p, c) :
        t \notin Suno /\ u \notin Suno /\ channel[u] # c

\* The channel cannot be loaded, because it was deleted or the read failed: all
\* its tasks of the batch become FAILURE by an UPDATE without a guard, and
\* nothing is refunded.  (That a pass keeps a channel it has loaded is not
\* remembered here, which only allows more.)
TaskBulkUpdateByID(p, c) ==
    LET S == Waiting(p, c) IN
    /\ MayTurnTo(p, c)
    /\ work' = [work EXCEPT ![p] = [t \in Tasks |->
                    IF t \in S THEN NoJob ELSE work[p][t]]]
    /\ \/ /\ row' = [t \in Tasks |-> IF t \in S THEN Row("FAILURE", TRUE) ELSE row[t]]
          /\ \/ c \in gone /\ hurt' = hurt \union S /\ UNCHANGED faults
             \/ Fault(S)
       \/ c \in gone /\ Fault({}) /\ UNCHANGED row
    /\ UNCHANGED <<moneyVars, envVars, holder, pc, userVars>>

\* settleTaskBillingOnComplete and RecalculateTaskQuota: what is still to take.
Recalculate(t, actual) ==
    IF t \in PerCall \/ actual = 0 THEN 0 ELSE actual - Quota[t]

\* What a video provider's answer makes of the task.
VideoAnswers(t, seen) ==
    {Job("answer", seen, Row("IN_PROGRESS", f), 0) : f \in BOOLEAN}
    \union {Job("answer", seen, Row("SUCCESS", TRUE), Recalculate(t, a)) : a \in Actuals}
    \union {Job("answer", seen, Row("FAILURE", TRUE), -Quota[t])}

\* What a Suno item makes of it: a status, or none, with or without fail_reason.
SunoAnswers(t, seen) ==
    {Job("answer", seen, Row(s, why \/ s \in Terminal),
         IF why \/ s = "FAILURE" THEN -Quota[t] ELSE 0) :
        s \in {seen.status, "IN_PROGRESS", "SUCCESS", "FAILURE"}, why \in BOOLEAN}

Answers(p, t) ==
    IF t \in Suno THEN SunoAnswers(t, work[p][t].seen)
                  ELSE VideoAnswers(t, work[p][t].seen)

\* FetchTask: Suno asks for all tasks of the channel at once, a video channel
\* for its next task; a deleted channel may still be in the cache.  No usable
\* answer about a task (an error, 429, an unknown status, no news) leaves it
\* for the next pass.
FetchTask(p, c) ==
    LET S == Waiting(p, c)
        T == {t \in S : t \in Suno \/ \A u \in S : t <= u}
    IN
    /\ MayTurnTo(p, c)
    /\ \E R \in SUBSET T :
        \E a \in [R -> UNION {Answers(p, t) : t \in R}] :
            /\ \A t \in R : a[t] \in Answers(p, t)
            /\ work' = [work EXCEPT ![p] = [t \in Tasks |->
                   IF t \in R THEN a[t]
                   ELSE IF t \in T THEN NoJob ELSE work[p][t]]]
    /\ NoFault
    /\ UNCHANGED <<row, moneyVars, envVars, holder, pc, userVars>>

\* updateVideoSingleTask after the answer: the UPDATE guarded by the status
\* that was selected; only its winner settles or refunds.
updateVideoSingleTask(p, t) ==
    /\ work[p][t].stage = "answer" /\ t \notin Suno
    /\ LET w == work[p][t] IN
       \/ /\ UpdateWithStatus(t, w.seen.status, w.next)
          /\ SetJob(p, t, IF Won(t, w.seen.status) /\ w.delta # 0
                          THEN [w EXCEPT !.stage = "adjust"] ELSE NoJob)
          /\ NoFault
       \/ Fault({}) /\ SetJob(p, t, NoJob) /\ UNCHANGED row
    /\ UNCHANGED <<moneyVars, envVars, holder, pc, userVars>>

\* updateSunoTasks, one item: a failed task is refunded first and saved after.
updateSunoTasks(p, t) ==
    /\ work[p][t].stage = "answer" /\ t \in Suno
    /\ Jobs(p, Billing) = {}
    /\ work' = [work EXCEPT ![p][t].stage =
                    IF work[p][t].delta # 0 THEN "adjust" ELSE "save"]
    /\ NoFault
    /\ UNCHANGED <<row, moneyVars, envVars, holder, pc, userVars>>

\* RefundTaskQuota and RecalculateTaskQuota have returned.
Billed(p, t) ==
    IF pc[p] = "poll" /\ t \in Suno
    THEN [work[p][t] EXCEPT !.stage = "save"] ELSE NoJob

\* The funding source: if it fails, the token is left alone and nobody retries.
taskAdjustFunding(p, t) ==
    /\ work[p][t].stage = "adjust"
    /\ \/ /\ paid' = [paid EXCEPT ![t] = @ + work[p][t].delta]
          /\ SetJob(p, t, [work[p][t] EXCEPT !.stage = "token"])
          /\ NoFault
       \/ Fault({t}) /\ SetJob(p, t, Billed(p, t)) /\ UNCHANGED paid
    /\ UNCHANGED <<row, tok, envVars, holder, pc, userVars>>

\* The token; a failure is logged.
taskAdjustTokenQuota(p, t) ==
    /\ work[p][t].stage = "token"
    /\ \/ tok' = [tok EXCEPT ![t] = @ + work[p][t].delta] /\ NoFault
       \/ Fault({t}) /\ UNCHANGED tok
    /\ SetJob(p, t, Billed(p, t))
    /\ UNCHANGED <<row, paid, envVars, holder, pc, userVars>>

\* task.Update(): Save writes every column, whatever the row holds by now.
Update(p, t) ==
    /\ work[p][t].stage = "save"
    /\ \/ row' = [row EXCEPT ![t] = work[p][t].next] /\ NoFault
       \/ Fault(IF work[p][t].delta # 0 THEN {t} ELSE {}) /\ UNCHANGED row
    /\ SetJob(p, t, NoJob)
    /\ UNCHANGED <<moneyVars, envVars, holder, pc, userVars>>

Released(p) == IF holder = p THEN NoOne ELSE holder

Finish(p) ==
    /\ pc[p] = "poll" /\ Jobs(p, Stages \ {"none"}) = {}
    /\ pc' = [pc EXCEPT ![p] = "idle"]
    /\ holder' = Released(p)
    /\ UNCHANGED <<row, moneyVars, envVars, work, userVars, faults, hurt>>

-----------------------------------------------------------------------------
(* Losing the lease, and crashes.                                          *)

\* The heartbeats of the holder are late: the lease is somebody else's to take.
LoseLease ==
    /\ holder # NoOne
    /\ holder' = NoOne
    /\ Fault(Suno)
    /\ UNCHANGED <<row, moneyVars, envVars, pc, work, userVars>>

\* The heartbeat has cancelled the context.  The loops over platforms,
\* channels, tasks and Suno items end; a task in hand is finished.
Dropped(p) == {t \in Tasks : \/ work[p][t].stage = "poll"
                             \/ work[p][t].stage = "answer" /\ t \in Suno}
Cancel(p) ==
    /\ pc[p] = "poll" /\ holder # p /\ Dropped(p) # {}
    /\ work' = [work EXCEPT ![p] = [t \in Tasks |->
                    IF t \in Dropped(p) THEN NoJob ELSE work[p][t]]]
    /\ UNCHANGED <<row, moneyVars, envVars, holder, pc, userVars, faults, hurt>>

Crash(p) ==
    /\ pc[p] # "idle"
    /\ pc' = [pc EXCEPT ![p] = "idle"]
    /\ holder' = Released(p)
    /\ work' = [work EXCEPT ![p] = [t \in Tasks |-> NoJob]]
    /\ Fault({t \in Jobs(p, Billing) : work[p][t].delta # 0})
    /\ UNCHANGED <<row, moneyVars, envVars, userVars>>

-----------------------------------------------------------------------------
(* The user's GET: videoFetchByIDRespBodyBuilder and tryRealtimeFetch.     *)

\* Mutant: the adaptor hands on the provider's own word for done.
LiveAnswersUnmapped == {Row("IN_PROGRESS", FALSE), Row("DONE", TRUE), Row("FAILURE", TRUE)}

\* What Gemini and Vertex answer, with the progress their adaptors give it.
LiveAnswers == {Row("IN_PROGRESS", FALSE), Row("SUCCESS", TRUE), Row("FAILURE", TRUE)}

\* The row is read, and the provider asked, whatever the status of the row.
tryRealtimeFetch(t) ==
    /\ t \in Live /\ Exists(t) /\ channel[t] \notin gone
    /\ ~fetch[t].on /\ fetches < MaxFetches
    /\ fetches' = fetches + 1
    /\ \E n \in LiveAnswers :
        fetch' = [fetch EXCEPT ![t] = [on |-> TRUE, seen |-> row[t], next |-> n]]
    /\ UNCHANGED <<row, moneyVars, envVars, passVars, faults, hurt>>

\* The answer is written under the guard; there is no billing.  An error of
\* the UPDATE is ignored.
FetchWrite(t) ==
    /\ fetch[t].on
    /\ \/ UpdateWithStatus(t, fetch[t].seen.status, fetch[t].next) /\ NoFault
       \/ Fault({}) /\ UNCHANGED row
    /\ fetch' = [fetch EXCEPT ![t] = NoFetch]
    /\ UNCHANGED <<moneyVars, envVars, passVars, fetches>>

-----------------------------------------------------------------------------
\* The steps of a pass that only need the database, and those that first load a
\* channel and then wait for a provider.
LocalStep(p, t) ==
    \/ sweepTimedOutTasks(p, t)
    \/ updateVideoSingleTask(p, t) \/ updateSunoTasks(p, t)
    \/ taskAdjustFunding(p, t) \/ taskAdjustTokenQuota(p, t) \/ Update(p, t)
PassStep(p, t) ==
    \/ LocalStep(p, t)
    \/ FetchTask(p, channel[t]) \/ TaskBulkUpdateByID(p, channel[t])

Next ==
    \/ \E p \in Pollers, t \in Tasks : PassStep(p, t)
    \/ \E p \in Pollers : Start(p) \/ Find(p) \/ Finish(p) \/ Cancel(p) \/ Crash(p)
    \/ \E t \in Tasks : \/ RelayTask(t) \/ TimeOut(t)
                        \/ tryRealtimeFetch(t) \/ FetchWrite(t)
    \/ \E c \in Deletable : DeleteChannel(c)
    \/ LoseLease

Spec == Init /\ [][Next]_vars

\* The scheduler creates a row every 15 seconds while there is an unfinished
\* task and a runner claims it; a goroutine of a pass keeps running unless it
\* waits for a provider, whose calls need not return (there is no time-out unless
\* RELAY_TIMEOUT is set); time passes.
Fairness ==
    /\ \A p \in Pollers : /\ WF_vars(\E t \in Tasks : LocalStep(p, t))
                          /\ WF_vars(Find(p)) /\ WF_vars(Finish(p))
    /\ WF_vars(\E p \in Pollers : Start(p))
    /\ \A t \in Tasks : WF_vars(TimeOut(t)) /\ WF_vars(FetchWrite(t))
FairSpec == Spec /\ Fairness

-----------------------------------------------------------------------------
(* Properties.                                                             *)

\* The types of the variables.
TypeOK ==
    /\ channel \in [Tasks -> Channels]
    /\ row \in [Tasks -> Rows]
    /\ paid \in [Tasks -> Int] /\ tok \in [Tasks -> Int]
    /\ old \subseteq Tasks /\ hurt \subseteq Tasks /\ gone \subseteq Deletable
    /\ holder \in Pollers \union {NoOne}
    /\ pc \in [Pollers -> {"idle", "sweep", "poll"}]
    /\ work \in [Pollers -> [Tasks -> Work]]
    /\ fetch \in [Tasks -> Fetches]
    /\ faults \in 0..MaxFaults /\ fetches \in 0..MaxFetches

\* Video tasks that only the passes write: the guarded UPDATE protects these.
Plain == Tasks \ (Suno \union Live)
Charges(t) == {Quota[t], Pre[t]}
Adjustments(t) == {0, -Quota[t]} \union {a - Quota[t] : a \in Actuals}
Quiet(t) == \A p \in Pollers : work[p][t].stage \notin Billing

\* A video task is billed once: whatever sweeps, rounds of overlapping passes,
\* crashes and failing statements do, its charge is changed by one refund or by
\* one settlement at most (UpdateWithStatus decides who may bill).
BilledOnce ==
    \A t \in Plain : Exists(t) =>
        \E c \in Charges(t), d \in Adjustments(t) : paid[t] = c + d

\* The bill matches the outcome: without a fault on its way and with no step
\* of billing under way, a task that failed has its quota back, on the funding
\* source and on the token, a task that succeeded costs its quota or what it
\* was found to cost, and an open task still pays its quota.  Suno tasks are
\* included: their refund is only exposed to the faults counted in hurt.
BilledByOutcome ==
    \A t \in Tasks \ Live :
        Exists(t) /\ Quiet(t) /\ t \notin hurt =>
            /\ paid[t] = tok[t]
            /\ row[t].status = "FAILURE" /\ t \notin Legacy => paid[t] = 0
            /\ t \notin Suno /\ row[t].status = "SUCCESS" =>
                    paid[t] \in {Quota[t]} \union (Actuals \ {0})
            /\ Unfinished(t) => paid[t] = Quota[t]

\* A video task that has ended stays ended: no late answer, of an overlapping
\* pass or from before the time-out sweep, reopens it.
TerminalStays ==
    [][\A t \in Plain : row[t].status \in Terminal => row'[t].status \in Terminal]_vars

\* The task is over: it has its final status and nobody is billing it.  Or nothing
\* will look at it again, although it has none: a provider reported 100%, or Suno
\* a fail_reason, with an open status.
Over(t) == row[t].status \in Terminal /\ Quiet(t)
Forgotten(t) == row[t].status \in Open /\ row[t].full

\* The pass of p is in its round and waits for providers.
Calling(p) == pc[p] = "poll" /\ Jobs(p, {"poll"}) # {}

\* If the calls of the passes return, however useless their answers, every task is
\* over in the end or forgotten: errors, crashes, overlapping passes and lost
\* leases only delay the round or the sweep that ends it, and a task that a late
\* Save or a GET has reopened ends again.  Without the premise the property fails:
\* a call that never returns keeps the lease, and no pass can start.
TaskEnds ==
    (\A p \in Pollers : []<>~Calling(p)) =>
        \A t \in Tasks : Exists(t) ~> (Over(t) \/ Forgotten(t))
=============================================================================
