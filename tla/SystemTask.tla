----------------------------- MODULE SystemTask -----------------------------
(***************************************************************************)
(* The lease protocol of the system-task runner: the rows of one task type *)
(* in system_tasks, the row of that type in system_task_locks, the master  *)
(* nodes' runner loops (stale-lock pass, scheduler pass, claim pass), the  *)
(* handlers they dispatch with their heartbeats, and the API calls that    *)
(* enqueue a task on demand.  One atomic step is one SQL statement.  Task  *)
(* types share no row, so one type is modelled.                            *)
(*                                                                         *)
(* Clocks are kept relative to the present: what the code compares are     *)
(* differences of Unix times, so lock.left is locked_until - now, and an   *)
(* "age" is how long ago a process read its clock.                         *)
(***************************************************************************)
EXTENDS Integers

CONSTANTS
    Runners,    \* runner ids; a node that restarts draws a fresh one
    Callers,    \* API requests that may enqueue a task
    Legacy,     \* pending rows left by a version without active_key
    NoOne,      \* the empty locked_by column
    MaxTasks,   \* bound: rows ever inserted
    TTL,        \* systemTaskLockTTL
    Interval,   \* ScheduledSystemTaskHandler.Interval()
    MaxLag,     \* bound: age of the clock reading a single statement uses
    MaxStall,   \* bound: time a claim may spend between its statements
    MaxFaults   \* bound: statements that fail with a database error

ASSUME ConstantsAssumption ==
    /\ NoOne \notin Runners /\ Runners \cap Callers = {}
    /\ Legacy \in Nat
    /\ MaxTasks \in Nat /\ TTL \in Nat /\ Interval \in Nat
    /\ MaxLag \in Nat /\ MaxStall \in Nat /\ MaxFaults \in Nat

VARIABLES
    task,       \* rows of system_tasks, by id
    lock,       \* the row of system_task_locks, task = 0 when there is none
    pc,         \* what each runner loop and each API call is doing
    loc,        \* locals of the runner loops
    running,    \* handlers executing: <<runner, task>>
    finished,   \* handlers past FinishSystemTask's UPDATE, before its release
    beating,    \* handlers whose heartbeat goroutine is alive
    dispatches, \* history: how often each row was handed to a handler
    faults      \* database errors so far

taskVars == <<task, dispatches>>
handlerVars == <<running, finished, beating>>
vars == <<task, lock, pc, loc, running, finished, beating, dispatches, faults>>

TaskIds == 1..MaxTasks
Terminal == {"succeeded", "failed"}
Status == {"absent", "pending", "running"} \union Terminal
\* Steps of ClaimSystemTask, of ExpireStaleSystemTaskLocks, and the rest.
Claiming == {"lock", "peek", "steal", "mark", "cas"}
Expiring == {"expmark", "expdel"}
Locs == [id : 0..MaxTasks, age : 0..MaxStall, lag : 0..MaxLag,
         seen : 0..MaxTasks, by : Runners \union {NoOne}]
MinLeft == -(MaxStall + MaxLag + 1)

\* A lock row, and its absence.
LockRow(t, r, left) == [task |-> t, by |-> r, left |-> left]
NoLock == LockRow(0, NoOne, 0)
\* The row read by "locked_until < now", with a clock reading of that age.
Expired(age) == lock.task # 0 /\ lock.left + age < 0

\* Fresh locals of a pass: the row claimed, how long before "now" lockUntil was
\* computed, and the lock row that was read.
Loc(id, lag, seen, by) ==
    [id |-> id, age |-> 0, lag |-> lag, seen |-> seen, by |-> by]
NoLoc == Loc(0, 0, 0, NoOne)

\* A row of system_tasks; active stands for a non-null active_key.
Row(st, act, by) == [status |-> st, active |-> act, by |-> by, age |-> 0]
InitRow(t) == IF t <= Legacy THEN Row("pending", FALSE, NoOne)
                             ELSE Row("absent", FALSE, NoOne)

Init ==
    /\ task = [t \in TaskIds |-> InitRow(t)]
    /\ lock = NoLock
    /\ pc = [p \in Runners \union Callers |->
                IF p \in Runners THEN "off" ELSE "idle"]
    /\ loc = [r \in Runners |-> NoLoc]
    /\ running = {} /\ finished = {} /\ beating = {}
    /\ dispatches = [t \in TaskIds |-> 0]
    /\ faults = 0

-----------------------------------------------------------------------------
(* Statements on the two tables.                                           *)

Goto(p, label) == pc' = [pc EXCEPT ![p] = label]

\* A pass of runner r ends; its locals are dead.
EndPass(r) == Goto(r, "idle") /\ loc' = [loc EXCEPT ![r] = NoLoc]

\* Updates ... updated_at: now
SetStatus(t, st, act, by) == task' = [task EXCEPT ![t] = Row(st, act, by)]

\* Mutants: the UPDATE keeps active_key; it has no status guard; it looks for
\* the wrong status.
MarkKeepsActiveKey(t) ==
    IF t \in TaskIds /\ task[t].status = "running"
    THEN SetStatus(t, "failed", task[t].active, task[t].by)
    ELSE task' = task

MarkAnyStatus(t) ==
    IF t \in TaskIds THEN SetStatus(t, "failed", FALSE, task[t].by)
                     ELSE task' = task

MarkWrongStatus(t) ==
    IF t \in TaskIds /\ task[t].status = "pending"
    THEN SetStatus(t, "failed", FALSE, task[t].by)
    ELSE task' = task

\* UPDATE system_tasks SET failed, active_key = NULL WHERE status = running.
MarkSystemTaskLeaseExpired(t) ==
    IF t \in TaskIds /\ task[t].status = "running"
    THEN SetStatus(t, "failed", FALSE, task[t].by)
    ELSE task' = task

\* DELETE FROM system_task_locks WHERE task_id = t AND locked_by = r.
ReleaseSystemTaskLock(t, r) ==
    lock' = IF lock.task = t /\ lock.by = r THEN NoLock ELSE lock

\* The EXISTS subquery: r holds an unexpired lock on t.
HoldsLease(r, t, age) == lock.task = t /\ lock.by = r /\ lock.left + age >= 0

-----------------------------------------------------------------------------
(* Creating rows: the scheduler pass of a runner and the on-demand calls.  *)

ActiveRows == {t \in TaskIds : task[t].status \in {"pending", "running"}}
Present == {t \in TaskIds : task[t].status # "absent"}
Latest == CHOOSE t \in Present : \A u \in Present : u <= t

\* The scheduler decides to create: no row yet, or the latest one is terminal
\* and Interval has elapsed since its updated_at.
runSystemTaskScheduler(r) ==
    /\ pc[r] = "idle"
    /\ Present # TaskIds
    /\ \/ Present = {}
       \/ /\ Present # {}
          /\ task[Latest].status \in Terminal
          /\ task[Latest].age >= Interval
    /\ Goto(r, "create")
    /\ UNCHANGED <<taskVars, lock, loc, handlerVars, faults>>

\* EnqueueSystemTask / StartLogCleanupTask see no active row.
EnqueueSystemTask(c) ==
    /\ pc[c] = "idle"
    /\ Present # TaskIds
    /\ ActiveRows = {}
    /\ Goto(c, "create")
    /\ UNCHANGED <<taskVars, lock, loc, handlerVars, faults>>

\* INSERT with active_key = type ...
CreateSystemTask(p) ==
    /\ pc[p] = "create"
    /\ \A u \in TaskIds : ~task[u].active
    /\ \E t \in TaskIds :
        /\ t \notin Present
        /\ \A u \in TaskIds : u < t => u \in Present
        /\ SetStatus(t, "pending", TRUE, NoOne)
    /\ Goto(p, "idle")
    /\ UNCHANGED <<dispatches, lock, loc, handlerVars, faults>>

\* ... which the unique index refuses when an active row exists (or the
\* table bound is reached); the caller then returns the active row.
CreateRefused(p) ==
    /\ pc[p] = "create"
    /\ (\E u \in TaskIds : task[u].active) \/ Present = TaskIds
    /\ Goto(p, "idle")
    /\ UNCHANGED <<taskVars, lock, loc, handlerVars, faults>>

\* The INSERT fails for another reason; nothing was written.
CreateError(p) ==
    /\ pc[p] = "create"
    /\ faults < MaxFaults
    /\ faults' = faults + 1
    /\ Goto(p, "idle")
    /\ UNCHANGED <<taskVars, lock, loc, handlerVars>>

-----------------------------------------------------------------------------
(* The claim pass: FindEarliestPendingSystemTasks and ClaimSystemTask.     *)

\* Picks the earliest pending row and reads the clock: first for lockUntil,
\* up to MaxLag later for ClaimSystemTask's own now.
FindPending(r) ==
    /\ pc[r] = "idle"
    /\ \E t \in TaskIds, lag \in 0..MaxLag :
        /\ task[t].status = "pending"
        /\ \A u \in TaskIds : task[u].status = "pending" => t <= u
        /\ loc' = [loc EXCEPT ![r] = Loc(t, lag, 0, NoOne)]
    /\ Goto(r, "lock")
    /\ UNCHANGED <<taskVars, lock, handlerVars, faults>>

\* Mutant: lockUntil is not converted to seconds.
MyLockInMillis(r) ==
    LockRow(loc[r].id, r, 1000 * TTL - loc[r].lag - loc[r].age)

\* The row acquireSystemTaskLock writes: lockUntil was computed lag + age ago.
MyLock(r) == LockRow(loc[r].id, r, TTL - loc[r].lag - loc[r].age)

\* DB.Create(lock): succeeds when the type has no row.
AcquireCreate(r) ==
    /\ pc[r] = "lock"
    /\ IF lock.task = 0 THEN lock' = MyLock(r) /\ Goto(r, "cas")
                        ELSE lock' = lock /\ Goto(r, "peek")
    /\ UNCHANGED <<taskVars, loc, handlerVars, faults>>

\* Reads the existing row: gives up unless it has expired.
AcquirePeek(r) ==
    /\ pc[r] = "peek"
    /\ IF Expired(loc[r].age)
       THEN /\ loc' = [loc EXCEPT ![r].seen = lock.task]
            /\ Goto(r, "steal")
       ELSE EndPass(r)
    /\ UNCHANGED <<taskVars, lock, handlerVars, faults>>

\* UPDATE ... WHERE locked_until < now: takes the row over.
AcquireSteal(r) ==
    /\ pc[r] = "steal"
    /\ IF Expired(loc[r].age)
       THEN /\ lock' = MyLock(r)
            /\ Goto(r, IF loc[r].seen # loc[r].id THEN "mark" ELSE "cas")
            /\ loc' = loc
       ELSE lock' = lock /\ EndPass(r)
    /\ UNCHANGED <<taskVars, handlerVars, faults>>

\* The run whose lease was taken over is failed.
ClaimMark(r) ==
    /\ pc[r] = "mark"
    /\ MarkSystemTaskLeaseExpired(loc[r].seen)
    /\ Goto(r, "cas")
    /\ UNCHANGED <<dispatches, lock, loc, handlerVars, faults>>

\* Mutant: the UPDATE does not require the row to be pending.
ClaimWithoutCAS(r) ==
    LET t == loc[r].id IN
    /\ pc[r] = "cas"
    /\ SetStatus(t, "running", task[t].active, r)
    /\ running' = running \union {<<r, t>>}
    /\ beating' = beating \union {<<r, t>>}
    /\ dispatches' = [dispatches EXCEPT ![t] = @ + 1]
    /\ EndPass(r)
    /\ UNCHANGED <<lock, finished, faults>>

\* UPDATE ... WHERE status = pending: the row is ours, the handler is started.
ClaimSystemTask(r) ==
    LET t == loc[r].id IN
    /\ pc[r] = "cas"
    /\ task[t].status = "pending"
    /\ SetStatus(t, "running", task[t].active, r)
    /\ running' = running \union {<<r, t>>}
    /\ beating' = beating \union {<<r, t>>}
    /\ dispatches' = [dispatches EXCEPT ![t] = @ + 1]
    /\ EndPass(r)
    /\ UNCHANGED <<lock, finished, faults>>

\* RowsAffected = 0: another runner has it; the lock is given back.
ClaimLost(r) ==
    /\ pc[r] = "cas"
    /\ task[loc[r].id].status # "pending"
    /\ ReleaseSystemTaskLock(loc[r].id, r)
    /\ EndPass(r)
    /\ UNCHANGED <<taskVars, handlerVars, faults>>

\* A statement of the claim fails: a lock already acquired is given back,
\* unless the DELETE fails as well, which the code ignores.
ClaimError(r) ==
    /\ pc[r] \in Claiming
    /\ faults < MaxFaults
    /\ faults' = faults + 1
    /\ \/ pc[r] \in {"mark", "cas"} /\ ReleaseSystemTaskLock(loc[r].id, r)
       \/ lock' = lock
    /\ EndPass(r)
    /\ UNCHANGED <<taskVars, handlerVars>>

\* The claimed row cannot be read back: it is running, no handler is started.
ClaimRereadError(r) ==
    LET t == loc[r].id IN
    /\ pc[r] = "cas"
    /\ faults < MaxFaults
    /\ faults' = faults + 1
    /\ task[t].status = "pending"
    /\ SetStatus(t, "running", task[t].active, r)
    /\ EndPass(r)
    /\ UNCHANGED <<dispatches, lock, handlerVars>>

-----------------------------------------------------------------------------
(* The stale-lock pass: ExpireStaleSystemTaskLocks.                        *)

ExpireScan(r) ==
    /\ pc[r] = "idle"
    /\ Expired(0)
    /\ loc' = [loc EXCEPT ![r] = Loc(0, 0, lock.task, lock.by)]
    /\ Goto(r, "expmark")
    /\ UNCHANGED <<taskVars, lock, handlerVars, faults>>

ExpireMark(r) ==
    /\ pc[r] = "expmark"
    /\ MarkSystemTaskLeaseExpired(loc[r].seen)
    /\ Goto(r, "expdel")
    /\ UNCHANGED <<dispatches, lock, loc, handlerVars, faults>>

\* Mutant: the DELETE does not look at locked_until again.
ExpireDeleteNoRecheck(r) ==
    /\ pc[r] = "expdel"
    /\ lock' = IF lock.task = loc[r].seen /\ lock.by = loc[r].by
               THEN NoLock ELSE lock
    /\ EndPass(r)
    /\ UNCHANGED <<taskVars, handlerVars, faults>>

\* DELETE ... WHERE the row is still the one scanned and still expired.
ExpireDelete(r) ==
    /\ pc[r] = "expdel"
    /\ lock' = IF /\ lock.task = loc[r].seen
                  /\ lock.by = loc[r].by
                  /\ Expired(loc[r].age)
               THEN NoLock ELSE lock
    /\ EndPass(r)
    /\ UNCHANGED <<taskVars, handlerVars, faults>>

\* Mutant: a failed mark is logged and the lock is deleted all the same.
ExpireErrorContinues(r) ==
    /\ pc[r] = "expmark"
    /\ faults < MaxFaults
    /\ faults' = faults + 1
    /\ Goto(r, "expdel")
    /\ UNCHANGED <<taskVars, lock, loc, handlerVars>>

\* A statement fails and ends the pass: the lock row is left for the next one.
ExpireError(r) ==
    /\ pc[r] \in Expiring
    /\ faults < MaxFaults
    /\ faults' = faults + 1
    /\ EndPass(r)
    /\ UNCHANGED <<taskVars, lock, handlerVars>>

-----------------------------------------------------------------------------
(* Handlers and their heartbeats: runWithLeaseHeartbeat, FinishSystemTask. *)

\* The heartbeat renews the lease it still holds, to a lockUntil computed just
\* before the UPDATE read its own clock ...
RenewSystemTaskLock(r, t) ==
    /\ <<r, t>> \in beating
    /\ \E lag \in 0..MaxLag : \E age \in 0..lag :
        /\ HoldsLease(r, t, age)
        /\ lock' = [lock EXCEPT !.left = TTL - lag]
    /\ UNCHANGED <<taskVars, pc, loc, handlerVars, faults>>

\* ... and on any error cancels the handler's context and stops.
HeartbeatLost(r, t) ==
    /\ <<r, t>> \in beating
    /\ ~HoldsLease(r, t, 0)
    /\ beating' = beating \ {<<r, t>>}
    /\ UNCHANGED <<taskVars, lock, pc, loc, running, finished, faults>>

HeartbeatError(r, t) ==
    /\ <<r, t>> \in beating
    /\ faults < MaxFaults
    /\ faults' = faults + 1
    /\ beating' = beating \ {<<r, t>>}
    /\ UNCHANGED <<taskVars, lock, pc, loc, running, finished>>

\* The UPDATE of FinishSystemTask, guarded by the row and by the lease.
FinishSystemTask(r, t) ==
    /\ <<r, t>> \in running
    /\ task[t].status = "running" /\ task[t].by = r
    /\ \E age \in 0..MaxLag : HoldsLease(r, t, age)
    /\ \E st \in Terminal : SetStatus(t, st, FALSE, r)
    /\ running' = running \ {<<r, t>>}
    /\ finished' = finished \union {<<r, t>>}
    /\ UNCHANGED <<dispatches, lock, pc, loc, beating, faults>>

\* The DELETE that ends FinishSystemTask; the handler returns.
FinishRelease(r, t) ==
    /\ <<r, t>> \in finished
    /\ ReleaseSystemTaskLock(t, r)
    /\ finished' = finished \ {<<r, t>>}
    /\ beating' = beating \ {<<r, t>>}
    /\ UNCHANGED <<taskVars, pc, loc, running, faults>>

\* ErrSystemTaskLockLost from a progress write or from FinishSystemTask.
HandlerLockLost(r, t) ==
    /\ <<r, t>> \in running
    /\ ~(task[t].status = "running" /\ task[t].by = r /\ HoldsLease(r, t, 0))
    /\ running' = running \ {<<r, t>>}
    /\ beating' = beating \ {<<r, t>>}
    /\ UNCHANGED <<taskVars, lock, pc, loc, finished, faults>>

\* A statement of the handler's fails: it returns with the row or the lock
\* left as they are.
HandlerError(r, t) ==
    /\ <<r, t>> \in running \union finished
    /\ faults < MaxFaults
    /\ faults' = faults + 1
    /\ running' = running \ {<<r, t>>}
    /\ finished' = finished \ {<<r, t>>}
    /\ beating' = beating \ {<<r, t>>}
    /\ UNCHANGED <<taskVars, lock, pc, loc>>

-----------------------------------------------------------------------------
(* Nodes and time.                                                         *)

\* StartSystemTaskRunner on a master node.
StartRunner(r) ==
    /\ pc[r] = "off"
    /\ Goto(r, "idle")
    /\ UNCHANGED <<taskVars, lock, loc, handlerVars, faults>>

\* The process dies between two statements; some runner remains or is yet to
\* start.
Crash(r) ==
    /\ pc[r] \notin {"off", "dead"}
    /\ \E q \in Runners \ {r} : pc[q] # "dead"
    /\ Goto(r, "dead")
    /\ loc' = [loc EXCEPT ![r] = NoLoc]
    /\ running' = running \ ({r} \X TaskIds)
    /\ finished' = finished \ ({r} \X TaskIds)
    /\ beating' = beating \ ({r} \X TaskIds)
    /\ UNCHANGED <<taskVars, lock, faults>>

InPass(r) == pc[r] \in Claiming \union Expiring

\* One unit of time, which no pass spends more than MaxStall of.
Tick ==
    /\ \A r \in Runners : InPass(r) => loc[r].age < MaxStall
    /\ lock' = IF lock.task # 0 /\ lock.left > MinLeft
               THEN [lock EXCEPT !.left = @ - 1] ELSE lock
    /\ loc' = [r \in Runners |->
                 IF InPass(r) THEN [loc[r] EXCEPT !.age = @ + 1] ELSE loc[r]]
    /\ task' = [t \in TaskIds |->
                 IF task[t].status \in Terminal /\ task[t].age < Interval
                 THEN [task[t] EXCEPT !.age = @ + 1] ELSE task[t]]
    /\ UNCHANGED <<pc, handlerVars, dispatches, faults>>

RunnerStep(r) ==
    \/ runSystemTaskScheduler(r) \/ CreateSystemTask(r) \/ CreateRefused(r)
    \/ FindPending(r) \/ AcquireCreate(r) \/ AcquirePeek(r) \/ AcquireSteal(r)
    \/ ClaimMark(r) \/ ClaimSystemTask(r) \/ ClaimLost(r)
    \/ ExpireScan(r) \/ ExpireMark(r) \/ ExpireDelete(r)

HandlerStep(r, t) ==
    FinishSystemTask(r, t) \/ FinishRelease(r, t) \/ HandlerLockLost(r, t)

Heartbeat(r, t) == RenewSystemTaskLock(r, t) \/ HeartbeatLost(r, t)

Fault ==
    \/ \E p \in Runners \union Callers : CreateError(p)
    \/ \E r \in Runners :
        \/ ClaimError(r) \/ ClaimRereadError(r) \/ ExpireError(r) \/ Crash(r)
        \/ \E t \in TaskIds : HeartbeatError(r, t) \/ HandlerError(r, t)

Next ==
    \/ \E r \in Runners : StartRunner(r) \/ RunnerStep(r)
    \/ \E r \in Runners, t \in TaskIds : HandlerStep(r, t) \/ Heartbeat(r, t)
    \/ \E c \in Callers :
        EnqueueSystemTask(c) \/ CreateSystemTask(c) \/ CreateRefused(c)
    \/ Fault
    \/ Tick

Spec == Init /\ [][Next]_vars

\* A runner loop wakes at least every systemTaskRunnerIdleInterval and goes
\* through its three passes in turn, a handler "MUST call FinishSystemTask
\* before returning", a started node starts its runner, and time passes.
Fairness ==
    /\ WF_vars(Tick)
    /\ \A r \in Runners :
        /\ WF_vars(StartRunner(r)) /\ WF_vars(RunnerStep(r))
        /\ SF_vars(FindPending(r)) /\ SF_vars(ExpireScan(r))
        /\ \A t \in TaskIds : WF_vars(HandlerStep(r, t))

FairSpec == Spec /\ Fairness

-----------------------------------------------------------------------------
(* Properties.                                                             *)

\* Type correctness: rows, lock, locals and handler sets stay within the
\* values the two tables and the runner loops can hold.
TypeOK ==
    /\ task \in [TaskIds -> [status : Status, active : BOOLEAN,
                             by : Runners \union {NoOne}, age : 0..Interval]]
    /\ lock \in [task : 0..MaxTasks, by : Runners \union {NoOne},
                 left : MinLeft..TTL]
    /\ pc \in [Runners \union Callers ->
                {"off", "dead", "idle", "create"} \union Claiming \union Expiring]
    /\ loc \in [Runners -> Locs]
    /\ running \subseteq Runners \X TaskIds
    /\ finished \subseteq Runners \X TaskIds
    /\ beating \subseteq Runners \X TaskIds
    /\ dispatches \in [TaskIds -> Nat]
    /\ faults \in 0..MaxFaults

\* The active_key column means what its unique index needs it to mean: it is
\* set on at most one row, that row is pending or running, and (legacy rows
\* aside) every pending or running row has it.  A step that reached a terminal
\* state without clearing the key would block the type for good.
OneActiveRow ==
    /\ \A t, u \in TaskIds : task[t].active /\ task[u].active => t = u
    /\ \A t \in TaskIds : task[t].active => t \in ActiveRows
    /\ \A t \in ActiveRows : t > Legacy => task[t].active

\* "only one runner executes the task": whatever leases expire and whoever
\* stalls or crashes in the middle of a claim, a row is handed to a handler at
\* most once, and never after it left pending (runSystemTaskClaimPass).
AtMostOneDispatch ==
    \A t \in TaskIds :
        /\ dispatches[t] <= 1
        /\ task[t].status \in {"absent", "pending"} => dispatches[t] = 0

\* A handler whose lease has not expired keeps the lock row until it finishes:
\* no claim or stale-lock pass that acts on an older reading of the row takes
\* it over or deletes it, so two runs of a type overlap only after an expiry.
LeaseRespected ==
    [][\A run \in running : HoldsLease(run[1], run[2], 0) =>
        lock'.by = run[1] /\ lock'.task = run[2]]_vars

\* A row only moves forward, and a run that was failed because its lease
\* expired is not completed by its late handler (FinishSystemTask's guards).
StatusMovesForward ==
    [][\A t \in TaskIds : task'[t].status # task[t].status =>
        \/ task[t].status = "absent" /\ task'[t].status = "pending"
        \/ task[t].status = "pending" /\ task'[t].status = "running"
        \/ task[t].status = "running" /\ task'[t].status \in Terminal]_vars

\* "mark expired leases failed": a running row can always be found by the
\* stale-lock pass.  The type's lock row is on it, or a claim that took the
\* lock over is about to mark it.  Without either, nothing ever ends the run
\* and the row blocks its type.
NoOrphan ==
    \A t \in TaskIds : task[t].status = "running" =>
        \/ lock.task = t
        \/ \E r \in Runners : pc[r] = "mark" /\ loc[r].seen = t

\* Every row that is created is eventually claimed and brought to a terminal
\* state, through crashes and failed statements, as long as one runner is left.
RunCompletes ==
    \A t \in TaskIds : task[t].status = "pending" ~> task[t].status \in Terminal
=============================================================================
