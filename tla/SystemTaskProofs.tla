------------------------- MODULE SystemTaskProofs -------------------------
(***************************************************************************)
(* Proofs about the lease protocol of SystemTask, for any number of nodes, *)
(* callers and rows, any TTL and any stall.  The inductive invariant is    *)
(* IInv: besides the three invariants it says what a handler that was      *)
(* dispatched implies about its row and about its runner's current claim.  *)
(* NoOrphan has an invariant of its own, about clocks, at the end.         *)
(***************************************************************************)
EXTENDS SystemTask, TLAPS

\* A claim works on a real row; a dispatched row has left pending, so its
\* runner is not claiming it again; and a handler finishes once.
HandlerInv ==
    /\ \A r \in Runners : pc[r] \in Claiming => loc[r].id \in TaskIds
    /\ \A r \in Runners, t \in TaskIds :
        <<r, t>> \in running \union finished =>
            /\ task[t].status \notin {"absent", "pending"}
            /\ ~(pc[r] \in Claiming /\ loc[r].id = t)
            /\ ~(<<r, t>> \in running /\ <<r, t>> \in finished)

IInv == TypeOK /\ OneActiveRow /\ AtMostOneDispatch /\ HandlerInv

\* The initial tables satisfy the invariant, legacy rows included.
LEMMA InitIInv == Init => IInv
  <1> SUFFICES ASSUME Init PROVE IInv
    OBVIOUS
  <1> USE ConstantsAssumption DEF Init, InitRow, Row, NoLock, LockRow, NoLoc, Loc
  <1>1. TypeOK
    BY DEF TypeOK, TaskIds, Status, Terminal, Locs, MinLeft, Claiming, Expiring
  <1>2. OneActiveRow /\ AtMostOneDispatch
    BY DEF OneActiveRow, AtMostOneDispatch, ActiveRows, TaskIds
  <1>3. HandlerInv
    BY DEF HandlerInv, Claiming, TaskIds
  <1> QED BY <1>1, <1>2, <1>3 DEF IInv

\* What a row looks like after one of the UPDATEs.
LEMMA SetStatusType ==
    ASSUME TypeOK, NEW t \in TaskIds, NEW st \in Status, NEW act \in BOOLEAN,
           NEW by \in Runners \union {NoOne}, SetStatus(t, st, act, by)
    PROVE  /\ task' \in [TaskIds -> [status : Status, active : BOOLEAN,
                             by : Runners \union {NoOne}, age : 0..Interval]]
           /\ \A u \in TaskIds \ {t} : task'[u] = task[u]
           /\ task'[t].status = st /\ task'[t].active = act
  BY ConstantsAssumption DEF TypeOK, SetStatus, Row

\* MarkSystemTaskLeaseExpired touches running rows only, and clears active_key.
LEMMA MarkType ==
    ASSUME TypeOK, NEW t, MarkSystemTaskLeaseExpired(t)
    PROVE  /\ task' \in [TaskIds -> [status : Status, active : BOOLEAN,
                             by : Runners \union {NoOne}, age : 0..Interval]]
           /\ \A u \in TaskIds : \/ task'[u] = task[u]
                                 \/ /\ task[u].status = "running"
                                    /\ task'[u].status = "failed"
                                    /\ task'[u].active = FALSE
  <1>1. CASE t \in TaskIds /\ task[t].status = "running"
    <2>1. SetStatus(t, "failed", FALSE, task[t].by)
      BY <1>1 DEF MarkSystemTaskLeaseExpired
    <2>2. "failed" \in Status
      BY DEF Status, Terminal
    <2>3. task[t].by \in Runners \union {NoOne}
      <3>1. task[t] \in [status : Status, active : BOOLEAN,
                         by : Runners \union {NoOne}, age : 0..Interval]
        BY <1>1 DEF TypeOK
      <3> QED BY <3>1
    <2>4. /\ task' \in [TaskIds -> [status : Status, active : BOOLEAN,
                             by : Runners \union {NoOne}, age : 0..Interval]]
          /\ \A u \in TaskIds \ {t} : task'[u] = task[u]
          /\ task'[t].status = "failed" /\ task'[t].active = FALSE
      BY <1>1, <2>1, <2>2, <2>3, SetStatusType
    <2> QED BY <1>1, <2>4
  <1>2. CASE ~(t \in TaskIds /\ task[t].status = "running")
    BY <1>2 DEF MarkSystemTaskLeaseExpired, TypeOK
  <1> QED BY <1>1, <1>2

\* FinishSystemTask ends its row.
LEMMA FinishSets ==
    ASSUME NEW r \in Runners, NEW t \in TaskIds, FinishSystemTask(r, t)
    PROVE  \E st \in Terminal : SetStatus(t, st, FALSE, r)
  BY Zenon DEF FinishSystemTask

\* EndPass and Goto keep the program counters and the locals in their types.
LEMMA EndPassType ==
    ASSUME TypeOK, NEW r \in Runners, EndPass(r)
    PROVE  /\ pc' \in [Runners \union Callers ->
                {"off", "dead", "idle", "create"} \union Claiming \union Expiring]
           /\ loc' \in [Runners -> Locs]
           /\ pc'[r] = "idle"
           /\ \A q \in Runners \ {r} : pc'[q] = pc[q] /\ loc'[q] = loc[q]
  BY ConstantsAssumption DEF TypeOK, EndPass, Goto, NoLoc, Loc, Locs

LEMMA GotoType ==
    ASSUME TypeOK, NEW p \in Runners \union Callers,
           NEW label \in {"off", "dead", "idle", "create"} \union Claiming
                         \union Expiring,
           Goto(p, label)
    PROVE  /\ pc' \in [Runners \union Callers ->
                {"off", "dead", "idle", "create"} \union Claiming \union Expiring]
           /\ pc'[p] = label
           /\ \A q \in Runners \ {p} : pc'[q] = pc[q]
  BY DEF TypeOK, Goto

\* A lock row that is released is either untouched or gone.
LEMMA ReleaseType ==
    ASSUME TypeOK, NEW r \in Runners, NEW t \in TaskIds, ReleaseSystemTaskLock(t, r)
    PROVE  lock' \in [task : 0..MaxTasks, by : Runners \union {NoOne},
                      left : MinLeft..TTL]
  BY ConstantsAssumption DEF TypeOK, ReleaseSystemTaskLock, NoLock, LockRow, MinLeft

LEMMA MyLockType ==
    ASSUME TypeOK, NEW r \in Runners, loc[r].id \in TaskIds
    PROVE  MyLock(r) \in [task : 0..MaxTasks, by : Runners \union {NoOne},
                          left : MinLeft..TTL]
  <1>1. loc[r] \in Locs
    BY DEF TypeOK
  <1>2. TTL - loc[r].lag - loc[r].age \in MinLeft..TTL
    BY <1>1, ConstantsAssumption DEF Locs, MinLeft
  <1> QED BY <1>2 DEF MyLock, LockRow, TaskIds

-----------------------------------------------------------------------------
\* Every step keeps the tables, the locals and the handler sets well typed.
LEMMA NextTypeOK == IInv /\ [Next]_vars => TypeOK'
  <1> SUFFICES ASSUME IInv, [Next]_vars PROVE TypeOK'
    OBVIOUS
  <1> USE DEF taskVars, handlerVars
  <1>0. TypeOK /\ \A r \in Runners : pc[r] \in Claiming => loc[r].id \in TaskIds
    BY DEF IInv, HandlerInv
  <1>1. ASSUME NEW r \in Runners, StartRunner(r) PROVE TypeOK'
    BY <1>0, <1>1, GotoType DEF StartRunner, TypeOK
  <1>2. ASSUME NEW r \in Runners, runSystemTaskScheduler(r) PROVE TypeOK'
    BY <1>0, <1>2, GotoType DEF runSystemTaskScheduler, TypeOK
  <1>3. ASSUME NEW p \in Runners \union Callers, CreateSystemTask(p) PROVE TypeOK'
    <2>1. PICK t \in TaskIds : SetStatus(t, "pending", TRUE, NoOne)
      BY <1>3 DEF CreateSystemTask
    <2>2. "pending" \in Status
      BY DEF Status
    <2> QED BY <1>0, <1>3, <2>1, <2>2, SetStatusType, GotoType DEF CreateSystemTask, TypeOK
  <1>4. ASSUME NEW p \in Runners \union Callers, CreateRefused(p) PROVE TypeOK'
    BY <1>0, <1>4, GotoType DEF CreateRefused, TypeOK
  <1>5. ASSUME NEW r \in Runners, FindPending(r) PROVE TypeOK'
    <2>1. loc' \in [Runners -> Locs]
      BY <1>0, <1>5, ConstantsAssumption DEF FindPending, TypeOK, Locs, Loc, TaskIds
    <2>2. "lock" \in Claiming
      BY DEF Claiming
    <2> QED BY <1>0, <1>5, <2>1, <2>2, GotoType DEF FindPending, TypeOK
  <1>6. ASSUME NEW r \in Runners, AcquireCreate(r) PROVE TypeOK'
    <2>1. {"lock", "cas", "peek"} \subseteq Claiming
      BY DEF Claiming
    <2> QED BY <1>0, <1>6, <2>1, GotoType, MyLockType DEF AcquireCreate, TypeOK
  <1>7. ASSUME NEW r \in Runners, AcquirePeek(r) PROVE TypeOK'
    <2>1. CASE Expired(loc[r].age)
      <3>1. loc' \in [Runners -> Locs]
        BY <1>0, <1>7, <2>1 DEF AcquirePeek, TypeOK, Locs
      <3>2. "steal" \in Claiming
        BY DEF Claiming
      <3> QED BY <1>0, <1>7, <2>1, <3>1, <3>2, GotoType DEF AcquirePeek, TypeOK
    <2>2. CASE ~Expired(loc[r].age)
      BY <1>0, <1>7, <2>2, EndPassType DEF AcquirePeek, TypeOK
    <2> QED BY <2>1, <2>2
  <1>8. ASSUME NEW r \in Runners, AcquireSteal(r) PROVE TypeOK'
    <2>1. {"steal", "mark", "cas"} \subseteq Claiming
      BY DEF Claiming
    <2>2. CASE Expired(loc[r].age)
      BY <1>0, <1>8, <2>1, <2>2, GotoType, MyLockType DEF AcquireSteal, TypeOK
    <2>3. CASE ~Expired(loc[r].age)
      BY <1>0, <1>8, <2>3, EndPassType DEF AcquireSteal, TypeOK
    <2> QED BY <2>2, <2>3
  <1>9. ASSUME NEW r \in Runners, ClaimMark(r) PROVE TypeOK'
    <2>1. "cas" \in Claiming
      BY DEF Claiming
    <2> QED BY <1>0, <1>9, <2>1, MarkType, GotoType DEF ClaimMark, TypeOK
  <1>10. ASSUME NEW r \in Runners, ClaimSystemTask(r) PROVE TypeOK'
    <2>1. loc[r].id \in TaskIds /\ "running" \in Status
      BY <1>0, <1>10 DEF ClaimSystemTask, Claiming, Status
    <2>2. task[loc[r].id].active \in BOOLEAN
      BY <1>0, <2>1 DEF TypeOK
    <2>3. dispatches' \in [TaskIds -> Nat]
      BY <1>0, <1>10, <2>1 DEF ClaimSystemTask, TypeOK
    <2>4. task' \in [TaskIds -> [status : Status, active : BOOLEAN,
                              by : Runners \union {NoOne}, age : 0..Interval]]
      BY <1>0, <1>10, <2>1, <2>2, SetStatusType DEF ClaimSystemTask
    <2> QED BY <1>0, <1>10, <2>1, <2>3, <2>4, EndPassType DEF ClaimSystemTask, TypeOK
  <1>11. ASSUME NEW r \in Runners, ClaimLost(r) PROVE TypeOK'
    BY <1>0, <1>11, EndPassType, ReleaseType DEF ClaimLost, TypeOK, Claiming
  <1>12. ASSUME NEW r \in Runners, ClaimError(r) PROVE TypeOK'
    <2>1. faults' \in 0..MaxFaults
      BY <1>0, <1>12, ConstantsAssumption DEF ClaimError, TypeOK
    <2> QED BY <1>0, <1>12, <2>1, EndPassType, ReleaseType DEF ClaimError, TypeOK
  <1>13. ASSUME NEW r \in Runners, ClaimRereadError(r) PROVE TypeOK'
    <2>1. loc[r].id \in TaskIds /\ "running" \in Status
      BY <1>0, <1>13 DEF ClaimRereadError, Claiming, Status
    <2>2. task[loc[r].id].active \in BOOLEAN
      BY <1>0, <2>1 DEF TypeOK
    <2>3. task' \in [TaskIds -> [status : Status, active : BOOLEAN,
                              by : Runners \union {NoOne}, age : 0..Interval]]
      BY <1>0, <1>13, <2>1, <2>2, SetStatusType DEF ClaimRereadError
    <2>4. faults' \in 0..MaxFaults
      BY <1>0, <1>13, ConstantsAssumption DEF ClaimRereadError, TypeOK
    <2> QED BY <1>0, <1>13, <2>3, <2>4, EndPassType DEF ClaimRereadError, TypeOK
  <1>14. ASSUME NEW r \in Runners, ExpireScan(r) PROVE TypeOK'
    <2>1. loc' \in [Runners -> Locs]
      BY <1>0, <1>14, ConstantsAssumption DEF ExpireScan, TypeOK, Locs, Loc
    <2>2. "expmark" \in Expiring
      BY DEF Expiring
    <2> QED BY <1>0, <1>14, <2>1, <2>2, GotoType DEF ExpireScan, TypeOK
  <1>15. ASSUME NEW r \in Runners, ExpireMark(r) PROVE TypeOK'
    <2>1. "expdel" \in Expiring
      BY DEF Expiring
    <2> QED BY <1>0, <1>15, <2>1, MarkType, GotoType DEF ExpireMark, TypeOK
  <1>16. ASSUME NEW r \in Runners, ExpireDelete(r) PROVE TypeOK'
    <2>1. NoLock \in [task : 0..MaxTasks, by : Runners \union {NoOne},
                      left : MinLeft..TTL]
      BY ConstantsAssumption DEF NoLock, LockRow, MinLeft
    <2> QED BY <1>0, <1>16, <2>1, EndPassType DEF ExpireDelete, TypeOK
  <1>17. ASSUME NEW r \in Runners, ExpireError(r) PROVE TypeOK'
    <2>1. faults' \in 0..MaxFaults
      BY <1>0, <1>17, ConstantsAssumption DEF ExpireError, TypeOK
    <2> QED BY <1>0, <1>17, <2>1, EndPassType DEF ExpireError, TypeOK
  <1>18. ASSUME NEW r \in Runners, NEW t \in TaskIds, RenewSystemTaskLock(r, t)
         PROVE TypeOK'
    <2>1. lock' \in [task : 0..MaxTasks, by : Runners \union {NoOne},
                     left : MinLeft..TTL]
      BY <1>0, <1>18, ConstantsAssumption DEF RenewSystemTaskLock, TypeOK, MinLeft
    <2> QED BY <1>0, <1>18, <2>1 DEF RenewSystemTaskLock, TypeOK
  <1>19. ASSUME NEW r \in Runners, NEW t \in TaskIds,
                HeartbeatLost(r, t) \/ HeartbeatError(r, t) \/ HandlerError(r, t)
                  \/ HandlerLockLost(r, t)
         PROVE TypeOK'
    BY <1>0, <1>19, ConstantsAssumption
       DEF HeartbeatLost, HeartbeatError, HandlerError, HandlerLockLost, TypeOK
  <1>20. ASSUME NEW r \in Runners, NEW t \in TaskIds, FinishSystemTask(r, t)
         PROVE TypeOK'
    <2>1. PICK st \in Terminal : SetStatus(t, st, FALSE, r)
      BY <1>20 DEF FinishSystemTask
    <2>2. st \in Status
      BY DEF Status
    <2>3. task' \in [TaskIds -> [status : Status, active : BOOLEAN,
                              by : Runners \union {NoOne}, age : 0..Interval]]
      BY <1>0, <2>1, <2>2, SetStatusType
    <2> QED BY <1>0, <1>20, <2>3 DEF FinishSystemTask, TypeOK
  <1>21. ASSUME NEW r \in Runners, NEW t \in TaskIds, FinishRelease(r, t)
         PROVE TypeOK'
    BY <1>0, <1>21, ReleaseType DEF FinishRelease, TypeOK
  <1>22. ASSUME NEW r \in Runners, Crash(r) PROVE TypeOK'
    BY <1>0, <1>22, GotoType, ConstantsAssumption DEF Crash, TypeOK, NoLoc, Loc, Locs
  <1>23. ASSUME Tick PROVE TypeOK'
    <2>1. lock' \in [task : 0..MaxTasks, by : Runners \union {NoOne},
                     left : MinLeft..TTL]
      BY <1>0, <1>23, ConstantsAssumption DEF Tick, TypeOK, MinLeft
    <2>2. loc' \in [Runners -> Locs]
      BY <1>0, <1>23, ConstantsAssumption DEF Tick, TypeOK, Locs
    <2>3. task' \in [TaskIds -> [status : Status, active : BOOLEAN,
                              by : Runners \union {NoOne}, age : 0..Interval]]
      <3> DEFINE Rows == [status : Status, active : BOOLEAN,
                          by : Runners \union {NoOne}, age : 0..Interval]
      <3>1. ASSUME NEW t \in TaskIds
            PROVE  (IF task[t].status \in Terminal /\ task[t].age < Interval
                    THEN [task[t] EXCEPT !.age = @ + 1] ELSE task[t]) \in Rows
        <4>1. task[t] \in Rows
          BY <1>0 DEF TypeOK
        <4> QED BY <4>1, ConstantsAssumption
      <3> HIDE DEF Rows
      <3>2. task' \in [TaskIds -> Rows]
        BY <1>23, <3>1 DEF Tick
      <3> QED BY <3>2 DEF Rows
    <2> QED BY <1>0, <1>23, <2>1, <2>2, <2>3 DEF Tick, TypeOK
  <1>24. ASSUME NEW c \in Callers, EnqueueSystemTask(c) PROVE TypeOK'
    BY <1>0, <1>24, GotoType DEF EnqueueSystemTask, TypeOK
  <1>25. ASSUME NEW p \in Runners \union Callers, CreateError(p) PROVE TypeOK'
    BY <1>0, <1>25, GotoType, ConstantsAssumption DEF CreateError, TypeOK
  <1>26. CASE UNCHANGED vars
    BY <1>0, <1>26 DEF vars, TypeOK
  <1> QED
    BY <1>1, <1>2, <1>3, <1>4, <1>5, <1>6, <1>7, <1>8, <1>9, <1>10, <1>11,
       <1>12, <1>13, <1>14, <1>15, <1>16, <1>17, <1>18, <1>19, <1>20, <1>21,
       <1>22, <1>23, <1>24, <1>25, <1>26
       DEF Next, RunnerStep, HandlerStep, Heartbeat, Fault

-----------------------------------------------------------------------------
\* A step that leaves the rows' status and active_key alone, or that only ends
\* running rows and clears their key, keeps at most one active row.
LEMMA NextOneActiveRow == IInv /\ [Next]_vars => OneActiveRow'
  <1> SUFFICES ASSUME IInv, [Next]_vars PROVE OneActiveRow'
    OBVIOUS
  <1> USE DEF taskVars, ActiveRows
  <1>0. /\ TypeOK /\ OneActiveRow
        /\ \A r \in Runners : pc[r] \in Claiming => loc[r].id \in TaskIds
    BY DEF IInv, HandlerInv
  <1>1. ASSUME \A t \in TaskIds :
                  \/ /\ task'[t].status = task[t].status
                     /\ task'[t].active = task[t].active
                  \/ task'[t].status \in Terminal /\ task'[t].active = FALSE
        PROVE OneActiveRow'
    BY <1>0, <1>1 DEF OneActiveRow, Terminal
  <1>2. ASSUME NEW p \in Runners \union Callers, CreateSystemTask(p)
        PROVE OneActiveRow'
    <2>1. PICK t \in TaskIds : t \notin Present /\ SetStatus(t, "pending", TRUE, NoOne)
      BY <1>2 DEF CreateSystemTask
    <2>2. "pending" \in Status
      BY DEF Status
    <2>3. /\ \A u \in TaskIds \ {t} : task'[u] = task[u]
          /\ task'[t].status = "pending" /\ task'[t].active = TRUE
      BY <1>0, <2>1, <2>2, SetStatusType
    <2>4. \A u \in TaskIds : ~task[u].active
      BY <1>2 DEF CreateSystemTask
    <2> QED BY <1>0, <2>3, <2>4 DEF OneActiveRow
  <1>3. ASSUME NEW r \in Runners, ClaimSystemTask(r) \/ ClaimRereadError(r)
        PROVE OneActiveRow'
    <2> DEFINE t == loc[r].id
    <2>1. /\ t \in TaskIds /\ "running" \in Status /\ task[t].status = "pending"
          /\ SetStatus(t, "running", task[t].active, r)
      BY <1>0, <1>3 DEF ClaimSystemTask, ClaimRereadError, Claiming, Status
    <2>2. task[t].active \in BOOLEAN
      BY <1>0, <2>1 DEF TypeOK
    <2>3. /\ \A u \in TaskIds \ {t} : task'[u] = task[u]
          /\ task'[t].status = "running" /\ task'[t].active = task[t].active
      BY <1>0, <2>1, <2>2, SetStatusType
    <2> QED BY <1>0, <2>1, <2>3 DEF OneActiveRow
  <1>4. ASSUME NEW r \in Runners, ClaimMark(r) \/ ExpireMark(r)
        PROVE OneActiveRow'
    BY <1>0, <1>1, <1>4, MarkType DEF ClaimMark, ExpireMark, Terminal
  <1>5. ASSUME NEW r \in Runners, NEW t \in TaskIds, FinishSystemTask(r, t)
        PROVE OneActiveRow'
    <2>1. PICK st \in Terminal : SetStatus(t, st, FALSE, r)
      BY <1>5, FinishSets, ZenonT(30)
    <2>2. st \in Status /\ r \in Runners \union {NoOne}
      BY <2>1 DEF Status
    <2>3. /\ \A u \in TaskIds \ {t} : task'[u] = task[u]
          /\ task'[t].status = st /\ task'[t].active = FALSE
      BY <1>0, <2>1, <2>2, SetStatusType
    <2> QED BY <1>1, <2>1, <2>3
  <1>6. CASE Tick
    BY <1>0, <1>1, <1>6 DEF Tick, TypeOK
  <1>7. CASE UNCHANGED task
    BY <1>1, <1>7
  <1> QED
    BY <1>2, <1>3, <1>4, <1>5, <1>6, <1>7
       DEF Next, RunnerStep, HandlerStep, Heartbeat, Fault, vars, StartRunner,
           runSystemTaskScheduler, CreateRefused, FindPending, AcquireCreate,
           AcquirePeek, AcquireSteal, ClaimLost, ExpireScan, ExpireDelete,
           FinishRelease, HandlerLockLost, RenewSystemTaskLock, HeartbeatLost,
           EnqueueSystemTask, CreateError, ClaimError, ExpireError, Crash,
           HeartbeatError, HandlerError

-----------------------------------------------------------------------------
\* How a step may change the status of a row.
Forward(t) ==
    \/ task'[t].status = task[t].status
    \/ task[t].status = "absent" /\ task'[t].status = "pending"
    \/ task[t].status = "pending" /\ task'[t].status = "running"
    \/ task[t].status = "running" /\ task'[t].status \in Terminal

LEMMA NextForward == IInv /\ [Next]_vars => \A t \in TaskIds : Forward(t)
  <1> SUFFICES ASSUME IInv, [Next]_vars PROVE \A t \in TaskIds : Forward(t)
    OBVIOUS
  <1> USE DEF taskVars, Forward
  <1>0. TypeOK /\ \A r \in Runners : pc[r] \in Claiming => loc[r].id \in TaskIds
    BY DEF IInv, HandlerInv
  <1>2. ASSUME NEW p \in Runners \union Callers, CreateSystemTask(p)
        PROVE \A t \in TaskIds : Forward(t)
    <2>1. PICK t \in TaskIds : t \notin Present /\ SetStatus(t, "pending", TRUE, NoOne)
      BY <1>2 DEF CreateSystemTask
    <2>2. "pending" \in Status
      BY DEF Status
    <2> QED BY <1>0, <2>1, <2>2, SetStatusType DEF Present
  <1>3. ASSUME NEW r \in Runners, ClaimSystemTask(r) \/ ClaimRereadError(r)
        PROVE \A t \in TaskIds : Forward(t)
    <2> DEFINE t == loc[r].id
    <2>1. /\ t \in TaskIds /\ "running" \in Status /\ task[t].status = "pending"
          /\ SetStatus(t, "running", task[t].active, r)
      BY <1>0, <1>3 DEF ClaimSystemTask, ClaimRereadError, Claiming, Status
    <2>2. task[t].active \in BOOLEAN
      BY <1>0, <2>1 DEF TypeOK
    <2> QED BY <1>0, <2>1, <2>2, SetStatusType
  <1>4. ASSUME NEW r \in Runners, ClaimMark(r) \/ ExpireMark(r)
        PROVE \A t \in TaskIds : Forward(t)
    BY <1>0, <1>4, MarkType DEF ClaimMark, ExpireMark, Terminal
  <1>5. ASSUME NEW r \in Runners, NEW t \in TaskIds, FinishSystemTask(r, t)
        PROVE \A u \in TaskIds : Forward(u)
    <2>1. PICK st \in Terminal : SetStatus(t, st, FALSE, r)
      BY <1>5, FinishSets, ZenonT(30)
    <2> QED BY <1>0, <1>5, <2>1, SetStatusType DEF Status, FinishSystemTask
  <1>6. CASE Tick
    BY <1>0, <1>6 DEF Tick, TypeOK
  <1>7. CASE UNCHANGED task
    BY <1>7
  <1> QED
    BY <1>2, <1>3, <1>4, <1>5, <1>6, <1>7
       DEF Next, RunnerStep, HandlerStep, Heartbeat, Fault, vars, StartRunner,
           runSystemTaskScheduler, CreateRefused, FindPending, AcquireCreate,
           AcquirePeek, AcquireSteal, ClaimLost, ExpireScan, ExpireDelete,
           FinishRelease, HandlerLockLost, RenewSystemTaskLock, HeartbeatLost,
           EnqueueSystemTask, CreateError, ClaimError, ExpireError, Crash,
           HeartbeatError, HandlerError

\* Only the CAS of ClaimSystemTask counts a dispatch, and it leaves pending.
LEMMA NextAtMostOneDispatch == IInv /\ [Next]_vars => AtMostOneDispatch'
  <1> SUFFICES ASSUME IInv, [Next]_vars PROVE AtMostOneDispatch'
    OBVIOUS
  <1> USE DEF taskVars
  <1>0. /\ TypeOK /\ AtMostOneDispatch
        /\ \A r \in Runners : pc[r] \in Claiming => loc[r].id \in TaskIds
    BY DEF IInv, HandlerInv
  <1>1. \A t \in TaskIds : Forward(t)
    BY NextForward
  <1>2. ASSUME NEW r \in Runners, ClaimSystemTask(r) PROVE AtMostOneDispatch'
    <2> DEFINE t == loc[r].id
    <2>1. /\ t \in TaskIds /\ "running" \in Status /\ task[t].status = "pending"
          /\ SetStatus(t, "running", task[t].active, r)
      BY <1>0, <1>2 DEF ClaimSystemTask, Claiming, Status
    <2>2. task[t].active \in BOOLEAN
      BY <1>0, <2>1 DEF TypeOK
    <2>3. task'[t].status = "running"
      BY <1>0, <2>1, <2>2, SetStatusType
    <2>4. /\ dispatches'[t] = dispatches[t] + 1
          /\ \A u \in TaskIds \ {t} : dispatches'[u] = dispatches[u]
      BY <1>0, <1>2, <2>1 DEF ClaimSystemTask, TypeOK
    <2> QED BY <1>0, <1>1, <2>1, <2>3, <2>4 DEF AtMostOneDispatch, Forward, Terminal
  <1>3. CASE UNCHANGED dispatches
    BY <1>0, <1>1, <1>3 DEF AtMostOneDispatch, Forward, Terminal
  <1> QED
    BY <1>2, <1>3
       DEF Next, RunnerStep, HandlerStep, Heartbeat, Fault, vars, StartRunner,
           runSystemTaskScheduler, CreateRefused, FindPending, AcquireCreate,
           AcquirePeek, AcquireSteal, ClaimLost, ExpireScan, ExpireDelete,
           FinishRelease, HandlerLockLost, RenewSystemTaskLock, HeartbeatLost,
           EnqueueSystemTask, CreateError, ClaimError, ExpireError, Crash,
           HeartbeatError, HandlerError,
           CreateSystemTask, ClaimMark, ClaimRereadError, ExpireMark,
           FinishSystemTask, Tick

\* A runner that is not claiming after a step, or claims what it claimed before
\* it, keeps the invariant as long as no handler is added.
LEMMA NextHandlerInv == IInv /\ [Next]_vars => HandlerInv'
  <1> SUFFICES ASSUME IInv, [Next]_vars PROVE HandlerInv'
    OBVIOUS
  <1> USE DEF handlerVars
  <1>0. TypeOK /\ HandlerInv
    BY DEF IInv
  <1>f. \A t \in TaskIds : Forward(t)
    BY NextForward
  <1>1. ASSUME running' \subseteq running, finished' \subseteq finished,
               \A r \in Runners : pc'[r] \in Claiming =>
                    pc[r] \in Claiming /\ loc'[r].id = loc[r].id
        PROVE HandlerInv'
    BY <1>0, <1>f, <1>1 DEF HandlerInv, Forward, Terminal
  <1>2. ASSUME NEW r \in Runners, FindPending(r) PROVE HandlerInv'
    <2>1. PICK t \in TaskIds, lag \in 0..MaxLag :
            task[t].status = "pending" /\ loc' = [loc EXCEPT ![r] = Loc(t, lag, 0, NoOne)]
      BY <1>2 DEF FindPending
    <2>2. loc'[r].id = t /\ \A q \in Runners \ {r} : loc'[q] = loc[q]
      BY <1>0, <2>1 DEF TypeOK, Loc
    <2>3. \A q \in Runners \ {r} : pc'[q] = pc[q]
      BY <1>0, <1>2 DEF FindPending, Goto, TypeOK
    <2>4. task' = task /\ running' = running /\ finished' = finished
      BY <1>2 DEF FindPending, taskVars
    <2> QED BY <1>0, <2>1, <2>2, <2>3, <2>4 DEF HandlerInv
  <1>3. ASSUME NEW r \in Runners, ClaimSystemTask(r) PROVE HandlerInv'
    <2> DEFINE t == loc[r].id
    <2>1. /\ t \in TaskIds /\ "running" \in Status /\ task[t].status = "pending"
          /\ SetStatus(t, "running", task[t].active, r)
      BY <1>0, <1>3 DEF ClaimSystemTask, Claiming, Status, HandlerInv
    <2>2. task[t].active \in BOOLEAN
      BY <1>0, <2>1 DEF TypeOK
    <2>3. task'[t].status = "running"
      BY <1>0, <2>1, <2>2, SetStatusType
    <2>4. pc'[r] = "idle" /\ \A q \in Runners \ {r} : pc'[q] = pc[q] /\ loc'[q] = loc[q]
      BY <1>0, <1>3, EndPassType DEF ClaimSystemTask
    <2>5. running' = running \union {<<r, t>>} /\ finished' = finished
      BY <1>3 DEF ClaimSystemTask
    <2>6. <<r, t>> \notin finished
      BY <1>0, <2>1 DEF HandlerInv
    <2>7. \A q \in Runners : pc'[q] \in Claiming => q # r
      BY <2>4 DEF Claiming
    <2>8. \A q \in Runners : pc'[q] \in Claiming => loc'[q].id \in TaskIds
      BY <1>0, <2>4, <2>7 DEF HandlerInv
    <2>9. ASSUME NEW q \in Runners, NEW u \in TaskIds,
                 <<q, u>> \in running' \union finished'
          PROVE /\ task'[u].status \notin {"absent", "pending"}
                /\ ~(pc'[q] \in Claiming /\ loc'[q].id = u)
                /\ ~(<<q, u>> \in running' /\ <<q, u>> \in finished')
      <3>1. CASE q = r /\ u = t
        BY <2>3, <2>5, <2>6, <2>7, <3>1
      <3>2. CASE ~(q = r /\ u = t)
        <4>1. <<q, u>> \in running \union finished
          BY <2>5, <2>9, <3>2
        <4>2. task[u].status \notin {"absent", "pending"}
          BY <1>0, <4>1 DEF HandlerInv
        <4>3. task'[u].status \notin {"absent", "pending"}
          BY <1>f, <4>2 DEF Forward, Terminal
        <4>4. ~(pc'[q] \in Claiming /\ loc'[q].id = u)
          BY <1>0, <2>4, <2>7, <4>1 DEF HandlerInv
        <4>5. ~(<<q, u>> \in running' /\ <<q, u>> \in finished')
          BY <1>0, <2>5, <3>2, <4>1 DEF HandlerInv
        <4> QED BY <4>3, <4>4, <4>5
      <3> QED BY <3>1, <3>2
    <2> QED BY <2>8, <2>9 DEF HandlerInv
  <1>4. ASSUME NEW r \in Runners, NEW t \in TaskIds, FinishSystemTask(r, t)
        PROVE HandlerInv'
    <2>1. /\ running' = running \ {<<r, t>>} /\ finished' = finished \union {<<r, t>>}
          /\ <<r, t>> \in running /\ pc' = pc /\ loc' = loc
      BY <1>4 DEF FinishSystemTask
    <2> QED BY <1>0, <1>f, <2>1 DEF HandlerInv, Forward, Terminal
  <1>5. ASSUME NEW r \in Runners,
               StartRunner(r) \/ runSystemTaskScheduler(r) \/ ExpireScan(r) \/ ExpireMark(r)
        PROVE HandlerInv'
    <2>1. pc'[r] \notin Claiming /\ \A q \in Runners \ {r} : pc'[q] = pc[q]
      BY <1>0, <1>5 DEF StartRunner, runSystemTaskScheduler, ExpireScan, ExpireMark,
                        Goto, TypeOK, Claiming
    <2>2. \A q \in Runners \ {r} : loc'[q] = loc[q]
      BY <1>0, <1>5 DEF StartRunner, runSystemTaskScheduler, ExpireScan, ExpireMark,
                        TypeOK
    <2> QED BY <1>1, <1>5, <2>1, <2>2 DEF StartRunner, runSystemTaskScheduler,
                                          ExpireScan, ExpireMark
  <1>6. ASSUME NEW r \in Runners,
               AcquireCreate(r) \/ AcquirePeek(r) \/ AcquireSteal(r) \/ ClaimMark(r)
        PROVE HandlerInv'
    <2>1. pc[r] \in Claiming /\ running' = running /\ finished' = finished
      BY <1>6 DEF AcquireCreate, AcquirePeek, AcquireSteal, ClaimMark, Claiming
    <2>2. /\ \A q \in Runners \ {r} : pc'[q] = pc[q] /\ loc'[q] = loc[q]
          /\ pc'[r] # "idle" => loc'[r].id = loc[r].id
      BY <1>0, <1>6 DEF AcquireCreate, AcquirePeek, AcquireSteal, ClaimMark, Goto,
                        EndPass, TypeOK, Locs
    <2> QED BY <1>1, <2>1, <2>2 DEF Claiming
  <1>7. ASSUME NEW r \in Runners,
               ClaimLost(r) \/ ClaimError(r) \/ ClaimRereadError(r) \/ ExpireDelete(r)
                 \/ ExpireError(r)
        PROVE HandlerInv'
    <2>1. EndPass(r) /\ running' = running /\ finished' = finished
      BY <1>7 DEF ClaimLost, ClaimError, ClaimRereadError, ExpireDelete, ExpireError
    <2> QED BY <1>0, <1>1, <2>1, EndPassType DEF Claiming
  <1>8. ASSUME NEW r \in Runners, NEW t \in TaskIds,
               RenewSystemTaskLock(r, t) \/ HeartbeatLost(r, t) \/ HeartbeatError(r, t)
                 \/ FinishRelease(r, t) \/ HandlerLockLost(r, t) \/ HandlerError(r, t)
        PROVE HandlerInv'
    BY <1>1, <1>8 DEF RenewSystemTaskLock, HeartbeatLost, HeartbeatError,
                      FinishRelease, HandlerLockLost, HandlerError
  <1>9. ASSUME NEW p \in Runners \union Callers,
               CreateSystemTask(p) \/ CreateRefused(p) \/ CreateError(p)
        PROVE HandlerInv'
    <2>1. /\ loc' = loc /\ running' = running /\ finished' = finished
          /\ Goto(p, "idle")
      BY <1>9 DEF CreateSystemTask, CreateRefused, CreateError
    <2> QED BY <1>0, <1>1, <2>1, GotoType DEF Claiming
  <1>10. ASSUME NEW c \in Callers, EnqueueSystemTask(c) PROVE HandlerInv'
    <2>1. /\ loc' = loc /\ running' = running /\ finished' = finished
          /\ Goto(c, "create")
      BY <1>10 DEF EnqueueSystemTask
    <2> QED BY <1>0, <1>1, <2>1, GotoType DEF Claiming
  <1>11. ASSUME NEW r \in Runners, Crash(r) PROVE HandlerInv'
    <2>1. pc'[r] \notin Claiming
      BY <1>0, <1>11 DEF Crash, Goto, TypeOK, Claiming
    <2>2. \A q \in Runners \ {r} : pc'[q] = pc[q] /\ loc'[q] = loc[q]
      BY <1>0, <1>11 DEF Crash, Goto, TypeOK
    <2> QED BY <1>1, <1>11, <2>1, <2>2 DEF Crash
  <1>12. CASE Tick
    <2>1. pc' = pc /\ running' = running /\ finished' = finished
      BY <1>12 DEF Tick
    <2>2. \A r \in Runners : loc'[r].id = loc[r].id
      BY <1>0, <1>12 DEF Tick, TypeOK, Locs
    <2> QED BY <1>1, <2>1, <2>2
  <1>13. CASE UNCHANGED vars
    BY <1>1, <1>13 DEF vars
  <1> QED
    BY <1>2, <1>3, <1>4, <1>5, <1>6, <1>7, <1>8, <1>9, <1>10, <1>11, <1>12, <1>13
       DEF Next, RunnerStep, HandlerStep, Heartbeat, Fault

\* IInv is an invariant of the specification.
THEOREM InductiveInvariant == Spec => []IInv
  <1>1. IInv /\ [Next]_vars => IInv'
    BY NextTypeOK, NextOneActiveRow, NextAtMostOneDispatch, NextHandlerInv DEF IInv
  <1> QED BY InitIInv, <1>1, PTL DEF Spec

-----------------------------------------------------------------------------
\* Rows, lock, locals and handler sets are well typed in every behaviour, for
\* any number of nodes, callers and rows.
THEOREM TypeCorrect == Spec => []TypeOK
  BY InductiveInvariant, PTL DEF IInv

\* The unique index on active_key does its work in every behaviour: at most one
\* active row, cleared exactly when the row ends.
THEOREM ActiveKeyUnique == Spec => []OneActiveRow
  BY InductiveInvariant, PTL DEF IInv

\* No row is executed twice, with any number of nodes and whatever expires,
\* stalls or crashes (ClaimSystemTask's compare-and-set).
THEOREM DispatchedOnce == Spec => []AtMostOneDispatch
  BY InductiveInvariant, PTL DEF IInv

\* A row never moves backwards, nor leaves a terminal state.
THEOREM ForwardOnly == Spec => StatusMovesForward
  <1>1. IInv /\ [Next]_vars =>
          [\A t \in TaskIds : task'[t].status # task[t].status =>
             \/ task[t].status = "absent" /\ task'[t].status = "pending"
             \/ task[t].status = "pending" /\ task'[t].status = "running"
             \/ task[t].status = "running" /\ task'[t].status \in Terminal]_vars
    BY NextForward DEF Forward
  <1> QED BY InductiveInvariant, <1>1, PTL DEF Spec, StatusMovesForward

\* A handler that still holds an unexpired lease is not dispossessed, by any
\* claim, stale-lock pass or late release, however old the clock they act on.
THEOREM LeaseIsRespected == Spec => LeaseRespected
  <1>1. IInv /\ [Next]_vars =>
          [\A run \in running : HoldsLease(run[1], run[2], 0) =>
              lock'.by = run[1] /\ lock'.task = run[2]]_vars
    <2> SUFFICES ASSUME IInv, Next, NEW r \in Runners, NEW t \in TaskIds,
                        <<r, t>> \in running, HoldsLease(r, t, 0)
                 PROVE  lock'.by = r /\ lock'.task = t
      BY DEF IInv, TypeOK
    <2> USE DEF HoldsLease
    <2>0. TypeOK /\ HandlerInv
      BY DEF IInv
    <2>1. lock.task = t /\ lock.by = r /\ lock.left \in Int /\ lock.left >= 0 /\ t # 0
      BY <2>0 DEF TypeOK, TaskIds, MinLeft
    <2>2. \A q \in Runners : ~Expired(loc[q].age)
      BY <2>0, <2>1, ConstantsAssumption DEF Expired, TypeOK, Locs
    <2>3. ASSUME NEW q \in Runners, pc[q] \in Claiming,
                 ReleaseSystemTaskLock(loc[q].id, q)
          PROVE lock' = lock
      BY <2>0, <2>1, <2>3 DEF ReleaseSystemTaskLock, HandlerInv
    <2>4. ASSUME NEW q \in Runners, AcquireCreate(q) \/ AcquireSteal(q) \/ ExpireDelete(q)
          PROVE lock' = lock
      BY <2>1, <2>2, <2>4 DEF AcquireCreate, AcquireSteal, ExpireDelete
    <2>5. ASSUME NEW q \in Runners, ClaimLost(q) \/ ClaimError(q) PROVE lock' = lock
      BY <2>3, <2>5 DEF ClaimLost, ClaimError, Claiming
    <2>6. ASSUME NEW q \in Runners, NEW u \in TaskIds, FinishRelease(q, u)
          PROVE lock' = lock
      <3>1. ~(q = r /\ u = t)
        BY <2>0, <2>6 DEF FinishRelease, HandlerInv
      <3> QED BY <2>1, <2>6, <3>1 DEF FinishRelease, ReleaseSystemTaskLock
    <2>7. ASSUME NEW q \in Runners, NEW u \in TaskIds, RenewSystemTaskLock(q, u)
          PROVE lock'.by = r /\ lock'.task = t
      BY <2>0, <2>1, <2>7 DEF RenewSystemTaskLock, TypeOK
    <2>8. CASE Tick
      BY <2>0, <2>1, <2>8 DEF Tick, TypeOK
    <2>9. CASE UNCHANGED lock
      BY <2>1, <2>9
    <2> QED
      BY <2>1, <2>4, <2>5, <2>6, <2>7, <2>8, <2>9
         DEF Next, RunnerStep, HandlerStep, Heartbeat, Fault, StartRunner,
             runSystemTaskScheduler, CreateSystemTask, CreateRefused, FindPending,
             AcquirePeek, ClaimMark, ClaimSystemTask, ExpireScan, ExpireMark,
             FinishSystemTask, HandlerLockLost, HeartbeatLost, EnqueueSystemTask,
             CreateError, ClaimRereadError, ExpireError, Crash, HeartbeatError,
             HandlerError
  <1> QED BY InductiveInvariant, <1>1, PTL DEF Spec, LeaseRespected

-----------------------------------------------------------------------------
(* NoOrphan.  It needs two things.  Rows of the type are pending or running *)
(* one at a time, as active_key makes sure of unless an earlier version     *)
(* left several rows without it.  And a claim ends before the lease it      *)
(* asked for does.                                                          *)

Runs(t) == t \in TaskIds /\ task[t].status = "running"

\* Handlers and legacy rows.
RowsInv ==
    /\ beating \subseteq running \union finished
    /\ \A run \in finished : task[run[2]].status \in Terminal
    /\ \A t \in TaskIds : t <= Legacy => task[t].status # "absent"
    /\ \A t \in TaskIds : t <= Legacy /\ t \in ActiveRows =>
          Present = {t} /\ \A p \in Runners \union Callers : pc[p] # "create"

\* The lock has not expired for the clock reading of runner r.
Fresh(r) == lock.left + loc[r].age >= 0

\* A running row has the lock.  A claim that took the lock still has it, and nothing
\* runs.  A lock on a running row is younger than any claim in progress, and than a
\* stale-lock pass that has marked that row.
LeaseInv ==
    /\ \A t \in TaskIds : Runs(t) => lock.task = t
    /\ \A r \in Runners : pc[r] \in {"mark", "cas"} => lock = MyLock(r) /\ \A t \in TaskIds : ~Runs(t)
    /\ \A r \in Runners : pc[r] \in {"lock", "peek", "steal"} /\ Runs(lock.task) => Fresh(r)
    /\ \A r \in Runners : pc[r] = "expdel" /\ Runs(lock.task) /\ lock.task = loc[r].seen => Fresh(r)

LEMMA NextRowsInv ==
    ASSUME Legacy <= 1, IInv, RowsInv, [Next]_vars
    PROVE  RowsInv'
  <1> USE DEF handlerVars, taskVars
  <1>0. TypeOK /\ HandlerInv /\ \A t \in TaskIds : Forward(t)
    BY NextForward DEF IInv
  <1>1. (\A t \in TaskIds : t <= Legacy => task[t].status # "absent")'
    BY <1>0 DEF RowsInv, Forward, Terminal
  <1>2. \A run \in finished : task'[run[2]].status \in Terminal
    BY <1>0 DEF RowsInv, Forward, Terminal, TypeOK
  <1>3. ASSUME NEW r \in Runners, NEW t \in TaskIds, FinishSystemTask(r, t)
        PROVE  /\ beating' \subseteq running' \union finished'
               /\ \A run \in finished' : task'[run[2]].status \in Terminal
    <2>1. PICK st \in Terminal : SetStatus(t, st, FALSE, r)
      BY <1>3, FinishSets, ZenonT(30)
    <2>2. task'[t].status \in Terminal
      BY <1>0, <2>1, SetStatusType DEF Status
    <2>3. /\ running' = running \ {<<r, t>>} /\ finished' = finished \union {<<r, t>>}
          /\ beating' = beating
      BY <1>3 DEF FinishSystemTask
    <2> QED BY <1>2, <2>2, <2>3 DEF RowsInv
  <1>4. /\ beating' \subseteq running' \union finished'
        /\ \A run \in finished' : task'[run[2]].status \in Terminal
    <2>1. CASE beating' \subseteq running' \union finished' /\ finished' \subseteq finished
      BY <1>2, <2>1
    <2>2. ASSUME NEW r \in Runners, NEW t \in TaskIds,
                 RenewSystemTaskLock(r, t) \/ HeartbeatLost(r, t) \/ HeartbeatError(r, t)
                   \/ FinishRelease(r, t) \/ HandlerLockLost(r, t) \/ HandlerError(r, t)
          PROVE  beating' \subseteq running' \union finished' /\ finished' \subseteq finished
      BY <2>2 DEF RenewSystemTaskLock, HeartbeatLost, HeartbeatError, FinishRelease,
                  HandlerLockLost, HandlerError, RowsInv
    <2>3. ASSUME NEW r \in Runners, ClaimSystemTask(r) \/ Crash(r)
          PROVE  beating' \subseteq running' \union finished' /\ finished' \subseteq finished
      BY <2>3 DEF ClaimSystemTask, Crash, RowsInv
    <2>4. CASE beating' = beating /\ running' = running /\ finished' = finished
      BY <2>1, <2>4 DEF RowsInv
    <2> QED
      BY <1>3, <2>1, <2>2, <2>3, <2>4
         DEF Next, RunnerStep, HandlerStep, Heartbeat, Fault, vars, StartRunner,
             runSystemTaskScheduler, CreateSystemTask, CreateRefused, CreateError, FindPending,
             AcquireCreate, AcquirePeek, AcquireSteal, ClaimMark, ClaimLost, ClaimError,
             ClaimRereadError, ExpireScan, ExpireMark, ExpireDelete, ExpireError,
             EnqueueSystemTask, Tick
  <1>5. ASSUME NEW t \in TaskIds, t <= Legacy, t \in ActiveRows'
        PROVE  Present' = {t} /\ \A p \in Runners \union Callers : pc'[p] # "create"
    <2>1. t \in ActiveRows
      BY <1>0, <1>5 DEF RowsInv, Forward, Terminal, ActiveRows
    <2>2. Present = {t} /\ \A p \in Runners \union Callers : pc[p] # "create"
      BY <1>5, <2>1 DEF RowsInv
    <2>3. Latest = t
      <3>1. t <= t
        BY ConstantsAssumption DEF TaskIds
      <3>2. \E x \in Present : \A u \in Present : u <= x
        BY <2>2, <3>1
      <3>3. Latest \in Present
        BY <3>2, Zenon DEF Latest
      <3> QED BY <2>2, <3>3
    <2>4. ~(\E p \in Runners \union Callers : CreateSystemTask(p))
      BY <2>2 DEF CreateSystemTask
    <2>5. ~(\E r \in Runners : runSystemTaskScheduler(r))
      BY <2>1, <2>2, <2>3 DEF runSystemTaskScheduler, ActiveRows, Terminal
    <2>6. ~(\E c \in Callers : EnqueueSystemTask(c))
      BY <2>1 DEF EnqueueSystemTask
    <2>7. \A u \in TaskIds : task[u].status = "absent" => task'[u].status = "absent"
      <3>1. ASSUME NEW r \in Runners, ClaimSystemTask(r) \/ ClaimRereadError(r)
            PROVE  \A u \in TaskIds : task[u].status = "absent" => task'[u].status = "absent"
        <4> DEFINE v == loc[r].id
        <4>1. /\ v \in TaskIds /\ "running" \in Status /\ task[v].status = "pending"
              /\ SetStatus(v, "running", task[v].active, r)
          BY <1>0, <3>1 DEF ClaimSystemTask, ClaimRereadError, Claiming, Status, HandlerInv
        <4>2. task[v].active \in BOOLEAN
          BY <1>0, <4>1 DEF TypeOK
        <4> QED BY <1>0, <4>1, <4>2, SetStatusType
      <3>2. ASSUME NEW r \in Runners, ClaimMark(r) \/ ExpireMark(r)
            PROVE  \A u \in TaskIds : task[u].status = "absent" => task'[u].status = "absent"
        BY <1>0, <3>2, MarkType DEF ClaimMark, ExpireMark
      <3>3. ASSUME NEW r \in Runners, NEW v \in TaskIds, FinishSystemTask(r, v)
            PROVE  \A u \in TaskIds : task[u].status = "absent" => task'[u].status = "absent"
        <4>1. PICK st \in Terminal : SetStatus(v, st, FALSE, r)
          BY <3>3, FinishSets, ZenonT(30)
        <4>2. task[v].status = "running"
          BY <3>3 DEF FinishSystemTask
        <4> QED BY <1>0, <4>1, <4>2, SetStatusType DEF Status
      <3>4. CASE Tick
        BY <1>0, <3>4 DEF Tick, TypeOK
      <3>5. CASE UNCHANGED task
        BY <3>5
      <3> QED
        BY <2>4, <3>1, <3>2, <3>3, <3>4, <3>5
           DEF Next, RunnerStep, HandlerStep, Heartbeat, Fault, vars, StartRunner,
               runSystemTaskScheduler, CreateRefused, FindPending, AcquireCreate,
               AcquirePeek, AcquireSteal, ClaimLost, ExpireScan, ExpireDelete,
               FinishRelease, HandlerLockLost, RenewSystemTaskLock, HeartbeatLost,
               EnqueueSystemTask, CreateError, ClaimError, ExpireError, Crash,
               HeartbeatError, HandlerError
    <2>8. Present' = {t}
      BY <1>5, <2>2, <2>7 DEF Present, ActiveRows
    <2>9. \A p \in Runners \union Callers : pc'[p] = pc[p] \/ pc'[p] # "create"
      <3>1. ASSUME NEW p \in Runners \union Callers, NEW label, label # "create", Goto(p, label)
            PROVE  \A q \in Runners \union Callers : pc'[q] = pc[q] \/ pc'[q] # "create"
        BY <1>0, <3>1 DEF Goto, TypeOK
      <3> QED
        BY <2>4, <2>5, <2>6, <3>1
           DEF Next, RunnerStep, HandlerStep, Heartbeat, Fault, vars, StartRunner, EndPass,
               CreateRefused, FindPending, AcquireCreate, AcquirePeek, AcquireSteal, ClaimMark,
               ClaimLost, ClaimSystemTask, ExpireScan, ExpireMark, ExpireDelete, FinishSystemTask,
               FinishRelease, HandlerLockLost, RenewSystemTaskLock, HeartbeatLost,
               CreateError, ClaimError, ClaimRereadError, ExpireError, Crash,
               HeartbeatError, HandlerError, Tick
    <2> QED BY <2>2, <2>8, <2>9
  <1> QED BY <1>1, <1>4, <1>5 DEF RowsInv

\* A row is pending or running alone.
LEMMA OneAtATime ==
    ASSUME Legacy <= 1, IInv, RowsInv, NEW t \in ActiveRows, NEW u \in ActiveRows
    PROVE  t = u
  <1>1. t \in TaskIds /\ u \in TaskIds /\ t \in Present /\ u \in Present
    BY DEF ActiveRows, Present
  <1>2. CASE t <= Legacy \/ u <= Legacy
    BY <1>1, <1>2 DEF RowsInv
  <1>3. CASE ~(t <= Legacy) /\ ~(u <= Legacy)
    <2>1. t > Legacy /\ u > Legacy
      BY <1>1, <1>3, ConstantsAssumption DEF TaskIds
    <2> QED BY <1>1, <2>1 DEF IInv, OneActiveRow
  <1> QED BY <1>2, <1>3

\* A claim that has the lock: its lease has not expired for anybody, and nobody else
\* is past the lock.
LEMMA HolderFacts ==
    ASSUME MaxStall + MaxLag <= TTL, TypeOK, LeaseInv, NEW r \in Runners, pc[r] \in {"mark", "cas"}
    PROVE  /\ lock = MyLock(r) /\ lock.task = loc[r].id /\ lock.by = r
           /\ lock.left = TTL - loc[r].lag - loc[r].age /\ lock.left \in Nat
           /\ \A q \in Runners : Fresh(q) /\ ~Expired(loc[q].age)
           /\ \A q \in Runners : pc[q] \in {"mark", "cas"} => q = r
           /\ \A t \in TaskIds : ~Runs(t)
  <1>1. lock = MyLock(r) /\ \A t \in TaskIds : ~Runs(t)
    BY DEF LeaseInv
  <1>2. /\ lock.task = loc[r].id /\ lock.by = r
        /\ lock.left = TTL - loc[r].lag - loc[r].age
    BY <1>1 DEF MyLock, LockRow
  <1>3. \A q \in Runners : loc[q].age \in 0..MaxStall /\ loc[q].lag \in 0..MaxLag
    BY DEF TypeOK, Locs
  <1>4. lock.left \in Nat
    <2>1. PICK g \in 0..MaxLag, a \in 0..MaxStall : g = loc[r].lag /\ a = loc[r].age
      BY <1>3
    <2>2. TTL - g - a \in Nat
      BY ConstantsAssumption
    <2> QED BY <1>2, <2>1, <2>2
  <1>5. \A q \in Runners : Fresh(q) /\ ~Expired(loc[q].age)
    <2> SUFFICES ASSUME NEW q \in Runners PROVE Fresh(q) /\ ~Expired(loc[q].age)
      OBVIOUS
    <2>1. PICK a \in 0..MaxStall, l \in Nat : a = loc[q].age /\ l = lock.left
      BY <1>3, <1>4
    <2>2. l + a >= 0 /\ ~(l + a < 0)
      BY ConstantsAssumption
    <2> QED BY <2>1, <2>2 DEF Fresh, Expired
  <1>6. \A q \in Runners : pc[q] \in {"mark", "cas"} => q = r
    <2> SUFFICES ASSUME NEW q \in Runners, pc[q] \in {"mark", "cas"} PROVE q = r
      OBVIOUS
    <2>1. lock = MyLock(q)
      BY DEF LeaseInv
    <2> QED BY <1>2, <2>1 DEF MyLock, LockRow
  <1> QED BY <1>1, <1>2, <1>4, <1>5, <1>6

\* A runner's part in a step that leaves the lock alone.
Keeps(r) ==
    \/ pc'[r] \notin {"mark", "cas", "lock", "peek", "steal", "expdel"}
    \/ pc'[r] \in {"lock", "peek", "steal"} /\ \A t \in TaskIds : ~Runs(t)'
    \/ pc'[r] = "expdel" /\ ~Runs(loc[r].seen)' /\ loc'[r].seen = loc[r].seen
    \/ /\ loc'[r].age = loc[r].age /\ loc'[r].lag = loc[r].lag /\ loc'[r].id = loc[r].id
       /\ pc'[r] \in {"mark", "cas"} => pc[r] \in {"mark", "cas"}
       /\ pc'[r] \in {"lock", "peek", "steal"} => pc[r] \in {"lock", "peek", "steal"}
       /\ pc'[r] = "expdel" => pc[r] = "expdel" /\ loc'[r].seen = loc[r].seen

LEMMA LockLeft ==
    ASSUME TypeOK, LeaseInv, lock' = lock, \A r \in Runners : Keeps(r),
           \A t \in TaskIds : Runs(t)' => Runs(t)
    PROVE  LeaseInv'
  <1>0. lock.task \in 0..MaxTasks /\ \A t : Runs(t)' => t \in TaskIds
    BY DEF TypeOK, Runs
  <1>1. (\A t \in TaskIds : Runs(t) => lock.task = t)'
    BY DEF LeaseInv
  <1>2. ASSUME NEW r \in Runners, pc'[r] \in {"mark", "cas"}
        PROVE  lock' = MyLock(r)' /\ \A t \in TaskIds : ~Runs(t)'
    <2>1. /\ loc'[r].age = loc[r].age /\ loc'[r].lag = loc[r].lag /\ loc'[r].id = loc[r].id
          /\ pc[r] \in {"mark", "cas"}
      BY <1>2 DEF Keeps
    <2>2. lock = MyLock(r) /\ \A t \in TaskIds : ~Runs(t)
      BY <2>1 DEF LeaseInv
    <2> QED BY <2>1, <2>2 DEF MyLock, LockRow
  <1>3. ASSUME NEW r \in Runners, pc'[r] \in {"lock", "peek", "steal"}, Runs(lock.task)'
        PROVE  Fresh(r)'
    <2>0. PICK u : u = lock.task
      OBVIOUS
    <2>1. u \in TaskIds /\ task'[u].status = "running" /\ Runs(u)
      BY <1>3, <2>0 DEF Runs
    <2>2. loc'[r].age = loc[r].age /\ pc[r] \in {"lock", "peek", "steal"}
      BY <1>3, <2>0, <2>1 DEF Keeps, Runs
    <2> QED BY <2>0, <2>1, <2>2 DEF LeaseInv, Fresh
  <1>4. ASSUME NEW r \in Runners, pc'[r] = "expdel", Runs(lock.task)', lock'.task = loc'[r].seen
        PROVE  Fresh(r)'
    <2>0. PICK u : u = lock.task
      OBVIOUS
    <2>1. u \in TaskIds /\ task'[u].status = "running" /\ Runs(u)
      BY <1>4, <2>0 DEF Runs
    <2>2. loc'[r].age = loc[r].age /\ pc[r] = "expdel" /\ loc'[r].seen = loc[r].seen
      BY <1>4, <2>0, <2>1 DEF Keeps, Runs
    <2> QED BY <1>4, <2>0, <2>1, <2>2 DEF LeaseInv, Fresh
  <1> QED BY <1>1, <1>2, <1>3, <1>4 DEF LeaseInv

\* The lock is given up while nothing runs.
LEMMA LockGone ==
    ASSUME \A t \in TaskIds : ~Runs(t)', \A r \in Runners : pc'[r] \notin {"mark", "cas"}
    PROVE  LeaseInv'
  BY DEF LeaseInv, Runs

\* The lock is taken by r while nothing runs.
LEMMA LockTaken ==
    ASSUME \A t \in TaskIds : ~Runs(t)', NEW r \in Runners, lock' = MyLock(r), loc' = loc,
           \A q \in Runners : pc'[q] \in {"mark", "cas"} => q = r
    PROVE  LeaseInv'
  BY DEF LeaseInv, Runs, MyLock

\* The lock is fresh for everybody, on a row that begins to run or goes on.
LEMMA LockFresh ==
    ASSUME TypeOK', lock'.left >= 0, \A t \in TaskIds : Runs(t)' => lock'.task = t,
           \A r \in Runners : pc'[r] \notin {"mark", "cas"}
    PROVE  LeaseInv'
  <1>1. \A r \in Runners : loc'[r].age \in Nat
    BY ConstantsAssumption DEF TypeOK, Locs
  <1>2. lock'.left \in Int
    BY DEF TypeOK, MinLeft
  <1>3. \A r \in Runners : Fresh(r)'
    BY <1>1, <1>2 DEF Fresh
  <1> QED BY <1>3 DEF LeaseInv

LEMMA NextLeaseInv ==
    ASSUME Legacy <= 1, MaxStall + MaxLag <= TTL, IInv, RowsInv, LeaseInv, [Next]_vars
    PROVE  LeaseInv'
  <1> USE DEF handlerVars, taskVars
  <1>0. /\ TypeOK /\ HandlerInv /\ TypeOK'
        /\ \A r \in Runners : pc[r] \in Claiming => loc[r].id \in TaskIds
    BY NextTypeOK DEF IInv, HandlerInv
  <1>p. pc \in [Runners \union Callers ->
                {"off", "dead", "idle", "create"} \union Claiming \union Expiring]
        /\ loc \in [Runners -> Locs]
    BY <1>0 DEF TypeOK
  <1>1. ASSUME NEW p \in Runners \union Callers, NEW label \in {"off", "dead", "idle", "create"},
               Goto(p, label), lock' = lock,
               \A r \in Runners \ {p} : loc'[r] = loc[r],
               \A t \in TaskIds : Runs(t)' => Runs(t)
        PROVE  LeaseInv'
    <2>1. pc'[p] = label /\ \A r \in Runners \ {p} : pc'[r] = pc[r]
      BY <1>p, <1>1 DEF Goto
    <2>2. \A r \in Runners : Keeps(r)
      BY <1>1, <2>1 DEF Keeps
    <2> QED BY <1>0, <1>1, <2>2, LockLeft
  <1>2. ASSUME NEW p \in Runners \union Callers, CreateSystemTask(p) PROVE LeaseInv'
    <2>1. PICK t \in TaskIds : SetStatus(t, "pending", TRUE, NoOne)
      BY <1>2 DEF CreateSystemTask
    <2>2. \A u \in TaskIds : Runs(u)' => Runs(u)
      BY <1>0, <2>1, SetStatusType DEF Runs, Status
    <2> QED BY <1>1, <1>2, <2>2 DEF CreateSystemTask
  <1>3. ASSUME NEW p \in Runners \union Callers,
               StartRunner(p) \/ runSystemTaskScheduler(p) \/ EnqueueSystemTask(p)
                 \/ CreateRefused(p) \/ CreateError(p)
        PROVE  LeaseInv'
    <2>1. lock' = lock /\ loc' = loc /\ task' = task
      BY <1>3 DEF StartRunner, runSystemTaskScheduler, EnqueueSystemTask, CreateRefused, CreateError
    <2>2. \E label \in {"off", "dead", "idle", "create"} : Goto(p, label)
      BY <1>3 DEF StartRunner, runSystemTaskScheduler, EnqueueSystemTask, CreateRefused, CreateError
    <2>3. \A u \in TaskIds : Runs(u)' => Runs(u)
      BY <2>1 DEF Runs
    <2> QED BY <1>1, <2>1, <2>2, <2>3
  <1>4. ASSUME NEW r \in Runners, FindPending(r) PROVE LeaseInv'
    <2>1. PICK t \in TaskIds : task[t].status = "pending"
      BY <1>4 DEF FindPending
    <2>2. \A u \in TaskIds : ~Runs(u)
      <3> SUFFICES ASSUME NEW u \in TaskIds, Runs(u) PROVE FALSE
        OBVIOUS
      <3>1. t \in ActiveRows /\ u \in ActiveRows /\ task[u].status = "running"
        BY <2>1 DEF ActiveRows, Runs
      <3> QED BY <2>1, <3>1, OneAtATime
    <2>3. lock' = lock /\ task' = task
      BY <1>4 DEF FindPending
    <2>4. pc'[r] = "lock" /\ \A q \in Runners \ {r} : pc'[q] = pc[q] /\ loc'[q] = loc[q]
      BY <1>p, <1>4 DEF FindPending, Goto
    <2>5. \A u \in TaskIds : ~Runs(u)'
      BY <2>2, <2>3 DEF Runs
    <2>6. \A q \in Runners : Keeps(q)
      BY <2>4, <2>5 DEF Keeps
    <2> QED BY <1>0, <2>3, <2>5, <2>6, LockLeft
  <1>5. ASSUME NEW r \in Runners, AcquireCreate(r) PROVE LeaseInv'
    <2>1. task' = task /\ loc' = loc /\ pc[r] = "lock"
      BY <1>5 DEF AcquireCreate
    <2>2. CASE lock.task = 0
      <3>1. \A t \in TaskIds : ~Runs(t)'
        BY <2>1, <2>2 DEF LeaseInv, Runs, TaskIds
      <3>2. \A q \in Runners : pc[q] \notin {"mark", "cas"}
        <4> SUFFICES ASSUME NEW q \in Runners, pc[q] \in {"mark", "cas"} PROVE FALSE
          OBVIOUS
        <4>1. lock.task = loc[q].id
          BY <1>0, HolderFacts
        <4> QED BY <1>0, <2>2, <4>1 DEF Claiming, TaskIds
      <3>3. lock' = MyLock(r) /\ \A q \in Runners \ {r} : pc'[q] = pc[q]
        BY <1>p, <1>5, <2>2 DEF AcquireCreate, Goto
      <3> QED BY <2>1, <3>1, <3>2, <3>3, LockTaken
    <2>3. CASE lock.task # 0
      <3>1. lock' = lock /\ pc'[r] = "peek" /\ \A q \in Runners \ {r} : pc'[q] = pc[q]
        BY <1>p, <1>5, <2>3 DEF AcquireCreate, Goto
      <3>2. \A q \in Runners : Keeps(q)
        BY <2>1, <3>1 DEF Keeps
      <3>3. \A t \in TaskIds : Runs(t)' => Runs(t)
        BY <2>1 DEF Runs
      <3> QED BY <1>0, <3>1, <3>2, <3>3, LockLeft
    <2> QED BY <2>2, <2>3
  <1>6. ASSUME NEW r \in Runners, EndPass(r), lock' = lock, \A t \in TaskIds : Runs(t)' => Runs(t)
        PROVE  LeaseInv'
    <2>1. Goto(r, "idle") /\ \A q \in Runners \ {r} : loc'[q] = loc[q]
      BY <1>0, <1>6, EndPassType DEF EndPass
    <2> QED BY <1>1, <1>6, <2>1
  <1>7. ASSUME NEW r \in Runners, AcquirePeek(r) PROVE LeaseInv'
    <2>1. task' = task /\ lock' = lock /\ pc[r] = "peek"
      BY <1>7 DEF AcquirePeek
    <2>2. \A t \in TaskIds : Runs(t)' => Runs(t)
      BY <2>1 DEF Runs
    <2>3. CASE Expired(loc[r].age)
      <3>1. loc' = [loc EXCEPT ![r].seen = lock.task] /\ Goto(r, "steal")
        BY <1>7, <2>3 DEF AcquirePeek
      <3>2. /\ pc'[r] = "steal" /\ \A q \in Runners \ {r} : pc'[q] = pc[q] /\ loc'[q] = loc[q]
            /\ loc'[r].age = loc[r].age /\ loc'[r].lag = loc[r].lag /\ loc'[r].id = loc[r].id
        BY <1>p, <3>1 DEF Goto, Locs
      <3>3. \A q \in Runners : Keeps(q)
        BY <2>1, <3>2 DEF Keeps
      <3> QED BY <1>0, <2>1, <2>2, <3>3, LockLeft
    <2>4. CASE ~Expired(loc[r].age)
      BY <1>6, <1>7, <2>1, <2>2, <2>4 DEF AcquirePeek
    <2> QED BY <2>3, <2>4
  <1>8. ASSUME NEW r \in Runners, AcquireSteal(r) PROVE LeaseInv'
    <2>1. task' = task /\ pc[r] = "steal"
      BY <1>8 DEF AcquireSteal
    <2>2. CASE Expired(loc[r].age)
      <3>1. ~Fresh(r) /\ lock.task # 0
        <4>1. loc[r].age \in Nat /\ lock.left \in Int
          BY <1>0, ConstantsAssumption DEF TypeOK, Locs, MinLeft
        <4> QED BY <2>2, <4>1 DEF Expired, Fresh
      <3>2. ~Runs(lock.task)
        BY <2>1, <3>1 DEF LeaseInv
      <3>3. \A t \in TaskIds : ~Runs(t)'
        BY <2>1, <3>2 DEF LeaseInv, Runs
      <3>4. \A q \in Runners : pc[q] \notin {"mark", "cas"}
        BY <1>0, <2>2, HolderFacts
      <3>5. lock' = MyLock(r) /\ loc' = loc /\ \A q \in Runners \ {r} : pc'[q] = pc[q]
        BY <1>p, <1>8, <2>2 DEF AcquireSteal, Goto
      <3> QED BY <3>3, <3>4, <3>5, LockTaken
    <2>3. CASE ~Expired(loc[r].age)
      <3>1. lock' = lock /\ EndPass(r) /\ \A t \in TaskIds : Runs(t)' => Runs(t)
        BY <1>8, <2>1, <2>3 DEF AcquireSteal, Runs
      <3> QED BY <1>6, <3>1
    <2> QED BY <2>2, <2>3
  <1>9. ASSUME NEW r \in Runners, NEW t, MarkSystemTaskLeaseExpired(t)
        PROVE  /\ \A u \in TaskIds : Runs(u)' => Runs(u)
               /\ ~Runs(t)'
    <2>1. \A u \in TaskIds : \/ task'[u] = task[u]
                             \/ task[u].status = "running" /\ task'[u].status = "failed"
      BY <1>0, <1>9, MarkType
    <2>2. \A u \in TaskIds : Runs(u)' => Runs(u)
      BY <2>1 DEF Runs
    <2>3. CASE t \in TaskIds /\ task[t].status = "running"
      <3>1. SetStatus(t, "failed", FALSE, task[t].by)
        BY <1>9, <2>3 DEF MarkSystemTaskLeaseExpired
      <3>2. task'[t].status = "failed"
        BY <1>0, <2>3, <3>1 DEF SetStatus, Row, TypeOK
      <3> QED BY <2>2, <3>2 DEF Runs
    <2>4. CASE ~(t \in TaskIds /\ task[t].status = "running")
      BY <1>9, <2>2, <2>4 DEF MarkSystemTaskLeaseExpired, Runs
    <2> QED BY <2>3, <2>4
  <1>10. ASSUME NEW r \in Runners, ClaimMark(r) PROVE LeaseInv'
    <2>1. /\ lock' = lock /\ loc' = loc /\ pc[r] = "mark" /\ pc'[r] = "cas"
          /\ \A q \in Runners \ {r} : pc'[q] = pc[q]
      BY <1>p, <1>10 DEF ClaimMark, Goto
    <2>2. \A u \in TaskIds : Runs(u)' => Runs(u)
      BY <1>9, <1>10 DEF ClaimMark
    <2>3. \A q \in Runners : Keeps(q)
      BY <2>1 DEF Keeps
    <2> QED BY <1>0, <2>1, <2>2, <2>3, LockLeft
  <1>11. ASSUME NEW r \in Runners, ClaimSystemTask(r) \/ ClaimRereadError(r) PROVE LeaseInv'
    <2>1. PICK t : t = loc[r].id
      OBVIOUS
    <2>2. /\ pc[r] = "cas" /\ t \in TaskIds /\ SetStatus(t, "running", task[t].active, r)
          /\ EndPass(r) /\ lock' = lock
      BY <1>0, <1>11, <2>1 DEF ClaimSystemTask, ClaimRereadError, Claiming
    <2>3. /\ lock.task = t /\ lock.left \in Nat /\ \A u \in TaskIds : ~Runs(u)
          /\ \A q \in Runners : pc[q] \in {"mark", "cas"} => q = r
      BY <1>0, <2>1, <2>2, HolderFacts
    <2>4. \A u \in TaskIds \ {t} : task'[u] = task[u]
      BY <1>0, <2>2 DEF SetStatus, TypeOK
    <2>5. \A u \in TaskIds : Runs(u)' => lock'.task = u
      BY <2>2, <2>3, <2>4 DEF Runs
    <2>6. \A q \in Runners : pc'[q] \notin {"mark", "cas"}
      BY <1>0, <2>2, <2>3, EndPassType
    <2>7. lock'.left >= 0
      BY <2>2, <2>3
    <2> QED BY <1>0, <2>5, <2>6, <2>7, LockFresh
  <1>12. ASSUME NEW r \in Runners, pc[r] \in {"mark", "cas"}, EndPass(r), task' = task
         PROVE  LeaseInv'
    <2>1. /\ \A u \in TaskIds : ~Runs(u)
          /\ \A q \in Runners : pc[q] \in {"mark", "cas"} => q = r
      BY <1>0, <1>12, HolderFacts
    <2>2. \A u \in TaskIds : ~Runs(u)'
      BY <1>12, <2>1 DEF Runs
    <2>3. \A q \in Runners : pc'[q] \notin {"mark", "cas"}
      BY <1>0, <1>12, <2>1, EndPassType
    <2> QED BY <2>2, <2>3, LockGone
  <1>13. ASSUME NEW r \in Runners, ClaimLost(r) \/ ClaimError(r) PROVE LeaseInv'
    <2>1. EndPass(r) /\ task' = task /\ (pc[r] \in {"mark", "cas"} \/ lock' = lock)
      BY <1>13 DEF ClaimLost, ClaimError
    <2>2. \A u \in TaskIds : Runs(u)' => Runs(u)
      BY <2>1 DEF Runs
    <2> QED BY <1>6, <1>12, <2>1, <2>2
  <1>14. ASSUME NEW r \in Runners, ExpireScan(r) PROVE LeaseInv'
    <2>1. /\ lock' = lock /\ task' = task /\ pc'[r] = "expmark"
          /\ \A q \in Runners \ {r} : pc'[q] = pc[q] /\ loc'[q] = loc[q]
      BY <1>p, <1>14 DEF ExpireScan, Goto
    <2>2. \A q \in Runners : Keeps(q)
      BY <2>1 DEF Keeps
    <2>3. \A u \in TaskIds : Runs(u)' => Runs(u)
      BY <2>1 DEF Runs
    <2> QED BY <1>0, <2>1, <2>2, <2>3, LockLeft
  <1>15. ASSUME NEW r \in Runners, ExpireMark(r) PROVE LeaseInv'
    <2>1. PICK t : t = loc[r].seen
      OBVIOUS
    <2>2. /\ lock' = lock /\ loc' = loc /\ pc'[r] = "expdel"
          /\ \A q \in Runners \ {r} : pc'[q] = pc[q]
      BY <1>p, <1>15 DEF ExpireMark, Goto
    <2>3. (\A u \in TaskIds : Runs(u)' => Runs(u)) /\ ~Runs(t)'
      BY <1>9, <1>15, <2>1 DEF ExpireMark
    <2>4. ~(t \in TaskIds /\ task'[t].status = "running")
      BY <2>3 DEF Runs
    <2>5. ~Runs(loc[r].seen)'
      BY <2>1, <2>2, <2>4 DEF Runs
    <2>6. \A q \in Runners : Keeps(q)
      BY <2>2, <2>5 DEF Keeps
    <2> QED BY <1>0, <2>2, <2>3, <2>6, LockLeft
  <1>16. ASSUME NEW r \in Runners, ExpireDelete(r) PROVE LeaseInv'
    <2>1. pc[r] = "expdel" /\ EndPass(r) /\ task' = task
      BY <1>16 DEF ExpireDelete
    <2>2. CASE lock' = lock
      BY <1>6, <2>1, <2>2 DEF Runs
    <2>3. CASE lock' # lock
      <3>1. lock.task = loc[r].seen /\ Expired(loc[r].age)
        BY <1>16, <2>3 DEF ExpireDelete
      <3>2. ~Fresh(r)
        <4>1. loc[r].age \in Nat /\ lock.left \in Int
          BY <1>0, ConstantsAssumption DEF TypeOK, Locs, MinLeft
        <4> QED BY <3>1, <4>1 DEF Expired, Fresh
      <3>3. ~Runs(lock.task)
        BY <2>1, <3>1, <3>2 DEF LeaseInv
      <3>4. \A u \in TaskIds : ~Runs(u)'
        BY <2>1, <3>3 DEF LeaseInv, Runs
      <3>5. \A q \in Runners : pc[q] \notin {"mark", "cas"}
        BY <1>0, <3>1, HolderFacts
      <3>6. \A q \in Runners : pc'[q] \notin {"mark", "cas"}
        BY <1>0, <2>1, <3>5, EndPassType
      <3> QED BY <3>4, <3>6, LockGone
    <2> QED BY <2>2, <2>3
  <1>17. ASSUME NEW r \in Runners, ExpireError(r) PROVE LeaseInv'
    BY <1>6, <1>17 DEF ExpireError, Runs
  <1>18. ASSUME NEW r \in Runners, NEW t \in TaskIds, RenewSystemTaskLock(r, t) PROVE LeaseInv'
    <2>1. <<r, t>> \in running \union finished
      BY <1>18 DEF RenewSystemTaskLock, RowsInv
    <2>2. PICK lag \in 0..MaxLag : /\ lock.task = t /\ lock.by = r
                                   /\ lock' = [lock EXCEPT !.left = TTL - lag]
      BY <1>18 DEF RenewSystemTaskLock, HoldsLease
    <2>3. pc' = pc /\ loc' = loc /\ task' = task
      BY <1>18 DEF RenewSystemTaskLock
    <2>4. lock'.task = lock.task /\ lock'.left = TTL - lag
      BY <1>0, <2>2 DEF TypeOK
    <2>5. lock'.left >= 0
      BY <2>4, ConstantsAssumption
    <2>6. \A q \in Runners : pc'[q] \notin {"mark", "cas"}
      <3> SUFFICES ASSUME NEW q \in Runners, pc[q] \in {"mark", "cas"} PROVE FALSE
        BY <2>3
      <3>1. q = r /\ loc[r].id = t
        BY <1>0, <2>2, HolderFacts
      <3> QED BY <1>0, <2>1, <3>1 DEF HandlerInv, Claiming
    <2>7. \A u \in TaskIds : Runs(u)' => lock'.task = u
      BY <2>3, <2>4 DEF LeaseInv, Runs
    <2> QED BY <1>0, <2>5, <2>6, <2>7, LockFresh
  <1>19. ASSUME NEW r \in Runners, NEW t \in TaskIds,
                HeartbeatLost(r, t) \/ HeartbeatError(r, t) \/ HandlerError(r, t)
                  \/ HandlerLockLost(r, t)
         PROVE  LeaseInv'
    <2>1. pc' = pc /\ loc' = loc /\ task' = task /\ lock' = lock
      BY <1>19 DEF HeartbeatLost, HeartbeatError, HandlerError, HandlerLockLost
    <2> QED BY <1>0, <2>1, LockLeft DEF Keeps, Runs
  <1>20. ASSUME NEW r \in Runners, NEW t \in TaskIds, FinishSystemTask(r, t) PROVE LeaseInv'
    <2>1. PICK st \in Terminal : SetStatus(t, st, FALSE, r)
      BY <1>20, FinishSets, ZenonT(30)
    <2>2. pc' = pc /\ loc' = loc /\ lock' = lock
      BY <1>20 DEF FinishSystemTask
    <2>3. \A u \in TaskIds : Runs(u)' => Runs(u)
      BY <1>0, <2>1, SetStatusType DEF Runs, Status, Terminal
    <2>4. \A q \in Runners : Keeps(q)
      BY <2>2 DEF Keeps
    <2> QED BY <1>0, <2>2, <2>3, <2>4, LockLeft
  <1>21. ASSUME NEW r \in Runners, NEW t \in TaskIds, FinishRelease(r, t) PROVE LeaseInv'
    <2>1. pc' = pc /\ loc' = loc /\ task' = task /\ <<r, t>> \in finished
      BY <1>21 DEF FinishRelease
    <2>2. CASE lock' = lock
      BY <1>0, <2>1, <2>2, LockLeft DEF Keeps, Runs
    <2>3. CASE lock' # lock
      <3>1. lock.task = t /\ lock.by = r
        BY <1>21, <2>3 DEF FinishRelease, ReleaseSystemTaskLock
      <3>2. task[t].status \in Terminal
        BY <2>1 DEF RowsInv
      <3>3. \A u \in TaskIds : ~Runs(u)'
        BY <2>1, <3>1, <3>2 DEF LeaseInv, Runs, Terminal
      <3>4. \A q \in Runners : pc'[q] \notin {"mark", "cas"}
        <4> SUFFICES ASSUME NEW q \in Runners, pc[q] \in {"mark", "cas"} PROVE FALSE
          BY <2>1
        <4>1. q = r /\ loc[r].id = t
          BY <1>0, <3>1, HolderFacts
        <4> QED BY <1>0, <2>1, <4>1 DEF HandlerInv, Claiming
      <3> QED BY <3>3, <3>4, LockGone
    <2> QED BY <2>2, <2>3
  <1>22. ASSUME NEW r \in Runners, Crash(r) PROVE LeaseInv'
    <2>1. Goto(r, "dead") /\ lock' = lock /\ \A q \in Runners \ {r} : loc'[q] = loc[q]
      BY <1>p, <1>22 DEF Crash
    <2>2. \A u \in TaskIds : Runs(u)' => Runs(u)
      BY <1>22 DEF Crash, Runs
    <2> QED BY <1>1, <2>1, <2>2
  <1>23. CASE Tick
    <2>1. pc' = pc /\ \A u \in TaskIds : Runs(u)' <=> Runs(u)
      BY <1>0, <1>23 DEF Tick, TypeOK, Runs
    <2>2. \A r \in Runners : /\ loc[r].age \in 0..MaxStall /\ loc[r].lag \in 0..MaxLag
                             /\ loc'[r].id = loc[r].id /\ loc'[r].seen = loc[r].seen
                             /\ loc'[r].lag = loc[r].lag
                             /\ InPass(r) => loc'[r].age = loc[r].age + 1 /\ loc[r].age < MaxStall
      BY <1>0, <1>23 DEF Tick, TypeOK, Locs
    <2>3. /\ lock.left \in Int /\ lock'.task = lock.task /\ lock'.by = lock.by
          /\ lock'.left \in Int /\ lock'.left >= lock.left - 1
          /\ lock.task # 0 /\ lock.left > MinLeft => lock' = [lock EXCEPT !.left = lock.left - 1]
      <3>1. lock.left \in Int /\ MinLeft \in Int
        BY <1>0, ConstantsAssumption DEF TypeOK, MinLeft
      <3> QED BY <1>0, <1>23, <3>1 DEF Tick, TypeOK
    <2>4. ASSUME NEW r \in Runners, InPass(r), Fresh(r) PROVE Fresh(r)'
      <3>1. PICK a, b, l, m \in Int : a = loc[r].age /\ b = loc'[r].age /\ l = lock.left /\ m = lock'.left
        BY <1>0, <2>2, <2>3, <2>4, ConstantsAssumption DEF TypeOK, Locs
      <3>2. b = a + 1 /\ m >= l - 1 /\ l + a >= 0
        BY <2>2, <2>3, <2>4, <3>1 DEF Fresh
      <3>3. m + b >= 0
        BY <3>2
      <3> QED BY <3>1, <3>3 DEF Fresh
    <2>5. ASSUME NEW r \in Runners, pc[r] \in {"mark", "cas"}
          PROVE  lock' = MyLock(r)'
      <3>1. /\ lock = MyLock(r) /\ lock.task = loc[r].id /\ lock.left \in Nat
            /\ lock.left = TTL - loc[r].lag - loc[r].age
        BY <1>0, <2>5, HolderFacts
      <3>2. InPass(r) /\ loc[r].id \in TaskIds
        BY <1>0, <2>5 DEF InPass, Claiming
      <3>3. lock.left > MinLeft /\ lock.task # 0
        BY <3>1, <3>2, ConstantsAssumption DEF MinLeft, TaskIds
      <3>4. lock' = [lock EXCEPT !.left = lock.left - 1]
        BY <2>3, <3>3
      <3>5. PICK i, g, a : i = loc[r].id /\ g = loc[r].lag /\ a = loc[r].age
        OBVIOUS
      <3>6. g \in Nat /\ a \in Nat
        BY <2>2, <3>5, ConstantsAssumption
      <3>7. loc'[r].id = i /\ loc'[r].lag = g /\ loc'[r].age = a + 1
        BY <2>2, <3>2, <3>5
      <3>8. lock = [task |-> i, by |-> r, left |-> TTL - g - a]
        BY <3>1, <3>5 DEF MyLock, LockRow
      <3>9. lock' = [task |-> i, by |-> r, left |-> (TTL - g - a) - 1]
        BY <3>4, <3>8
      <3>10. (TTL - g - a) - 1 = TTL - g - (a + 1)
        BY <3>6, ConstantsAssumption
      <3>11. MyLock(r)' = [task |-> i, by |-> r, left |-> TTL - g - (a + 1)]
        BY <3>7 DEF MyLock, LockRow
      <3> QED BY <3>9, <3>10, <3>11
    <2>6. \A r \in Runners : pc[r] \in {"lock", "peek", "steal", "expdel"} => InPass(r)
      BY DEF InPass, Claiming, Expiring
    <2>7. Runs(lock.task)' <=> Runs(lock.task)
      <3>1. PICK u : u = lock.task
        OBVIOUS
      <3>2. (u \in TaskIds /\ task'[u].status = "running") <=> (u \in TaskIds /\ task[u].status = "running")
        BY <2>1 DEF Runs
      <3> QED BY <2>3, <3>1, <3>2 DEF Runs
    <2>8. (\A t \in TaskIds : Runs(t) => lock.task = t)'
      BY <2>1, <2>3 DEF LeaseInv
    <2>9. \A r \in Runners : pc'[r] \in {"mark", "cas"} =>
                lock' = MyLock(r)' /\ \A t \in TaskIds : ~Runs(t)'
      BY <2>1, <2>5 DEF LeaseInv
    <2>10. \A r \in Runners : pc'[r] \in {"lock", "peek", "steal"} /\ Runs(lock.task)' => Fresh(r)'
      BY <2>1, <2>4, <2>6, <2>7 DEF LeaseInv
    <2>11. \A r \in Runners : pc'[r] = "expdel" /\ Runs(lock.task)' /\ lock'.task = loc'[r].seen
                                => Fresh(r)'
      BY <2>1, <2>2, <2>3, <2>4, <2>6, <2>7 DEF LeaseInv
    <2> QED BY <2>8, <2>9, <2>10, <2>11 DEF LeaseInv
  <1>24. CASE UNCHANGED vars
    BY <1>0, <1>24, LockLeft DEF vars, Keeps, Runs
  <1> QED
    BY <1>2, <1>3, <1>4, <1>5, <1>7, <1>8, <1>10, <1>11, <1>13, <1>14, <1>15, <1>16, <1>17,
       <1>18, <1>19, <1>20, <1>21, <1>22, <1>23, <1>24
       DEF Next, RunnerStep, HandlerStep, Heartbeat, Fault

\* At the start nothing runs, and a legacy row is the only row.
LEMMA InitLeaseInv ==
    ASSUME Legacy <= 1, Init
    PROVE  RowsInv /\ LeaseInv
  <1> USE ConstantsAssumption
  <1>1. \A t \in TaskIds : /\ t <= Legacy => task[t].status = "pending"
                           /\ ~(t <= Legacy) => task[t].status = "absent"
    BY DEF Init, InitRow, Row
  <1>2. \A p \in Runners \union Callers : pc[p] \in {"off", "idle"}
    BY DEF Init
  <1>3. \A t, u \in TaskIds : t <= Legacy /\ u <= Legacy => t = u
    BY DEF TaskIds
  <1>4. RowsInv
    BY <1>1, <1>2, <1>3 DEF RowsInv, Init, Present, ActiveRows
  <1>5. LeaseInv
    BY <1>1, <1>2 DEF LeaseInv, Runs
  <1> QED BY <1>4, <1>5

\* No task is left running without its lock row, which is all that the stale-lock
\* pass looks at (ExpireStaleSystemTaskLocks): it would block its type for good.
\* This holds with at most one row from before active_key, if a claim takes no
\* longer than the lease it asked for.
THEOREM NothingOrphaned ==
    ASSUME Legacy <= 1, MaxStall + MaxLag <= TTL
    PROVE  Spec => []NoOrphan
  <1>1. Init => RowsInv /\ LeaseInv
    BY InitLeaseInv
  <1>2. IInv /\ RowsInv /\ LeaseInv /\ [Next]_vars => RowsInv' /\ LeaseInv'
    BY NextRowsInv, NextLeaseInv
  <1>3. LeaseInv => NoOrphan
    BY DEF LeaseInv, NoOrphan, Runs
  <1> QED BY InductiveInvariant, <1>1, <1>2, <1>3, PTL DEF Spec
===============================================================================
