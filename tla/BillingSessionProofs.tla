------------------------ MODULE BillingSessionProofs ------------------------
(***************************************************************************)
(* Proofs about BillingSession.  The invariant follows the money of one    *)
(* request: for every place its session can be in, how much the funding    *)
(* source and the token have paid compared with what the session remembers *)
(* (pre, tok, extra, fund), exactly when no statement of it failed, and at *)
(* least as much otherwise.                                                *)
(* A second invariant, AccountInv, compares the rows of the subscriptions  *)
(* with the sum of what the requests have taken from them.                 *)
(***************************************************************************)
EXTENDS BillingSession, FiniteSetTheorems, TLAPS

Opening == {"new", "hassub", "wallet", "sub", "overflow", "pretok", "pretokdec"}
Rolling == {"backinsuf", "backerr"}
Live == {"open", "resfund", "setfund", "turnfund", "turntok", "ended"}
Reserving == {"restok", "restokdec", "resback"}
Refunding == {"refund", "recopen", "recsave", "extra", "rtok"}

\* What Refund would return to the funding source, and that plus the reserve
\* that the token has not agreed to yet.
Held(r) == fund[r] + IF funding[r] = "subscription" THEN extra[r] ELSE 0
HeldReserving(r) ==
    Held(r) + IF funding[r] = "subscription" THEN goal[r] - pre[r] ELSE 0

\* What is left to return to the funding source.
Due(r) ==
    IF pc[r] = "recopen" \/ (pc[r] = "refund" /\ record[r] # "refunded") THEN Held(r)
    ELSE IF pc[r] \in {"refund", "recsave", "extra"} THEN extra[r]
    ELSE 0

\* The fields of the session.
Fields(r) ==
    /\ pc[r] \in Opening \union Rolling \union {"prefund"} =>
            fund[r] = 0 /\ extra[r] = 0 /\ pre[r] = 0
    /\ pc[r] \in Opening => tok[r] = 0
    /\ pc[r] = "prefund" => tok[r] = amount[r]
    /\ pc[r] \in Live \union Reserving \union {"settok"} => tok[r] = pre[r]
    /\ pc[r] \in Live => Held(r) >= pre[r]
    /\ pc[r] \in Reserving => HeldReserving(r) >= goal[r]
    /\ pc[r] \in Reserving \union {"resfund"} => goal[r] > pre[r]
    /\ pc[r] \in Live \union Reserving /\ funding[r] = "subscription" =>
            fund[r] + extra[r] = pre[r]
    /\ pc[r] \in {"recopen", "recsave", "extra"} => funding[r] = "subscription"
    /\ pc[r] \in TokenOps \union {"restok"} => r \notin Playground
    /\ pc[r] \notin Refunding \union Done => record[r] # "refunded"
    /\ pc[r] \in {"turnfund", "turntok", "ended"} => r \in Realtime

\* What has been taken is at least what may be given back.
AtLeast(r) ==
    /\ charged[r] >= 0 /\ tcharged[r] >= 0
    /\ pc[r] \in Live => charged[r] >= Held(r)
    /\ pc[r] \in Reserving => charged[r] >= HeldReserving(r)
    /\ pc[r] \in Refunding /\ funding[r] = "subscription" => charged[r] >= Due(r)
    /\ pc[r] = "refund" /\ funding[r] # "subscription" => charged[r] >= fund[r]
    /\ pc[r] \in Live \union Reserving \union Refunding \union Rolling
                      \union {"prefund", "settok"} /\ r \notin Playground =>
            tcharged[r] >= tok[r]

\* A playground request takes nothing from the token.
Paid(r, n) == IF r \in Playground THEN 0 ELSE n

\* What has been taken, exactly, from a request that met no failure.
Exactly(r) ==
    /\ pc[r] \in Opening \union Rolling \union {"prefund"} => charged[r] = 0
    /\ pc[r] \in Opening => tcharged[r] = 0
    /\ pc[r] \in Rolling \union Refunding \union {"prefund"} =>
            tcharged[r] = Paid(r, tok[r])
    /\ pc[r] \in Live => charged[r] = pre[r] /\ Held(r) = pre[r]
    /\ pc[r] \in Reserving => charged[r] = goal[r] /\ HeldReserving(r) = goal[r]
    /\ pc[r] \in Live \union Reserving \union {"settok", "unsettled"} =>
            tcharged[r] = Paid(r, pre[r])
    /\ pc[r] \in {"settok", "settled"} => charged[r] = goal[r]
    /\ pc[r] = "settled" => tcharged[r] = Paid(r, goal[r])
    /\ pc[r] = "unsettled" => charged[r] = pre[r]
    /\ pc[r] = "refund" => record[r] # "refunded"
    /\ pc[r] \in Refunding => charged[r] = Due(r)
    /\ pc[r] \in {"refunded", "rejected"} => charged[r] = 0 /\ tcharged[r] = 0

Ledger(r) ==
    /\ Fields(r)
    /\ ~CommitFaults => AtLeast(r)
    /\ ~faulty[r] /\ r \notin Realtime => Exactly(r)

\* The open transaction of a session: the row it has read is within its plan,
\* with the amount a pre-consume is about to add, and the status it will write
\* back is the one of the row.
Reading(r) ==
    LET s == snap[r].sub IN
    s # 0 =>
        /\ funding[r] = "subscription" /\ pc[r] \in FundOps \ {"refund"}
        /\ snap[r].status \in Statuses
        /\ Total[s] # 0 =>
            snap[r].used + (IF pc[r] = "prefund" THEN amount[r] ELSE 0) <= Total[s]
        /\ Isolated => status[s] \in {snap[r].status, "expired"}

IInv ==
    /\ TypeOK /\ WithinPlan
    /\ \A r \in Requests : Ledger(r) /\ Reading(r)

-----------------------------------------------------------------------------
(* The part of a step of request r that does not depend on what it does.   *)

Snaps == [sub : 0..NSubs, used : Nat, status : Statuses \union {"none"}]

\* The types of what belongs to r.
Typed(r) ==
    /\ record[r] \in {"none", "consumed", "refunded"} /\ pc[r] \in Pcs
    /\ asked[r] \in Nat /\ amount[r] \in Nat /\ tquota[r] \in Int
    /\ funding[r] \in {"none", "wallet", "subscription"} /\ trusted[r] \in BOOLEAN
    /\ pre[r] \in Nat /\ tok[r] \in Nat /\ extra[r] \in Nat /\ fund[r] \in Nat
    /\ sid[r] \in 0..NSubs
    /\ snap[r] \in Snaps
    /\ goal[r] \in Nat /\ usage[r] \in Nat
    /\ tries[r] \in 0..MaxTries /\ faulty[r] \in BOOLEAN
    /\ charged[r] \in Int /\ tcharged[r] \in Int

\* The types of the rest.
TypedRest ==
    /\ wallet \in Int /\ token \in Int
    /\ used \in [Subs -> Nat] /\ status \in [Subs -> Statuses]
    /\ faults \in 0..MaxFaults /\ resets \in 0..MaxResets

\* Only what belongs to r changes.
Only(r) ==
    /\ record' = Set(record, r, record'[r]) /\ pc' = Set(pc, r, pc'[r])
    /\ asked' = Set(asked, r, asked'[r]) /\ amount' = Set(amount, r, amount'[r])
    /\ tquota' = Set(tquota, r, tquota'[r]) /\ funding' = Set(funding, r, funding'[r])
    /\ trusted' = Set(trusted, r, trusted'[r]) /\ pre' = Set(pre, r, pre'[r])
    /\ tok' = Set(tok, r, tok'[r]) /\ extra' = Set(extra, r, extra'[r])
    /\ fund' = Set(fund, r, fund'[r]) /\ sid' = Set(sid, r, sid'[r])
    /\ snap' = Set(snap, r, snap'[r]) /\ goal' = Set(goal, r, goal'[r])
    /\ usage' = Set(usage, r, usage'[r]) /\ tries' = Set(tries, r, tries'[r])
    /\ faulty' = Set(faulty, r, faulty'[r]) /\ charged' = Set(charged, r, charged'[r])
    /\ tcharged' = Set(tcharged, r, tcharged'[r])

LEMMA TypedAt ==
    ASSUME TypeOK, NEW r \in Requests
    PROVE  Typed(r) /\ TypedRest
BY DEF TypeOK, Typed, TypedRest, Snaps

LEMMA OnlyTypes ==
    ASSUME TypeOK, NEW r \in Requests, Only(r), Typed(r)', TypedRest'
    PROVE  TypeOK'
<1> USE DEF TypeOK, Typed, Only, Set
<1>1. record' \in [Requests -> {"none", "consumed", "refunded"}]
  OBVIOUS
<1>2. pc' \in [Requests -> Pcs]
  OBVIOUS
<1>3. funding' \in [Requests -> {"none", "wallet", "subscription"}]
  OBVIOUS
<1>4. sid' \in [Requests -> 0..NSubs]
  OBVIOUS
<1>5. tries' \in [Requests -> 0..MaxTries]
  OBVIOUS
<1>6. snap' \in [Requests -> Snaps]
  BY DEF Snaps
<1>7. asked' \in [Requests -> Nat] /\ amount' \in [Requests -> Nat]
  OBVIOUS
<1>8. pre' \in [Requests -> Nat] /\ tok' \in [Requests -> Nat]
  OBVIOUS
<1>9. extra' \in [Requests -> Nat] /\ fund' \in [Requests -> Nat]
  OBVIOUS
<1>10. goal' \in [Requests -> Nat] /\ usage' \in [Requests -> Nat]
  OBVIOUS
<1>11. tquota' \in [Requests -> Int]
  OBVIOUS
<1>12. charged' \in [Requests -> Int] /\ tcharged' \in [Requests -> Int]
  OBVIOUS
<1>13. trusted' \in [Requests -> BOOLEAN] /\ faulty' \in [Requests -> BOOLEAN]
  OBVIOUS
<1> QED
  BY <1>1, <1>2, <1>3, <1>4, <1>5, <1>6, <1>7, <1>8, <1>9, <1>10, <1>11, <1>12, <1>13
  DEF TypedRest, Snaps

\* A request that the step leaves alone keeps its part of the invariant.
LEMMA OthersKeep ==
    ASSUME TypeOK, NEW r \in Requests, Only(r), NEW q \in Requests, q # r,
           Isolated => status' = status, Ledger(q), Reading(q)
    PROVE  Ledger(q)' /\ Reading(q)'
<1>1. /\ pc'[q] = pc[q] /\ funding'[q] = funding[q] /\ amount'[q] = amount[q]
      /\ pre'[q] = pre[q] /\ tok'[q] = tok[q] /\ extra'[q] = extra[q]
      /\ fund'[q] = fund[q] /\ snap'[q] = snap[q] /\ goal'[q] = goal[q]
      /\ record'[q] = record[q] /\ faulty'[q] = faulty[q]
      /\ charged'[q] = charged[q] /\ tcharged'[q] = tcharged[q]
  BY DEF Only, Set, TypeOK
<1>2. Fields(q)'
  BY <1>1 DEF Ledger, Fields, Held, HeldReserving
<1>3. ~CommitFaults => AtLeast(q)'
  BY <1>1 DEF Ledger, AtLeast, Held, HeldReserving, Due
<1>4. ~faulty'[q] /\ q \notin Realtime => Exactly(q)'
  BY <1>1 DEF Ledger, Exactly, Held, HeldReserving, Due, Paid
<1>5. Reading(q)'
  BY <1>1 DEF Reading
<1> QED
  BY <1>2, <1>3, <1>4, <1>5 DEF Ledger

\* So a step of r has to keep only the part of r.
LEMMA StepKeeps ==
    ASSUME IInv, NEW r \in Requests, Only(r), Typed(r)', TypedRest', WithinPlan',
           Isolated => status' = status, Ledger(r)', Reading(r)'
    PROVE  IInv'
BY OnlyTypes, OthersKeep DEF IInv

LEMMA InitIInv == Init => IInv
<1> SUFFICES ASSUME Init PROVE IInv
  OBVIOUS
<1>1. TypeOK
  BY ConstantsAssumption DEF Init, TypeOK, NoSnap, Statuses, Pcs, MaxTries, Subs
<1>2. WithinPlan
  BY ConstantsAssumption DEF Init, WithinPlan
<1>3. ASSUME NEW r \in Requests PROVE Ledger(r) /\ Reading(r)
  BY DEF Init, NoSnap, Ledger, Fields, AtLeast, Exactly, Reading, Opening, Rolling,
         Live, Reserving, Refunding, Done, TokenOps, FundOps
<1> QED
  BY <1>1, <1>2, <1>3 DEF IInv

-----------------------------------------------------------------------------
(* An operation on the funding source, whichever source it is.             *)

\* It takes FundDelta(r) or fails; the failures that matter to the ledger are
\* failed statements, not refusals.
FundStep(r, res) ==
    /\ pc[r] \in FundOps /\ funding[r] \in {"wallet", "subscription"}
    /\ pc[r] = "refund" => funding[r] = "wallet"
    /\ res \in {"ok", "insufficient", "error"}
    /\ res = "insufficient" => pc[r] = "prefund"
    /\ AfterFund(r, res)
    /\ charged'[r] = IF res = "ok" THEN charged[r] + FundDelta(r) ELSE charged[r]
    /\ tcharged'[r] = tcharged[r] /\ goal'[r] = goal[r]
    /\ amount'[r] = amount[r] /\ funding'[r] = funding[r]
    /\ record'[r] = record[r] \/ (pc[r] = "prefund" /\ record'[r] = "consumed")
    /\ faulty[r] => faulty'[r]
    /\ res = "error" /\ pc[r] \notin {"resfund", "setfund", "turnfund"} => faulty'[r]

SessionTyped(r) ==
    /\ pc[r] \in Pcs /\ tries[r] \in 0..MaxTries
    /\ pre[r] \in Nat /\ tok[r] \in Nat /\ extra[r] \in Nat /\ fund[r] \in Nat

OnlySession(r) ==
    /\ pc' = Set(pc, r, pc'[r]) /\ tries' = Set(tries, r, tries'[r])
    /\ pre' = Set(pre, r, pre'[r]) /\ tok' = Set(tok, r, tok'[r])
    /\ extra' = Set(extra, r, extra'[r]) /\ fund' = Set(fund, r, fund'[r])

LEMMA FundStepKeeps ==
    ASSUME TypeOK, NEW r \in Requests, Ledger(r), NEW res, FundStep(r, res)
    PROVE  OnlySession(r) /\ SessionTyped(r)' /\ Ledger(r)'
<1> USE DEF FundStep, FundDelta, Goto, Set, holdVars, MaxTries
<1>0. Typed(r)
  BY TypedAt
<1>1. CASE pc[r] = "prefund"
  <2>1. OnlySession(r) /\ SessionTyped(r)'
    BY <1>0, <1>1 DEF AfterFund, AfterPreConsume, AfterInsufficient, OnlySession, SessionTyped, TypeOK,
       Typed, Ledger, Fields, Held, HeldReserving, Pcs, Live, Reserving, Done, FundOps,
       TokenOps, Opening, Rolling
  <2>2. Fields(r)'
    BY <1>0, <1>1 DEF AfterFund, AfterPreConsume, AfterInsufficient, TypeOK, Typed, Ledger, Fields, Held,
       HeldReserving, Opening, Rolling, Live, Reserving, Refunding, Done, TokenOps
  <2>3. ~CommitFaults => AtLeast(r)'
    BY <1>0, <1>1 DEF AfterFund, AfterPreConsume, AfterInsufficient, TypeOK, Typed, Ledger, Fields, AtLeast,
       Held, HeldReserving, Due, Opening, Rolling, Live, Reserving, Refunding, Done
  <2>4. ~faulty'[r] /\ r \notin Realtime => Exactly(r)'
    BY <1>0, <1>1 DEF AfterFund, AfterPreConsume, AfterInsufficient, TypeOK, Typed, Ledger, Fields, Exactly,
       Held, HeldReserving, Due, Paid, Opening, Rolling, Live, Reserving, Refunding, Done
  <2> QED
    BY <2>1, <2>2, <2>3, <2>4 DEF Ledger
<1>2. CASE pc[r] = "resfund"
  <2>1. OnlySession(r) /\ SessionTyped(r)'
    BY <1>0, <1>2 DEF AfterFund, AfterReserve, FinishReserve, OnlySession, SessionTyped, TypeOK,
       Typed, Ledger, Fields, Held, HeldReserving, Pcs, Live, Reserving, Done, FundOps,
       TokenOps, Opening, Rolling
  <2>2. Fields(r)'
    BY <1>0, <1>2 DEF AfterFund, AfterReserve, FinishReserve, TypeOK, Typed, Ledger, Fields, Held,
       HeldReserving, Opening, Rolling, Live, Reserving, Refunding, Done, TokenOps
  <2>3. ~CommitFaults => AtLeast(r)'
    BY <1>0, <1>2 DEF AfterFund, AfterReserve, FinishReserve, TypeOK, Typed, Ledger, Fields, AtLeast,
       Held, HeldReserving, Due, Opening, Rolling, Live, Reserving, Refunding, Done
  <2>4. ~faulty'[r] /\ r \notin Realtime => Exactly(r)'
    BY <1>0, <1>2 DEF AfterFund, AfterReserve, FinishReserve, TypeOK, Typed, Ledger, Fields, Exactly,
       Held, HeldReserving, Due, Paid, Opening, Rolling, Live, Reserving, Refunding, Done
  <2> QED
    BY <2>1, <2>2, <2>3, <2>4 DEF Ledger
<1>3. CASE pc[r] = "resback"
  <2>1. OnlySession(r) /\ SessionTyped(r)'
    BY <1>0, <1>3 DEF AfterFund, AfterRollback, OnlySession, SessionTyped, TypeOK,
       Typed, Ledger, Fields, Held, HeldReserving, Pcs, Live, Reserving, Done, FundOps,
       TokenOps, Opening, Rolling
  <2>2. Fields(r)'
    BY <1>0, <1>3 DEF AfterFund, AfterRollback, TypeOK, Typed, Ledger, Fields, Held,
       HeldReserving, Opening, Rolling, Live, Reserving, Refunding, Done, TokenOps
  <2>3. ~CommitFaults => AtLeast(r)'
    BY <1>0, <1>3 DEF AfterFund, AfterRollback, TypeOK, Typed, Ledger, Fields, AtLeast,
       Held, HeldReserving, Due, Opening, Rolling, Live, Reserving, Refunding, Done
  <2>4. ~faulty'[r] /\ r \notin Realtime => Exactly(r)'
    BY <1>0, <1>3 DEF AfterFund, AfterRollback, TypeOK, Typed, Ledger, Fields, Exactly,
       Held, HeldReserving, Due, Paid, Opening, Rolling, Live, Reserving, Refunding, Done
  <2> QED
    BY <2>1, <2>2, <2>3, <2>4 DEF Ledger
<1>4. CASE pc[r] = "setfund"
  <2>1. OnlySession(r) /\ SessionTyped(r)'
    BY <1>0, <1>4 DEF AfterFund, AfterSettle, OnlySession, SessionTyped, TypeOK,
       Typed, Ledger, Fields, Held, HeldReserving, Pcs, Live, Reserving, Done, FundOps,
       TokenOps, Opening, Rolling
  <2>2. Fields(r)'
    BY <1>0, <1>4 DEF AfterFund, AfterSettle, TypeOK, Typed, Ledger, Fields, Held,
       HeldReserving, Opening, Rolling, Live, Reserving, Refunding, Done, TokenOps
  <2>3. ~CommitFaults => AtLeast(r)'
    BY <1>0, <1>4 DEF AfterFund, AfterSettle, TypeOK, Typed, Ledger, Fields, AtLeast,
       Held, HeldReserving, Due, Opening, Rolling, Live, Reserving, Refunding, Done
  <2>4. ~faulty'[r] /\ r \notin Realtime => Exactly(r)'
    BY <1>0, <1>4 DEF AfterFund, AfterSettle, TypeOK, Typed, Ledger, Fields, Exactly,
       Held, HeldReserving, Due, Paid, Opening, Rolling, Live, Reserving, Refunding, Done
  <2> QED
    BY <2>1, <2>2, <2>3, <2>4 DEF Ledger
<1>5. CASE pc[r] = "refund"
  <2>1. OnlySession(r) /\ SessionTyped(r)'
    BY <1>0, <1>5 DEF AfterFund, AfterRefundOp, RetryRefund, AfterRefund, AfterExtra, MaxTries, OnlySession, SessionTyped, TypeOK,
       Typed, Ledger, Fields, Held, HeldReserving, Pcs, Live, Reserving, Done, FundOps,
       TokenOps, Opening, Rolling
  <2>2. Fields(r)'
    BY <1>0, <1>5 DEF AfterFund, AfterRefundOp, RetryRefund, AfterRefund, AfterExtra, MaxTries, TypeOK, Typed, Ledger, Fields, Held,
       HeldReserving, Opening, Rolling, Live, Reserving, Refunding, Done, TokenOps
  <2>3. ~CommitFaults => AtLeast(r)'
    BY <1>0, <1>5 DEF AfterFund, AfterRefundOp, RetryRefund, AfterRefund, AfterExtra, MaxTries, TypeOK, Typed, Ledger, Fields, AtLeast,
       Held, HeldReserving, Due, Opening, Rolling, Live, Reserving, Refunding, Done
  <2>4. ~faulty'[r] /\ r \notin Realtime => Exactly(r)'
    BY <1>0, <1>5 DEF AfterFund, AfterRefundOp, RetryRefund, AfterRefund, AfterExtra, MaxTries, TypeOK, Typed, Ledger, Fields, Exactly,
       Held, HeldReserving, Due, Paid, Opening, Rolling, Live, Reserving, Refunding, Done
  <2> QED
    BY <2>1, <2>2, <2>3, <2>4 DEF Ledger
<1>6. CASE pc[r] = "recopen"
  <2>1. OnlySession(r) /\ SessionTyped(r)'
    BY <1>0, <1>6 DEF AfterFund, AfterRefundOp, RetryRefund, AfterRefund, AfterExtra, MaxTries, OnlySession, SessionTyped, TypeOK,
       Typed, Ledger, Fields, Held, HeldReserving, Pcs, Live, Reserving, Done, FundOps,
       TokenOps, Opening, Rolling
  <2>2. Fields(r)'
    BY <1>0, <1>6 DEF AfterFund, AfterRefundOp, RetryRefund, AfterRefund, AfterExtra, MaxTries, TypeOK, Typed, Ledger, Fields, Held,
       HeldReserving, Opening, Rolling, Live, Reserving, Refunding, Done, TokenOps
  <2>3. ~CommitFaults => AtLeast(r)'
    BY <1>0, <1>6 DEF AfterFund, AfterRefundOp, RetryRefund, AfterRefund, AfterExtra, MaxTries, TypeOK, Typed, Ledger, Fields, AtLeast,
       Held, HeldReserving, Due, Opening, Rolling, Live, Reserving, Refunding, Done
  <2>4. ~faulty'[r] /\ r \notin Realtime => Exactly(r)'
    BY <1>0, <1>6 DEF AfterFund, AfterRefundOp, RetryRefund, AfterRefund, AfterExtra, MaxTries, TypeOK, Typed, Ledger, Fields, Exactly,
       Held, HeldReserving, Due, Paid, Opening, Rolling, Live, Reserving, Refunding, Done
  <2> QED
    BY <2>1, <2>2, <2>3, <2>4 DEF Ledger
<1>7. CASE pc[r] = "extra"
  <2>1. OnlySession(r) /\ SessionTyped(r)'
    BY <1>0, <1>7 DEF AfterFund, AfterExtra, OnlySession, SessionTyped, TypeOK,
       Typed, Ledger, Fields, Held, HeldReserving, Pcs, Live, Reserving, Done, FundOps,
       TokenOps, Opening, Rolling
  <2>2. Fields(r)'
    BY <1>0, <1>7 DEF AfterFund, AfterExtra, TypeOK, Typed, Ledger, Fields, Held,
       HeldReserving, Opening, Rolling, Live, Reserving, Refunding, Done, TokenOps
  <2>3. ~CommitFaults => AtLeast(r)'
    BY <1>0, <1>7 DEF AfterFund, AfterExtra, TypeOK, Typed, Ledger, Fields, AtLeast,
       Held, HeldReserving, Due, Opening, Rolling, Live, Reserving, Refunding, Done
  <2>4. ~faulty'[r] /\ r \notin Realtime => Exactly(r)'
    BY <1>0, <1>7 DEF AfterFund, AfterExtra, TypeOK, Typed, Ledger, Fields, Exactly,
       Held, HeldReserving, Due, Paid, Opening, Rolling, Live, Reserving, Refunding, Done
  <2> QED
    BY <2>1, <2>2, <2>3, <2>4 DEF Ledger
<1>8. CASE pc[r] = "turnfund"
  <2>1. OnlySession(r) /\ SessionTyped(r)'
    BY <1>0, <1>8 DEF AfterFund, OnlySession, SessionTyped, TypeOK,
       Typed, Ledger, Fields, Held, HeldReserving, Pcs, Live, Reserving, Done, FundOps,
       TokenOps, Opening, Rolling
  <2>2. Fields(r)'
    BY <1>0, <1>8 DEF AfterFund, TypeOK, Typed, Ledger, Fields, Held,
       HeldReserving, Opening, Rolling, Live, Reserving, Refunding, Done, TokenOps
  <2>3. ~CommitFaults => AtLeast(r)'
    BY <1>0, <1>8 DEF AfterFund, TypeOK, Typed, Ledger, Fields, AtLeast,
       Held, HeldReserving, Due, Opening, Rolling, Live, Reserving, Refunding, Done
  <2>4. ~faulty'[r] /\ r \notin Realtime => Exactly(r)'
    BY <1>0, <1>8 DEF AfterFund, TypeOK, Typed, Ledger, Fields, Exactly,
       Held, HeldReserving, Due, Paid, Opening, Rolling, Live, Reserving, Refunding, Done
  <2> QED
    BY <2>1, <2>2, <2>3, <2>4 DEF Ledger
<1> QED
  BY <1>1, <1>2, <1>3, <1>4, <1>5, <1>6, <1>7, <1>8 DEF FundOps

-----------------------------------------------------------------------------
(* Choosing the funding source, and the steps of an open session.          *)

LEMMA NewBillingSessionKeeps ==
    ASSUME IInv, NEW r \in Requests, NewBillingSession(r)
    PROVE  IInv'
<1> USE DEF NewBillingSession, Goto, Set, dbVars, holdVars, histVars
<1>0. TypeOK /\ Ledger(r) /\ Reading(r) /\ Typed(r) /\ TypedRest
  BY TypedAt DEF IInv
<1>1. Only(r)
  BY <1>0 DEF Only, TypeOK
<1>2. Typed(r)' /\ TypedRest'
  <2>1. pc'[r] \in Pcs
    BY <1>0 DEF TypeOK, Pcs, TokenOps, FundOps, Done
  <2>2. asked'[r] \in Nat /\ tquota'[r] \in Int
    BY <1>0, ConstantsAssumption DEF Typed, TypedRest, TypeOK
  <2>3. TypedRest'
    BY <1>0 DEF TypedRest
  <2> QED
    BY <1>0, <2>1, <2>2, <2>3 DEF Typed
<1>3. WithinPlan' /\ status' = status
  BY DEF IInv, WithinPlan
<1>4. Ledger(r)'
  BY <1>0, ConstantsAssumption DEF Typed, TypedRest, TypeOK, Ledger, Fields,
     AtLeast, Exactly, Held, HeldReserving, Due, Paid, Opening, Rolling, Live,
     Reserving, Refunding, Done, TokenOps
<1>5. Reading(r)'
  BY <1>0, ConstantsAssumption DEF Reading, Typed, TypeOK, FundOps
<1> QED
  BY <1>1, <1>2, <1>3, <1>4, <1>5, StepKeeps

LEMMA HasActiveUserSubscriptionKeeps ==
    ASSUME IInv, NEW r \in Requests, HasActiveUserSubscription(r)
    PROVE  IInv'
<1> USE DEF HasActiveUserSubscription, Goto, Set, dbVars, openVars, holdVars,
        histVars
<1>0. TypeOK /\ Ledger(r) /\ Reading(r) /\ Typed(r) /\ TypedRest
  BY TypedAt DEF IInv
<1>1. Only(r)
  BY <1>0 DEF Only, TypeOK
<1>2. Typed(r)' /\ TypedRest'
  BY <1>0, ConstantsAssumption DEF Typed, TypedRest, TypeOK, Ledger, Fields,
     Pcs, TokenOps, FundOps, Done, MaxTries, Subs
<1>3. WithinPlan' /\ status' = status
  BY DEF IInv, WithinPlan
<1>4. Ledger(r)'
  BY <1>0, ConstantsAssumption DEF Typed, TypedRest, TypeOK, Ledger, Fields,
     AtLeast, Exactly, Held, HeldReserving, Due, Paid, Opening, Rolling, Live,
     Reserving, Refunding, Done, TokenOps
<1>5. Reading(r)'
  BY <1>0, ConstantsAssumption DEF Reading, Typed, TypeOK, FundOps
<1> QED
  BY <1>1, <1>2, <1>3, <1>4, <1>5, StepKeeps

LEMMA tryWalletKeeps ==
    ASSUME IInv, NEW r \in Requests, tryWallet(r)
    PROVE  IInv'
<1> USE DEF tryWallet, Goto, Set, dbVars, holdVars, histVars, shouldTrust
<1>0. TypeOK /\ Ledger(r) /\ Reading(r) /\ Typed(r) /\ TypedRest
  BY TypedAt DEF IInv
<1>1. Only(r)
  BY <1>0 DEF Only, TypeOK
<1>2. Typed(r)' /\ TypedRest'
  BY <1>0, ConstantsAssumption DEF Typed, TypedRest, TypeOK, Ledger, Fields,
     Pcs, TokenOps, FundOps, Done, MaxTries, Subs
<1>3. WithinPlan' /\ status' = status
  BY DEF IInv, WithinPlan
<1>4. Ledger(r)'
  BY <1>0, ConstantsAssumption DEF Typed, TypedRest, TypeOK, Ledger, Fields,
     AtLeast, Exactly, Held, HeldReserving, Due, Paid, Opening, Rolling, Live,
     Reserving, Refunding, Done, TokenOps
<1>5. Reading(r)'
  BY <1>0, ConstantsAssumption DEF Reading, Typed, TypeOK, FundOps
<1> QED
  BY <1>1, <1>2, <1>3, <1>4, <1>5, StepKeeps

LEMMA WalletInsufficientKeeps ==
    ASSUME IInv, NEW r \in Requests, WalletInsufficient(r)
    PROVE  IInv'
<1> USE DEF WalletInsufficient, Goto, Set, dbVars, openVars, holdVars, histVars
<1>0. TypeOK /\ Ledger(r) /\ Reading(r) /\ Typed(r) /\ TypedRest
  BY TypedAt DEF IInv
<1>1. Only(r)
  BY <1>0 DEF Only, TypeOK
<1>2. Typed(r)' /\ TypedRest'
  BY <1>0, ConstantsAssumption DEF Typed, TypedRest, TypeOK, Ledger, Fields,
     Pcs, TokenOps, FundOps, Done, MaxTries, Subs
<1>3. WithinPlan' /\ status' = status
  BY DEF IInv, WithinPlan
<1>4. Ledger(r)'
  BY <1>0, ConstantsAssumption DEF Typed, TypedRest, TypeOK, Ledger, Fields,
     AtLeast, Exactly, Held, HeldReserving, Due, Paid, Opening, Rolling, Live,
     Reserving, Refunding, Done, TokenOps
<1>5. Reading(r)'
  BY <1>0, ConstantsAssumption DEF Reading, Typed, TypeOK, FundOps
<1> QED
  BY <1>1, <1>2, <1>3, <1>4, <1>5, StepKeeps

LEMMA trySubscriptionKeeps ==
    ASSUME IInv, NEW r \in Requests, trySubscription(r)
    PROVE  IInv'
<1> USE DEF trySubscription, Goto, Set, dbVars, holdVars, histVars
<1>0. TypeOK /\ Ledger(r) /\ Reading(r) /\ Typed(r) /\ TypedRest
  BY TypedAt DEF IInv
<1>1. Only(r)
  BY <1>0 DEF Only, TypeOK
<1>2. Typed(r)' /\ TypedRest'
  BY <1>0, ConstantsAssumption DEF Typed, TypedRest, TypeOK, Ledger, Fields,
     Pcs, TokenOps, FundOps, Done, MaxTries, Subs
<1>3. WithinPlan' /\ status' = status
  BY DEF IInv, WithinPlan
<1>4. Ledger(r)'
  BY <1>0, ConstantsAssumption DEF Typed, TypedRest, TypeOK, Ledger, Fields,
     AtLeast, Exactly, Held, HeldReserving, Due, Paid, Opening, Rolling, Live,
     Reserving, Refunding, Done, TokenOps
<1>5. Reading(r)'
  BY <1>0, ConstantsAssumption DEF Reading, Typed, TypeOK, FundOps
<1> QED
  BY <1>1, <1>2, <1>3, <1>4, <1>5, StepKeeps

LEMMA UserActiveSubscriptionsAllowWalletOverflowKeeps ==
    ASSUME IInv, NEW r \in Requests, UserActiveSubscriptionsAllowWalletOverflow(r)
    PROVE  IInv'
<1> USE DEF UserActiveSubscriptionsAllowWalletOverflow, Goto, Set, dbVars,
        openVars, holdVars, histVars
<1>0. TypeOK /\ Ledger(r) /\ Reading(r) /\ Typed(r) /\ TypedRest
  BY TypedAt DEF IInv
<1>1. Only(r)
  BY <1>0 DEF Only, TypeOK
<1>2. Typed(r)' /\ TypedRest'
  BY <1>0, ConstantsAssumption DEF Typed, TypedRest, TypeOK, Ledger, Fields,
     Pcs, TokenOps, FundOps, Done, MaxTries, Subs
<1>3. WithinPlan' /\ status' = status
  BY DEF IInv, WithinPlan
<1>4. Ledger(r)'
  BY <1>0, ConstantsAssumption DEF Typed, TypedRest, TypeOK, Ledger, Fields,
     AtLeast, Exactly, Held, HeldReserving, Due, Paid, Opening, Rolling, Live,
     Reserving, Refunding, Done, TokenOps
<1>5. Reading(r)'
  BY <1>0, ConstantsAssumption DEF Reading, Typed, TypeOK, FundOps
<1> QED
  BY <1>1, <1>2, <1>3, <1>4, <1>5, StepKeeps

LEMMA PreConsumeTokenQuotaKeeps ==
    ASSUME IInv, NEW r \in Requests, PreConsumeTokenQuota(r)
    PROVE  IInv'
<1> USE DEF PreConsumeTokenQuota, Goto, Set, dbVars, openVars, histVars
<1>0. TypeOK /\ Ledger(r) /\ Reading(r) /\ Typed(r) /\ TypedRest
  BY TypedAt DEF IInv
<1>1. Only(r)
  BY <1>0 DEF Only, TypeOK
<1>2. Typed(r)' /\ TypedRest'
  <2>1. pc'[r] \in Pcs
    BY <1>0 DEF TypeOK, Pcs, TokenOps, FundOps, Done
  <2>2. tok'[r] \in Nat
    BY <1>0, ConstantsAssumption DEF Typed, TypeOK
  <2>3. TypedRest'
    BY <1>0 DEF TypedRest
  <2> QED
    BY <1>0, <2>1, <2>2, <2>3 DEF Typed
<1>3. WithinPlan' /\ status' = status
  BY DEF IInv, WithinPlan
<1>4. Ledger(r)'
  <2>1. Fields(r)'
    BY <1>0 DEF Typed, TypeOK, Ledger, Fields, Held, HeldReserving, TokenOps,
       Opening, Rolling, Live, Reserving, Refunding, Done
  <2>2. ~CommitFaults => AtLeast(r)'
    BY <1>0 DEF Typed, TypeOK, Ledger, Fields, AtLeast, Held, HeldReserving, TokenOps,
       Opening, Rolling, Live, Reserving, Refunding
  <2>3. ~faulty'[r] /\ r \notin Realtime => Exactly(r)'
    BY <1>0 DEF Typed, TypeOK, Ledger, Fields, Exactly, Held, HeldReserving, Paid,
       TokenOps, Opening, Rolling, Live, Reserving, Refunding
  <2> QED
    BY <2>1, <2>2, <2>3 DEF Ledger
<1>5. Reading(r)'
  BY <1>0, ConstantsAssumption DEF Reading, Typed, TypeOK, FundOps
<1> QED
  BY <1>1, <1>2, <1>3, <1>4, <1>5, StepKeeps

LEMMA ReserveKeeps ==
    ASSUME IInv, NEW r \in Requests, Reserve(r)
    PROVE  IInv'
<1> USE DEF Reserve, Goto, Set, dbVars, openVars, holdVars, histVars
<1>0. TypeOK /\ Ledger(r) /\ Reading(r) /\ Typed(r) /\ TypedRest
  BY TypedAt DEF IInv
<1>1. Only(r)
  BY <1>0 DEF Only, TypeOK
<1>2. Typed(r)' /\ TypedRest'
  <2>1. pc'[r] \in Pcs
    BY <1>0 DEF TypeOK, Pcs, TokenOps, FundOps, Done
  <2>2. goal'[r] \in Nat
    BY <1>0, ConstantsAssumption DEF Typed, TypeOK
  <2>3. TypedRest'
    BY <1>0 DEF TypedRest
  <2> QED
    BY <1>0, <2>1, <2>2, <2>3 DEF Typed
<1>3. WithinPlan' /\ status' = status
  BY DEF IInv, WithinPlan
<1>4. Ledger(r)'
  BY <1>0, ConstantsAssumption DEF Typed, TypedRest, TypeOK, Ledger, Fields,
     AtLeast, Exactly, Held, HeldReserving, Due, Paid, Opening, Rolling, Live,
     Reserving, Refunding, Done, TokenOps
<1>5. Reading(r)'
  BY <1>0, ConstantsAssumption DEF Reading, Typed, TypeOK, FundOps
<1> QED
  BY <1>1, <1>2, <1>3, <1>4, <1>5, StepKeeps

LEMMA PreWssConsumeQuotaKeeps ==
    ASSUME IInv, NEW r \in Requests, PreWssConsumeQuota(r)
    PROVE  IInv'
<1> USE DEF PreWssConsumeQuota, Goto, Set, dbVars, openVars, holdVars, histVars,
        Turn
<1>0. TypeOK /\ Ledger(r) /\ Reading(r) /\ Typed(r) /\ TypedRest
  BY TypedAt DEF IInv
<1>1. Only(r)
  BY <1>0 DEF Only, TypeOK
<1>2. Typed(r)' /\ TypedRest'
  <2>1. PICK g \in Goals : /\ usage' = [usage EXCEPT ![r] = usage[r] + g]
                           /\ goal' = [goal EXCEPT ![r] = g]
    OBVIOUS
  <2>2. usage'[r] \in Nat /\ goal'[r] \in Nat
    BY <1>0, <2>1, ConstantsAssumption DEF Typed, TypeOK
  <2> QED
    BY <1>0, <2>2 DEF Typed, TypedRest, TypeOK, Pcs, FundOps
<1>3. WithinPlan' /\ status' = status
  BY DEF IInv, WithinPlan
<1>4. Ledger(r)'
  BY <1>0, ConstantsAssumption DEF Typed, TypedRest, TypeOK, Ledger, Fields,
     AtLeast, Exactly, Held, HeldReserving, Due, Paid, Opening, Rolling, Live,
     Reserving, Refunding, Done, TokenOps
<1>5. Reading(r)'
  BY <1>0, ConstantsAssumption DEF Reading, Typed, TypeOK, FundOps
<1> QED
  BY <1>1, <1>2, <1>3, <1>4, <1>5, StepKeeps

LEMMA SettleKeeps ==
    ASSUME IInv, NEW r \in Requests, Settle(r)
    PROVE  IInv'
<1> USE DEF Settle, Goto, Set, dbVars, openVars, holdVars, histVars
<1>0. TypeOK /\ Ledger(r) /\ Reading(r) /\ Typed(r) /\ TypedRest
  BY TypedAt DEF IInv
<1>1. Only(r)
  BY <1>0 DEF Only, TypeOK
<1>2. Typed(r)' /\ TypedRest'
  <2>1. pc'[r] \in Pcs
    BY <1>0 DEF TypeOK, Pcs, TokenOps, FundOps, Done
  <2>2. goal'[r] \in Nat
    BY <1>0, ConstantsAssumption DEF Typed, TypeOK
  <2>3. TypedRest'
    BY <1>0 DEF TypedRest
  <2> QED
    BY <1>0, <2>1, <2>2, <2>3 DEF Typed
<1>3. WithinPlan' /\ status' = status
  BY DEF IInv, WithinPlan
<1>4. Ledger(r)'
  BY <1>0, ConstantsAssumption DEF Typed, TypedRest, TypeOK, Ledger, Fields,
     AtLeast, Exactly, Held, HeldReserving, Due, Paid, Opening, Rolling, Live,
     Reserving, Refunding, Done, TokenOps
<1>5. Reading(r)'
  BY <1>0, ConstantsAssumption DEF Reading, Typed, TypeOK, FundOps
<1> QED
  BY <1>1, <1>2, <1>3, <1>4, <1>5, StepKeeps

LEMMA RefundKeeps ==
    ASSUME IInv, NEW r \in Requests, Refund(r)
    PROVE  IInv'
<1> USE DEF Refund, Goto, Set, dbVars, openVars, holdVars, histVars,
        AfterRefund, AfterExtra
<1>0. TypeOK /\ Ledger(r) /\ Reading(r) /\ Typed(r) /\ TypedRest
  BY TypedAt DEF IInv
<1>1. Only(r)
  BY <1>0 DEF Only, TypeOK
<1>2. Typed(r)' /\ TypedRest'
  BY <1>0, ConstantsAssumption DEF Typed, TypedRest, TypeOK, Ledger, Fields,
     Pcs, TokenOps, FundOps, Done, MaxTries, Subs
<1>3. WithinPlan' /\ status' = status
  BY DEF IInv, WithinPlan
<1>4. Ledger(r)'
  BY <1>0, ConstantsAssumption DEF Typed, TypedRest, TypeOK, Ledger, Fields,
     AtLeast, Exactly, Held, HeldReserving, Due, Paid, Opening, Rolling, Live,
     Reserving, Refunding, Done, TokenOps
<1>5. Reading(r)'
  BY <1>0, ConstantsAssumption DEF Reading, Typed, TypeOK, FundOps
<1> QED
  BY <1>1, <1>2, <1>3, <1>4, <1>5, StepKeeps

LEMMA ReadErrorKeeps ==
    ASSUME IInv, NEW r \in Requests, ReadError(r)
    PROVE  IInv'
<1> USE DEF ReadError, Goto, Set, dbVars, openVars, holdVars, histVars, Fault,
        Turn, RetryRefund, AfterRefund, AfterExtra
<1>0. TypeOK /\ Ledger(r) /\ Reading(r) /\ Typed(r) /\ TypedRest
  BY TypedAt DEF IInv
<1>1. Only(r)
  BY <1>0 DEF Only, TypeOK
<1>2. Typed(r)' /\ TypedRest'
  <2>1. pc'[r] \in Pcs /\ tries'[r] \in 0..MaxTries
    BY <1>0 DEF Typed, TypeOK, Pcs, TokenOps, FundOps, Done, MaxTries
  <2>2. goal'[r] \in Nat /\ usage'[r] \in Nat
    BY <1>0, ConstantsAssumption DEF Typed, TypeOK
  <2>3. faulty'[r] \in BOOLEAN /\ TypedRest'
    BY <1>0, ConstantsAssumption DEF TypedRest, TypeOK
  <2> QED
    BY <1>0, <2>1, <2>2, <2>3 DEF Typed
<1>3. WithinPlan' /\ status' = status
  BY DEF IInv, WithinPlan
<1>4. Ledger(r)'
  <2>1. Fields(r)'
    BY <1>0 DEF Typed, TypeOK, Ledger, Fields, Held, HeldReserving, TokenOps,
       Opening, Rolling, Live, Reserving, Refunding, Done
  <2>2. ~CommitFaults => AtLeast(r)'
    BY <1>0 DEF Typed, TypeOK, Ledger, Fields, AtLeast, Held, HeldReserving, Due,
       TokenOps, Opening, Rolling, Live, Reserving, Refunding
  <2>3. faulty'[r]
    BY <1>0 DEF TypeOK
  <2> QED
    BY <2>1, <2>2, <2>3 DEF Ledger
<1>5. Reading(r)'
  BY <1>0, ConstantsAssumption DEF Reading, Typed, TypeOK, FundOps
<1> QED
  BY <1>1, <1>2, <1>3, <1>4, <1>5, StepKeeps

LEMMA RefundSubscriptionPreConsumeKeeps ==
    ASSUME IInv, NEW r \in Requests, RefundSubscriptionPreConsume(r)
    PROVE  IInv'
<1> USE DEF RefundSubscriptionPreConsume, Goto, Set, dbVars, openVars, holdVars,
        histVars, AfterRefund, AfterExtra
<1>0. TypeOK /\ Ledger(r) /\ Reading(r) /\ Typed(r) /\ TypedRest
  BY TypedAt DEF IInv
<1>1. Only(r)
  BY <1>0 DEF Only, TypeOK
<1>2. Typed(r)' /\ TypedRest'
  BY <1>0, ConstantsAssumption DEF Typed, TypedRest, TypeOK, Ledger, Fields,
     Pcs, TokenOps, FundOps, Done, MaxTries, Subs
<1>3. WithinPlan' /\ status' = status
  BY DEF IInv, WithinPlan
<1>4. Ledger(r)'
  BY <1>0, ConstantsAssumption DEF Typed, TypedRest, TypeOK, Ledger, Fields,
     AtLeast, Exactly, Held, HeldReserving, Due, Paid, Opening, Rolling, Live,
     Reserving, Refunding, Done, TokenOps
<1>5. Reading(r)'
  BY <1>0, ConstantsAssumption DEF Reading, Typed, TypeOK, FundOps
<1> QED
  BY <1>1, <1>2, <1>3, <1>4, <1>5, StepKeeps

LEMMA RecordSaveKeeps ==
    ASSUME IInv, NEW r \in Requests, RecordSave(r)
    PROVE  IInv'
<1> USE DEF RecordSave, Goto, Set, openVars, holdVars, histVars, AfterRefund,
        AfterExtra
<1>0. TypeOK /\ Ledger(r) /\ Reading(r) /\ Typed(r) /\ TypedRest
  BY TypedAt DEF IInv
<1>1. Only(r)
  BY <1>0 DEF Only, TypeOK
<1>2. Typed(r)' /\ TypedRest'
  BY <1>0, ConstantsAssumption DEF Typed, TypedRest, TypeOK, Ledger, Fields,
     Pcs, TokenOps, FundOps, Done, MaxTries, Subs
<1>3. WithinPlan' /\ status' = status
  BY DEF IInv, WithinPlan
<1>4. Ledger(r)'
  BY <1>0, ConstantsAssumption DEF Typed, TypedRest, TypeOK, Ledger, Fields,
     AtLeast, Exactly, Held, HeldReserving, Due, Paid, Opening, Rolling, Live,
     Reserving, Refunding, Done, TokenOps
<1>5. Reading(r)'
  BY <1>0, ConstantsAssumption DEF Reading, Typed, TypeOK, FundOps
<1> QED
  BY <1>1, <1>2, <1>3, <1>4, <1>5, StepKeeps

LEMMA RecordSaveErrorKeeps ==
    ASSUME IInv, NEW r \in Requests, RecordSaveError(r)
    PROVE  IInv'
<1> USE DEF RecordSaveError, Goto, Set, openVars, holdVars, histVars, Fault,
        RetryRefund, AfterRefund, AfterExtra
<1>0. TypeOK /\ Ledger(r) /\ Reading(r) /\ Typed(r) /\ TypedRest
  BY TypedAt DEF IInv
<1>1. Only(r)
  BY <1>0 DEF Only, TypeOK
<1>2. Typed(r)' /\ TypedRest'
  <2>1. record'[r] \in {"none", "consumed", "refunded"}
    BY <1>0 DEF Typed, TypeOK
  <2>2. pc'[r] \in Pcs /\ tries'[r] \in 0..MaxTries
    BY <1>0 DEF Typed, TypeOK, Pcs, TokenOps, FundOps, Done, MaxTries
  <2>3. faulty'[r] \in BOOLEAN /\ TypedRest'
    BY <1>0, ConstantsAssumption DEF TypedRest, TypeOK
  <2> QED
    BY <1>0, <2>1, <2>2, <2>3 DEF Typed
<1>3. WithinPlan' /\ status' = status
  BY DEF IInv, WithinPlan
<1>4. Ledger(r)'
  BY <1>0, ConstantsAssumption DEF Typed, TypedRest, TypeOK, Ledger, Fields,
     AtLeast, Exactly, Held, HeldReserving, Due, Paid, Opening, Rolling, Live,
     Reserving, Refunding, Done, TokenOps
<1>5. Reading(r)'
  BY <1>0, ConstantsAssumption DEF Reading, Typed, TypeOK, FundOps
<1> QED
  BY <1>1, <1>2, <1>3, <1>4, <1>5, StepKeeps

LEMMA SubBeginKeeps ==
    ASSUME IInv, NEW r \in Requests, SubBegin(r)
    PROVE  IInv'
<1> USE DEF SubBegin, Goto, Set, dbVars, openVars, holdVars, histVars, SubOp
<1>0. TypeOK /\ Ledger(r) /\ Reading(r) /\ Typed(r) /\ TypedRest
  BY TypedAt DEF IInv
<1>1. Only(r)
  BY <1>0 DEF Only, TypeOK
<1>2. PICK s \in Subs :
        /\ Chosen(r, s)
        /\ snap' = [snap EXCEPT ![r] = [sub |-> s, used |-> used[s],
                                        status |-> status[s]]]
  OBVIOUS
<1>6. snap'[r] = [sub |-> s, used |-> used[s], status |-> status[s]]
  BY <1>0, <1>2 DEF TypeOK
<1>7. snap'[r] \in Snaps
  BY <1>0, <1>6, ConstantsAssumption DEF TypedRest, Snaps, Subs
<1>8. Typed(r)' /\ TypedRest'
  BY <1>0, <1>7 DEF Typed, TypedRest
<1>3. WithinPlan' /\ status' = status
  BY DEF IInv, WithinPlan
<1>4. Ledger(r)'
  BY <1>0, ConstantsAssumption DEF Typed, TypedRest, TypeOK, Ledger, Fields,
     AtLeast, Exactly, Held, HeldReserving, Due, Paid, Opening, Rolling, Live,
     Reserving, Refunding, Done, TokenOps
<1>5. Reading(r)'
  <2>1. snap'[r].sub = s /\ snap'[r].used = used[s] /\ snap'[r].status = status[s]
    BY <1>6
  <2>2. /\ Total[s] \in Nat /\ used[s] \in Nat /\ amount[r] \in Nat
        /\ status[s] \in Statuses
    BY <1>0, ConstantsAssumption DEF Typed, TypedRest
  <2>3. Total[s] # 0 =>
            used[s] + (IF pc[r] = "prefund" THEN amount[r] ELSE 0) <= Total[s]
    BY <1>2, <2>2 DEF IInv, WithinPlan, Chosen, Offers
  <2> QED
    BY <2>1, <2>2, <2>3 DEF Reading
<1> QED
  BY <1>1, <1>8, <1>3, <1>4, <1>5, StepKeeps

-----------------------------------------------------------------------------
(* A statement on the token.                                               *)

\* It takes TokenDelta(r) from the token, or fails.
TokenStep(r, ok) ==
    /\ ok \in BOOLEAN /\ pc[r] \in TokenOps /\ AfterToken(r, ok)
    /\ tcharged'[r] = IF ok THEN tcharged[r] + TokenDelta(r) ELSE tcharged[r]
    /\ charged'[r] = charged[r] /\ goal'[r] = goal[r] /\ record'[r] = record[r]
    /\ amount'[r] = amount[r] /\ funding'[r] = funding[r]
    /\ fund' = fund /\ tries' = tries
    /\ faulty[r] \/ ~ok => faulty'[r]

LEMMA TokenStepKeeps ==
    ASSUME TypeOK, NEW r \in Requests, Ledger(r), NEW ok, TokenStep(r, ok)
    PROVE  OnlySession(r) /\ SessionTyped(r)' /\ Ledger(r)'
<1> USE DEF TokenStep, TokenDelta, AfterToken, Goto, Set
<1>0. Typed(r)
  BY TypedAt
<1>1. CASE pc[r] = "pretokdec"
  <2>1. OnlySession(r) /\ SessionTyped(r)'
    BY <1>0, <1>1 DEF OnlySession, SessionTyped, TypeOK, Typed, Ledger,
       Fields, Pcs, Live, Reserving, Done, FundOps, TokenOps
  <2>2. Fields(r)'
    BY <1>0, <1>1 DEF TypeOK, Typed, Ledger, Fields, Held, HeldReserving,
       Opening, Rolling, Live, Reserving, Refunding, Done, TokenOps
  <2>3. ~CommitFaults => AtLeast(r)'
    BY <1>0, <1>1 DEF TypeOK, Typed, Ledger, Fields, AtLeast, Held,
       HeldReserving, Due, TokenOps, Opening, Rolling, Live, Reserving, Refunding
  <2>4. ~faulty'[r] /\ r \notin Realtime => Exactly(r)'
    BY <1>0, <1>1 DEF TypeOK, Typed, Ledger, Fields, Exactly, Held,
       HeldReserving, Due, Paid, TokenOps, Opening, Rolling, Live, Reserving, Refunding
  <2> QED
    BY <2>1, <2>2, <2>3, <2>4 DEF Ledger
<1>2. CASE pc[r] \in {"backinsuf", "backerr"}
  <2>1. OnlySession(r) /\ SessionTyped(r)'
    BY <1>0, <1>2 DEF AfterInsufficient, OnlySession, SessionTyped, TypeOK, Typed, Ledger,
       Fields, Pcs, Live, Reserving, Done, FundOps, TokenOps
  <2>2. Fields(r)'
    BY <1>0, <1>2 DEF AfterInsufficient, TypeOK, Typed, Ledger, Fields, Held, HeldReserving,
       Opening, Rolling, Live, Reserving, Refunding, Done, TokenOps
  <2>3. ~CommitFaults => AtLeast(r)'
    <3>1. pc'[r] \in {"overflow", "rejected"}
      BY <1>0, <1>2 DEF AfterInsufficient, TypeOK
    <3>2. ~CommitFaults => charged'[r] >= 0 /\ tcharged[r] >= tok[r]
      BY <1>0, <1>2 DEF Ledger, AtLeast, Fields, TokenOps, Rolling
    <3>3. ~CommitFaults => tcharged'[r] >= 0
      BY <1>0, <1>2, <3>2 DEF Typed
    <3> QED
      BY <3>1, <3>2, <3>3 DEF AtLeast, Live, Reserving, Refunding, Rolling
  <2>4. ~faulty'[r] /\ r \notin Realtime => Exactly(r)'
    BY <1>0, <1>2 DEF AfterInsufficient, TypeOK, Typed, Ledger, Fields, Exactly, Held,
       HeldReserving, Due, Paid, TokenOps, Opening, Rolling, Live, Reserving, Refunding
  <2> QED
    BY <2>1, <2>2, <2>3, <2>4 DEF Ledger
<1>3. CASE pc[r] = "restokdec"
  <2>1. OnlySession(r) /\ SessionTyped(r)'
    BY <1>0, <1>3 DEF FinishReserve, OnlySession, SessionTyped, TypeOK, Typed, Ledger,
       Fields, Pcs, Live, Reserving, Done, FundOps, TokenOps
  <2>2. Fields(r)'
    BY <1>0, <1>3 DEF FinishReserve, TypeOK, Typed, Ledger, Fields, Held, HeldReserving,
       Opening, Rolling, Live, Reserving, Refunding, Done, TokenOps
  <2>3. ~CommitFaults => AtLeast(r)'
    BY <1>0, <1>3 DEF FinishReserve, TypeOK, Typed, Ledger, Fields, AtLeast, Held,
       HeldReserving, Due, TokenOps, Opening, Rolling, Live, Reserving, Refunding
  <2>4. ~faulty'[r] /\ r \notin Realtime => Exactly(r)'
    <3> SUFFICES ASSUME ~faulty'[r], r \notin Realtime PROVE Exactly(r)'
      OBVIOUS
    <3>1. ok /\ Exactly(r) /\ Fields(r)
      BY DEF Ledger
    <3>2. /\ pc'[r] = "open" /\ pre'[r] = goal[r] /\ fund'[r] = fund[r]
          /\ extra'[r] = extra[r] + (goal[r] - pre[r])
      BY <1>0, <1>3, <3>1 DEF FinishReserve, TypeOK, Typed
    <3>3. charged'[r] = goal[r] /\ Held(r)' = goal[r]
      BY <1>0, <1>3, <3>1, <3>2 DEF Exactly, Typed, Held, HeldReserving, Reserving
    <3>4. r \notin Playground /\ tcharged'[r] = goal[r]
      BY <1>0, <1>3, <3>1 DEF Exactly, Fields, Typed, Paid, Reserving, TokenOps
    <3> QED
      BY <3>2, <3>3, <3>4 DEF Exactly, Paid, Opening, Rolling, Live, Reserving,
         Refunding
  <2> QED
    BY <2>1, <2>2, <2>3, <2>4 DEF Ledger
<1>4. CASE pc[r] = "settok"
  <2>1. OnlySession(r) /\ SessionTyped(r)'
    BY <1>0, <1>4 DEF OnlySession, SessionTyped, TypeOK, Typed, Ledger,
       Fields, Pcs, Live, Reserving, Done, FundOps, TokenOps
  <2>2. Fields(r)'
    BY <1>0, <1>4 DEF TypeOK, Typed, Ledger, Fields, Held, HeldReserving,
       Opening, Rolling, Live, Reserving, Refunding, Done, TokenOps
  <2>3. ~CommitFaults => AtLeast(r)'
    BY <1>0, <1>4 DEF TypeOK, Typed, Ledger, Fields, AtLeast, Held,
       HeldReserving, Due, TokenOps, Opening, Rolling, Live, Reserving, Refunding
  <2>4. ~faulty'[r] /\ r \notin Realtime => Exactly(r)'
    BY <1>0, <1>4 DEF TypeOK, Typed, Ledger, Fields, Exactly, Held,
       HeldReserving, Due, Paid, TokenOps, Opening, Rolling, Live, Reserving, Refunding
  <2> QED
    BY <2>1, <2>2, <2>3, <2>4 DEF Ledger
<1>5. CASE pc[r] = "rtok"
  <2>1. OnlySession(r) /\ SessionTyped(r)'
    BY <1>0, <1>5 DEF OnlySession, SessionTyped, TypeOK, Typed, Ledger,
       Fields, Pcs, Live, Reserving, Done, FundOps, TokenOps
  <2>2. Fields(r)'
    BY <1>0, <1>5 DEF TypeOK, Typed, Ledger, Fields, Held, HeldReserving,
       Opening, Rolling, Live, Reserving, Refunding, Done, TokenOps
  <2>3. ~CommitFaults => AtLeast(r)'
    BY <1>0, <1>5 DEF TypeOK, Typed, Ledger, Fields, AtLeast, Held,
       HeldReserving, Due, TokenOps, Opening, Rolling, Live, Reserving, Refunding
  <2>4. ~faulty'[r] /\ r \notin Realtime => Exactly(r)'
    BY <1>0, <1>5 DEF TypeOK, Typed, Ledger, Fields, Exactly, Held,
       HeldReserving, Due, Paid, TokenOps, Opening, Rolling, Live, Reserving, Refunding
  <2> QED
    BY <2>1, <2>2, <2>3, <2>4 DEF Ledger
<1>6. CASE pc[r] = "turntok"
  <2>1. OnlySession(r) /\ SessionTyped(r)'
    BY <1>0, <1>6 DEF OnlySession, SessionTyped, TypeOK, Typed, Ledger,
       Fields, Pcs, Live, Reserving, Done, FundOps, TokenOps
  <2>2. Fields(r)'
    BY <1>0, <1>6 DEF TypeOK, Typed, Ledger, Fields, Held, HeldReserving,
       Opening, Rolling, Live, Reserving, Refunding, Done, TokenOps
  <2>3. ~CommitFaults => AtLeast(r)'
    BY <1>0, <1>6 DEF TypeOK, Typed, Ledger, Fields, AtLeast, Held,
       HeldReserving, Due, TokenOps, Opening, Rolling, Live, Reserving, Refunding
  <2>4. ~faulty'[r] /\ r \notin Realtime => Exactly(r)'
    BY <1>0, <1>6 DEF TypeOK, Typed, Ledger, Fields, Exactly, Held,
       HeldReserving, Due, Paid, TokenOps, Opening, Rolling, Live, Reserving, Refunding
  <2> QED
    BY <2>1, <2>2, <2>3, <2>4 DEF Ledger
<1> QED
  BY <1>1, <1>2, <1>3, <1>4, <1>5, <1>6 DEF TokenStep, TokenOps

LEMMA AdjustTokenKeeps ==
    ASSUME IInv, NEW r \in Requests, AdjustToken(r)
    PROVE  IInv'
<1> USE DEF AdjustToken, Set, openVars
<1>0. TypeOK /\ Ledger(r) /\ Reading(r) /\ Typed(r) /\ TypedRest
  BY TypedAt DEF IInv
<1>1. TokenDelta(r) \in Int
  BY <1>0 DEF TokenDelta, Typed
<1>2. TokenStep(r, TRUE)
  BY <1>0 DEF TokenStep, TypeOK
<1>3. OnlySession(r) /\ SessionTyped(r)' /\ Ledger(r)'
  BY <1>0, <1>2, TokenStepKeeps
<1>4. Only(r)
  BY <1>0, <1>3 DEF Only, OnlySession, TypeOK
<1>5. Typed(r)' /\ TypedRest'
  BY <1>0, <1>1, <1>3 DEF Typed, TypedRest, SessionTyped, TypeOK
<1>6. WithinPlan' /\ status' = status
  BY DEF IInv, WithinPlan
<1>7. Reading(r)'
  BY <1>0 DEF Reading, TokenOps, FundOps
<1> QED
  BY <1>3, <1>4, <1>5, <1>6, <1>7, StepKeeps

LEMMA AdjustTokenErrorKeeps ==
    ASSUME IInv, NEW r \in Requests, AdjustTokenError(r)
    PROVE  IInv'
<1> USE DEF AdjustTokenError, Fault, Set, openVars, dbVars, histVars
<1>0. TypeOK /\ Ledger(r) /\ Reading(r) /\ Typed(r) /\ TypedRest
  BY TypedAt DEF IInv
<1>2. TokenStep(r, FALSE)
  BY <1>0 DEF TokenStep, TypeOK
<1>3. OnlySession(r) /\ SessionTyped(r)' /\ Ledger(r)'
  BY <1>0, <1>2, TokenStepKeeps
<1>4. Only(r)
  BY <1>0, <1>3 DEF Only, OnlySession, TypeOK
<1>5. Typed(r)' /\ TypedRest'
  BY <1>0, <1>3, ConstantsAssumption DEF Typed, TypedRest, SessionTyped, TypeOK
<1>6. WithinPlan' /\ status' = status
  BY DEF IInv, WithinPlan
<1>7. Reading(r)'
  BY <1>0 DEF Reading, TokenOps, FundOps
<1> QED
  BY <1>3, <1>4, <1>5, <1>6, <1>7, StepKeeps

-----------------------------------------------------------------------------
(* Operations on the wallet.                                               *)

LEMMA AdjustWalletKeeps ==
    ASSUME IInv, NEW r \in Requests, AdjustWallet(r)
    PROVE  IInv'
<1> USE DEF AdjustWallet, Set, openVars
<1>0. TypeOK /\ Ledger(r) /\ Reading(r) /\ Typed(r) /\ TypedRest
  BY TypedAt DEF IInv
<1>1. snap'[r] = snap[r] /\ snap[r].sub = 0 /\ FundDelta(r) \in Int
  BY <1>0 DEF Reading, FundDelta, Typed
<1>2. FundStep(r, "ok")
  BY <1>0 DEF FundStep, TypeOK
<1>3. OnlySession(r) /\ SessionTyped(r)' /\ Ledger(r)'
  BY <1>0, <1>2, FundStepKeeps
<1>4. Only(r)
  BY <1>0, <1>3 DEF Only, OnlySession, TypeOK
<1>5. Typed(r)' /\ TypedRest'
  BY <1>0, <1>1, <1>3, ConstantsAssumption DEF Typed, TypedRest, SessionTyped, TypeOK
<1>6. WithinPlan' /\ status' = status
  BY DEF IInv, WithinPlan
<1>7. Reading(r)'
  BY <1>1 DEF Reading
<1> QED
  BY <1>3, <1>4, <1>5, <1>6, <1>7, StepKeeps

LEMMA AdjustWalletErrorKeeps ==
    ASSUME IInv, NEW r \in Requests, AdjustWalletError(r)
    PROVE  IInv'
<1> USE DEF AdjustWalletError, Set, Fault, openVars, dbVars, histVars
<1>0. TypeOK /\ Ledger(r) /\ Reading(r) /\ Typed(r) /\ TypedRest
  BY TypedAt DEF IInv
<1>1. snap'[r] = snap[r] /\ snap[r].sub = 0 /\ FundDelta(r) \in Int
  BY <1>0 DEF Reading, FundDelta, Typed
<1>2. FundStep(r, "error")
  BY <1>0 DEF FundStep, TypeOK
<1>3. OnlySession(r) /\ SessionTyped(r)' /\ Ledger(r)'
  BY <1>0, <1>2, FundStepKeeps
<1>4. Only(r)
  BY <1>0, <1>3 DEF Only, OnlySession, TypeOK
<1>5. Typed(r)' /\ TypedRest'
  BY <1>0, <1>1, <1>3, ConstantsAssumption DEF Typed, TypedRest, SessionTyped, TypeOK
<1>6. WithinPlan' /\ status' = status
  BY DEF IInv, WithinPlan
<1>7. Reading(r)'
  BY <1>1 DEF Reading
<1> QED
  BY <1>3, <1>4, <1>5, <1>6, <1>7, StepKeeps

-----------------------------------------------------------------------------
(* Transactions on a subscription row.                                     *)

LEMMA SubSelectErrorKeeps ==
    ASSUME IInv, NEW r \in Requests, SubSelectError(r)
    PROVE  IInv'
<1> USE DEF SubSelectError, Set, SubOp, Fault, openVars, dbVars, histVars
<1>0. TypeOK /\ Ledger(r) /\ Reading(r) /\ Typed(r) /\ TypedRest
  BY TypedAt DEF IInv
<1>1. snap'[r] = snap[r] /\ snap[r].sub = 0
  OBVIOUS
<1>2. FundStep(r, "insufficient")
  BY <1>0 DEF FundStep, TypeOK
<1>3. OnlySession(r) /\ SessionTyped(r)' /\ Ledger(r)'
  BY <1>0, <1>2, FundStepKeeps
<1>4. Only(r)
  BY <1>0, <1>3 DEF Only, OnlySession, TypeOK
<1>5. Typed(r)' /\ TypedRest'
  BY <1>0, <1>1, <1>3, ConstantsAssumption DEF Typed, TypedRest, SessionTyped, TypeOK
<1>6. WithinPlan' /\ status' = status
  BY DEF IInv, WithinPlan
<1>7. Reading(r)'
  BY <1>1 DEF Reading
<1> QED
  BY <1>3, <1>4, <1>5, <1>6, <1>7, StepKeeps

LEMMA SubInsufficientKeeps ==
    ASSUME IInv, NEW r \in Requests, SubInsufficient(r)
    PROVE  IInv'
<1> USE DEF SubInsufficient, Set, SubOp, openVars, dbVars, histVars
<1>0. TypeOK /\ Ledger(r) /\ Reading(r) /\ Typed(r) /\ TypedRest
  BY TypedAt DEF IInv
<1>1. snap'[r] = snap[r] /\ snap[r].sub = 0
  OBVIOUS
<1>2. FundStep(r, "insufficient")
  BY <1>0 DEF FundStep, TypeOK
<1>3. OnlySession(r) /\ SessionTyped(r)' /\ Ledger(r)'
  BY <1>0, <1>2, FundStepKeeps
<1>4. Only(r)
  BY <1>0, <1>3 DEF Only, OnlySession, TypeOK
<1>5. Typed(r)' /\ TypedRest'
  BY <1>0, <1>1, <1>3, ConstantsAssumption DEF Typed, TypedRest, SessionTyped, TypeOK
<1>6. WithinPlan' /\ status' = status
  BY DEF IInv, WithinPlan
<1>7. Reading(r)'
  BY <1>1 DEF Reading
<1> QED
  BY <1>3, <1>4, <1>5, <1>6, <1>7, StepKeeps

LEMMA SubErrorKeeps ==
    ASSUME IInv, NEW r \in Requests, SubError(r)
    PROVE  IInv'
<1> USE DEF SubError, Set, Fault, openVars, dbVars, histVars
<1>0. TypeOK /\ Ledger(r) /\ Reading(r) /\ Typed(r) /\ TypedRest
  BY TypedAt DEF IInv
<1>1. snap'[r].sub = 0 /\ snap'[r] \in Snaps
  BY <1>0, ConstantsAssumption DEF NoSnap, Snaps, TypeOK
<1>2. FundStep(r, "error")
  BY <1>0 DEF FundStep, TypeOK, Reading
<1>3. OnlySession(r) /\ SessionTyped(r)' /\ Ledger(r)'
  BY <1>0, <1>2, FundStepKeeps
<1>4. Only(r)
  BY <1>0, <1>3 DEF Only, OnlySession, TypeOK
<1>5. Typed(r)' /\ TypedRest'
  BY <1>0, <1>1, <1>3, ConstantsAssumption DEF Typed, TypedRest, SessionTyped, TypeOK
<1>6. WithinPlan' /\ status' = status
  BY DEF IInv, WithinPlan
<1>7. Reading(r)'
  BY <1>1 DEF Reading
<1> QED
  BY <1>3, <1>4, <1>5, <1>6, <1>7, StepKeeps

\* Only a step that takes something can exceed the plan.
LEMMA RefusedTakes ==
    ASSUME IInv, NEW r \in Requests, snap[r].sub # 0, Exceeds(r)
    PROVE  pc[r] \in {"resfund", "setfund", "turnfund"}
<1>0. TypeOK /\ Fields(r) /\ Reading(r) /\ Typed(r)
  BY TypedAt DEF IInv, Ledger
<1>1. snap[r].sub \in Subs /\ snap[r].used \in Nat
  BY <1>0, ConstantsAssumption DEF Typed, Snaps, Subs
<1>2. Total[snap[r].sub] \in Nat
  BY <1>1, ConstantsAssumption
<1>3. snap[r].used <= Total[snap[r].sub] /\ NewUsed(r) > Total[snap[r].sub]
  BY <1>0, <1>1, <1>2 DEF Reading, Exceeds
<1>4. SUFFICES ASSUME pc[r] \in {"resback", "recopen", "extra"} PROVE FALSE
  BY <1>0 DEF Reading, Exceeds, FundOps
<1>5. FundDelta(r) \in Int /\ FundDelta(r) <= 0
  BY <1>0, <1>4 DEF Typed, Fields, FundDelta, Reserving
<1> QED
  BY <1>1, <1>2, <1>3, <1>5 DEF NewUsed

LEMMA SubRefusedKeeps ==
    ASSUME IInv, NEW r \in Requests, SubRefused(r)
    PROVE  IInv'
<1> USE DEF SubRefused, Set, openVars, dbVars, histVars
<1>0. TypeOK /\ Ledger(r) /\ Reading(r) /\ Typed(r) /\ TypedRest
  BY TypedAt DEF IInv
<1>1. snap'[r].sub = 0 /\ snap'[r] \in Snaps
  BY <1>0, ConstantsAssumption DEF NoSnap, Snaps, TypeOK
<1>8. pc[r] \in {"resfund", "setfund", "turnfund"}
  BY RefusedTakes
<1>2. FundStep(r, "error")
  BY <1>0, <1>8 DEF FundStep, TypeOK, Reading
<1>3. OnlySession(r) /\ SessionTyped(r)' /\ Ledger(r)'
  BY <1>0, <1>2, FundStepKeeps
<1>4. Only(r)
  BY <1>0, <1>3 DEF Only, OnlySession, TypeOK
<1>5. Typed(r)' /\ TypedRest'
  BY <1>0, <1>1, <1>3, ConstantsAssumption DEF Typed, TypedRest, SessionTyped, TypeOK
<1>6. WithinPlan' /\ status' = status
  BY DEF IInv, WithinPlan
<1>7. Reading(r)'
  BY <1>1 DEF Reading
<1> QED
  BY <1>3, <1>4, <1>5, <1>6, <1>7, StepKeeps

\* With the row locked, the status that a transaction writes back is the row's.
LEMMA SubCommitStatus ==
    ASSUME IInv, NEW r \in Requests, SubCommit(r), Isolated
    PROVE  status' = status
<1>1. status \in [Subs -> Statuses] /\ snap[r].sub \in Subs
  BY TypedAt, ConstantsAssumption DEF IInv, Typed, TypedRest, SubCommit, Snaps, Subs
<1>2. status[snap[r].sub] \in {snap[r].status, "expired"}
  BY DEF IInv, Reading, SubCommit
<1> QED
  BY <1>1, <1>2 DEF SubCommit, Set

LEMMA SubCommitKeeps ==
    ASSUME IInv, NEW r \in Requests, SubCommit(r)
    PROVE  IInv'
<1> DEFINE s == snap[r].sub
<1> USE DEF SubCommit, Set
<1>0. TypeOK /\ Ledger(r) /\ Reading(r) /\ Typed(r) /\ TypedRest
  BY TypedAt DEF IInv
<1>1. snap'[r].sub = 0 /\ snap'[r] \in Snaps
  BY <1>0, ConstantsAssumption DEF NoSnap, Snaps, TypeOK
<1>2. FundStep(r, "ok")
  BY <1>0 DEF FundStep, TypeOK, Reading
<1>3. OnlySession(r) /\ SessionTyped(r)' /\ Ledger(r)'
  BY <1>0, <1>2, FundStepKeeps
<1>4. Only(r)
  <2>1. record' = Set(record, r, record'[r]) /\ sid' = Set(sid, r, sid'[r])
    BY <1>0 DEF TypeOK
  <2>2. snap' = Set(snap, r, snap'[r]) /\ charged' = Set(charged, r, charged'[r])
    BY <1>0 DEF TypeOK
  <2> QED
    BY <1>0, <1>3, <2>1, <2>2 DEF Only, OnlySession, TypeOK
<1>5. s \in Subs /\ snap[r].used \in Nat /\ snap[r].status \in Statuses
  <2>0. snap[r] \in Snaps /\ snap[r].sub # 0
    BY <1>0 DEF Typed
  <2>1. s \in Subs /\ snap[r].used \in Nat
    <3> HIDE DEF SubCommit
    <3> QED
      BY <2>0, ConstantsAssumption DEF Snaps, Subs
  <2>2. snap[r].status \in Statuses
    BY <1>0 DEF Reading
  <2> QED
    BY <2>1, <2>2
<1>6. FundDelta(r) \in Int
  BY <1>0 DEF FundDelta, Typed
<1>7. NewUsed(r) \in Nat
  BY <1>5, <1>6 DEF NewUsed
<1>8. Typed(r)'
  <2>1. record'[r] \in {"none", "consumed", "refunded"} /\ sid'[r] \in 0..NSubs
    BY <1>0, <1>5 DEF Typed, TypeOK, Subs
  <2>2. charged'[r] \in Int
    BY <1>0, <1>6 DEF Typed, TypeOK
  <2> QED
    BY <1>0, <1>1, <1>3, <2>1, <2>2 DEF Typed, SessionTyped
<1>9. TypedRest'
  BY <1>0, <1>5, <1>7 DEF TypedRest
<1>10. WithinPlan'
  <2>1. Total[s] \in Nat
    BY <1>5, ConstantsAssumption
  <2>2. Total[s] = 0 \/ NewUsed(r) <= Total[s]
    <3>1. CASE pc[r] = "prefund"
      <4>1. amount[r] \in Nat /\ FundDelta(r) = amount[r]
        BY <1>0, <3>1 DEF Typed, FundDelta
      <4> QED
        BY <1>0, <1>5, <2>1, <3>1, <4>1 DEF Reading, NewUsed
    <3>2. CASE pc[r] # "prefund"
      BY <1>7, <2>1, <3>2 DEF Exceeds
    <3> QED
      BY <3>1, <3>2
  <2>3. ASSUME NEW u \in Subs PROVE Total[u] = 0 \/ used'[u] <= Total[u]
    BY <1>0, <1>5, <2>2 DEF IInv, WithinPlan, TypedRest
  <2> QED
    BY <2>3 DEF WithinPlan
<1>11. Isolated => status' = status
  BY SubCommitStatus
<1>12. Reading(r)'
  BY <1>1 DEF Reading
<1> QED
  BY <1>3, <1>4, <1>8, <1>9, <1>10, <1>11, <1>12, StepKeeps

-----------------------------------------------------------------------------
(* The steps that change a subscription and no session.                    *)

sessions == <<record, pc, openVars, holdVars, snap, goal, usage, tries, faulty,
              histVars>>

\* They leave the ledgers alone, and change the status of a row only to expired
\* or, with locks, while no transaction has it.
LEMMA RowStepKeeps ==
    ASSUME IInv, UNCHANGED sessions, TypedRest', WithinPlan', NEW s \in Subs,
           NEW v \in Statuses, status' = status \/ status' = Set(status, s, v),
           status' = status \/ v = "expired" \/ RowFree(s)
    PROVE  IInv'
<1> USE DEF sessions, openVars, holdVars, histVars
<1>1. TypeOK'
  BY DEF IInv, TypeOK, TypedRest
<1>2. ASSUME NEW q \in Requests PROVE Ledger(q)'
  <2>1. Ledger(q)
    BY DEF IInv
  <2>2. Fields(q)'
    BY <2>1 DEF Ledger, Fields, Held, HeldReserving
  <2>3. ~CommitFaults => AtLeast(q)'
    BY <2>1 DEF Ledger, AtLeast, Held, HeldReserving, Due
  <2>4. ~faulty'[q] /\ q \notin Realtime => Exactly(q)'
    BY <2>1 DEF Ledger, Exactly, Held, HeldReserving, Due, Paid
  <2> QED
    BY <2>2, <2>3, <2>4 DEF Ledger
<1>3. ASSUME NEW q \in Requests PROVE Reading(q)'
  <2> SUFFICES ASSUME snap[q].sub # 0 PROVE Reading(q)'
    BY DEF Reading
  <2>1. Reading(q) /\ Typed(q) /\ status \in [Subs -> Statuses]
    BY TypedAt DEF IInv, TypedRest
  <2>2. snap[q].sub \in Subs
    BY <2>1, ConstantsAssumption DEF Typed, Snaps, Subs
  <2>3. Isolated => status'[snap[q].sub] \in {snap[q].status, "expired"}
    <3>1. CASE status' = status
      BY <2>1, <3>1 DEF Reading
    <3>2. CASE status' # status /\ snap[q].sub # s
      BY <2>1, <2>2, <3>2 DEF Reading, Set
    <3>3. CASE status' # status /\ snap[q].sub = s
      BY <2>1, <2>2, <3>3 DEF Set, RowFree
    <3> QED
      BY <3>1, <3>2, <3>3
  <2> QED
    BY <2>1, <2>3 DEF Reading
<1> QED
  BY <1>1, <1>2, <1>3 DEF IInv

LEMMA ResetSubscriptionKeeps ==
    ASSUME IInv, NEW s \in Subs, ResetSubscription(s)
    PROVE  IInv'
<1> USE DEF ResetSubscription, Set
<1>1. TypedRest
  BY DEF IInv, TypeOK, TypedRest
<1>2. TypedRest'
  BY <1>1, ConstantsAssumption DEF TypedRest
<1>3. WithinPlan'
  BY <1>1, ConstantsAssumption DEF IInv, WithinPlan, TypedRest
<1>4. UNCHANGED sessions /\ status' = status
  BY DEF sessions
<1> QED
  BY <1>2, <1>3, <1>4, RowStepKeeps DEF Statuses

LEMMA AdminInvalidateUserSubscriptionKeeps ==
    ASSUME IInv, NEW s \in Subs, AdminInvalidateUserSubscription(s)
    PROVE  IInv'
<1> USE DEF AdminInvalidateUserSubscription
<1>1. TypedRest'
  BY DEF IInv, TypeOK, TypedRest, Set, Statuses
<1>2. WithinPlan'
  BY DEF IInv, WithinPlan
<1>3. UNCHANGED sessions
  BY DEF sessions
<1>4. "cancelled" \in Statuses
  BY DEF Statuses
<1> QED
  BY <1>1, <1>2, <1>3, <1>4, RowStepKeeps

LEMMA ExpireDueSubscriptionsKeeps ==
    ASSUME IInv, NEW s \in Subs, ExpireDueSubscriptions(s)
    PROVE  IInv'
<1> USE DEF ExpireDueSubscriptions
<1>1. TypedRest'
  BY DEF IInv, TypeOK, TypedRest, Set, Statuses
<1>2. WithinPlan'
  BY DEF IInv, WithinPlan
<1>3. UNCHANGED sessions
  BY DEF sessions
<1>4. "expired" \in Statuses
  BY DEF Statuses
<1> QED
  BY <1>1, <1>2, <1>3, <1>4, RowStepKeeps

LEMMA StutterKeeps ==
    ASSUME IInv, UNCHANGED vars
    PROVE  IInv'
BY DEF vars, dbVars, openVars, holdVars, histVars, IInv, TypeOK, WithinPlan, Ledger,
       Fields, AtLeast, Exactly, Held, HeldReserving, Due, Paid, Reading

LEMMA NextKeeps == IInv /\ [Next]_vars => IInv'
<1> SUFFICES ASSUME IInv, [Next]_vars PROVE IInv'
  OBVIOUS
<1>1. ASSUME NEW r \in Requests, SessionStep(r) PROVE IInv'
  BY <1>1, NewBillingSessionKeeps, HasActiveUserSubscriptionKeeps, tryWalletKeeps,
     WalletInsufficientKeeps, trySubscriptionKeeps,
     UserActiveSubscriptionsAllowWalletOverflowKeeps, PreConsumeTokenQuotaKeeps,
     AdjustTokenKeeps, AdjustWalletKeeps, SubBeginKeeps, SubInsufficientKeeps,
     SubCommitKeeps, SubRefusedKeeps, RefundSubscriptionPreConsumeKeeps,
     RecordSaveKeeps, ReserveKeeps, PreWssConsumeQuotaKeeps, SettleKeeps, RefundKeeps
     DEF SessionStep
<1>2. ASSUME NEW r \in Requests, ErrorStep(r) PROVE IInv'
  BY <1>2, AdjustTokenErrorKeeps, AdjustWalletErrorKeeps, ReadErrorKeeps,
     SubSelectErrorKeeps, SubErrorKeeps, RecordSaveErrorKeeps DEF ErrorStep
<1>3. ASSUME NEW s \in Subs,
             \/ ResetSubscription(s) \/ AdminInvalidateUserSubscription(s)
             \/ ExpireDueSubscriptions(s)
      PROVE  IInv'
  BY <1>3, ResetSubscriptionKeeps, AdminInvalidateUserSubscriptionKeeps,
     ExpireDueSubscriptionsKeeps
<1> QED
  BY <1>1, <1>2, <1>3, StutterKeeps DEF Next

-----------------------------------------------------------------------------
(* Sums over the requests.  The fold that computes SumOf takes its terms in*)
(* an order of its own; what the proofs need of it follows by induction on *)
(* finite sets, in the form that a set of subsets has a smallest one.      *)

Pick(s) == CHOOSE x \in s : TRUE
Step(f, g, s) == IF s = {} THEN 0 ELSE f[Pick(s)] + g[s \ {Pick(s)}]
Sums(f, S, g) == g = [s \in SUBSET S |-> Step(f, g, s)]

\* A non-empty set of subsets of a finite set has a smallest one: this is the
\* induction principle of the lemmas below.
LEMMA Smallest ==
    ASSUME NEW S, IsFiniteSet(S), NEW T, T \subseteq SUBSET S, T # {}
    PROVE  \E x \in T : \A y \in T : y \subseteq x => y = x
<1>1. IsWellFoundedOn(StrictSubsetOrdering(S), FiniteSubsetsOf(S))
  BY FS_StrictSubsetOrderingWellFounded
<1>2. T \subseteq FiniteSubsetsOf(S)
  BY FS_Subset DEF FiniteSubsetsOf
<1>3. \E x \in T : \A y \in T : <<y, x>> \notin StrictSubsetOrdering(S)
  BY <1>1, <1>2, WFMin
<1> QED
  BY <1>3 DEF StrictSubsetOrdering

LEMMA PickIn == ASSUME NEW s, s # {} PROVE Pick(s) \in s
  BY DEF Pick

LEMMA SumsAgree ==
    ASSUME NEW f, NEW S, IsFiniteSet(S), NEW g, Sums(f, S, g),
           NEW U \in SUBSET S, NEW h, Sums(f, U, h)
    PROVE  \A s \in SUBSET U : g[s] = h[s]
<1> DEFINE T == {s \in SUBSET U : g[s] # h[s]}
<1> SUFFICES ASSUME T # {} PROVE FALSE
  OBVIOUS
<1>0. T \subseteq SUBSET S
  OBVIOUS
<1>1. PICK s \in T : \A y \in T : y \subseteq s => y = s
  <2> HIDE DEF T
  <2> QED BY <1>0, Smallest
<1>2. s \in SUBSET U /\ s \in SUBSET S /\ g[s] # h[s]
  BY <1>0, <1>1
<1>3. g[s] = Step(f, g, s) /\ h[s] = Step(f, h, s)
  BY <1>2 DEF Sums
<1>4. s # {}
  BY <1>2, <1>3 DEF Step
<1>5. s \ {Pick(s)} \in SUBSET U /\ s \ {Pick(s)} # s
  BY <1>2, <1>4, PickIn
<1>6. g[s \ {Pick(s)}] = h[s \ {Pick(s)}]
  BY <1>1, <1>5
<1> QED
  BY <1>2, <1>3, <1>4, <1>6 DEF Step

LEMMA SumsExist ==
    ASSUME NEW f, NEW S, IsFiniteSet(S)
    PROVE  \E g : Sums(f, S, g)
<1> DEFINE G(t) == CHOOSE g : Sums(f, t, g)
           T == {s \in SUBSET S : ~\E g : Sums(f, s, g)}
<1> SUFFICES ASSUME T # {} PROVE FALSE
  OBVIOUS
<1>0. T \subseteq SUBSET S
  OBVIOUS
<1>1. PICK z \in T : \A y \in T : y \subseteq z => y = z
  <2> HIDE DEF T
  <2> QED BY <1>0, Smallest
<1>2. z \in SUBSET S /\ ~\E g : Sums(f, z, g)
  BY <1>1
<1>3. \A t \in SUBSET z : t # z => Sums(f, t, G(t))
  <2> SUFFICES ASSUME NEW t \in SUBSET z, t # z PROVE Sums(f, t, G(t))
    OBVIOUS
  <2>1. t \notin T /\ t \in SUBSET S
    BY <1>1, <1>2
  <2>2. \E g : Sums(f, t, g)
    BY <2>1
  <2> QED
    BY <2>2, Zenon
<1> DEFINE w == z \ {Pick(z)}
           last == IF z = {} THEN 0 ELSE f[Pick(z)] + G(w)[w]
           h == [t \in SUBSET z |-> IF t = z THEN last ELSE G(t)[t]]
<1>4. \A t \in SUBSET z : h[t] = Step(f, h, t)
  <2> SUFFICES ASSUME NEW t \in SUBSET z PROVE h[t] = Step(f, h, t)
    OBVIOUS
  <2> DEFINE u == t \ {Pick(t)}
  <2>0. t # {} => u \in SUBSET z /\ u # z /\ u \in SUBSET t
    BY PickIn
  <2>1. CASE t = z
    <3>1. CASE t = {}
      BY <2>1, <3>1 DEF Step
    <3>2. CASE t # {}
      <4>1. h[u] = G(w)[w]
        BY <2>0, <2>1, <3>2
      <4>2. h[t] = f[Pick(t)] + G(w)[w]
        BY <2>1, <3>2
      <4> QED
        BY <3>2, <4>1, <4>2 DEF Step
    <3> QED BY <3>1, <3>2
  <2>2. CASE t # z
    <3>1. h[t] = G(t)[t] /\ Sums(f, t, G(t))
      BY <1>3, <2>2
    <3>2. G(t)[t] = Step(f, G(t), t)
      BY <3>1 DEF Sums
    <3>3. CASE t = {}
      BY <3>1, <3>2, <3>3 DEF Step
    <3>4. CASE t # {}
      <4>1. Sums(f, u, G(u)) /\ IsFiniteSet(t)
        BY <1>2, <1>3, <2>0, <3>4, FS_Subset
      <4> HIDE DEF G
      <4>2. G(t)[u] = G(u)[u]
        BY <2>0, <3>1, <3>4, <4>1, SumsAgree
      <4>3. h[u] = G(u)[u]
        BY <2>0, <3>4
      <4> QED BY <3>1, <3>2, <3>4, <4>2, <4>3 DEF Step
    <3> QED BY <3>3, <3>4
  <2> QED BY <2>1, <2>2
<1>5. Sums(f, z, h)
  <2> HIDE DEF last, G
  <2>1. h = [t \in SUBSET z |-> h[t]]
    OBVIOUS
  <2> HIDE DEF h
  <2> QED BY <1>4, <2>1 DEF Sums
<1> QED
  BY <1>2, <1>5

\* What the fold computes: nothing for the empty set, and otherwise one term
\* and the rest.
LEMMA SumUnfolds ==
    ASSUME NEW f, NEW S, IsFiniteSet(S)
    PROVE  /\ S = {} => SumOf(f, S) = 0
           /\ S # {} => SumOf(f, S) = f[Pick(S)] + SumOf(f, S \ {Pick(S)})
<1> DEFINE G(s) == CHOOSE g : Sums(f, s, g)
<1>1. \A s : SumOf(f, s) = G(s)[s]
  BY DEF SumOf, MapThenSumSet, MapThenFoldSet, Sums, Step, Pick
<1>2. \A s \in SUBSET S : Sums(f, s, G(s))
  <2> SUFFICES ASSUME NEW s \in SUBSET S PROVE Sums(f, s, G(s))
    OBVIOUS
  <2>1. \E g : Sums(f, s, g)
    BY FS_Subset, SumsExist
  <2> QED
    BY <2>1, Zenon
<1> HIDE DEF G
<1>3. Sums(f, S, G(S))
  BY <1>2
<1>4. G(S)[S] = Step(f, G(S), S)
  BY <1>3 DEF Sums
<1>5. CASE S = {}
  BY <1>1, <1>4, <1>5 DEF Step
<1>6. CASE S # {}
  <2> DEFINE u == S \ {Pick(S)}
  <2>1. G(S)[u] = G(u)[u]
    BY <1>2, <1>3, SumsAgree
  <2> QED
    BY <1>1, <1>4, <1>6, <2>1 DEF Step
<1> QED
  BY <1>5, <1>6

LEMMA SumType ==
    ASSUME NEW f, NEW S, IsFiniteSet(S), \A x \in S : f[x] \in Int
    PROVE  SumOf(f, S) \in Int
<1> DEFINE T == {s \in SUBSET S : SumOf(f, s) \notin Int}
<1> SUFFICES ASSUME T # {} PROVE FALSE
  OBVIOUS
<1>0. T \subseteq SUBSET S
  OBVIOUS
<1>1. PICK s \in T : \A y \in T : y \subseteq s => y = s
  <2> HIDE DEF T
  <2> QED BY <1>0, Smallest
<1>2. s \in SUBSET S /\ IsFiniteSet(s) /\ SumOf(f, s) \notin Int
  BY <1>1, FS_Subset
<1>3. s # {}
  <2>1. s = {} => SumOf(f, s) = 0
    BY <1>2, SumUnfolds
  <2> QED
    BY <1>2, <2>1
<1>4. Pick(s) \in s /\ SumOf(f, s) = f[Pick(s)] + SumOf(f, s \ {Pick(s)})
  BY <1>2, <1>3, SumUnfolds, PickIn
<1>5. SumOf(f, s \ {Pick(s)}) \in Int
  <2>1. s \ {Pick(s)} \notin T
    <3> HIDE DEF T
    <3> QED BY <1>1, <1>4
  <2> QED BY <1>2, <2>1
<1> QED BY <1>2, <1>4, <1>5


\* Any term may be taken out first.
LEMMA SumTakes ==
    ASSUME NEW f, NEW S, IsFiniteSet(S), \A x \in S : f[x] \in Int
    PROVE  \A x \in S : SumOf(f, S) = f[x] + SumOf(f, S \ {x})
<1> DEFINE P(s) == \A x \in s : SumOf(f, s) = f[x] + SumOf(f, s \ {x})
           T == {s \in SUBSET S : ~P(s)}
<1> SUFFICES ASSUME T # {} PROVE FALSE
  OBVIOUS
<1>0. T \subseteq SUBSET S
  OBVIOUS
<1>1. PICK s \in T : \A y \in T : y \subseteq s => y = s
  <2> HIDE DEF T
  <2> QED BY <1>0, Smallest
<1>2. s \in SUBSET S /\ IsFiniteSet(s) /\ ~P(s)
  BY <1>1, FS_Subset
<1>3. \A y \in SUBSET s : y # s => P(y)
  <2> SUFFICES ASSUME NEW y \in SUBSET s, y # s PROVE P(y)
    OBVIOUS
  <2>1. y \notin T /\ y \in SUBSET S
    <3> HIDE DEF T
    <3> QED BY <1>1, <1>2
  <2> QED
    BY <2>1
<1>4. PICK x \in s : SumOf(f, s) # f[x] + SumOf(f, s \ {x})
  BY <1>2
<1> HIDE DEF T, P
<1> DEFINE p == Pick(s)
           a == s \ {p}
           b == s \ {x}
           c == a \ {x}
<1>5. p \in s /\ SumOf(f, s) = f[p] + SumOf(f, a)
  BY <1>2, <1>4, SumUnfolds, PickIn
<1>6. p # x
  BY <1>4, <1>5
<1>7. x \in a /\ a \in SUBSET s /\ a # s /\ p \in b /\ b \in SUBSET s /\ b # s
  BY <1>4, <1>5, <1>6
<1>8. P(a) /\ P(b)
  BY <1>3, <1>7
<1>9. SumOf(f, a) = f[x] + SumOf(f, c)
  BY <1>7, <1>8 DEF P
<1>10. SumOf(f, b) = f[p] + SumOf(f, c)
  <2>1. b \ {p} = c
    OBVIOUS
  <2> QED
    BY <1>7, <1>8, <2>1 DEF P
<1>11. SumOf(f, c) \in Int /\ f[x] \in Int /\ f[p] \in Int
  <2>1. c \in SUBSET S /\ IsFiniteSet(c) /\ x \in S /\ p \in S
    BY <1>2, <1>4, <1>5, FS_Subset
  <2> QED
    BY <2>1, SumType
<1> HIDE DEF a, b, c, p
<1>12. SumOf(f, s) = f[p] + (f[x] + SumOf(f, c)) /\ SumOf(f, b) = f[p] + SumOf(f, c)
  BY <1>5, <1>9, <1>10
<1>13. SumOf(f, s) # f[x] + SumOf(f, b)
  BY <1>4 DEF b
<1> QED
  BY <1>11, <1>12, <1>13

\* The sum depends only on the terms.
LEMMA SumSame ==
    ASSUME NEW f, NEW g, NEW S, IsFiniteSet(S), \A x \in S : f[x] = g[x]
    PROVE  SumOf(f, S) = SumOf(g, S)
<1> DEFINE T == {s \in SUBSET S : SumOf(f, s) # SumOf(g, s)}
<1> SUFFICES ASSUME T # {} PROVE FALSE
  OBVIOUS
<1>0. T \subseteq SUBSET S
  OBVIOUS
<1>1. PICK s \in T : \A y \in T : y \subseteq s => y = s
  <2> HIDE DEF T
  <2> QED BY <1>0, Smallest
<1>2. s \in SUBSET S /\ IsFiniteSet(s) /\ SumOf(f, s) # SumOf(g, s)
  BY <1>1, FS_Subset
<1>3. s # {}
  BY <1>2, SumUnfolds
<1>4. /\ Pick(s) \in s /\ f[Pick(s)] = g[Pick(s)]
      /\ SumOf(f, s) = f[Pick(s)] + SumOf(f, s \ {Pick(s)})
      /\ SumOf(g, s) = g[Pick(s)] + SumOf(g, s \ {Pick(s)})
  BY <1>2, <1>3, SumUnfolds, PickIn
<1>5. SumOf(f, s \ {Pick(s)}) = SumOf(g, s \ {Pick(s)})
  <2>1. s \ {Pick(s)} \notin T
    <3> HIDE DEF T
    <3> QED BY <1>1, <1>4
  <2> QED
    BY <1>2, <2>1
<1> QED
  BY <1>2, <1>4, <1>5

\* A sum of terms that are not negative is not negative.
LEMMA SumNonneg ==
    ASSUME NEW f, NEW S, IsFiniteSet(S), \A x \in S : f[x] \in Nat
    PROVE  SumOf(f, S) \in Nat
<1> DEFINE T == {s \in SUBSET S : SumOf(f, s) \notin Nat}
<1> SUFFICES ASSUME T # {} PROVE FALSE
  OBVIOUS
<1>0. T \subseteq SUBSET S
  OBVIOUS
<1>1. PICK s \in T : \A y \in T : y \subseteq s => y = s
  <2> HIDE DEF T
  <2> QED BY <1>0, Smallest
<1>2. s \in SUBSET S /\ IsFiniteSet(s) /\ SumOf(f, s) \notin Nat
  BY <1>1, FS_Subset
<1>3. s # {}
  <2>1. s = {} => SumOf(f, s) = 0
    BY <1>2, SumUnfolds
  <2> QED
    BY <1>2, <2>1
<1>4. Pick(s) \in s /\ SumOf(f, s) = f[Pick(s)] + SumOf(f, s \ {Pick(s)})
  BY <1>2, <1>3, SumUnfolds, PickIn
<1>5. SumOf(f, s \ {Pick(s)}) \in Nat
  <2>1. s \ {Pick(s)} \notin T
    <3> HIDE DEF T
    <3> QED BY <1>1, <1>4
  <2> QED
    BY <1>2, <2>1
<1> QED
  BY <1>2, <1>4, <1>5

-----------------------------------------------------------------------------
(* The accounts of the subscriptions, when the row locks take effect: the  *)
(* open transaction of a row is alone with it and has read what it says,   *)
(* and a request owes nothing to any row before its pre-consume.           *)

Early == Opening \union Rolling \union {"prefund"}
Unbilled(r) == pc[r] \in Early => sid[r] = 0 /\ charged[r] = 0
Current(r) ==
    snap[r].sub # 0 =>
        /\ snap[r].used = used[snap[r].sub]
        /\ pc[r] # "prefund" => snap[r].sub = sid[r]
Exclusive ==
    \A q, r \in Requests : snap[q].sub # 0 /\ snap[q].sub = snap[r].sub => q = r

AccountInv ==
    /\ SubscriptionAccounts /\ Exclusive
    /\ \A r \in Requests : Unbilled(r) /\ Current(r)

\* A step of r that leaves the accounts alone.
Quiet(r) ==
    /\ UNCHANGED <<used, resets, charged, sid>>
    /\ (snap' = snap /\ snap[r].sub = 0) \/ snap' = Set(snap, r, NoSnap)
    /\ pc' = Set(pc, r, pc'[r]) /\ (pc'[r] \in Early => pc[r] \in Early)
    /\ \/ funding' = funding
       \/ pc[r] \in Early /\ funding' = Set(funding, r, funding'[r])

LEMMA QuietKeeps ==
    ASSUME TypeOK, AccountInv, NEW r \in Requests, Quiet(r)
    PROVE  AccountInv'
<1> USE DEF Set
<1>1. ASSUME NEW q \in Requests PROVE snap'[q] = snap[q] \/ snap'[q].sub = 0
  BY DEF Quiet, TypeOK, NoSnap
<1>2. Exclusive'
  BY <1>1 DEF AccountInv, Exclusive
<1>3. ASSUME NEW q \in Requests PROVE Unbilled(q)'
  BY DEF AccountInv, Unbilled, Quiet, TypeOK
<1>4. ASSUME NEW q \in Requests PROVE Current(q)'
  <2>1. CASE q = r
    BY <2>1 DEF Quiet, Current, TypeOK, NoSnap
  <2>2. CASE q # r
    <3>1. pc'[q] = pc[q] /\ snap'[q] = snap[q] /\ used' = used /\ sid' = sid
      BY <2>2 DEF Quiet, TypeOK
    <3> QED
      BY <3>1 DEF AccountInv, Current
  <2> QED
    BY <2>1, <2>2
<1>5. ASSUME NEW s \in Subs PROVE Takers(s)' = Takers(s)
  <2>1. pc[r] \in Early => sid[r] # s
    BY ConstantsAssumption DEF AccountInv, Unbilled, Subs
  <2>2. ASSUME NEW q \in Requests, q # r PROVE funding'[q] = funding[q]
    BY <2>2 DEF Quiet, TypeOK
  <2>3. sid' = sid /\ (funding' = funding \/ pc[r] \in Early)
    BY DEF Quiet
  <2> QED
    BY <2>1, <2>2, <2>3 DEF Takers
<1>6. SubscriptionAccounts'
  BY <1>5 DEF AccountInv, SubscriptionAccounts, Quiet
<1> QED
  BY <1>2, <1>3, <1>4, <1>6 DEF AccountInv

\* No request is back before its pre-consume once that has succeeded.
LEMMA AfterFundLate ==
    ASSUME TypeOK, NEW r \in Requests, NEW res, pc[r] \in FundOps, AfterFund(r, res)
    PROVE  /\ pc' = Set(pc, r, pc'[r])
           /\ pc'[r] \in Early => pc[r] = "prefund" /\ res # "ok"
<1> USE DEF AfterFund, Goto, Set, TypeOK, Early, Opening, Rolling
<1>1. CASE pc[r] = "prefund"
  BY <1>1 DEF AfterPreConsume
<1>2. CASE pc[r] = "resfund"
  BY <1>2 DEF AfterReserve, FinishReserve
<1>3. CASE pc[r] \in {"resback", "setfund", "turnfund"}
  BY <1>3 DEF AfterRollback, AfterSettle
<1>4. CASE pc[r] \in {"refund", "recopen", "extra"}
  BY <1>4 DEF AfterRefundOp, RetryRefund, AfterRefund, AfterExtra
<1> QED
  BY <1>1, <1>2, <1>3, <1>4 DEF FundOps

\* A session that is not at an operation on a subscription has no row open.
LEMMA NotReading ==
    ASSUME IInv, NEW r \in Requests,
           funding[r] # "subscription" \/ pc[r] \notin FundOps \ {"refund"}
    PROVE  snap[r].sub = 0
BY DEF IInv, Reading

LEMMA OpeningQuiet ==
    ASSUME IInv, NEW r \in Requests,
           \/ NewBillingSession(r) \/ HasActiveUserSubscription(r)
           \/ tryWallet(r) \/ WalletInsufficient(r) \/ trySubscription(r)
           \/ UserActiveSubscriptionsAllowWalletOverflow(r)
    PROVE  Quiet(r)
<1> USE DEF NewBillingSession, HasActiveUserSubscription, tryWallet, trySubscription,
        WalletInsufficient, UserActiveSubscriptionsAllowWalletOverflow, dbVars,
        histVars, openVars, Goto, Set
<1>1. pc[r] \in {"new", "hassub", "wallet", "sub", "overflow"}
  OBVIOUS
<1>2. snap[r].sub = 0 /\ pc[r] \in Early
  BY <1>1, NotReading DEF FundOps, Early, Opening
<1>3. snap' = snap /\ UNCHANGED <<used, resets, charged, sid>>
  OBVIOUS
<1>4. pc' = Set(pc, r, pc'[r])
  BY DEF IInv, TypeOK
<1>5. funding' = funding \/ funding' = Set(funding, r, funding'[r])
  BY DEF IInv, TypeOK
<1> QED
  BY <1>2, <1>3, <1>4, <1>5 DEF Quiet

LEMMA TokenQuiet ==
    ASSUME IInv, NEW r \in Requests,
           PreConsumeTokenQuota(r) \/ AdjustToken(r) \/ AdjustTokenError(r)
    PROVE  Quiet(r)
<1> USE DEF PreConsumeTokenQuota, AdjustToken, AdjustTokenError, dbVars, histVars,
        openVars, Goto, Set
<1>1. pc[r] \in TokenOps \union {"pretok", "restok"}
  OBVIOUS
<1>2. snap[r].sub = 0
  BY <1>1, NotReading DEF FundOps, TokenOps
<1>3. snap' = snap /\ funding' = funding /\ UNCHANGED <<used, resets, charged, sid>>
  OBVIOUS
<1>4. Fields(r) /\ pc \in [Requests -> Pcs]
  BY DEF IInv, Ledger, TypeOK
<1>5. pc' = Set(pc, r, pc'[r]) /\ (pc'[r] \in Early => pc[r] \in Early)
  <2>1. CASE PreConsumeTokenQuota(r)
    BY <1>4, <2>1 DEF Fields, Early, Opening, Rolling
  <2>2. ASSUME NEW ok \in BOOLEAN, AfterToken(r, ok)
        PROVE  pc' = Set(pc, r, pc'[r]) /\ (pc'[r] \in Early => pc[r] \in Early)
    BY <1>4, <2>2 DEF AfterToken, FinishReserve, Early, Opening, Rolling
  <2> QED
    BY <2>1, <2>2
<1> QED
  BY <1>2, <1>3, <1>5 DEF Quiet

LEMMA LifeQuiet ==
    ASSUME IInv, NEW r \in Requests,
           \/ RefundSubscriptionPreConsume(r) \/ RecordSave(r) \/ RecordSaveError(r)
           \/ Reserve(r) \/ PreWssConsumeQuota(r) \/ Settle(r) \/ Refund(r)
           \/ ReadError(r)
    PROVE  Quiet(r)
<1> USE DEF RefundSubscriptionPreConsume, RecordSave, RecordSaveError, Reserve, Turn,
        PreWssConsumeQuota, Settle, Refund, ReadError, RetryRefund, AfterRefund,
        AfterExtra, dbVars, histVars, openVars, Goto, Set
<1>1. pc[r] \in {"refund", "recsave", "open", "ended", "hassub", "wallet", "overflow",
                 "pretok", "restok"}
  OBVIOUS
<1>2. snap[r].sub = 0
  BY <1>1, NotReading DEF FundOps
<1>3. snap' = snap /\ funding' = funding /\ UNCHANGED <<used, resets, charged, sid>>
  OBVIOUS
<1>4. pc \in [Requests -> Pcs]
  BY DEF IInv, TypeOK
<1>5. pc' = Set(pc, r, pc'[r])
  BY <1>4
<1>6. pc'[r] \notin Early
  BY <1>4 DEF Early, Opening, Rolling
<1> QED
  BY <1>2, <1>3, <1>5, <1>6 DEF Quiet

LEMMA FundingQuiet ==
    ASSUME IInv, NEW r \in Requests,
           \/ SubSelectError(r) \/ SubInsufficient(r) \/ SubRefused(r) \/ SubError(r)
           \/ AdjustWalletError(r)
    PROVE  Quiet(r)
<1> USE DEF SubSelectError, SubInsufficient, SubRefused, SubError, AdjustWalletError,
        SubOp, dbVars, histVars, openVars, Set
<1>1. pc[r] \in FundOps
  BY DEF IInv, Reading
<1>2. (snap' = snap /\ snap[r].sub = 0) \/ snap' = Set(snap, r, NoSnap)
  BY NotReading
<1>3. funding' = funding /\ UNCHANGED <<used, resets, charged, sid>>
  OBVIOUS
<1>4. PICK res \in {"error", "insufficient"} : AfterFund(r, res)
  OBVIOUS
<1>5. pc' = Set(pc, r, pc'[r]) /\ (pc'[r] \in Early => pc[r] \in Early)
  BY <1>1, <1>4, AfterFundLate DEF IInv, Early
<1> QED
  BY <1>2, <1>3, <1>5 DEF Quiet

\* The wallet pays: no row is concerned.
LEMMA AdjustWalletAccounts ==
    ASSUME IInv, AccountInv, IsFiniteSet(Requests), NEW r \in Requests, AdjustWallet(r)
    PROVE  AccountInv'
<1> USE DEF AdjustWallet, openVars, Set
<1>1. pc' = Set(pc, r, pc'[r]) /\ pc'[r] \notin Early
  BY AfterFundLate DEF IInv
<1>2. snap[r].sub = 0 /\ snap' = snap /\ UNCHANGED <<used, resets, sid, funding>>
  BY NotReading
<1>3. ASSUME NEW q \in Requests, q # r
      PROVE  charged'[q] = charged[q] /\ pc'[q] = pc[q]
  BY <1>1, <1>3 DEF IInv, TypeOK
<1>4. Exclusive'
  BY <1>2 DEF AccountInv, Exclusive
<1>5. ASSUME NEW q \in Requests PROVE Unbilled(q)' /\ Current(q)'
  <2>1. CASE q = r
    BY <1>1, <1>2, <2>1 DEF Unbilled, Current
  <2>2. CASE q # r
    BY <1>2, <1>3, <2>2 DEF AccountInv, Unbilled, Current
  <2> QED
    BY <2>1, <2>2
<1>6. ASSUME NEW s \in Subs
      PROVE  Takers(s)' = Takers(s) /\ SumOf(charged', Takers(s)) = SumOf(charged, Takers(s))
  <2>1. Takers(s)' = Takers(s) /\ r \notin Takers(s)
    BY <1>2 DEF Takers
  <2>2. IsFiniteSet(Takers(s)) /\ \A q \in Takers(s) : charged'[q] = charged[q]
    BY <1>3, <2>1, FS_Subset DEF Takers
  <2> HIDE DEF AdjustWallet
  <2>3. SumOf(charged', Takers(s)) = SumOf(charged, Takers(s))
    BY <2>2, SumSame
  <2> QED
    BY <2>1, <2>3
<1>7. SubscriptionAccounts'
  <2> HIDE DEF AdjustWallet
  <2> QED
    BY <1>2, <1>6 DEF AccountInv, SubscriptionAccounts
<1> QED
  BY <1>4, <1>5, <1>7 DEF AccountInv

\* The lock is taken and the row is read.
LEMMA SubBeginAccounts ==
    ASSUME Isolated, IInv, AccountInv, NEW r \in Requests, SubBegin(r)
    PROVE  AccountInv'
<1> USE DEF SubBegin, dbVars, openVars, histVars, Set
<1>1. PICK s \in Subs :
        /\ Chosen(r, s) /\ RowFree(s)
        /\ snap' = Set(snap, r, [sub |-> s, used |-> used[s], status |-> status[s]])
  OBVIOUS
<1>2. UNCHANGED <<used, resets, sid, funding, charged, pc>>
  OBVIOUS
<1> HIDE DEF SubBegin
<1>3. snap'[r].sub = s /\ snap'[r].used = used[s]
  BY <1>1 DEF IInv, TypeOK
<1>4. ASSUME NEW q \in Requests, q # r PROVE snap'[q] = snap[q] /\ snap[q].sub # s
  BY <1>1, <1>4 DEF IInv, TypeOK, RowFree
<1>5. Exclusive'
  BY <1>3, <1>4 DEF AccountInv, Exclusive
<1>6. ASSUME NEW q \in Requests PROVE Unbilled(q)'
  BY <1>2 DEF AccountInv, Unbilled
<1>7. ASSUME NEW q \in Requests PROVE Current(q)'
  <2>1. CASE q = r
    BY <1>1, <1>2, <1>3, <2>1 DEF Current, Chosen
  <2>2. CASE q # r
    BY <1>2, <1>4, <2>2 DEF AccountInv, Current
  <2> QED
    BY <2>1, <2>2
<1>8. SubscriptionAccounts'
  BY <1>2 DEF AccountInv, SubscriptionAccounts, Takers
<1> QED
  BY <1>5, <1>6, <1>7, <1>8 DEF AccountInv

\* The transaction ends: what the row gains is what the request is charged.
LEMMA SubCommitAccounts ==
    ASSUME ~CommitFaults, IInv, IInv', AccountInv, IsFiniteSet(Requests),
           NEW r \in Requests, SubCommit(r)
    PROVE  AccountInv'
<1>0. /\ TypeOK /\ Typed(r) /\ Fields(r) /\ Reading(r) /\ Unbilled(r) /\ Current(r)
      /\ snap[r].sub # 0
  BY TypedAt DEF IInv, AccountInv, Ledger, SubCommit
<1>s. PICK s \in Subs : s = snap[r].sub
  <2>1. snap[r].sub \in 0..NSubs
    BY <1>0 DEF Typed, Snaps
  <2> QED
    BY <1>0, <2>1, ConstantsAssumption DEF Subs
<1>d. PICK d \in Int : d = FundDelta(r)
  BY <1>0 DEF Typed, FundDelta
<1> DEFINE rest == Takers(s) \ {r}
<1>1. used \in [Subs -> Nat]
  BY <1>0 DEF TypeOK
<1>2. /\ funding[r] = "subscription" /\ pc[r] \in FundOps
      /\ snap[r].used = used[s]
      /\ IF pc[r] = "prefund" THEN sid[r] = 0 /\ charged[r] = 0 ELSE sid[r] = s
  BY <1>0, <1>s DEF Reading, Current, Unbilled, Early
<1>3. /\ used' = [used EXCEPT ![s] = IF used[s] + d < 0 THEN 0 ELSE used[s] + d]
      /\ charged' = [charged EXCEPT ![r] = charged[r] + d]
      /\ sid' = [sid EXCEPT ![r] = s] /\ funding' = funding /\ resets' = resets
      /\ snap' = [snap EXCEPT ![r] = NoSnap]
  <2>1. used' = [used EXCEPT ![s] = IF used[s] + d < 0 THEN 0 ELSE used[s] + d]
    BY <1>s, <1>d, <1>2 DEF SubCommit, NewUsed, Set
  <2>2. sid' = [sid EXCEPT ![r] = s]
    BY <1>s, <1>0, <1>2 DEF SubCommit, Set, TypeOK
  <2> QED
    BY <1>d, <2>1, <2>2 DEF SubCommit, Set
<1>4. pc' = Set(pc, r, pc'[r]) /\ pc'[r] \notin Early
  BY <1>0, <1>2, AfterFundLate DEF SubCommit
<1>5. charged \in [Requests -> Int] /\ charged' \in [Requests -> Int]
  BY DEF IInv, TypeOK
<1>6. \A q \in Requests : charged[q] \in Nat /\ charged'[q] \in Nat
  BY <1>5 DEF IInv, Ledger, AtLeast
<1>7. ASSUME NEW q \in Requests, q # r
      PROVE  /\ charged'[q] = charged[q] /\ pc'[q] = pc[q] /\ sid'[q] = sid[q]
             /\ snap'[q] = snap[q]
  BY <1>0, <1>3, <1>4, <1>7 DEF TypeOK, Set
<1>8. snap'[r].sub = 0 /\ charged'[r] = charged[r] + d /\ sid'[r] = s
  BY <1>0, <1>3 DEF TypeOK, NoSnap
<1>9. Exclusive'
  BY <1>7, <1>8 DEF AccountInv, Exclusive
<1>10. ASSUME NEW q \in Requests PROVE Unbilled(q)' /\ Current(q)'
  <2>1. CASE q = r
    BY <1>4, <1>8, <2>1 DEF Unbilled, Current
  <2>2. CASE q # r
    <3>1. snap[q].sub # 0 => snap[q].sub # s
      BY <1>0, <1>s, <2>2 DEF AccountInv, Exclusive
    <3>2. snap[q].sub # 0 => used'[snap[q].sub] = used[snap[q].sub]
      <4>1. snap[q].sub # 0 => snap[q].sub \in Subs
        <5>1. snap[q].sub \in 0..NSubs
          BY <1>0, TypedAt DEF Typed, Snaps
        <5> QED
          BY <5>1, ConstantsAssumption DEF Subs
      <4> QED
        BY <1>1, <1>3, <3>1, <4>1
    <3> QED
      BY <1>7, <2>2, <3>2 DEF AccountInv, Unbilled, Current
  <2> QED
    BY <2>1, <2>2
<1>11. ASSUME NEW u \in Subs, u # s
       PROVE  /\ used'[u] = used[u] /\ Takers(u)' = Takers(u)
              /\ SumOf(charged', Takers(u)) = SumOf(charged, Takers(u))
  <2>1. r \notin Takers(u) /\ r \notin Takers(u)'
    BY <1>2, <1>8, <1>11, ConstantsAssumption DEF Takers, Subs
  <2>2. Takers(u)' = Takers(u)
    BY <1>3, <1>7, <2>1 DEF Takers
  <2>3. IsFiniteSet(Takers(u)) /\ \A q \in Takers(u) : charged'[q] = charged[q]
    BY <1>7, <2>1, FS_Subset DEF Takers
  <2>4. SumOf(charged', Takers(u)) = SumOf(charged, Takers(u))
    BY <2>3, SumSame
  <2> QED
    BY <1>1, <1>3, <1>11, <2>2, <2>4
<1>12. Takers(s)' = rest \union {r} /\ r \notin rest /\ rest \subseteq Requests
  BY <1>2, <1>3, <1>7, <1>8 DEF Takers
<1>13. IsFiniteSet(rest) /\ IsFiniteSet(Takers(s)) /\ IsFiniteSet(Takers(s)')
  BY FS_Subset DEF Takers
<1>14. SumOf(charged', rest) = SumOf(charged, rest) /\ SumOf(charged, rest) \in Int
  BY <1>5, <1>7, <1>12, <1>13, SumSame, SumType
<1>15. SumOf(charged, Takers(s)) = charged[r] + SumOf(charged, rest)
  <2>1. CASE r \in Takers(s)
    BY <1>5, <1>13, <2>1, SumTakes DEF Takers
  <2>2. CASE r \notin Takers(s)
    <3>1. charged[r] = 0 /\ rest = Takers(s)
      BY <1>2, <2>2 DEF Takers
    <3> QED
      BY <1>14, <3>1
  <2> QED
    BY <2>1, <2>2
<1>16. SumOf(charged', Takers(s)') = charged'[r] + SumOf(charged', rest)
  <2>1. Takers(s)' \ {r} = rest /\ r \in Takers(s)'
    BY <1>12
  <2>2. \A q \in Takers(s)' : charged'[q] \in Int
    BY <1>5, <1>12
  <2> QED
    BY <1>13, <2>1, <2>2, SumTakes
<1>17. SumOf(charged', Takers(s)') = SumOf(charged, Takers(s)) + d
  BY <1>1, <1>5, <1>8, <1>14, <1>15, <1>16
<1>18. SumOf(charged', Takers(s)') \in Nat
  BY <1>6, <1>12, <1>13, SumNonneg
<1>19. SumOf(charged, Takers(s)) \in Int
  BY <1>5, <1>14, <1>15
<1>20. /\ used'[s] <= SumOf(charged', Takers(s)')
       /\ resets' = 0 => used'[s] = SumOf(charged', Takers(s)')
  <2>1. /\ used[s] <= SumOf(charged, Takers(s))
        /\ resets = 0 => used[s] = SumOf(charged, Takers(s))
    BY <1>1 DEF AccountInv, SubscriptionAccounts
  <2>2. used'[s] = IF used[s] + d < 0 THEN 0 ELSE used[s] + d
    BY <1>1, <1>3
  <2>3. used[s] \in Nat /\ d \in Int
    BY <1>1
  <2> QED
    BY <1>3, <1>17, <1>18, <1>19, <2>1, <2>2, <2>3
<1>21. SubscriptionAccounts'
  <2> SUFFICES ASSUME NEW u \in Subs
               PROVE  /\ used'[u] <= SumOf(charged', Takers(u)')
                      /\ resets' = 0 => used'[u] = SumOf(charged', Takers(u)')
    BY DEF SubscriptionAccounts
  <2>1. CASE u = s
    BY <1>20, <2>1
  <2>2. CASE u # s
    BY <1>3, <1>11, <2>2 DEF AccountInv, SubscriptionAccounts
  <2> QED
    BY <2>1, <2>2
<1> QED
  BY <1>9, <1>10, <1>21 DEF AccountInv

\* The three steps that change a row and no session.
LEMMA RowAccounts ==
    ASSUME Isolated, ~CommitFaults, IInv, AccountInv, IsFiniteSet(Requests),
           NEW u \in Subs,
           \/ ResetSubscription(u) \/ AdminInvalidateUserSubscription(u)
           \/ ExpireDueSubscriptions(u)
    PROVE  AccountInv'
<1>1. UNCHANGED <<sid, funding, charged, pc, snap>>
  BY DEF ResetSubscription, AdminInvalidateUserSubscription, ExpireDueSubscriptions,
         openVars, histVars
<1>2. Exclusive' /\ \A q \in Requests : Unbilled(q)'
  BY <1>1 DEF AccountInv, Exclusive, Unbilled
<1>3. \A s \in Subs : Takers(s)' = Takers(s)
  BY <1>1 DEF Takers
<1>4. CASE UNCHANGED <<used, resets>>
  BY <1>1, <1>2, <1>3, <1>4 DEF AccountInv, Current, SubscriptionAccounts
<1>5. CASE ResetSubscription(u)
  <2>1. /\ used \in [Subs -> Nat] /\ used' = [used EXCEPT ![u] = 0]
        /\ resets \in Nat /\ resets' = resets + 1
        /\ \A q \in Requests : snap[q].sub # u
    BY <1>5, ConstantsAssumption DEF IInv, TypeOK, ResetSubscription, RowFree, Set
  <2>2. ASSUME NEW q \in Requests PROVE Current(q)'
    <3>1. snap[q].sub \in 0..NSubs
      BY TypedAt DEF IInv, Typed, Snaps
    <3>2. snap[q].sub # 0 => used'[snap[q].sub] = used[snap[q].sub]
      BY <2>1, <3>1, ConstantsAssumption DEF Subs
    <3> QED
      BY <1>1, <3>2 DEF AccountInv, Current
  <2>3. ASSUME NEW s \in Subs PROVE used'[s] <= SumOf(charged, Takers(s))
    <3>1. CASE s # u
      BY <2>1, <3>1 DEF AccountInv, SubscriptionAccounts
    <3>2. CASE s = u
      <4>1. \A q \in Takers(s) : charged[q] \in Nat
        BY DEF Takers, IInv, TypeOK, Ledger, AtLeast
      <4>2. IsFiniteSet(Takers(s))
        BY FS_Subset DEF Takers
      <4>3. SumOf(charged, Takers(s)) \in Nat
        BY <4>1, <4>2, SumNonneg
      <4> QED
        BY <2>1, <3>2, <4>3
    <3> QED
      BY <3>1, <3>2
  <2>4. SubscriptionAccounts'
    BY <1>1, <1>3, <2>1, <2>3 DEF SubscriptionAccounts
  <2> QED
    BY <1>2, <2>2, <2>4 DEF AccountInv
<1> QED
  BY <1>4, <1>5 DEF AdminInvalidateUserSubscription, ExpireDueSubscriptions

LEMMA InitAccounts ==
    ASSUME IsFiniteSet(Requests)
    PROVE  Init => AccountInv
<1> SUFFICES ASSUME Init PROVE AccountInv
  OBVIOUS
<1>1. Exclusive /\ \A r \in Requests : Unbilled(r) /\ Current(r)
  BY DEF Init, NoSnap, Exclusive, Unbilled, Current
<1>2. ASSUME NEW s \in Subs PROVE SumOf(charged, Takers(s)) = 0 /\ used[s] = 0
  <2>1. Takers(s) = {} /\ used[s] = 0
    BY DEF Init, Takers
  <2>2. IsFiniteSet(Takers(s))
    BY <2>1, FS_EmptySet
  <2> QED
    BY <2>1, <2>2, SumUnfolds
<1>3. SubscriptionAccounts
  BY <1>2 DEF SubscriptionAccounts
<1> QED
  BY <1>1, <1>3 DEF AccountInv

LEMMA NextAccounts ==
    ASSUME Isolated, ~CommitFaults, IsFiniteSet(Requests)
    PROVE  IInv /\ IInv' /\ AccountInv /\ [Next]_vars => AccountInv'
<1> SUFFICES ASSUME IInv, IInv', AccountInv, [Next]_vars PROVE AccountInv'
  OBVIOUS
<1>0. TypeOK
  BY DEF IInv
<1>1. ASSUME NEW r \in Requests, SessionStep(r) PROVE AccountInv'
  <2>1. \/ Quiet(r) \/ AdjustWallet(r) \/ SubBegin(r) \/ SubCommit(r)
    BY <1>1, OpeningQuiet, TokenQuiet, LifeQuiet, FundingQuiet DEF SessionStep
  <2> QED
    BY <1>0, <2>1, QuietKeeps, AdjustWalletAccounts, SubBeginAccounts, SubCommitAccounts
<1>2. ASSUME NEW r \in Requests, ErrorStep(r) PROVE AccountInv'
  <2>1. Quiet(r)
    BY <1>2, TokenQuiet, LifeQuiet, FundingQuiet DEF ErrorStep
  <2> QED
    BY <1>0, <2>1, QuietKeeps
<1>3. CASE UNCHANGED vars
  BY <1>3 DEF vars, dbVars, openVars, holdVars, histVars, AccountInv, Exclusive,
     Unbilled, Current, SubscriptionAccounts, Takers
<1> QED
  BY <1>1, <1>2, <1>3, RowAccounts DEF Next

-----------------------------------------------------------------------------
(* The theorems.                                                           *)

\* The ledger of every request and the snapshot of every open transaction are
\* as IInv says, in every reachable state.
THEOREM InductiveInvariant == Spec => []IInv
BY InitIInv, NextKeeps, PTL DEF Spec

\* Type correctness: amount_used, tokenConsumed, extraReserved and consumed never
\* become negative, and no session reaches an unknown step.
THEOREM TypeCorrect == Spec => []TypeOK
<1>1. IInv => TypeOK
  BY DEF IInv
<1> QED
  BY <1>1, InductiveInvariant, PTL

\* amount_used stays within amount_total, with or without effective row locks.
THEOREM PlanNeverExceeded == Spec => []WithinPlan
<1>1. IInv => WithinPlan
  BY DEF IInv
<1> QED
  BY <1>1, InductiveInvariant, PTL

\* If a failed commit of RefundSubscriptionPreConsume is always seen again by the
\* retry as refunded, no request ever gives back more than it took, whatever
\* other statements fail.
THEOREM NoOverRefund ==
    ASSUME ~CommitFaults
    PROVE  Spec => []NeverOverRefunded
<1>1. IInv => NeverOverRefunded
  BY DEF IInv, Ledger, AtLeast, NeverOverRefunded
<1> QED
  BY <1>1, InductiveInvariant, PTL

\* Without realtime sessions, every request that met no failed statement ends
\* having paid exactly what it owes, for any number of concurrent requests.
THEOREM ChargesAreExact ==
    ASSUME Realtime = {}
    PROVE  Spec => []BilledAsOwed
<1>1. IInv => BilledAsOwed
  BY DEF IInv, Ledger, Exactly, Paid, BilledAsOwed, Owed, Done
<1> QED
  BY <1>1, InductiveInvariant, PTL

\* If the row locks take effect and no failed commit makes a refund run twice, the
\* accounts of the subscriptions are right for any finite number of requests,
\* plans, failures and quota resets: amount_used is the sum of what the requests
\* took, and after a reset at most that.
THEOREM AccountsBalance ==
    ASSUME Isolated, ~CommitFaults, IsFiniteSet(Requests)
    PROVE  Spec => []SubscriptionAccounts
<1>1. Init => AccountInv
  BY InitAccounts
<1>2. IInv /\ IInv' /\ AccountInv /\ [Next]_vars => AccountInv'
  BY NextAccounts
<1>3. AccountInv => SubscriptionAccounts
  BY DEF AccountInv
<1> QED
  BY <1>1, <1>2, <1>3, InductiveInvariant, PTL DEF Spec

\* If the row locks take effect, a cancelled subscription stays cancelled.
THEOREM CancellationStands ==
    ASSUME Isolated
    PROVE  Spec => CancelStands
<1> DEFINE Stands == \A s \in Subs :
                        status[s] = "cancelled" => status'[s] = "cancelled"
<1>1. IInv /\ [Next]_vars => [Stands]_vars
  <2> SUFFICES ASSUME IInv, Next PROVE Stands
    OBVIOUS
  <2>1. ASSUME NEW r \in Requests, SessionStep(r) PROVE status' = status
    <3>1. CASE SubCommit(r)
      BY <3>1, SubCommitStatus
    <3>2. CASE ~SubCommit(r)
      BY <2>1, <3>2 DEF SessionStep, NewBillingSession, HasActiveUserSubscription,
         tryWallet, WalletInsufficient, trySubscription,
         UserActiveSubscriptionsAllowWalletOverflow, PreConsumeTokenQuota,
         AdjustToken, AdjustWallet, SubBegin, SubInsufficient, SubRefused,
         RefundSubscriptionPreConsume, RecordSave, Reserve, PreWssConsumeQuota,
         Settle, Refund, dbVars
    <3> QED
      BY <3>1, <3>2
  <2>2. ASSUME NEW r \in Requests, ErrorStep(r) PROVE status' = status
    BY <2>2 DEF ErrorStep, AdjustTokenError, AdjustWalletError, ReadError,
       SubSelectError, SubError, RecordSaveError, dbVars
  <2>3. ASSUME NEW u \in Subs,
               \/ ResetSubscription(u) \/ AdminInvalidateUserSubscription(u)
               \/ ExpireDueSubscriptions(u)
        PROVE  Stands
    <3>1. status \in [Subs -> Statuses]
      BY DEF IInv, TypeOK
    <3> QED
      BY <2>3, <3>1 DEF ResetSubscription, AdminInvalidateUserSubscription,
         ExpireDueSubscriptions, Set
  <2> QED
    BY <2>1, <2>2, <2>3 DEF Next
<1> QED
  BY <1>1, InductiveInvariant, PTL DEF Spec, CancelStands
=============================================================================
