--------------------------- MODULE BillingSession ---------------------------
(***************************************************************************)
(* The billing of relay requests: each request opens a BillingSession that *)
(* pre-consumes from a funding source (the user's wallet or one of the     *)
(* user's subscriptions) and from the token, may reserve more, and ends by *)
(* Settle or by Refund, which runs in a goroutine of its own.  The requests*)
(* are those of one user with one token; what they share is the database.  *)
(*                                                                         *)
(* One step is one SQL statement on the wallet or the token (both are      *)
(* "quota = quota + delta"), or the read or the write of one transaction   *)
(* on a subscription row (a read-modify-write that saves the whole row).   *)
(* charged and tcharged are the history of what each request took.         *)
(***************************************************************************)
EXTENDS Integers, FiniteSets, FiniteSetsExt

CONSTANTS
    Requests,
    NSubs,        \* the user's subscriptions are 1..NSubs, by end_time
    Wallet0, Token0,
    Total,        \* amount_total of each subscription, 0 for no limit
    Strict,       \* subscriptions with allow_wallet_overflow = false
    Pref,         \* the user's normalised billing preference
    Trust,        \* GetTrustQuota(), 0 when the bypass is off
    Amounts,      \* QuotaToPreConsume of a request
    Goals,        \* actual quota at Settle, and targets of Reserve
    Unlimited,    \* TokenUnlimited
    Playground,   \* requests with IsPlayground
    Forced,       \* requests with ForcePreConsume (async tasks)
    Realtime,     \* websocket sessions, billed per turn
    Isolated,     \* the FOR UPDATE of the transactions takes effect
    Conns,        \* SQL_MAX_OPEN_CONNS
    CommitFaults, \* RefundSubscriptionPreConsume may fail after its inner commit
    MaxFaults,    \* bound: statements that fail
    MaxResets,    \* bound: quota resets of a subscription
    MaxUsage      \* bound: usage of a realtime session

Subs == 1..NSubs
Preferences ==
    {"subscription_only", "wallet_only", "wallet_first", "subscription_first"}

ASSUME ConstantsAssumption ==
    /\ NSubs \in Nat /\ Wallet0 \in Nat /\ Token0 \in Nat
    /\ Total \in [Subs -> Nat] /\ Strict \subseteq Subs
    /\ Pref \in Preferences /\ Trust \in Nat
    /\ Amounts \subseteq Nat /\ Goals \subseteq Nat
    /\ Unlimited \in BOOLEAN /\ Isolated \in BOOLEAN /\ CommitFaults \in BOOLEAN
    /\ Conns \in Nat \ {0}
    /\ MaxFaults \in Nat /\ MaxResets \in Nat /\ MaxUsage \in Nat

\* maxAttempts of refundWithRetry.
MaxTries == 3

VARIABLES
    wallet,   \* users.quota
    token,    \* tokens.remain_quota
    used,     \* user_subscriptions.amount_used
    status,   \* user_subscriptions.status; "expired" as soon as end_time has passed
    record,   \* status of the request's SubscriptionPreConsumeRecord
    pc,       \* what the request is doing
    asked,    \* preConsumedQuota passed to NewBillingSession
    funding,  \* session.funding.Source()
    amount,   \* effectiveQuota
    tquota,   \* token_quota in the context, read when authenticated
    trusted,  \* session.trusted
    pre,      \* session.preConsumedQuota
    tok,      \* session.tokenConsumed
    extra,    \* session.extraReserved
    fund,     \* WalletFunding.consumed or SubscriptionFunding.preConsumed
    sid,      \* SubscriptionFunding.subscriptionId
    snap,     \* row read by the open transaction, sub = 0 when there is none
    goal,     \* target of Reserve, actual quota of Settle, quota of a turn
    usage,    \* sumUsage of a realtime session
    tries,    \* attempts of refundWithRetry
    faulty,   \* a statement of the request failed
    charged,  \* history: net amount taken from the funding source
    tcharged, \* history: net amount taken from the token
    faults, resets

dbVars == <<wallet, token, used, status, record>>
openVars == <<asked, tquota, funding, amount, trusted, sid>>
holdVars == <<pre, tok, extra, fund>>
histVars == <<charged, tcharged>>
vars == <<dbVars, pc, openVars, holdVars, snap, goal, usage, tries, faulty,
          histVars, faults, resets>>

NoSnap == [sub |-> 0, used |-> 0, status |-> "none"]

Init ==
    /\ wallet = Wallet0 /\ token = Token0
    /\ used = [s \in Subs |-> 0] /\ status = [s \in Subs |-> "active"]
    /\ record = [r \in Requests |-> "none"]
    /\ pc = [r \in Requests |-> "new"]
    /\ asked = [r \in Requests |-> 0] /\ amount = [r \in Requests |-> 0]
    /\ funding = [r \in Requests |-> "none"]
    /\ tquota = [r \in Requests |-> 0] /\ trusted = [r \in Requests |-> FALSE]
    /\ pre = [r \in Requests |-> 0] /\ tok = [r \in Requests |-> 0]
    /\ extra = [r \in Requests |-> 0] /\ fund = [r \in Requests |-> 0]
    /\ sid = [r \in Requests |-> 0] /\ snap = [r \in Requests |-> NoSnap]
    /\ goal = [r \in Requests |-> 0] /\ usage = [r \in Requests |-> 0]
    /\ tries = [r \in Requests |-> 0] /\ faulty = [r \in Requests |-> FALSE]
    /\ charged = [r \in Requests |-> 0] /\ tcharged = [r \in Requests |-> 0]
    /\ faults = 0 /\ resets = 0

Set(f, r, v) == [f EXCEPT ![r] = v]
Goto(r, label) == pc' = Set(pc, r, label)

\* A connection of the pool is free: an open transaction holds one, and that of
\* RefundSubscriptionPreConsume is still open while its inner one runs.
ConnFree ==
    Cardinality({q \in Requests : snap[q].sub # 0})
        + Cardinality({q \in Requests : pc[q] \in {"recopen", "recsave"}}) < Conns

\* A statement of request r fails.
Fault(r) ==
    /\ faults < MaxFaults
    /\ faults' = faults + 1
    /\ faulty' = Set(faulty, r, TRUE)

-----------------------------------------------------------------------------
(* NewBillingSession: the preference, the wallet check, the fallbacks.     *)

NewBillingSession(r) ==
    /\ pc[r] = "new"
    /\ \E a \in Amounts : asked' = Set(asked, r, a)
    /\ tquota' = Set(tquota, r, token)
    /\ Goto(r, IF Pref = "subscription_only" THEN "sub"
               ELSE IF Pref = "subscription_first" THEN "hassub" ELSE "wallet")
    /\ UNCHANGED <<dbVars, funding, amount, trusted, sid, holdVars, snap, goal, usage,
                   tries, faulty, histVars, faults, resets>>

HasActiveUserSubscription(r) ==
    /\ pc[r] = "hassub" /\ ConnFree
    /\ Goto(r, IF \E s \in Subs : status[s] = "active" THEN "sub" ELSE "wallet")
    /\ UNCHANGED <<dbVars, openVars, holdVars, snap, goal, usage, tries, faulty,
                   histVars, faults, resets>>

\* shouldTrust: only the wallet may skip the pre-consume.
shouldTrust(r) ==
    /\ r \notin Forced /\ Trust > 0
    /\ Unlimited \/ tquota[r] > Trust
    /\ wallet > Trust

tryWallet(r) ==
    /\ pc[r] = "wallet" /\ ConnFree
    /\ wallet > 0 /\ wallet >= asked[r]
    /\ funding' = Set(funding, r, "wallet")
    /\ trusted' = Set(trusted, r, shouldTrust(r))
    /\ amount' = Set(amount, r, IF shouldTrust(r) THEN 0 ELSE asked[r])
    /\ Goto(r, IF amount'[r] > 0 THEN "pretok" ELSE "prefund")
    /\ UNCHANGED <<dbVars, asked, tquota, sid, holdVars, snap, goal, usage, tries,
                   faulty, histVars, faults, resets>>

\* ErrorCodeInsufficientUserQuota: only wallet_first falls back from here.
WalletInsufficient(r) ==
    /\ pc[r] = "wallet" /\ ConnFree
    /\ ~(wallet > 0 /\ wallet >= asked[r])
    /\ Goto(r, IF Pref = "wallet_first" THEN "sub" ELSE "rejected")
    /\ UNCHANGED <<dbVars, openVars, holdVars, snap, goal, usage, tries, faulty,
                   histVars, faults, resets>>

\* A subscription is always charged something: subConsume is at least 1.
trySubscription(r) ==
    /\ pc[r] = "sub"
    /\ funding' = Set(funding, r, "subscription")
    /\ amount' = Set(amount, r, IF asked[r] > 0 THEN asked[r] ELSE 1)
    /\ Goto(r, "pretok")
    /\ UNCHANGED <<dbVars, asked, tquota, trusted, sid, holdVars, snap, goal, usage,
                   tries, faulty, histVars, faults, resets>>

\* Where a session goes whose subscription was insufficient.
AfterInsufficient == IF Pref = "subscription_first" THEN "overflow" ELSE "rejected"

UserActiveSubscriptionsAllowWalletOverflow(r) ==
    /\ pc[r] = "overflow" /\ ConnFree
    /\ Goto(r, IF \E s \in Strict : status[s] = "active" THEN "rejected" ELSE "wallet")
    /\ UNCHANGED <<dbVars, openVars, holdVars, snap, goal, usage, tries, faulty,
                   histVars, faults, resets>>

-----------------------------------------------------------------------------
(* Statements on the token.                                                *)

\* FinishReserve: the fields Reserve updates once both sources have paid.
FinishReserve(r) ==
    LET delta == goal[r] - pre[r] IN
    /\ pre' = Set(pre, r, pre[r] + delta)
    /\ tok' = Set(tok, r, tok[r] + delta)
    /\ extra' = Set(extra, r, extra[r] + delta)
    /\ Goto(r, "open")

\* PreConsumeTokenQuota reads the token first, and skips a playground request,
\* whose tokenConsumed is set all the same.
PreConsumeTokenQuota(r) ==
    /\ pc[r] \in {"pretok", "restok"} /\ ConnFree
    /\ LET need == IF pc[r] = "pretok" THEN amount[r] ELSE goal[r] - pre[r]
           enough == Unlimited \/ token >= need
       IN
       \/ r \in Playground /\ Goto(r, "prefund") /\ tok' = Set(tok, r, amount[r])
       \/ /\ r \notin Playground /\ tok' = tok
          /\ \/ enough /\ Goto(r, IF pc[r] = "pretok" THEN "pretokdec" ELSE "restokdec")
             \/ ~enough /\ Goto(r, IF pc[r] = "pretok" THEN "rejected" ELSE "resback")
    /\ UNCHANGED <<dbVars, openVars, pre, extra, fund, snap, goal, usage, tries,
                   faulty, histVars, faults, resets>>

TokenOps == {"pretokdec", "backinsuf", "backerr", "restokdec", "settok", "rtok",
             "turntok"}

\* What the statement at hand takes from the token.
TokenDelta(r) ==
    IF pc[r] = "pretokdec" THEN amount[r]
    ELSE IF pc[r] \in {"backinsuf", "backerr", "rtok"} THEN -tok[r]
    ELSE IF pc[r] \in {"restokdec", "settok"} THEN goal[r] - pre[r]
    ELSE goal[r]

\* How the session goes on after it.
AfterToken(r, ok) ==
    \/ /\ pc[r] = "pretokdec"
       /\ tok' = Set(tok, r, IF ok THEN amount[r] ELSE 0)
       /\ Goto(r, IF ok THEN "prefund" ELSE "rejected")
       /\ UNCHANGED <<pre, extra>>
    \/ /\ pc[r] \in {"backinsuf", "backerr"}
       /\ tok' = Set(tok, r, 0)
       /\ Goto(r, IF pc[r] = "backinsuf" THEN AfterInsufficient ELSE "rejected")
       /\ UNCHANGED <<pre, extra>>
    \/ pc[r] = "restokdec" /\ ok /\ FinishReserve(r)
    \/ /\ pc[r] = "restokdec" /\ ~ok
       /\ Goto(r, "resback")
       /\ UNCHANGED <<pre, tok, extra>>
    \/ /\ pc[r] \in {"settok", "rtok", "turntok"}
       /\ Goto(r, IF pc[r] = "settok" THEN "settled"
                  ELSE IF pc[r] = "rtok" THEN "refunded"
                  ELSE IF ok THEN "open" ELSE "ended")
       /\ UNCHANGED <<pre, tok, extra>>

AdjustToken(r) ==
    /\ pc[r] \in TokenOps /\ ConnFree
    /\ token' = token - TokenDelta(r)
    /\ tcharged' = Set(tcharged, r, tcharged[r] + TokenDelta(r))
    /\ AfterToken(r, TRUE)
    /\ UNCHANGED <<wallet, used, status, record, openVars, fund, snap, goal, usage,
                   tries, faulty, charged, faults, resets>>

\* The error is logged, or ends the pre-consume, the reserve or the session.
AdjustTokenError(r) ==
    /\ pc[r] \in TokenOps
    /\ Fault(r)
    /\ AfterToken(r, FALSE)
    /\ UNCHANGED <<dbVars, openVars, fund, snap, goal, usage, tries, histVars, resets>>

-----------------------------------------------------------------------------
(* Operations on the funding source.                                       *)

\* The refund of a subscription is at "recopen" once its record was read.
FundOps == {"prefund", "resfund", "resback", "setfund", "refund", "recopen", "extra",
            "turnfund"}

\* What the operation at hand takes from the funding source.
FundDelta(r) ==
    IF pc[r] = "prefund" THEN amount[r]
    ELSE IF pc[r] \in {"resfund", "setfund"} THEN goal[r] - pre[r]
    ELSE IF pc[r] = "resback" THEN pre[r] - goal[r]
    ELSE IF pc[r] \in {"refund", "recopen"} THEN -fund[r]
    ELSE IF pc[r] = "extra" THEN -extra[r]
    ELSE goal[r]

\* The rest of Refund's goroutine, after the funding source was refunded and
\* after the extra reserve was: the wallet's consumed includes its reserves.
AfterExtra(r) == IF tok[r] > 0 /\ r \notin Playground THEN "rtok" ELSE "refunded"

AfterRefund(r) ==
    IF funding[r] = "subscription" /\ extra[r] > 0 THEN "extra" ELSE AfterExtra(r)

\* preConsume after funding.PreConsume: a failure rolls the token back first.
AfterPreConsume(r, res) ==
    \/ /\ res = "ok"
       /\ pre' = Set(pre, r, amount[r])
       /\ fund' = Set(fund, r, amount[r])
       /\ Goto(r, "open")
       /\ UNCHANGED <<tok, extra, tries>>
    \/ /\ res # "ok"
       /\ LET back == tok[r] > 0 /\ r \notin Playground IN
          /\ Goto(r, IF res = "insufficient"
                     THEN IF back THEN "backinsuf" ELSE AfterInsufficient
                     ELSE IF back THEN "backerr" ELSE "rejected")
          /\ tok' = IF back THEN tok ELSE Set(tok, r, 0)
       /\ UNCHANGED <<pre, extra, fund, tries>>

\* Reserve after reserveFunding: only the wallet remembers it in consumed.
AfterReserve(r, res) ==
    /\ fund' = IF res = "ok" /\ funding[r] = "wallet"
               THEN Set(fund, r, fund[r] + FundDelta(r)) ELSE fund
    /\ tries' = tries
    /\ IF res = "ok" /\ r \in Playground
       THEN FinishReserve(r)
       ELSE /\ Goto(r, IF res = "ok" THEN "restok" ELSE "open")
            /\ UNCHANGED <<pre, tok, extra>>

\* rollbackFundingReserve.
AfterRollback(r, res) ==
    /\ fund' = IF res = "ok" /\ funding[r] = "wallet"
               THEN Set(fund, r, fund[r] + FundDelta(r)) ELSE fund
    /\ Goto(r, "open")
    /\ UNCHANGED <<pre, tok, extra, tries>>

\* Mutant: the settlement forgets the token.
AfterSettleNoToken(r, res) ==
    /\ Goto(r, IF res # "ok" THEN "unsettled" ELSE "settled")
    /\ UNCHANGED <<holdVars, tries>>

\* Settle after funding.Settle.
AfterSettle(r, res) ==
    /\ Goto(r, IF res # "ok" THEN "unsettled"
               ELSE IF r \in Playground THEN "settled" ELSE "settok")
    /\ UNCHANGED <<holdVars, tries>>

\* refundWithRetry: another attempt, or on with the goroutine.
RetryRefund(r) ==
    /\ IF tries[r] + 1 < MaxTries
       THEN Goto(r, "refund") /\ tries' = Set(tries, r, tries[r] + 1)
       ELSE Goto(r, AfterRefund(r)) /\ tries' = tries
    /\ UNCHANGED holdVars

\* A wallet refund is tried once; a subscription refund goes on to its record.
AfterRefundOp(r, res) ==
    \/ /\ funding[r] = "wallet" \/ res = "ok"
       /\ Goto(r, IF funding[r] = "wallet" THEN AfterRefund(r) ELSE "recsave")
       /\ UNCHANGED <<holdVars, tries>>
    \/ funding[r] = "subscription" /\ res # "ok" /\ RetryRefund(r)

AfterFund(r, res) ==
    \/ pc[r] = "prefund" /\ AfterPreConsume(r, res)
    \/ pc[r] = "resfund" /\ AfterReserve(r, res)
    \/ pc[r] = "resback" /\ AfterRollback(r, res)
    \/ pc[r] = "setfund" /\ AfterSettle(r, res)
    \/ pc[r] \in {"refund", "recopen"} /\ AfterRefundOp(r, res)
    \/ pc[r] = "extra" /\ Goto(r, AfterExtra(r)) /\ UNCHANGED <<holdVars, tries>>
    \/ /\ pc[r] = "turnfund"
       /\ Goto(r, IF res # "ok" THEN "ended"
                  ELSE IF r \in Playground THEN "open" ELSE "turntok")
       /\ UNCHANGED <<holdVars, tries>>

\* IncreaseUserQuota / DecreaseUserQuota; nothing is written for 0.
AdjustWallet(r) ==
    /\ pc[r] \in FundOps /\ funding[r] = "wallet" /\ ConnFree
    /\ wallet' = wallet - FundDelta(r)
    /\ charged' = Set(charged, r, charged[r] + FundDelta(r))
    /\ AfterFund(r, "ok")
    /\ UNCHANGED <<token, used, status, record, openVars, snap, goal, usage, faulty,
                   tcharged, faults, resets>>

AdjustWalletError(r) ==
    /\ pc[r] \in FundOps /\ funding[r] = "wallet" /\ FundDelta(r) # 0
    /\ Fault(r)
    /\ AfterFund(r, "error")
    /\ UNCHANGED <<dbVars, openVars, snap, goal, usage, histVars, resets>>

-----------------------------------------------------------------------------
(* Transactions on a subscription row.                                     *)

\* With the row locks the code asks for, the row is ours from the read to the end
\* of the transaction.
RowFree(s) == Isolated => \A q \in Requests : snap[q].sub # s

\* An active subscription with room for the request.
Offers(r, s) ==
    status[s] = "active" /\ (Total[s] = 0 \/ Total[s] - used[s] >= amount[r])

\* The row the transaction reads: PreConsumeUserSubscription takes the first
\* active one with room, the others the one that was pre-consumed.  (Its lazy
\* reset of a row that is due is ResetSubscription just before it.)
Chosen(r, s) ==
    IF pc[r] = "prefund"
    THEN /\ Offers(r, s)
         /\ \A u \in Subs : u < s => ~Offers(r, u)
    ELSE s = sid[r]

\* A transaction on a subscription row is next.
SubOp(r) ==
    /\ pc[r] \in FundOps \ {"refund"} /\ funding[r] = "subscription"
    /\ snap[r].sub = 0

\* Mutant: no lock on the row.
SubBeginUnlocked(r) ==
    /\ SubOp(r) /\ ConnFree
    /\ \E s \in Subs :
        /\ Chosen(r, s)
        /\ snap' = Set(snap, r, [sub |-> s, used |-> used[s], status |-> status[s]])
    /\ UNCHANGED <<dbVars, pc, openVars, holdVars, goal, usage, tries, faulty, histVars,
                   faults, resets>>

\* The SELECT ... FOR UPDATE that starts the transaction.
SubBegin(r) ==
    /\ SubOp(r) /\ ConnFree
    /\ \E s \in Subs :
        /\ Chosen(r, s) /\ RowFree(s)
        /\ snap' = Set(snap, r, [sub |-> s, used |-> used[s], status |-> status[s]])
    /\ UNCHANGED <<dbVars, pc, openVars, holdVars, goal, usage, tries, faulty, histVars,
                   faults, resets>>

\* The SELECT of the rows fails, which PreConsumeUserSubscription reports as
\* "no active subscription".
SubSelectError(r) ==
    /\ SubOp(r) /\ pc[r] = "prefund"
    /\ Fault(r)
    /\ AfterFund(r, "insufficient")
    /\ UNCHANGED <<dbVars, openVars, snap, goal, usage, histVars, resets>>

\* "no active subscription", "subscription quota insufficient".
SubInsufficient(r) ==
    /\ SubOp(r) /\ pc[r] = "prefund" /\ ConnFree
    /\ \A s \in Subs : ~Offers(r, s)
    /\ AfterFund(r, "insufficient")
    /\ UNCHANGED <<dbVars, openVars, snap, goal, usage, faulty, histVars, faults, resets>>

\* Mutant: a refund may make amount_used negative.
NewUsedUnclamped(r) == snap[r].used + FundDelta(r)

\* amount_used after the transaction, not below 0.
NewUsed(r) ==
    IF snap[r].used + FundDelta(r) < 0 THEN 0 ELSE snap[r].used + FundDelta(r)

\* Mutant: the limit is only checked when pre-consuming.
ExceedsNever(r) == FALSE

\* PostConsumeUserSubscriptionDelta refuses to go over amount_total.
Exceeds(r) ==
    LET total == Total[snap[r].sub] IN
    pc[r] # "prefund" /\ total > 0 /\ NewUsed(r) > total

\* tx.Save writes every column back, status and end_time too (which cannot bring
\* back a term that is over); a pre-consume also inserts its record, the first
\* with its request id.  charged takes the whole delta, also where NewUsed cuts
\* amount_used off at 0.
SubCommit(r) ==
    /\ snap[r].sub # 0 /\ ~Exceeds(r)
    /\ used' = Set(used, snap[r].sub, NewUsed(r))
    /\ status' = IF status[snap[r].sub] = "expired" THEN status
                 ELSE Set(status, snap[r].sub, snap[r].status)
    /\ record' = IF pc[r] = "prefund" THEN Set(record, r, "consumed") ELSE record
    /\ sid' = IF pc[r] = "prefund" THEN Set(sid, r, snap[r].sub) ELSE sid
    /\ charged' = Set(charged, r, charged[r] + FundDelta(r))
    /\ snap' = Set(snap, r, NoSnap)
    /\ AfterFund(r, "ok")
    /\ UNCHANGED <<wallet, token, asked, tquota, funding, amount, trusted, goal, usage,
                   faulty, tcharged, faults, resets>>

SubRefused(r) ==
    /\ snap[r].sub # 0 /\ Exceeds(r)
    /\ snap' = Set(snap, r, NoSnap)
    /\ AfterFund(r, "error")
    /\ UNCHANGED <<dbVars, openVars, goal, usage, faulty, histVars, faults, resets>>

\* Mutant: the failed transaction is not rolled back and keeps its row lock.
SubErrorKeepsLock(r) ==
    /\ snap[r].sub # 0
    /\ Fault(r)
    /\ Goto(r, "unsettled")
    /\ UNCHANGED <<dbVars, openVars, holdVars, snap, goal, usage, tries, histVars,
                   resets>>

\* The transaction fails and is rolled back.
SubError(r) ==
    /\ snap[r].sub # 0
    /\ Fault(r)
    /\ snap' = Set(snap, r, NoSnap)
    /\ AfterFund(r, "error")
    /\ UNCHANGED <<dbVars, openVars, goal, usage, histVars, resets>>

\* Mutant: the retry does not look at the status of the record.
RefundIgnoresRecord(r) ==
    /\ pc[r] = "refund" /\ funding[r] = "subscription" /\ ConnFree
    /\ Goto(r, "recopen")
    /\ UNCHANGED <<dbVars, openVars, holdVars, snap, goal, usage, tries, faulty,
                   histVars, faults, resets>>

\* RefundSubscriptionPreConsume opens its transaction and reads the record; a
\* retry that finds it refunded does nothing.
RefundSubscriptionPreConsume(r) ==
    /\ pc[r] = "refund" /\ funding[r] = "subscription" /\ ConnFree
    /\ Goto(r, IF record[r] = "refunded" THEN AfterRefund(r) ELSE "recopen")
    /\ UNCHANGED <<dbVars, openVars, holdVars, snap, goal, usage, tries, faulty,
                   histVars, faults, resets>>

\* The record is saved by that transaction, after the delta was committed by
\* one of its own.
RecordSave(r) ==
    /\ pc[r] = "recsave"
    /\ record' = Set(record, r, "refunded")
    /\ Goto(r, AfterRefund(r))
    /\ UNCHANGED <<wallet, token, used, status, openVars, holdVars, snap, goal, usage,
                   tries, faulty, histVars, faults, resets>>

\* The outer commit reports an error although it took effect, or because it
\* did not.
RecordSaveError(r) ==
    /\ pc[r] = "recsave"
    /\ Fault(r)
    /\ \/ record' = Set(record, r, "refunded")
       \/ CommitFaults /\ record' = record
    /\ RetryRefund(r)
    /\ UNCHANGED <<wallet, token, used, status, openVars, snap, goal, usage, histVars,
                   resets>>

\* ResetDueSubscriptions, and the lazy reset of a row that is due.
ResetSubscription(s) ==
    /\ resets < MaxResets /\ status[s] = "active" /\ RowFree(s)
    /\ resets' = resets + 1
    /\ used' = Set(used, s, 0)
    /\ UNCHANGED <<wallet, token, status, record, pc, openVars, holdVars, snap, goal,
                   usage, tries, faulty, histVars, faults>>

\* Mutant: the row is updated without waiting for the transactions that read it.
AdminInvalidateUnlocked(s) ==
    /\ status[s] = "active"
    /\ status' = Set(status, s, "cancelled")
    /\ UNCHANGED <<wallet, token, used, record, pc, openVars, holdVars, snap, goal,
                   usage, tries, faulty, histVars, faults, resets>>

\* AdminInvalidateUserSubscription: status cancelled and end_time now.
AdminInvalidateUserSubscription(s) ==
    /\ status[s] = "active" /\ RowFree(s)
    /\ status' = Set(status, s, "cancelled")
    /\ UNCHANGED <<wallet, token, used, record, pc, openVars, holdVars, snap, goal,
                   usage, tries, faulty, histVars, faults, resets>>

\* end_time passes; ExpireDueSubscriptions then records what every query
\* already sees.
ExpireDueSubscriptions(s) ==
    /\ status[s] = "active"
    /\ status' = Set(status, s, "expired")
    /\ UNCHANGED <<wallet, token, used, record, pc, openVars, holdVars, snap, goal,
                   usage, tries, faulty, histVars, faults, resets>>

-----------------------------------------------------------------------------
(* The life of an open session.                                            *)

\* Reserve, which the interface offers to a running request (no adaptor calls it
\* at this commit): nothing to do for a trusted session or a target already covered.
Reserve(r) ==
    /\ pc[r] = "open" /\ ~trusted[r]
    /\ \E g \in Goals : g > pre[r] /\ goal' = Set(goal, r, g)
    /\ Goto(r, "resfund")
    /\ UNCHANGED <<dbVars, openVars, holdVars, snap, usage, tries, faulty, histVars,
                   faults, resets>>

\* A turn of a realtime session: preConsumeUsage adds it to sumUsage, then
\* PreWssConsumeQuota checks it and charges it through PostConsumeQuota.
Turn(r) ==
    /\ pc[r] = "open" /\ r \in Realtime
    /\ \E g \in Goals :
        /\ g > 0 /\ usage[r] + g <= MaxUsage
        /\ usage' = Set(usage, r, usage[r] + g)
        /\ goal' = Set(goal, r, g)

PreWssConsumeQuota(r) ==
    /\ Turn(r) /\ ConnFree
    /\ Goto(r, IF wallet >= goal'[r] /\ (Unlimited \/ token >= goal'[r])
               THEN "turnfund" ELSE "ended")
    /\ UNCHANGED <<dbVars, openVars, holdVars, snap, tries, faulty, histVars, faults,
                   resets>>

\* Settle with the actual quota, for a realtime session that of its sumUsage.
Settle(r) ==
    /\ pc[r] = "open" \/ pc[r] = "ended"
    /\ \E g \in IF r \in Realtime THEN {usage[r]} ELSE Goals :
        /\ goal' = Set(goal, r, g)
        /\ Goto(r, IF g = pre[r] THEN "settled" ELSE "setfund")
    /\ UNCHANGED <<dbVars, openVars, holdVars, snap, usage, tries, faulty, histVars,
                   faults, resets>>

\* Refund when the request failed, if needsRefundLocked; the goroutine skips a
\* funding source nothing was taken from.
Refund(r) ==
    /\ pc[r] = "open" /\ usage[r] = 0
    /\ Goto(r, IF ~(tok[r] > 0 \/ (funding[r] = "subscription" /\ fund[r] > 0))
               THEN "refunded"
               ELSE IF fund[r] > 0 THEN "refund" ELSE AfterRefund(r))
    /\ UNCHANGED <<dbVars, openVars, holdVars, snap, goal, usage, tries, faulty,
                   histVars, faults, resets>>

\* A read of the user, the token, the subscriptions or the record fails.
ReadError(r) ==
    /\ Fault(r)
    /\ \/ /\ pc[r] \in {"hassub", "wallet", "overflow", "pretok"}
          /\ pc[r] = "pretok" => r \notin Playground
          /\ Goto(r, "rejected")
          /\ UNCHANGED <<holdVars, goal, usage, tries>>
       \/ /\ pc[r] = "restok"
          /\ Goto(r, "resback")
          /\ UNCHANGED <<holdVars, goal, usage, tries>>
       \/ /\ Turn(r)
          /\ Goto(r, "ended")
          /\ UNCHANGED <<holdVars, tries>>
       \/ /\ pc[r] = "refund" /\ funding[r] = "subscription"
          /\ RetryRefund(r)
          /\ UNCHANGED <<goal, usage>>
    /\ UNCHANGED <<dbVars, openVars, snap, histVars, resets>>

SessionStep(r) ==
    \/ NewBillingSession(r) \/ HasActiveUserSubscription(r)
    \/ tryWallet(r) \/ WalletInsufficient(r) \/ trySubscription(r)
    \/ UserActiveSubscriptionsAllowWalletOverflow(r)
    \/ PreConsumeTokenQuota(r) \/ AdjustToken(r) \/ AdjustWallet(r)
    \/ SubBegin(r) \/ SubInsufficient(r) \/ SubCommit(r) \/ SubRefused(r)
    \/ RefundSubscriptionPreConsume(r) \/ RecordSave(r)
    \/ Reserve(r) \/ PreWssConsumeQuota(r) \/ Settle(r) \/ Refund(r)

ErrorStep(r) ==
    \/ AdjustTokenError(r) \/ AdjustWalletError(r) \/ ReadError(r)
    \/ SubSelectError(r) \/ SubError(r) \/ RecordSaveError(r)

Next ==
    \/ \E r \in Requests : SessionStep(r) \/ ErrorStep(r)
    \/ \E s \in Subs : \/ ResetSubscription(s)
                       \/ AdminInvalidateUserSubscription(s)
                       \/ ExpireDueSubscriptions(s)

Spec == Init /\ [][Next]_vars

\* A request that was admitted is served or fails, after finitely many reserves,
\* and gopool runs the goroutine that Refund starts.
FairSpec ==
    /\ Spec
    /\ \A r \in Requests : WF_vars(SessionStep(r)) /\ SF_vars(Settle(r) \/ Refund(r))

-----------------------------------------------------------------------------
(* Properties.                                                             *)

Statuses == {"active", "expired", "cancelled"}
Done == {"settled", "unsettled", "refunded", "rejected"}
Pcs == Done \union TokenOps \union FundOps \union
       {"new", "hassub", "wallet", "sub", "overflow", "pretok", "restok", "open",
        "recsave", "ended"}

\* Type correctness; in particular amount_used never becomes negative.
TypeOK ==
    /\ wallet \in Int /\ token \in Int
    /\ used \in [Subs -> Nat] /\ status \in [Subs -> Statuses]
    /\ record \in [Requests -> {"none", "consumed", "refunded"}]
    /\ pc \in [Requests -> Pcs]
    /\ asked \in [Requests -> Nat] /\ amount \in [Requests -> Nat]
    /\ funding \in [Requests -> {"none", "wallet", "subscription"}]
    /\ tquota \in [Requests -> Int] /\ trusted \in [Requests -> BOOLEAN]
    /\ pre \in [Requests -> Nat] /\ tok \in [Requests -> Nat]
    /\ extra \in [Requests -> Nat] /\ fund \in [Requests -> Nat]
    /\ sid \in [Requests -> 0..NSubs]
    /\ snap \in [Requests -> [sub : 0..NSubs, used : Nat,
                              status : Statuses \union {"none"}]]
    /\ goal \in [Requests -> Nat] /\ usage \in [Requests -> Nat]
    /\ tries \in [Requests -> 0..MaxTries] /\ faulty \in [Requests -> BOOLEAN]
    /\ charged \in [Requests -> Int] /\ tcharged \in [Requests -> Int]
    /\ faults \in 0..MaxFaults /\ resets \in 0..MaxResets

\* What a finished request owes: its actual quota once settled, what was
\* pre-consumed if the funding source refused the settlement, nothing if it was
\* rejected or refunded.
Owed(r) ==
    IF pc[r] = "settled" THEN goal[r] ELSE IF pc[r] = "unsettled" THEN pre[r] ELSE 0

\* A request none of whose statements failed has, when it ends, taken exactly
\* what it owes from its funding source and the same from its token (nothing,
\* in the playground), through every fallback, reserve, rollback and refund.
BilledAsOwed ==
    \A r \in Requests : pc[r] \in Done /\ ~faulty[r] =>
        /\ charged[r] = Owed(r)
        /\ tcharged[r] = IF r \in Playground THEN 0 ELSE Owed(r)

\* Whatever statements fail and are retried or logged, no request ever gives
\* back more than it took, neither to its funding source nor to the token.
NeverOverRefunded ==
    \A r \in Requests : charged[r] >= 0 /\ tcharged[r] >= 0

\* No interleaving of pre-consumes, reserves, settlements and refunds brings
\* amount_used above amount_total, even if the transactions on the row do not
\* exclude each other.
WithinPlan == \A s \in Subs : Total[s] = 0 \/ used[s] <= Total[s]

\* The requests that are paid from subscription s.
Takers(s) == {r \in Requests : funding[r] = "subscription" /\ sid[r] = s}

SumOf(f, S) == MapThenSumSet(LAMBDA x : f[x], S)

\* With effective row locks, what a subscription row says has been used is what
\* the requests have taken from it, and after a quota reset never more than that:
\* no concurrent pre-consume, reserve, settlement or refund is lost or counted
\* twice, and amount_used is not cut at 0 when it should not be.
SubscriptionAccounts ==
    \A s \in Subs :
        LET taken == SumOf(charged, Takers(s))
        IN  used[s] <= taken /\ (resets = 0 => used[s] = taken)

\* RefundSubscriptionPreConsume "is idempotent": however often a refund is retried,
\* until a quota reset the row still shows at least what any one request has taken
\* from it, so no request's refund is paid out of another request's usage.
UsageKept ==
    resets = 0 => \A s \in Subs : \A r \in Takers(s) : used[s] >= charged[r]

\* A subscription that the administrator ended is not brought back by the
\* billing of the requests that were using it.
CancelStands ==
    [][\A s \in Subs : status[s] = "cancelled" => status'[s] = "cancelled"]_vars

\* Every session ends, and a started refund runs to its end: no request waits
\* for ever for a subscription row or for its own retries.
SessionEnds == \A r \in Requests : <>(pc[r] \in Done)
=============================================================================
