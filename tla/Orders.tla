-------------------------------- MODULE Orders --------------------------------
(***************************************************************************)
(* Top-up orders, subscription orders and redemption codes: what the         *)
(* webhooks of the payment providers, the administrator's completion, the    *)
(* redemption of a code and the purchase from the balance do to the rows of  *)
(* the orders and to the account of the user, when calls are repeated,       *)
(* overlap, fail or are cut off by a crash.                                  *)
(*                                                                           *)
(* Sources: model/topup.go, model/subscription.go (orders), model/           *)
(* redemption.go, controller/topup*.go, controller/                          *)
(* subscription_payment_epay.go, controller/user.go (TopUp).                 *)
(*                                                                           *)
(* A call is one HTTP request at one node.  The statements of a transaction  *)
(* up to the last read are steps of their own; the writes and the commit are *)
(* one step, since a second writer of the row waits for the first to commit. *)
(* "FOR UPDATE" is requested as a gorm v1 option, which gorm v2 ignores: the *)
(* reads take no lock, and what a transaction may read while others commit   *)
(* is up to the database: SQLite refuses the writes of a transaction whose   *)
(* reads are no longer current, MySQL reads from a snapshot and PostgreSQL   *)
(* reads what is committed at each statement.                                *)
(*                                                                           *)
(* A credit is one unit, and so is the price of the plan.  The checks of     *)
(* signatures, providers and amounts, and a code past its expiry, end a call *)
(* before it changes anything: such calls are left out.                      *)
(***************************************************************************)
EXTENDS Integers, FiniteSets

CONSTANTS
  Orders, Calls, Nodes, Users,
  KindsOf,      \* the kinds each order may have: [Orders -> SUBSET Kinds]
  Deployments,  \* the databases and sets of nodes considered
  Buyer,        \* the user who owns the orders and buys from the balance
  Wallet0,      \* the balance at the start, in units of the price of the plan
  Limit,        \* MaxPurchasePerUser of the plan
  MaxFaults     \* bound on failing database calls and crashes of nodes

TopUpKinds == {"stripe", "epay", "creem", "waffo", "pancake"}
SubKinds   == {"subStripe", "subEpay"}
Kinds      == TopUpKinds \union SubKinds \union {"code"}

ASSUME OrdersAssumption ==
  /\ KindsOf \in [Orders -> SUBSET Kinds]
  /\ Deployments \subseteq {"sqlite", "mysql", "postgres"} \X SUBSET Nodes
  /\ \A d \in Deployments : d[1] = "sqlite" => Cardinality(d[2]) = 1   \* one process
  /\ Buyer \in Users
  /\ Wallet0 \in Nat /\ Limit \in Nat \ {0}
  /\ MaxFaults \in Nat
  /\ IsFiniteSet(Calls) /\ IsFiniteSet(Orders) /\ IsFiniteSet(Nodes)

VARIABLES
  db,        \* the database of the deployment
  nodes,     \* the nodes of the deployment
  kind,      \* kind of each order
  status,    \* status column of an order (of a code: pending is "enabled", success is "used")
  topup,     \* subscription orders with a top_ups row of their trade number
  subs,      \* user_subscriptions rows of the plan
  wallet,    \* quota of Buyer
  credits,   \* how often an order was credited
  provider,  \* what the provider knows: checkout open, paid, or ended unpaid
  acked,     \* orders whose payment notice was answered as processed
  entry,     \* orderLocks of each node: the mutex of an order
  refs,      \* refCount of each mutex
  held,      \* mutexes that are locked
  call,      \* the calls in progress
  faults     \* failures so far

setting == <<db, nodes, kind>>
rows    == <<status, topup, subs, wallet, credits>>
locks   == <<entry, refs, held>>
vars    == <<setting, rows, provider, acked, locks, call, faults>>

None    == "none"
NoMutex == 0
Mutexes == 1..Cardinality(Calls)

Statuses == {"pending", "success", "failed", "expired"}
Ops      == {"pay", "close", "fail", "admin", "redeem", "buy"}
Steps    == {"idle", "wait", "ready", "checked", "read", "charged", "counted",
             "found", "saved", "unlock", "release"}

Idle == [pc |-> "idle", op |-> None, node |-> None, order |-> None, who |-> None,
         mutex |-> NoMutex, row |-> FALSE, count |-> 0, dirty |-> FALSE]

Init ==
  /\ \E d \in Deployments : db = d[1] /\ nodes = d[2]
  /\ kind \in {k \in [Orders -> Kinds] : \A o \in Orders : k[o] \in KindsOf[o]}
  /\ status = [o \in Orders |-> "pending"]
  /\ topup = {}
  /\ subs = 0
  /\ wallet = Wallet0
  /\ credits = [o \in Orders |-> 0]
  /\ provider = [o \in Orders |-> "open"]
  /\ acked = {}
  /\ entry = [n \in Nodes |-> [o \in Orders |-> NoMutex]]
  /\ refs = [m \in Mutexes |-> 0]
  /\ held = {}
  /\ call = [c \in Calls |-> Idle]
  /\ faults = 0

-------------------------------------------------------------------------------
(* The lock of an order, one map of mutexes per process.                      *)

\* Mutant: AdminCompleteTopUp does not lock the order.
LockedButAdmin(op, k) == op \in {"pay", "close"} \/ (op = "fail" /\ k = "stripe")

\* AdminCompleteTopUp, EpayNotify, SubscriptionEpayNotify, fulfillOrder,
\* sessionExpired, sessionAsyncPaymentFailed, handleCheckoutCompleted and the
\* successful Waffo notices lock the order; the Waffo failure notice, Redeem and
\* PurchaseSubscriptionWithBalance do not.
Locked(op, k) == op \in {"pay", "close", "admin"} \/ (op = "fail" /\ k = "stripe")

\* LockOrder up to createLock.Unlock: the mutex of the order is found or created
\* and counted.
LockOrder(n, o) ==
  LET fresh == CHOOSE m \in Mutexes : refs[m] = 0
      m == IF entry[n][o] # NoMutex THEN entry[n][o] ELSE fresh
  IN  /\ entry' = [entry EXCEPT ![n][o] = m]
      /\ refs' = [refs EXCEPT ![m] = @ + 1]
      /\ UNCHANGED held

\* The mutex LockOrder goes on to lock.
MutexOf(n, o) == entry'[n][o]

\* rcm.mu.Lock() at the end of LockOrder.
Acquire(c) ==
  /\ call[c].pc = "wait"
  /\ call[c].mutex \notin held
  /\ held' = held \union {call[c].mutex}
  /\ call' = [call EXCEPT ![c].pc = "ready"]
  /\ UNCHANGED <<setting, rows, provider, acked, entry, refs, faults>>

\* UnlockOrder: the mutex the map holds now is unlocked; without one it returns.
Unlock(c) ==
  LET m == entry[call[c].node][call[c].order]
  IN  /\ call[c].pc = "unlock"
      /\ held' = held \ {m}
      /\ call' = [call EXCEPT ![c] = IF m = NoMutex THEN Idle
                                     ELSE [@ EXCEPT !.pc = "release", !.mutex = m]]
      /\ UNCHANGED <<setting, rows, provider, acked, entry, refs, faults>>

\* Mutant: the entry is deleted whoever still waits for the mutex.
UnlockOrderAlwaysDeletes(c) ==
  /\ call[c].pc = "release"
  /\ refs' = [refs EXCEPT ![call[c].mutex] = @ - 1]
  /\ entry' = [entry EXCEPT ![call[c].node][call[c].order] = NoMutex]
  /\ call' = [call EXCEPT ![c] = Idle]
  /\ UNCHANGED <<setting, rows, provider, acked, held, faults>>

\* The rest of UnlockOrder: the last user takes the mutex out of the map.
UnlockOrder(c) ==
  LET m == call[c].mutex
      last == refs[m] = 1
  IN  /\ call[c].pc = "release"
      /\ refs' = [refs EXCEPT ![m] = @ - 1]
      /\ entry' = IF last THEN [entry EXCEPT ![call[c].node][call[c].order] = NoMutex]
                          ELSE entry
      /\ call' = [call EXCEPT ![c] = Idle]
      /\ UNCHANGED <<setting, rows, provider, acked, held, faults>>

-------------------------------------------------------------------------------
(* Calls arrive.                                                              *)

\* External: the payment provider.  A Stripe checkout is paid or ends unpaid.
ProviderSettles(o) ==
  /\ provider[o] = "open" /\ kind[o] # "code"
  /\ \E p \in {"paid"} \union (IF kind[o] \in {"stripe", "subStripe"} THEN {"void"} ELSE {}) :
       provider' = [provider EXCEPT ![o] = p]
  /\ UNCHANGED <<setting, rows, acked, locks, call, faults>>

\* The requests that reach the code below: notices come as often as the provider
\* likes, in any order, and an administrator may complete any top-up.
MayArrive(op, n, o, who) ==
  CASE op = "pay"    -> kind[o] # "code" /\ provider[o] = "paid"
    [] op = "close"  -> kind[o] \in {"stripe", "subStripe"} /\ provider[o] = "void"
    [] op = "fail"   -> kind[o] = "waffo" \/ (kind[o] = "stripe" /\ provider[o] = "void")
    [] op = "admin"  -> kind[o] \in TopUpKinds
    [] op = "redeem" -> kind[o] = "code"
                        /\ \A d \in Calls :   \* topUpTryLock of the user
                             ~(call[d].op = "redeem" /\ call[d].node = n /\ call[d].who = who)
    [] OTHER -> FALSE

\* EpayNotify answers "success" before it does anything.
Arrive(c, n, o, op, who) ==
  /\ call[c].pc = "idle"
  /\ MayArrive(op, n, o, who)
  /\ acked' = IF op = "pay" /\ kind[o] = "epay" THEN acked \union {o} ELSE acked
  /\ IF Locked(op, kind[o])
       THEN /\ LockOrder(n, o)
            /\ call' = [call EXCEPT ![c] = [Idle EXCEPT !.pc = "wait", !.op = op, !.node = n,
                                             !.order = o, !.who = who, !.mutex = MutexOf(n, o)]]
       ELSE /\ UNCHANGED locks
            /\ call' = [call EXCEPT ![c] = [Idle EXCEPT !.pc = "ready", !.op = op, !.node = n,
                                             !.order = o, !.who = who]]
  /\ UNCHANGED <<setting, rows, provider, faults>>

\* PurchaseSubscriptionWithBalance is called.
ArriveBuy(c, n) ==
  /\ call[c].pc = "idle"
  /\ call' = [call EXCEPT ![c] = [Idle EXCEPT !.pc = "ready", !.op = "buy", !.node = n,
                                   !.who = Buyer]]
  /\ UNCHANGED <<setting, rows, provider, acked, locks, faults>>

-------------------------------------------------------------------------------
(* The end of a call.                                                         *)

\* Which answers make the provider stop: the Stripe webhook answers 200 whatever
\* happened, the others answer with an error when the order was not processed.
Acknowledges(c, ok) ==
  call[c].op = "pay" /\ (ok \/ kind[call[c].order] \in {"stripe", "subStripe"})

\* The call c ends, after the deferred UnlockOrder when it locked the order.
Answer(c, ok) ==
  acked' = IF Acknowledges(c, ok) THEN acked \union {call[c].order} ELSE acked

\* Mutant: UnlockOrder is not deferred.
EndedWithoutUnlock(c) == Idle

Ended(c) == IF call[c].op # "buy" /\ Locked(call[c].op, kind[call[c].order])
              THEN [call[c] EXCEPT !.pc = "unlock", !.row = FALSE, !.count = 0, !.dirty = FALSE]
              ELSE Idle

\* The handler returns without having changed a row.
Return(c, ok) ==
  /\ Answer(c, ok)
  /\ call' = [call EXCEPT ![c] = Ended(c)]
  /\ UNCHANGED <<setting, rows, provider, locks>>

-------------------------------------------------------------------------------
(* Transactions.                                                              *)

Open == {"read", "charged", "counted", "found"}

\* What a statement after the first one reads.
View(snapshot, current) == IF db = "mysql" THEN snapshot ELSE current

\* After a write of c, SQLite refuses the writes of the transactions in progress.
Outdated(c) ==
  {d \in Calls \ {c} : db = "sqlite" /\ call[d].pc \in Open}

Written(c, next) ==
  [d \in Calls |-> IF d = c THEN next
                   ELSE IF d \in Outdated(c) THEN [call[d] EXCEPT !.dirty = TRUE]
                   ELSE call[d]]

\* An order that has been credited is an answer like the first one: RechargeWaffo,
\* RechargeWaffoPancake, ManualCompleteTopUp and CompleteSubscriptionOrder return
\* nil; Recharge and RechargeCreem an error.
Idempotent(op, k) ==
  op = "admin" \/ (op = "pay" /\ k \in {"waffo", "pancake"} \union SubKinds)

\* handleCheckoutCompleted looks the order up before RechargeCreem does.
CreemCheck(c) ==
  /\ call[c].pc = "ready" /\ call[c].op = "pay" /\ kind[call[c].order] = "creem"
  /\ UNCHANGED faults
  /\ IF status[call[c].order] = "pending"
       THEN /\ call' = [call EXCEPT ![c].pc = "checked"]
            /\ UNCHANGED <<setting, rows, provider, acked, locks>>
       ELSE Return(c, TRUE)

\* The SELECT of the order (in EpayNotify and sessionAsyncPaymentFailed a statement
\* of its own, elsewhere the first of the transaction).
ReadOrder(c) ==
  LET o == call[c].order
      op == call[c].op
  IN  /\ op # "buy"
      /\ call[c].pc = IF op = "pay" /\ kind[o] = "creem" THEN "checked" ELSE "ready"
      /\ UNCHANGED faults
      /\ IF status[o] = "pending"
           THEN /\ call' = [call EXCEPT ![c].pc = "read", ![c].row = o \in topup,
                                        ![c].count = subs]
                /\ UNCHANGED <<setting, rows, provider, acked, locks>>
           ELSE Return(c, status[o] = "success" /\ Idempotent(op, kind[o]))

\* The SELECT of the user in PurchaseSubscriptionWithBalance.
ReadUser(c) ==
  /\ call[c].pc = "ready" /\ call[c].op = "buy"
  /\ UNCHANGED faults
  /\ IF wallet >= 1
       THEN /\ call' = [call EXCEPT ![c].pc = "read", ![c].count = subs]
            /\ UNCHANGED <<setting, rows, provider, acked, locks>>
       ELSE Return(c, FALSE)

\* The row of the user is locked from its UPDATE to the commit.
UserRowFree(c) ==
  \A d \in Calls \ {c} : ~(call[d].op = "buy" /\ call[d].pc \in {"charged", "found"})

\* The UPDATE of the quota, which becomes visible with the commit.
Charge(c) ==
  /\ call[c].pc = "read" /\ call[c].op = "buy"
  /\ UserRowFree(c)
  /\ UNCHANGED faults
  /\ IF call[c].dirty
       THEN Return(c, FALSE)
       ELSE /\ call' = [call EXCEPT ![c].pc = "charged"]
            /\ UNCHANGED <<setting, rows, provider, acked, locks>>

IsSubscription(c) == call[c].op = "pay" /\ kind[call[c].order] \in SubKinds

\* CreateUserSubscriptionFromPlanTx: the COUNT against MaxPurchasePerUser.
CountSubscriptions(c) ==
  /\ \/ IsSubscription(c) /\ call[c].pc = "read"
     \/ call[c].op = "buy" /\ call[c].pc = "charged"
  /\ UNCHANGED faults
  /\ IF View(call[c].count, subs) < Limit
       THEN /\ call' = [call EXCEPT ![c].pc = IF call[c].op = "buy" THEN "found" ELSE "counted"]
            /\ UNCHANGED <<setting, rows, provider, acked, locks>>
       ELSE Return(c, FALSE)

\* upsertSubscriptionTopUpTx: is there a top_ups row of the trade number?
LookUpTopUp(c) ==
  /\ IsSubscription(c) /\ call[c].pc = "counted"
  /\ call' = [call EXCEPT ![c].pc = "found",
                          ![c].row = View(call[c].row, call[c].order \in topup)]
  /\ UNCHANGED <<setting, rows, provider, acked, locks, faults>>

\* The writes of a transaction are refused: SQLite found its reads outdated, or
\* the INSERT of the top_ups row meets the unique trade number.
Refused(c) ==
  \/ call[c].dirty
  \/ IsSubscription(c) /\ ~call[c].row /\ call[c].order \in topup

LastRead(c) == IF IsSubscription(c) \/ call[c].op = "buy" THEN "found" ELSE "read"

\* EpayNotify and sessionAsyncPaymentFailed write without a transaction.
Transactional(c) ==
  ~(call[c].op = "pay" /\ kind[call[c].order] = "epay")
  /\ ~(call[c].op = "fail" /\ kind[call[c].order] = "stripe")

Writes(c, op) ==
  /\ call[c].op = op /\ call[c].pc = LastRead(c)
  /\ Transactional(c) /\ ~Refused(c)

\* The transaction is committed and the call ends; the answer of the database to
\* the COMMIT may be lost, and the handler then reports an error.
Committed(c) ==
  \E lost \in BOOLEAN :
    /\ lost => faults < MaxFaults
    /\ faults' = IF lost THEN faults + 1 ELSE faults
    /\ Answer(c, ~lost)
    /\ call' = Written(c, Ended(c))
    /\ UNCHANGED <<setting, provider, locks>>

Rollback(c) ==
  /\ call[c].op # None /\ call[c].pc = LastRead(c) /\ Transactional(c) /\ Refused(c)
  /\ Return(c, FALSE)
  /\ UNCHANGED faults

SetStatus(o, s) == status' = [status EXCEPT ![o] = s]

\* Recharge, RechargeCreem, RechargeWaffo, RechargeWaffoPancake and
\* ManualCompleteTopUp: the order succeeds and the user is credited.
CreditTopUp(c) ==
  LET o == call[c].order
  IN  /\ Writes(c, "pay") \/ Writes(c, "admin")
      /\ kind[o] \in TopUpKinds
      /\ UserRowFree(c)
      /\ SetStatus(o, "success")
      /\ credits' = [credits EXCEPT ![o] = @ + 1]
      /\ wallet' = wallet + 1
      /\ Committed(c)
      /\ UNCHANGED <<topup, subs>>

\* Mutant: the order is left pending.
CompleteWithoutStatus(c) ==
  LET o == call[c].order
  IN  /\ Writes(c, "pay") /\ IsSubscription(c)
      /\ subs' = subs + 1
      /\ topup' = topup \union {o}
      /\ credits' = [credits EXCEPT ![o] = @ + 1]
      /\ Committed(c)
      /\ UNCHANGED <<status, wallet>>

\* CompleteSubscriptionOrder: the subscription, the top_ups row and the order.
CompleteSubscriptionOrder(c) ==
  LET o == call[c].order
  IN  /\ Writes(c, "pay") /\ IsSubscription(c)
      /\ subs' = subs + 1
      /\ topup' = topup \union {o}
      /\ SetStatus(o, "success")
      /\ credits' = [credits EXCEPT ![o] = @ + 1]
      /\ Committed(c)
      /\ UNCHANGED wallet

\* Mutant: a status nothing else knows.
ExpireAsCancelled(c) ==
  /\ Writes(c, "close")
  /\ SetStatus(call[c].order, "cancelled")
  /\ Committed(c)
  /\ UNCHANGED <<topup, subs, wallet, credits>>

\* UpdatePendingTopUpStatus and ExpireSubscriptionOrder after checkout.session.expired.
ExpireOrder(c) ==
  /\ Writes(c, "close")
  /\ SetStatus(call[c].order, "expired")
  /\ Committed(c)
  /\ UNCHANGED <<topup, subs, wallet, credits>>

\* UpdatePendingTopUpStatus of handleWaffoPayment, which has not locked the order.
FailWaffoOrder(c) ==
  /\ Writes(c, "fail")
  /\ SetStatus(call[c].order, "failed")
  /\ Committed(c)
  /\ UNCHANGED <<topup, subs, wallet, credits>>

Redeem(c) ==
  LET o == call[c].order
  IN  /\ Writes(c, "redeem")
      /\ call[c].who = Buyer => UserRowFree(c)
      /\ wallet' = IF call[c].who = Buyer THEN wallet + 1 ELSE wallet
      /\ credits' = [credits EXCEPT ![o] = @ + 1]
      /\ SetStatus(o, "success")
      /\ Committed(c)
      /\ UNCHANGED <<topup, subs>>

PurchaseSubscriptionWithBalance(c) ==
  /\ Writes(c, "buy")
  /\ wallet' = wallet - 1
  /\ subs' = subs + 1
  /\ Committed(c)
  /\ UNCHANGED <<status, topup, credits>>

-------------------------------------------------------------------------------
(* The handlers without a transaction.                                        *)

\* EpayNotify: topUp.Update().
EpaySaveOrder(c) ==
  /\ call[c].pc = "read" /\ call[c].op = "pay" /\ kind[call[c].order] = "epay"
  /\ SetStatus(call[c].order, "success")
  /\ call' = Written(c, [call[c] EXCEPT !.pc = "saved"])
  /\ UNCHANGED <<setting, topup, subs, wallet, credits, provider, acked, locks, faults>>

\* EpayNotify: IncreaseUserQuota, a statement of its own.
EpayIncreaseUserQuota(c) ==
  LET o == call[c].order
  IN  /\ call[c].pc = "saved" /\ UserRowFree(c)
      /\ credits' = [credits EXCEPT ![o] = @ + 1]
      /\ wallet' = wallet + 1
      /\ call' = Written(c, Ended(c))
      /\ UNCHANGED <<setting, status, topup, subs, provider, acked, locks, faults>>

\* sessionAsyncPaymentFailed: topUp.Update().
StripePaymentFailed(c) ==
  /\ call[c].pc = "read" /\ call[c].op = "fail" /\ kind[call[c].order] = "stripe"
  /\ SetStatus(call[c].order, "failed")
  /\ call' = Written(c, Ended(c))
  /\ UNCHANGED <<setting, topup, subs, wallet, credits, provider, acked, locks, faults>>

-------------------------------------------------------------------------------
(* Faults.                                                                    *)

\* A database call fails: the transaction is rolled back, and what EpayNotify had
\* already saved stays.
DatabaseFails(c) ==
  /\ faults < MaxFaults
  /\ call[c].pc \in {"ready", "checked", "saved"} \union Open
  /\ faults' = faults + 1
  /\ Return(c, FALSE)

\* The process of a node ends with its calls and its locks.
Crash(n) ==
  LET lost == {c \in Calls : call[c].node = n}
      used == {entry[n][o] : o \in Orders}
  IN  /\ faults < MaxFaults /\ lost # {}
      /\ faults' = faults + 1
      /\ call' = [c \in Calls |-> IF c \in lost THEN Idle ELSE call[c]]
      /\ entry' = [entry EXCEPT ![n] = [o \in Orders |-> NoMutex]]
      /\ refs' = [m \in Mutexes |-> IF m \in used THEN 0 ELSE refs[m]]
      /\ held' = held \ used
      /\ UNCHANGED <<setting, rows, provider, acked>>

\* The call c goes on.
Step(c) ==
  \/ Acquire(c) \/ CreemCheck(c) \/ ReadOrder(c) \/ ReadUser(c) \/ Charge(c)
  \/ CountSubscriptions(c) \/ LookUpTopUp(c) \/ Rollback(c)
  \/ CreditTopUp(c) \/ CompleteSubscriptionOrder(c) \/ ExpireOrder(c)
  \/ FailWaffoOrder(c) \/ Redeem(c) \/ PurchaseSubscriptionWithBalance(c)
  \/ EpaySaveOrder(c) \/ EpayIncreaseUserQuota(c) \/ StripePaymentFailed(c)
  \/ Unlock(c) \/ UnlockOrder(c)

Next ==
  \/ \E o \in Orders : ProviderSettles(o)
  \/ \E c \in Calls, n \in nodes :
       \/ ArriveBuy(c, n)
       \/ \E o \in Orders :
            \/ \E op \in Ops \ {"redeem", "buy"} : Arrive(c, n, o, op, None)
            \/ \E who \in Users : Arrive(c, n, o, "redeem", who)
  \/ \E c \in Calls : Step(c) \/ DatabaseFails(c)
  \/ \E n \in nodes : Crash(n)

Spec == Init /\ [][Next]_vars

\* A call goes on (sync.Mutex and the row locks of the databases serve their
\* waiters in turn), and a provider repeats a payment notice until it is told that
\* the order was processed.
Redeliver(o) ==
  /\ o \notin acked
  /\ \E c \in Calls, n \in nodes : Arrive(c, n, o, "pay", None)

Fairness ==
  /\ \A c \in Calls : SF_vars(Step(c))
  /\ \A o \in Orders : SF_vars(Redeliver(o))

FairSpec == Spec /\ Fairness

-------------------------------------------------------------------------------
(* Properties.                                                                *)

\* The rows, the map of locks and the calls have their types.
TypeOK ==
  /\ <<db, nodes>> \in Deployments
  /\ kind \in [Orders -> Kinds]
  /\ status \in [Orders -> Statuses]
  /\ topup \subseteq Orders
  /\ subs \in Nat /\ wallet \in Int
  /\ credits \in [Orders -> Nat]
  /\ provider \in [Orders -> {"open", "paid", "void"}]
  /\ acked \subseteq Orders
  /\ entry \in [Nodes -> [Orders -> Mutexes \union {NoMutex}]]
  /\ refs \in [Mutexes -> Nat]
  /\ held \subseteq Mutexes
  /\ call \in [Calls -> [pc : Steps, op : Ops \union {None}, node : Nodes \union {None},
                         order : Orders \union {None}, who : Users \union {None},
                         mutex : Mutexes \union {NoMutex}, row : BOOLEAN, count : Nat,
                         dirty : BOOLEAN]]
  /\ faults \in 0..MaxFaults

\* The calls of a handler that are past LockOrder.
Inside(c) == call[c].mutex # NoMutex /\ call[c].pc \notin {"wait", "release"}

\* At most one call of a node is inside LockOrder ... UnlockOrder of an order,
\* although mutexes are created and deleted on the way (refCountedMutex,
\* controller/topup.go:272).
MutualExclusion ==
  \A c, d \in Calls :
    Inside(c) /\ Inside(d) /\ call[c].node = call[d].node /\ call[c].order = call[d].order
      => c = d

OneNode == Cardinality(nodes) = 1

\* The orders whose double credit something prevents: SQLite, the lock of the order
\* where there is one process and the handler takes it, the unique trade number of
\* top_ups in the snapshot of MySQL.
Protected(o) ==
  \/ db = "sqlite"
  \/ OneNode /\ kind[o] # "code"
  \/ db = "mysql" /\ kind[o] \in SubKinds

\* Every order and every code is credited once: what the row locks of
\* ManualCompleteTopUp and the Recharge functions are there for (model/topup.go:337).
CreditedOnce ==
  \A o \in Orders : credits[o] <= 1

\* The providers that are told when an order could not be processed.
Repeated == {"creem", "waffo", "pancake", "subEpay"}

\* A call is between the two statements of EpayNotify.
HalfDone(o) == \E c \in Calls : call[c].order = o /\ call[c].pc = "saved"

\* The history shows the truth: a successful order was credited, unless it is an Epay
\* order whose second statement is to come or failed; and a credited order shows
\* success, unless a Waffo failure notice, handled without the lock, wrote over it.
StatusTellsCredit ==
  \A o \in Orders :
    /\ status[o] = "success" =>
         \/ credits[o] >= 1
         \/ kind[o] = "epay" /\ (HalfDone(o) \/ faults > 0)
    /\ credits[o] >= 1 => status[o] = "success" \/ kind[o] = "waffo"
                          \/ ~Protected(o)

\* The ledger the orders implement, of the orders that are protected.
Ledger == INSTANCE OrderLedger WITH
  credited   <- [o \in Orders |-> IF Protected(o) THEN credits[o] ELSE 0],
  closed     <- {o \in Orders : Protected(o) /\ credits[o] = 0
                                /\ status[o] \in {"failed", "expired"}},
  reopenable <- {o \in Orders : kind[o] = "waffo"}

\* However often a payment notice is repeated, whatever fails or crashes between its
\* statements and whoever completes the order at the same time, each protected order
\* is credited in one step and at most once, or closed for good (OrderLedger; the
\* checks of the status at model/topup.go:132 and model/subscription.go:574).
ImplementsLedger == Ledger!Spec

\* The user gets what was paid for when the provider repeats its notice until the
\* order is processed, unless the order was closed or the plan is sold out: no handler
\* answers "processed" before the credit, and none keeps the mutex of the order.
PaidIsCredited ==
  \A o \in Orders :
    provider[o] = "paid" /\ kind[o] \in Repeated
      ~> \/ credits[o] >= 1
         \/ status[o] \in {"failed", "expired"}
         \/ kind[o] \in SubKinds /\ subs >= Limit
===============================================================================
