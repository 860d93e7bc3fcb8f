----------------------------- MODULE OrdersProofs -----------------------------
(***************************************************************************)
(* Proofs about Orders: that the reference-counted mutexes exclude the       *)
(* calls of one order, that the rows tell whether an order was credited, and *)
(* that every step is a step of OrderLedger.                                 *)
(*                                                                           *)
(* The invariant has three layers.  LockInv says what the map of mutexes     *)
(* and its counters hold, whatever the calls do.  CallInv says what a call   *)
(* in progress is about.  RowInv and ReadInv relate what a call has read to  *)
(* what the rows hold now, once for each of the three things that protect an *)
(* order: the mutex, the conflict check of SQLite, the snapshot of MySQL     *)
(* with the unique trade number.                                             *)
(***************************************************************************)
EXTENDS Orders, FiniteSetTheorems, TLAPS

Holders(m) == {c \in Calls : call[c].mutex = m}

\* A call with a mutex has the one of the map, which counts its calls; two orders
\* never share one; and a locked mutex has one owner.
LockInv ==
  /\ \A c \in Calls : call[c].mutex # NoMutex =>
       /\ call[c].node \in Nodes /\ call[c].order \in Orders
       /\ entry[call[c].node][call[c].order] = call[c].mutex
  /\ \A m \in Mutexes : refs[m] = Cardinality(Holders(m))
  /\ \A n1, n2 \in Nodes, o1, o2 \in Orders :
       entry[n1][o1] # NoMutex /\ entry[n1][o1] = entry[n2][o2] => n1 = n2 /\ o1 = o2
  /\ \A n \in Nodes, o \in Orders : entry[n][o] # NoMutex => refs[entry[n][o]] # 0
  /\ \A c \in Calls : Inside(c) => call[c].mutex \in held
  /\ \A c, d \in Calls : Inside(c) /\ Inside(d) /\ call[c].mutex = call[d].mutex => c = d

\* The requests there are, and when they have a mutex.
CallOK(c) ==
  LET o == call[c].order
      op == call[c].op
  IN  /\ call[c].pc = "idle" => call[c].mutex = NoMutex
      /\ call[c].pc \in {"wait", "unlock", "release"} => call[c].mutex # NoMutex
      /\ call[c].pc # "idle" => call[c].node \in nodes /\ op \in Ops
      /\ op = "buy" => call[c].mutex = NoMutex
      /\ call[c].pc # "idle" /\ op # "buy" =>
           /\ o \in Orders
           /\ call[c].mutex # NoMutex <=> Locked(op, kind[o])
           /\ op = "pay" => kind[o] # "code" /\ provider[o] = "paid"
           /\ op = "close" => kind[o] \in {"stripe", "subStripe"} /\ provider[o] = "void"
           /\ op = "fail" => kind[o] = "waffo" \/ (kind[o] = "stripe" /\ provider[o] = "void")
           /\ op = "admin" => kind[o] \in TopUpKinds
           /\ op = "redeem" => kind[o] = "code"
      /\ call[c].pc = "saved" => op = "pay" /\ kind[o] = "epay"

CallInv == \A c \in Calls : CallOK(c)

\* The rows of an order among themselves.
RowOK(o) ==
  /\ credits[o] # 0 => status[o] # "pending"
  /\ status[o] = "success" =>
       credits[o] # 0 \/ (kind[o] = "epay" /\ (HalfDone(o) \/ faults > 0))
  /\ Protected(o) => credits[o] <= 1
  /\ Protected(o) /\ credits[o] # 0 => status[o] = "success" \/ kind[o] = "waffo"
  /\ kind[o] \in SubKinds =>
       /\ o \in topup <=> credits[o] # 0
       /\ credits[o] # 0 => provider[o] = "paid"
       /\ status[o] \in {"failed", "expired"} => provider[o] = "void"
  /\ kind[o] = "code" => status[o] \in {"pending", "success"}

RowInv == \A o \in Orders : RowOK(o)

\* What a call has read still holds when it writes.
ReadOK(c) ==
  call[c].pc # "idle" /\ call[c].op # "buy" =>
    LET o == call[c].order
    IN  /\ OneNode /\ call[c].mutex # NoMutex /\ call[c].pc \in Open =>
             credits[o] = 0 /\ (status[o] = "pending" \/ kind[o] = "waffo")
        /\ OneNode /\ call[c].pc = "saved" => credits[o] = 0 /\ status[o] = "success"
        /\ call[c].pc = "saved" => status[o] # "pending"
        /\ db = "sqlite" /\ kind[o] = "code" /\ call[c].pc \in Open /\ ~call[c].dirty =>
             status[o] = "pending"
        /\ db = "mysql" /\ kind[o] \in SubKinds /\ call[c].op = "pay" /\ call[c].pc \in Open =>
             ~call[c].row

ReadInv == \A c \in Calls : ReadOK(c)

\* The inductive invariant.
IInv == TypeOK /\ LockInv /\ CallInv /\ RowInv /\ ReadInv

-------------------------------------------------------------------------------
(* Frames: what a step of the call c leaves alone.                            *)

CallRecord == [pc : Steps, op : Ops \union {None}, node : Nodes \union {None},
               order : Orders \union {None}, who : Users \union {None},
               mutex : Mutexes \union {NoMutex}, row : BOOLEAN, count : Nat,
               dirty : BOOLEAN]

\* The fields of a call that no other call writes.
SameCall(d) ==
  /\ call'[d].pc = call[d].pc /\ call'[d].op = call[d].op
  /\ call'[d].node = call[d].node /\ call'[d].order = call[d].order
  /\ call'[d].mutex = call[d].mutex /\ call'[d].row = call[d].row
  /\ call[d].dirty => call'[d].dirty

SameBut(c) == \A d \in Calls : d # c => SameCall(d)

\* A call that neither takes nor gives up a mutex.
KeepsMutex(d) ==
  /\ call'[d].mutex = call[d].mutex
  /\ call[d].mutex # NoMutex =>
       call'[d].node = call[d].node /\ call'[d].order = call[d].order
  /\ Inside(d)' => Inside(d)

\* A call that got a mutex and has not begun to give it up, or needs none.
Working(c) == call[c].pc \notin {"idle", "wait", "release"}

LEMMA TypeFacts ==
  ASSUME TypeOK
  PROVE  /\ call \in [Calls -> CallRecord]
         /\ nodes \subseteq Nodes
         /\ db = "sqlite" => OneNode
         /\ OneNode => \A n1, n2 \in nodes : n1 = n2
<1>1. call \in [Calls -> CallRecord]
  BY DEF TypeOK, CallRecord
<1>2. nodes \subseteq Nodes /\ (db = "sqlite" => OneNode)
  BY OrdersAssumption DEF TypeOK, OneNode
<1>3. ASSUME OneNode
      PROVE  \A n1, n2 \in nodes : n1 = n2
  <2>1. IsFiniteSet(nodes)
    BY <1>2, OrdersAssumption, FS_Subset
  <2>2. \E x : nodes = {x}
    BY <1>3, <2>1, FS_Singleton DEF OneNode
  <2> QED
    BY <2>2
<1> QED
  BY <1>1, <1>2, <1>3

LEMMA IdleTyped == Idle \in CallRecord
BY DEF Idle, CallRecord, Steps, None, NoMutex

LEMMA MutexesTyped == Cardinality(Calls) \in Nat /\ Mutexes \subseteq Nat \ {0}
BY OrdersAssumption, FS_CardinalityType DEF Mutexes

LEMMA ClearedTyped ==
  ASSUME NEW r \in CallRecord
  PROVE  [r EXCEPT !.pc = "unlock", !.row = FALSE, !.count = 0, !.dirty = FALSE] \in CallRecord
BY DEF CallRecord, Steps

\* The locks stay in order when the map and the counters stand still.
LEMMA LockFrame ==
  ASSUME LockInv, UNCHANGED locks, \A d \in Calls : KeepsMutex(d)
  PROVE  LockInv'
<1>1. \A m \in Mutexes : Holders(m)' = Holders(m)
  BY DEF Holders, KeepsMutex
<1>2. \A m \in Mutexes : refs'[m] = Cardinality(Holders(m)')
  BY <1>1 DEF LockInv, locks
<1>3. \A c, d \in Calls :
        Inside(c)' /\ Inside(d)' /\ call'[c].mutex = call'[d].mutex => c = d
  BY DEF LockInv, KeepsMutex
<1>4. \A c \in Calls : Inside(c)' => call'[c].mutex \in held'
  BY DEF LockInv, KeepsMutex, locks
<1>5. \A c \in Calls : call'[c].mutex # NoMutex =>
        /\ call'[c].node \in Nodes /\ call'[c].order \in Orders
        /\ entry'[call'[c].node][call'[c].order] = call'[c].mutex
  BY DEF LockInv, KeepsMutex, locks
<1> QED
  BY <1>2, <1>3, <1>4, <1>5 DEF LockInv, locks

\* A call that changes no row but its own place.
LEMMA QuietOthers ==
  ASSUME CallInv, ReadInv, RowInv, NEW c \in Calls, SameBut(c),
         UNCHANGED <<setting, status, topup, credits, provider>>,
         faults > 0 => faults' > 0,
         call[c].pc = "saved" => faults' > 0
  PROVE  /\ RowInv'
         /\ \A d \in Calls : d # c => CallOK(d)' /\ ReadOK(d)'
<1>1. ASSUME NEW d \in Calls, d # c
      PROVE  CallOK(d)' /\ ReadOK(d)'
  BY <1>1 DEF CallInv, ReadInv, CallOK, ReadOK, SameBut, SameCall, setting, OneNode,
     Locked
<1>2. ASSUME NEW o \in Orders
      PROVE  RowOK(o)'
  <2>1. HalfDone(o) => HalfDone(o)' \/ faults' > 0
    BY DEF HalfDone, SameBut, SameCall
  <2> QED
    BY <2>1 DEF RowInv, RowOK, setting, Protected, OneNode
<1> QED
  BY <1>1, <1>2 DEF RowInv

\* The deferred UnlockOrder is the only thing left of a call that has ended.
LEMMA EndedFacts ==
  ASSUME TypeOK, NEW c \in Calls, CallOK(c), Working(c), call'[c] = Ended(c),
         UNCHANGED setting, UNCHANGED provider
  PROVE  /\ Ended(c) \in CallRecord
         /\ CallOK(c)' /\ ReadOK(c)' /\ KeepsMutex(c)
<1>1. call[c] \in CallRecord
  BY TypeFacts
<1>2. CASE call[c].mutex = NoMutex
  <2>1. Ended(c) = Idle
    BY <1>2 DEF Ended, CallOK, Working
  <2> QED
    BY <1>2, <2>1, IdleTyped DEF CallOK, ReadOK, KeepsMutex, Inside, Idle, NoMutex, None
<1>3. CASE call[c].mutex # NoMutex
  <2>1. Ended(c) = [call[c] EXCEPT !.pc = "unlock", !.row = FALSE, !.count = 0, !.dirty = FALSE]
    BY <1>3 DEF Ended, CallOK, Working
  <2>2. Ended(c) \in CallRecord
    BY <1>1, <2>1, ClearedTyped
  <2> QED
    BY <1>1, <1>3, <2>1, <2>2
    DEF CallOK, ReadOK, KeepsMutex, Inside, Working, CallRecord, setting, Open, Locked
<1> QED
  BY <1>2, <1>3

-------------------------------------------------------------------------------
(* Steps that change no order.                                                *)

LEMMA LocalStep ==
  ASSUME IInv, NEW c \in Calls,
         call' \in [Calls -> CallRecord], SameBut(c), CallOK(c)', ReadOK(c)', KeepsMutex(c),
         UNCHANGED <<setting, status, topup, credits, provider, locks>>,
         subs' \in Nat, wallet' \in Int, acked' \subseteq Orders,
         faults' \in 0..MaxFaults, faults' >= faults,
         call[c].pc = "saved" => faults' > 0
  PROVE  IInv'
<1>1. TypeOK'
  BY DEF IInv, TypeOK, CallRecord, setting, locks
<1>2. \A d \in Calls : KeepsMutex(d)
  BY DEF SameBut, SameCall, KeepsMutex, Inside
<1>3. LockInv'
  BY <1>2, LockFrame DEF IInv
<1>4. RowInv' /\ \A d \in Calls : d # c => CallOK(d)' /\ ReadOK(d)'
  <2>1. faults > 0 => faults' > 0
    BY OrdersAssumption DEF IInv, TypeOK
  <2> QED
    BY <2>1, QuietOthers DEF IInv
<1> QED
  BY <1>1, <1>3, <1>4 DEF IInv, CallInv, ReadInv

\* The call c goes on to x with what identifies it.
MovesTo(c, x) ==
  /\ call' \in [Calls -> CallRecord] /\ SameBut(c)
  /\ call'[c].pc = x /\ call'[c].op = call[c].op /\ call'[c].node = call[c].node
  /\ call'[c].order = call[c].order /\ call'[c].mutex = call[c].mutex
  /\ call'[c].dirty = call[c].dirty

LEMMA MoveStep ==
  ASSUME IInv, NEW c \in Calls, Working(c),
         NEW x \in {"ready", "checked", "read", "charged", "counted", "found"}, MovesTo(c, x),
         UNCHANGED <<setting, rows, provider, acked, locks, faults>>,
         ReadOK(c)', call[c].pc # "saved"
  PROVE  IInv'
<1>1. CallOK(c)'
  BY DEF IInv, CallInv, CallOK, MovesTo, Working, setting, Locked
<1>2. KeepsMutex(c)
  BY DEF MovesTo, KeepsMutex, Inside, Working
<1>3. /\ UNCHANGED <<setting, status, topup, credits, provider, locks>>
      /\ subs' \in Nat /\ wallet' \in Int /\ acked' \subseteq Orders
      /\ faults' \in 0..MaxFaults /\ faults' >= faults
  BY OrdersAssumption DEF IInv, TypeOK, rows
<1> QED
  BY <1>1, <1>2, <1>3, LocalStep DEF MovesTo

\* The handler of c returns.
LEMMA ReturnStep ==
  ASSUME IInv, NEW c \in Calls, Working(c), NEW ok, Return(c, ok),
         faults' \in 0..MaxFaults, faults' >= faults,
         call[c].pc = "saved" => faults' > 0
  PROVE  IInv'
<1>1. CallOK(c) /\ TypeOK
  BY DEF IInv, CallInv
<1>2. call'[c] = Ended(c) /\ UNCHANGED <<setting, provider, rows, locks>>
  BY <1>1 DEF Return, TypeOK
<1>3. Ended(c) \in CallRecord /\ CallOK(c)' /\ ReadOK(c)' /\ KeepsMutex(c)
  BY <1>1, <1>2, EndedFacts
<1>4. call' \in [Calls -> CallRecord] /\ SameBut(c)
  BY <1>1, <1>3, TypeFacts DEF Return, SameBut, SameCall
<1>5. acked' \subseteq Orders
  BY <1>1 DEF Return, Answer, Acknowledges, CallOK, TypeOK, Working
<1>6. subs' \in Nat /\ wallet' \in Int
  BY <1>1, <1>2 DEF TypeOK, rows
<1> QED
  BY <1>2, <1>3, <1>4, <1>5, <1>6, LocalStep DEF rows

LEMMA CreemCheckStep ==
  ASSUME IInv, NEW c \in Calls, CreemCheck(c)
  PROVE  IInv'
<1>1. call[c] \in CallRecord /\ TypeOK /\ call \in [Calls -> CallRecord]
  BY TypeFacts DEF IInv
<1>2. Working(c) /\ call[c].pc # "saved"
  BY DEF CreemCheck, Working
<1>3. CASE status[call[c].order] = "pending"
  <2>1. MovesTo(c, "checked") /\ UNCHANGED <<setting, rows, provider, acked, locks, faults>>
    BY <1>1, <1>3 DEF CreemCheck, MovesTo, SameBut, SameCall, CallRecord, Steps
  <2>2. ReadOK(c)'
    BY <2>1 DEF ReadOK, MovesTo, Open
  <2> QED
    BY <1>2, <2>1, <2>2, MoveStep
<1>4. CASE status[call[c].order] # "pending"
  <2>1. faults' \in 0..MaxFaults /\ faults' >= faults
    BY <1>1, OrdersAssumption DEF CreemCheck, TypeOK
  <2> QED
    BY <1>2, <1>4, <2>1, ReturnStep DEF CreemCheck
<1> QED
  BY <1>3, <1>4

\* The order is pending when it is read, and has no top_ups row and no credit.
LEMMA ReadOrderStep ==
  ASSUME IInv, NEW c \in Calls, ReadOrder(c)
  PROVE  IInv'
<1>1. call[c] \in CallRecord /\ TypeOK /\ call \in [Calls -> CallRecord] /\ CallOK(c)
  BY TypeFacts DEF IInv, CallInv
<1>2. Working(c) /\ call[c].pc # "saved" /\ call[c].pc # "idle"
  BY DEF ReadOrder, Working
<1>3. CASE status[call[c].order] = "pending"
  <2>1. /\ MovesTo(c, "read") /\ UNCHANGED <<setting, rows, provider, acked, locks, faults>>
        /\ call'[c].row = (call[c].order \in topup)
    BY <1>1, <1>3 DEF ReadOrder, MovesTo, SameBut, SameCall, CallRecord, Steps, TypeOK
  <2>2. call[c].order \in Orders
    BY <1>1, <1>2 DEF CallOK, ReadOrder
  <2>3. credits[call[c].order] = 0
        /\ (kind[call[c].order] \in SubKinds => call[c].order \notin topup)
    BY <1>3, <2>2 DEF IInv, RowInv, RowOK
  <2>4. ReadOK(c)'
    BY <1>3, <2>1, <2>3 DEF ReadOK, MovesTo, Open, rows, setting, OneNode
  <2> QED
    BY <1>2, <2>1, <2>4, MoveStep
<1>4. CASE status[call[c].order] # "pending"
  <2>1. faults' \in 0..MaxFaults /\ faults' >= faults
    BY <1>1, OrdersAssumption DEF ReadOrder, TypeOK
  <2> QED
    BY <1>2, <1>4, <2>1, ReturnStep DEF ReadOrder
<1> QED
  BY <1>3, <1>4

LEMMA ReadUserStep ==
  ASSUME IInv, NEW c \in Calls, ReadUser(c)
  PROVE  IInv'
<1>1. call[c] \in CallRecord /\ TypeOK /\ call \in [Calls -> CallRecord]
  BY TypeFacts DEF IInv
<1>2. Working(c) /\ call[c].pc # "saved"
  BY DEF ReadUser, Working
<1>3. CASE wallet >= 1
  <2>1. MovesTo(c, "read") /\ UNCHANGED <<setting, rows, provider, acked, locks, faults>>
    <3>1. subs \in Nat
      BY <1>1 DEF TypeOK
    <3> QED
      BY <1>1, <1>3, <3>1 DEF ReadUser, MovesTo, SameBut, SameCall, CallRecord, Steps
  <2>2. ReadOK(c)'
    BY <2>1 DEF ReadOK, MovesTo, ReadUser
  <2> QED
    BY <1>2, <2>1, <2>2, MoveStep
<1>4. CASE ~(wallet >= 1)
  <2>1. faults' \in 0..MaxFaults /\ faults' >= faults
    BY <1>1, OrdersAssumption DEF ReadUser, TypeOK
  <2> QED
    BY <1>2, <1>4, <2>1, ReturnStep DEF ReadUser
<1> QED
  BY <1>3, <1>4

LEMMA ChargeStep ==
  ASSUME IInv, NEW c \in Calls, Charge(c)
  PROVE  IInv'
<1>1. call[c] \in CallRecord /\ TypeOK /\ call \in [Calls -> CallRecord]
  BY TypeFacts DEF IInv
<1>2. Working(c) /\ call[c].pc # "saved"
  BY DEF Charge, Working
<1>3. CASE ~call[c].dirty
  <2>1. MovesTo(c, "charged") /\ UNCHANGED <<setting, rows, provider, acked, locks, faults>>
    BY <1>1, <1>3 DEF Charge, MovesTo, SameBut, SameCall, CallRecord, Steps
  <2>2. ReadOK(c)'
    BY <2>1 DEF ReadOK, MovesTo, Charge
  <2> QED
    BY <1>2, <2>1, <2>2, MoveStep
<1>4. CASE call[c].dirty
  <2>1. faults' \in 0..MaxFaults /\ faults' >= faults
    BY <1>1, OrdersAssumption DEF Charge, TypeOK
  <2> QED
    BY <1>2, <1>4, <2>1, ReturnStep DEF Charge
<1> QED
  BY <1>3, <1>4

\* The statements after the first one change nothing of what was read.
LEMMA CountStep ==
  ASSUME IInv, NEW c \in Calls, CountSubscriptions(c)
  PROVE  IInv'
<1>1. call[c] \in CallRecord /\ TypeOK /\ call \in [Calls -> CallRecord] /\ ReadOK(c)
  BY TypeFacts DEF IInv, ReadInv
<1>2. Working(c) /\ call[c].pc # "saved" /\ call[c].pc \in Open
  BY DEF CountSubscriptions, Working, Open
<1>3. CASE View(call[c].count, subs) < Limit
  <2> DEFINE x == IF call[c].op = "buy" THEN "found" ELSE "counted"
  <2>1. MovesTo(c, x) /\ UNCHANGED <<setting, rows, provider, acked, locks, faults>>
        /\ call'[c].row = call[c].row
    BY <1>1, <1>3 DEF CountSubscriptions, MovesTo, SameBut, SameCall, CallRecord, Steps
  <2>2. x \in {"counted", "found"}
    OBVIOUS
  <2> HIDE DEF x
  <2>3. ReadOK(c)'
    BY <1>1, <1>2, <2>1, <2>2 DEF ReadOK, MovesTo, Open, rows, setting, OneNode
  <2> QED
    BY <1>2, <2>1, <2>2, <2>3, MoveStep
<1>4. CASE ~(View(call[c].count, subs) < Limit)
  <2>1. faults' \in 0..MaxFaults /\ faults' >= faults
    BY <1>1, OrdersAssumption DEF CountSubscriptions, TypeOK
  <2> QED
    BY <1>2, <1>4, <2>1, ReturnStep DEF CountSubscriptions
<1> QED
  BY <1>3, <1>4

LEMMA LookUpStep ==
  ASSUME IInv, NEW c \in Calls, LookUpTopUp(c)
  PROVE  IInv'
<1>1. call[c] \in CallRecord /\ TypeOK /\ call \in [Calls -> CallRecord] /\ ReadOK(c)
  BY TypeFacts DEF IInv, ReadInv
<1>2. Working(c) /\ call[c].pc # "saved" /\ call[c].pc \in Open
  BY DEF LookUpTopUp, Working, Open
<1>3. View(call[c].row, call[c].order \in topup) \in BOOLEAN
  <2>1. call[c].row \in BOOLEAN
    BY <1>1 DEF CallRecord
  <2>2. (call[c].order \in topup) \in BOOLEAN
    OBVIOUS
  <2>3. CASE db = "mysql"
    <3>1. View(call[c].row, call[c].order \in topup) = call[c].row
      BY <2>3, Zenon DEF View
    <3> QED
      BY <2>1, <3>1, Zenon
  <2>4. CASE db # "mysql"
    <3>1. View(call[c].row, call[c].order \in topup) = (call[c].order \in topup)
      BY <2>4, Zenon DEF View
    <3> QED
      BY <2>2, <3>1, Zenon
  <2> QED
    BY <2>3, <2>4
<1>4. MovesTo(c, "found") /\ UNCHANGED <<setting, rows, provider, acked, locks, faults>>
      /\ (db = "mysql" => call'[c].row = call[c].row)
  BY <1>1, <1>3 DEF LookUpTopUp, MovesTo, SameBut, SameCall, CallRecord, Steps, View
<1>5. ReadOK(c)'
  BY <1>1, <1>2, <1>4 DEF ReadOK, MovesTo, Open, rows, setting, OneNode
<1> QED
  BY <1>2, <1>4, <1>5, MoveStep

LEMMA RollbackStep ==
  ASSUME IInv, NEW c \in Calls, Rollback(c)
  PROVE  IInv'
<1>1. Working(c) /\ call[c].pc # "saved"
  BY DEF Rollback, LastRead, Working
<1>2. faults' \in 0..MaxFaults /\ faults' >= faults
  BY OrdersAssumption DEF Rollback, IInv, TypeOK
<1> QED
  BY <1>1, <1>2, ReturnStep DEF Rollback

LEMMA DatabaseFailsStep ==
  ASSUME IInv, NEW c \in Calls, DatabaseFails(c)
  PROVE  IInv'
<1>1. Working(c)
  BY DEF DatabaseFails, Working, Open
<1>2. faults' \in 0..MaxFaults /\ faults' >= faults /\ faults' > 0
  BY OrdersAssumption DEF DatabaseFails, IInv, TypeOK
<1> QED
  BY <1>1, <1>2, ReturnStep DEF DatabaseFails

-------------------------------------------------------------------------------
(* The lock of an order.                                                      *)

\* A call that goes on to x changes nothing the other calls and the rows rely on.
LEMMA QuietMove ==
  ASSUME IInv, NEW c \in Calls, NEW x, MovesTo(c, x), CallOK(c)', x \notin Open \union {"saved"},
         UNCHANGED <<setting, rows, provider, faults>>, call[c].pc # "saved"
  PROVE  CallInv' /\ RowInv' /\ ReadInv'
<1>1. ReadOK(c)'
  BY DEF ReadOK, MovesTo, Open
<1>2. RowInv' /\ \A d \in Calls : d # c => CallOK(d)' /\ ReadOK(d)'
  BY QuietOthers DEF IInv, MovesTo, rows
<1> QED
  BY <1>1, <1>2 DEF CallInv, ReadInv

LEMMA AcquireStep ==
  ASSUME IInv, NEW c \in Calls, Acquire(c)
  PROVE  IInv'
<1>1. call[c] \in CallRecord /\ TypeOK /\ call \in [Calls -> CallRecord] /\ CallOK(c) /\ LockInv
  BY TypeFacts DEF IInv, CallInv
<1>2. MovesTo(c, "ready")
  BY <1>1 DEF Acquire, MovesTo, SameBut, SameCall, CallRecord, Steps
<1>3. call[c].mutex \in Mutexes /\ call[c].mutex # NoMutex /\ call[c].mutex \notin held
  BY <1>1 DEF Acquire, CallOK, CallRecord
<1>4. CallOK(c)'
  BY <1>1, <1>2 DEF CallOK, MovesTo, Acquire, setting, Locked
<1>5. CallInv' /\ RowInv' /\ ReadInv'
  BY <1>2, <1>4, QuietMove DEF Acquire, Open
<1>6. TypeOK'
  BY <1>1, <1>2, <1>3 DEF TypeOK, Acquire, MovesTo, CallRecord, setting, rows
<1>7. LockInv'
  <2>1. \A d \in Calls : /\ call'[d].mutex = call[d].mutex /\ call'[d].node = call[d].node
                         /\ call'[d].order = call[d].order
    BY <1>2 DEF MovesTo, SameBut, SameCall
  <2>2. \A d \in Calls : d # c /\ Inside(d)' =>
          Inside(d) /\ call[d].mutex \in held /\ call[d].mutex # call[c].mutex
    BY <1>1, <1>2, <1>3 DEF Inside, MovesTo, SameBut, SameCall, LockInv
  <2>3. \A m \in Mutexes : Holders(m)' = Holders(m)
    BY <2>1 DEF Holders
  <2>4. /\ \A d \in Calls : Inside(d)' => call'[d].mutex \in held'
        /\ \A d, e \in Calls : Inside(d)' /\ Inside(e)' /\ call'[d].mutex = call'[e].mutex => d = e
    BY <1>1, <2>1, <2>2 DEF Acquire, LockInv
  <2> QED
    BY <1>1, <2>1, <2>3, <2>4 DEF Acquire, LockInv
<1> QED
  BY <1>5, <1>6, <1>7 DEF IInv

\* UnlockOrder finds the mutex the call has locked.
LEMMA UnlockStep ==
  ASSUME IInv, NEW c \in Calls, Unlock(c)
  PROVE  IInv'
<1>1. call[c] \in CallRecord /\ TypeOK /\ call \in [Calls -> CallRecord] /\ CallOK(c) /\ LockInv
  BY TypeFacts DEF IInv, CallInv
<1>2. /\ call[c].mutex # NoMutex /\ Inside(c) /\ call[c].pc = "unlock"
      /\ entry[call[c].node][call[c].order] = call[c].mutex
  BY <1>1 DEF Unlock, CallOK, LockInv, Inside
<1>3. MovesTo(c, "release")
  BY <1>1, <1>2 DEF Unlock, MovesTo, SameBut, SameCall, CallRecord, Steps
<1>4. CallOK(c)'
  BY <1>1, <1>2, <1>3 DEF CallOK, MovesTo, Unlock, setting, Locked
<1>5. CallInv' /\ RowInv' /\ ReadInv'
  BY <1>2, <1>3, <1>4, QuietMove DEF Unlock, Open
<1>6. TypeOK'
  BY <1>1, <1>3 DEF TypeOK, Unlock, MovesTo, CallRecord, setting, rows
<1>7. LockInv'
  <2>1. \A d \in Calls : /\ call'[d].mutex = call[d].mutex /\ call'[d].node = call[d].node
                         /\ call'[d].order = call[d].order
    BY <1>3 DEF MovesTo, SameBut, SameCall
  <2>2. \A d \in Calls : Inside(d)' => d # c /\ Inside(d) /\ call[d].mutex # call[c].mutex
    BY <1>1, <1>2, <1>3 DEF Inside, MovesTo, SameBut, SameCall, LockInv
  <2>3. \A m \in Mutexes : Holders(m)' = Holders(m)
    BY <2>1 DEF Holders
  <2>4. /\ \A d \in Calls : Inside(d)' => call'[d].mutex \in held'
        /\ \A d, e \in Calls : Inside(d)' /\ Inside(e)' /\ call'[d].mutex = call'[e].mutex => d = e
    BY <1>1, <1>2, <2>1, <2>2 DEF Unlock, LockInv
  <2> QED
    BY <1>1, <2>1, <2>3, <2>4 DEF Unlock, LockInv
<1> QED
  BY <1>5, <1>6, <1>7 DEF IInv

\* The counter says how many calls have the mutex.
LEMMA HoldersFinite ==
  ASSUME NEW m
  PROVE  IsFiniteSet(Holders(m)) /\ Cardinality(Holders(m)) \in Nat
         /\ (Cardinality(Holders(m)) = 0 <=> Holders(m) = {})
BY OrdersAssumption, FS_Subset, FS_CardinalityType, FS_EmptySet DEF Holders

\* The last call takes the mutex out of the map; nobody else has it.
LEMMA UnlockOrderStep ==
  ASSUME IInv, NEW c \in Calls, UnlockOrder(c)
  PROVE  IInv'
<1>0. PICK m, n, o : m = call[c].mutex /\ n = call[c].node /\ o = call[c].order
  OBVIOUS
<1>1. call[c] \in CallRecord /\ TypeOK /\ call \in [Calls -> CallRecord] /\ CallOK(c) /\ LockInv
  BY TypeFacts DEF IInv, CallInv
<1>2. /\ m # NoMutex /\ m \in Mutexes /\ call[c].pc = "release" /\ n \in Nodes /\ o \in Orders
      /\ entry[n][o] = m
  BY <1>0, <1>1 DEF UnlockOrder, CallOK, LockInv, CallRecord
<1>3. /\ call'[c] = Idle /\ \A d \in Calls : d # c => call'[d] = call[d]
      /\ call' \in [Calls -> CallRecord]
  BY <1>1, IdleTyped DEF UnlockOrder
<1>4. CallOK(c)' /\ ReadOK(c)' /\ SameBut(c)
  BY <1>3 DEF CallOK, ReadOK, Idle, SameBut, SameCall, None, NoMutex, Ops
<1>5. CallInv' /\ RowInv' /\ ReadInv'
  <2>1. UNCHANGED <<setting, status, topup, credits, provider, faults>> /\ call[c].pc # "saved"
    BY <1>2 DEF UnlockOrder, rows
  <2>2. RowInv' /\ \A d \in Calls : d # c => CallOK(d)' /\ ReadOK(d)'
    BY <1>4, <2>1, QuietOthers DEF IInv
  <2> QED
    BY <1>4, <2>2 DEF CallInv, ReadInv
<1>6. refs[m] = Cardinality(Holders(m)) /\ refs[m] \in Nat /\ c \in Holders(m)
  BY <1>0, <1>1, <1>2 DEF LockInv, TypeOK, Holders
<1>7. refs[m] # 0
  BY <1>6, HoldersFinite
<1>8. refs' = [refs EXCEPT ![m] = refs[m] - 1] /\ refs[m] - 1 \in Nat
  BY <1>0, <1>6, <1>7 DEF UnlockOrder
<1>9. Holders(m)' = Holders(m) \ {c} /\ \A k \in Mutexes : k # m => Holders(k)' = Holders(k)
  BY <1>0, <1>2, <1>3, MutexesTyped DEF Holders, Idle, NoMutex
<1>10. \A k \in Mutexes : refs'[k] = Cardinality(Holders(k)')
  <2>1. Cardinality(Holders(m)') = Cardinality(Holders(m)) - 1
    BY <1>6, <1>9, HoldersFinite, FS_RemoveElement
  <2> QED
    BY <1>1, <1>2, <1>6, <1>8, <1>9, <2>1 DEF TypeOK, LockInv
<1>11. /\ \A k \in Nodes, p \in Orders : entry'[k][p] # NoMutex => entry'[k][p] = entry[k][p]
       /\ \A k \in Nodes, p \in Orders : entry'[k][p] = m => refs[m] # 1
       /\ entry' \in [Nodes -> [Orders -> Mutexes \union {NoMutex}]]
  <2>1. CASE refs[m] = 1
    <3>1. entry' = [entry EXCEPT ![n][o] = NoMutex]
      BY <1>0, <2>1 DEF UnlockOrder
    <3>2. \A k \in Nodes, p \in Orders : entry[k][p] = m => k = n /\ p = o
      BY <1>1, <1>2 DEF LockInv
    <3> QED
      BY <1>1, <1>2, <3>1, <3>2 DEF TypeOK, NoMutex
  <2>2. CASE refs[m] # 1
    BY <1>0, <1>1, <2>2 DEF UnlockOrder, TypeOK
  <2> QED
    BY <2>1, <2>2
<1>12. ASSUME NEW d \in Calls, d # c, call[d].mutex # NoMutex
       PROVE  entry'[call[d].node][call[d].order] = call[d].mutex
  <2>1. call[d].node \in Nodes /\ call[d].order \in Orders
        /\ entry[call[d].node][call[d].order] = call[d].mutex
    BY <1>1, <1>12 DEF LockInv
  <2>2. CASE refs[m] = 1
    <3>1. Holders(m) = {c}
      <4>1. IsFiniteSet(Holders(m)) /\ Cardinality(Holders(m)) = 1
        BY <1>6, <2>2, HoldersFinite
      <4>2. \E x : Holders(m) = {x}
        BY <4>1, FS_Singleton
      <4> QED
        BY <1>6, <4>2
    <3>2. call[d].mutex # m
      BY <1>12, <3>1 DEF Holders
    <3>3. entry' = [entry EXCEPT ![n][o] = NoMutex]
      BY <1>0, <2>2 DEF UnlockOrder
    <3> QED
      BY <1>1, <1>2, <2>1, <3>2, <3>3 DEF TypeOK
  <2>3. CASE refs[m] # 1
    BY <1>0, <2>1, <2>3 DEF UnlockOrder
  <2> QED
    BY <2>2, <2>3
<1>13. LockInv'
  <2>1. \A d \in Calls : call'[d].mutex # NoMutex =>
          /\ call'[d].node \in Nodes /\ call'[d].order \in Orders
          /\ entry'[call'[d].node][call'[d].order] = call'[d].mutex
    BY <1>1, <1>3, <1>12 DEF LockInv, Idle, NoMutex
  <2>2. \A n1, n2 \in Nodes, o1, o2 \in Orders :
          entry'[n1][o1] # NoMutex /\ entry'[n1][o1] = entry'[n2][o2] => n1 = n2 /\ o1 = o2
    BY <1>1, <1>11 DEF LockInv
  <2>3. \A k \in Nodes, p \in Orders : entry'[k][p] # NoMutex => refs'[entry'[k][p]] # 0
    <3> SUFFICES ASSUME NEW k \in Nodes, NEW p \in Orders, entry'[k][p] # NoMutex
                 PROVE  refs'[entry'[k][p]] # 0
      OBVIOUS
    <3>1. entry'[k][p] = entry[k][p] /\ refs[entry[k][p]] # 0 /\ entry[k][p] \in Mutexes
      BY <1>1, <1>11 DEF LockInv, TypeOK
    <3>2. CASE entry[k][p] = m
      BY <1>1, <1>2, <1>6, <1>8, <1>11, <3>1, <3>2 DEF TypeOK
    <3>3. CASE entry[k][p] # m
      BY <1>1, <1>2, <1>8, <3>1, <3>3 DEF TypeOK
    <3> QED
      BY <3>2, <3>3
  <2>4. \A d \in Calls : Inside(d)' => Inside(d) /\ call'[d] = call[d]
    BY <1>3 DEF Inside, Idle
  <2> QED
    BY <1>1, <1>10, <2>1, <2>2, <2>3, <2>4 DEF LockInv, UnlockOrder
<1>14. TypeOK'
  BY <1>1, <1>2, <1>3, <1>8, <1>11 DEF TypeOK, UnlockOrder, CallRecord, setting, rows
<1> QED
  BY <1>5, <1>13, <1>14 DEF IInv

-------------------------------------------------------------------------------
(* Calls arrive, providers settle, nodes crash.                               *)

LEMMA MayArriveFacts ==
  ASSUME NEW n, NEW o, NEW op \in Ops, NEW who, MayArrive(op, n, o, who)
  PROVE  /\ op # "buy"
         /\ op = "pay" => kind[o] # "code" /\ provider[o] = "paid"
         /\ op = "close" => kind[o] \in {"stripe", "subStripe"} /\ provider[o] = "void"
         /\ op = "fail" => kind[o] = "waffo" \/ (kind[o] = "stripe" /\ provider[o] = "void")
         /\ op = "admin" => kind[o] \in TopUpKinds
         /\ op = "redeem" => kind[o] = "code"
BY DEF MayArrive, Ops

LEMMA ArriveBuyStep ==
  ASSUME IInv, NEW c \in Calls, NEW n \in nodes, ArriveBuy(c, n)
  PROVE  IInv'
<1>1. TypeOK /\ call \in [Calls -> CallRecord] /\ CallOK(c) /\ n \in Nodes
  BY TypeFacts DEF IInv, CallInv
<1>2. call[c].mutex = NoMutex /\ call[c].pc = "idle"
  BY <1>1 DEF ArriveBuy, CallOK
<1>3. /\ call'[c].pc = "ready" /\ call'[c].op = "buy" /\ call'[c].node = n
      /\ call'[c].mutex = NoMutex
      /\ call' \in [Calls -> CallRecord] /\ SameBut(c)
  BY <1>1, IdleTyped, OrdersAssumption
  DEF ArriveBuy, Idle, CallRecord, Steps, Ops, SameBut, SameCall
<1>4. CallOK(c)' /\ ReadOK(c)' /\ KeepsMutex(c)
  BY <1>1, <1>2, <1>3 DEF ArriveBuy, CallOK, ReadOK, KeepsMutex, Inside, setting, Ops
<1>5. /\ UNCHANGED <<setting, status, topup, credits, provider, locks>>
      /\ subs' \in Nat /\ wallet' \in Int /\ acked' \subseteq Orders
      /\ faults' \in 0..MaxFaults /\ faults' >= faults
  BY <1>1, OrdersAssumption DEF TypeOK, ArriveBuy, rows
<1> QED
  BY <1>2, <1>3, <1>4, <1>5, LocalStep

\* There is a mutex for a call that needs a new one: each one in use has a call.
LEMMA FreshMutex ==
  ASSUME TypeOK, LockInv, NEW c \in Calls, call[c].mutex = NoMutex
  PROVE  \E m \in Mutexes : refs[m] = 0
<1> SUFFICES ASSUME \A m \in Mutexes : refs[m] # 0
             PROVE  FALSE
  OBVIOUS
<1> DEFINE Others == Calls \ {c}
           w == [m \in Mutexes |-> CHOOSE d \in Others : call[d].mutex = m]
<1>1. \A m \in Mutexes : \E d \in Others : call[d].mutex = m
  <2> SUFFICES ASSUME NEW m \in Mutexes
               PROVE  \E d \in Others : call[d].mutex = m
    OBVIOUS
  <2>1. Holders(m) # {}
    BY HoldersFinite DEF LockInv
  <2>2. m # NoMutex
    BY MutexesTyped DEF NoMutex
  <2> QED
    BY <2>1, <2>2 DEF Holders
<1>2. w \in [Mutexes -> Others] /\ \A m \in Mutexes : call[w[m]].mutex = m
  BY <1>1
<1>3. /\ IsFiniteSet(Mutexes) /\ Cardinality(Mutexes) = Cardinality(Calls)
      /\ IsFiniteSet(Others) /\ Cardinality(Others) = Cardinality(Calls) - 1
  <2>1. Cardinality(Calls) \in Nat /\ IsFiniteSet(Calls)
    BY OrdersAssumption, MutexesTyped
  <2>2. IsFiniteSet(Mutexes) /\ Cardinality(Mutexes) = Cardinality(Calls)
    BY <2>1, FS_Interval DEF Mutexes
  <2>3. IsFiniteSet(Others) /\ Cardinality(Others) = Cardinality(Calls) - 1
    BY <2>1, FS_RemoveElement
  <2> QED
    BY <2>2, <2>3
<1>4. Cardinality(Others) < Cardinality(Mutexes)
  BY <1>3, MutexesTyped
<1> HIDE DEF w, Others
<1>5. \E x, y \in Mutexes : x # y /\ w[x] = w[y]
  BY <1>2, <1>3, <1>4, FS_PigeonHole
<1> QED
  BY <1>2, <1>5

\* The map of mutexes when a call takes one.
LEMMA LockOrderFacts ==
  ASSUME TypeOK, LockInv, NEW c \in Calls, call[c].mutex = NoMutex,
         NEW n \in Nodes, NEW o \in Orders, LockOrder(n, o)
  PROVE  \E m \in Mutexes :
           /\ entry' = [entry EXCEPT ![n][o] = m]
           /\ refs' = [refs EXCEPT ![m] = refs[m] + 1]
           /\ entry'[n][o] = m
           /\ entry[n][o] = m \/ (entry[n][o] = NoMutex /\ refs[m] = 0)
<1> DEFINE fresh == CHOOSE k \in Mutexes : refs[k] = 0
           m == IF entry[n][o] # NoMutex THEN entry[n][o] ELSE fresh
<1>1. fresh \in Mutexes /\ refs[fresh] = 0
  BY FreshMutex
<1>2. m \in Mutexes
  BY <1>1 DEF TypeOK
<1>3. entry[n][o] = m \/ (entry[n][o] = NoMutex /\ refs[m] = 0)
  BY <1>1
<1>4. entry' = [entry EXCEPT ![n][o] = m] /\ refs' = [refs EXCEPT ![m] = refs[m] + 1]
  BY DEF LockOrder
<1>5. entry'[n][o] = m
  <2> HIDE DEF m
  <2> QED
    BY <1>4 DEF TypeOK
<1> HIDE DEF m
<1> QED
  BY <1>2, <1>3, <1>4, <1>5

LEMMA ArriveStep ==
  ASSUME IInv, NEW c \in Calls, NEW n \in nodes, NEW o \in Orders, NEW op \in Ops,
         NEW who \in Users \union {None}, Arrive(c, n, o, op, who)
  PROVE  IInv'
<1>1. TypeOK /\ LockInv /\ call \in [Calls -> CallRecord] /\ CallOK(c) /\ n \in Nodes
  BY TypeFacts DEF IInv, CallInv
<1>2. call[c].mutex = NoMutex /\ call[c].pc = "idle"
  BY <1>1 DEF Arrive, CallOK
<1>3. /\ op # "buy"
      /\ op = "pay" => kind[o] # "code" /\ provider[o] = "paid"
      /\ op = "close" => kind[o] \in {"stripe", "subStripe"} /\ provider[o] = "void"
      /\ op = "fail" => kind[o] = "waffo" \/ (kind[o] = "stripe" /\ provider[o] = "void")
      /\ op = "admin" => kind[o] \in TopUpKinds
      /\ op = "redeem" => kind[o] = "code"
  BY MayArriveFacts DEF Arrive
<1>4. /\ UNCHANGED <<setting, rows, status, topup, credits, provider, faults>>
      /\ subs' \in Nat /\ wallet' \in Int /\ acked' \subseteq Orders
      /\ faults' \in 0..MaxFaults /\ faults' >= faults
  BY <1>1, OrdersAssumption DEF TypeOK, Arrive, rows
<1>5. CASE ~Locked(op, kind[o])
  <2>1. /\ call'[c].pc = "ready" /\ call'[c].op = op /\ call'[c].node = n
        /\ call'[c].order = o /\ call'[c].mutex = NoMutex
        /\ call' \in [Calls -> CallRecord] /\ SameBut(c) /\ UNCHANGED locks
    <3> DEFINE r == [Idle EXCEPT !.pc = "ready", !.op = op, !.node = n, !.order = o, !.who = who]
    <3>1. call' = [call EXCEPT ![c] = r] /\ UNCHANGED locks
      BY <1>5, Zenon DEF Arrive
    <3>2. /\ r \in CallRecord /\ r.pc = "ready" /\ r.op = op /\ r.node = n /\ r.order = o
          /\ r.mutex = NoMutex
      BY <1>1 DEF Idle, CallRecord, Steps, NoMutex
    <3> HIDE DEF r
    <3> QED
      BY <1>1, <3>1, <3>2 DEF SameBut, SameCall
  <2>2. CallOK(c)'
    BY <1>3, <1>4, <1>5, <2>1 DEF CallOK, setting, Locked
  <2>3. ReadOK(c)' /\ KeepsMutex(c)
    BY <1>2, <2>1 DEF ReadOK, KeepsMutex, Inside, Open
  <2> QED
    BY <1>2, <1>4, <2>1, <2>2, <2>3, LocalStep
<1>6. CASE Locked(op, kind[o])
  <2>1. LockOrder(n, o)
    BY <1>6 DEF Arrive
  <2>2. PICK m \in Mutexes :
           /\ entry' = [entry EXCEPT ![n][o] = m]
           /\ refs' = [refs EXCEPT ![m] = refs[m] + 1]
           /\ entry'[n][o] = m
           /\ entry[n][o] = m \/ (entry[n][o] = NoMutex /\ refs[m] = 0)
    BY <1>1, <1>2, <2>1, LockOrderFacts
  <2>3. m # NoMutex /\ m \in Nat
    BY MutexesTyped DEF NoMutex
  <2>4. /\ call'[c].pc = "wait" /\ call'[c].op = op /\ call'[c].node = n
        /\ call'[c].order = o /\ call'[c].mutex = m
        /\ call' \in [Calls -> CallRecord] /\ \A d \in Calls : d # c => call'[d] = call[d]
    <3> DEFINE r == [Idle EXCEPT !.pc = "wait", !.op = op, !.node = n, !.order = o, !.who = who,
                                 !.mutex = m]
    <3>1. call' = [call EXCEPT ![c] = r]
      BY <1>6, <2>2, Zenon DEF Arrive, MutexOf
    <3>2. /\ r \in CallRecord /\ r.pc = "wait" /\ r.op = op /\ r.node = n /\ r.order = o
          /\ r.mutex = m
      BY <1>1 DEF Idle, CallRecord, Steps, NoMutex
    <3> HIDE DEF r
    <3> QED
      BY <1>1, <3>1, <3>2
  <2>5. SameBut(c)
    BY <2>4 DEF SameBut, SameCall
  <2>6. CallOK(c)'
    BY <1>3, <1>4, <1>6, <2>3, <2>4 DEF CallOK, setting, Locked
  <2>7. ReadOK(c)'
    BY <2>4 DEF ReadOK, Open
  <2>8. CallInv' /\ RowInv' /\ ReadInv'
    <3>1. RowInv' /\ \A d \in Calls : d # c => CallOK(d)' /\ ReadOK(d)'
      BY <1>2, <1>4, <2>5, QuietOthers DEF IInv
    <3> QED
      BY <2>6, <2>7, <3>1 DEF CallInv, ReadInv
  <2>9. held' = held /\ refs \in [Mutexes -> Nat] /\ refs[m] + 1 \in Nat
        /\ entry \in [Nodes -> [Orders -> Mutexes \union {NoMutex}]]
    BY <1>1, <2>1 DEF LockOrder, TypeOK
  <2>10. TypeOK'
    BY <1>1, <1>4, <2>2, <2>4, <2>9 DEF TypeOK, CallRecord, setting
  <2>11. Holders(m)' = Holders(m) \union {c} /\ c \notin Holders(m)
         /\ \A k \in Mutexes : k # m => Holders(k)' = Holders(k)
    BY <1>2, <2>3, <2>4, MutexesTyped DEF Holders, NoMutex
  <2>12. \A k \in Mutexes : refs'[k] = Cardinality(Holders(k)')
    <3>1. Cardinality(Holders(m)') = Cardinality(Holders(m)) + 1
      BY <2>11, HoldersFinite, FS_AddElement
    <3> QED
      BY <1>1, <2>2, <2>9, <2>11, <3>1 DEF LockInv
  <2>13. \A d \in Calls : d # c /\ call[d].mutex # NoMutex =>
           /\ entry'[call[d].node][call[d].order] = call[d].mutex
           /\ call[d].node \in Nodes /\ call[d].order \in Orders
    BY <1>1, <2>2, <2>3, <2>9 DEF LockInv
  <2>14. \A d \in Calls : call'[d].mutex # NoMutex =>
           /\ call'[d].node \in Nodes /\ call'[d].order \in Orders
           /\ entry'[call'[d].node][call'[d].order] = call'[d].mutex
    BY <1>1, <2>2, <2>4, <2>13
  <2>15. \A n1 \in Nodes, o1 \in Orders : entry[n1][o1] = m => n1 = n /\ o1 = o
    BY <1>1, <2>2, <2>3 DEF LockInv
  <2>16. \A n1 \in Nodes, o1 \in Orders :
           entry'[n1][o1] = IF n1 = n /\ o1 = o THEN m ELSE entry[n1][o1]
    BY <1>1, <2>2, <2>9
  <2>17. \A n1, n2 \in Nodes, o1, o2 \in Orders :
           entry'[n1][o1] # NoMutex /\ entry'[n1][o1] = entry'[n2][o2] => n1 = n2 /\ o1 = o2
    BY <1>1, <2>15, <2>16 DEF LockInv
  <2>18. \A n1 \in Nodes, o1 \in Orders : entry'[n1][o1] # NoMutex => refs'[entry'[n1][o1]] # 0
    BY <1>1, <2>2, <2>9, <2>16 DEF LockInv
  <2>19. \A d \in Calls : Inside(d)' => d # c /\ Inside(d) /\ call'[d] = call[d]
    BY <2>4 DEF Inside
  <2>20. LockInv'
    BY <1>1, <2>9, <2>12, <2>14, <2>17, <2>18, <2>19 DEF LockInv
  <2> QED
    BY <2>8, <2>10, <2>20 DEF IInv
<1> QED
  BY <1>5, <1>6

\* What the provider knows of a paid or ended checkout does not change.
LEMMA ProviderStep ==
  ASSUME IInv, NEW o \in Orders, ProviderSettles(o)
  PROVE  IInv'
<1>1. TypeOK
  BY DEF IInv
<1>2. PICK p \in {"paid", "void"} : provider' = [provider EXCEPT ![o] = p]
  BY DEF ProviderSettles
<1>3. \A q \in Orders : provider[q] \in {"paid", "void"} => provider'[q] = provider[q]
  BY <1>1, <1>2 DEF ProviderSettles, TypeOK
<1>4. UNCHANGED <<setting, rows, acked, locks, call, faults>>
  BY DEF ProviderSettles
<1>5. TypeOK'
  BY <1>1, <1>2, <1>4 DEF TypeOK, setting, rows, locks
<1>6. LockInv'
  <2>1. \A d \in Calls : KeepsMutex(d)
    BY <1>4 DEF KeepsMutex, Inside
  <2> QED
    BY <1>4, <2>1, LockFrame DEF IInv
<1>7. \A d \in Calls : CallOK(d)'
  BY <1>3, <1>4 DEF IInv, CallInv, CallOK, setting, Locked
<1>8. \A d \in Calls : ReadOK(d)'
  BY <1>4 DEF IInv, ReadInv, ReadOK, setting, rows, OneNode
<1>9. \A q \in Orders : RowOK(q)'
  BY <1>3, <1>4 DEF IInv, RowInv, RowOK, setting, rows, Protected, OneNode, HalfDone
<1> QED
  BY <1>5, <1>6, <1>7, <1>8, <1>9 DEF IInv, CallInv, ReadInv, RowInv

\* The calls and the locks of a node go together.
LEMMA CrashStep ==
  ASSUME IInv, NEW n \in nodes, Crash(n)
  PROVE  IInv'
<1>1. TypeOK /\ LockInv /\ call \in [Calls -> CallRecord] /\ n \in Nodes
  BY TypeFacts DEF IInv
<1> DEFINE used == {entry[n][o] : o \in Orders}
<1>2. /\ \A c \in Calls : call'[c] = IF call[c].node = n THEN Idle ELSE call[c]
      /\ call' \in [Calls -> CallRecord]
  BY <1>1, IdleTyped DEF Crash
<1>3. /\ entry' = [entry EXCEPT ![n] = [o \in Orders |-> NoMutex]]
      /\ refs' = [m \in Mutexes |-> IF m \in used THEN 0 ELSE refs[m]]
      /\ held' = held \ used
      /\ UNCHANGED <<setting, rows, provider, acked>>
  BY DEF Crash
<1>4. faults' \in 0..MaxFaults /\ faults' > 0
  BY <1>1, OrdersAssumption DEF Crash, TypeOK
<1>5. /\ entry' \in [Nodes -> [Orders -> Mutexes \union {NoMutex}]]
      /\ refs' \in [Mutexes -> Nat] /\ held' \subseteq Mutexes
  BY <1>1, <1>3 DEF TypeOK
<1>6. TypeOK'
  BY <1>1, <1>2, <1>3, <1>4, <1>5 DEF TypeOK, CallRecord, setting, rows
<1>7. \A k \in Nodes, p \in Orders :
        entry'[k][p] = IF k = n THEN NoMutex ELSE entry[k][p]
  BY <1>1, <1>3 DEF TypeOK
<1>8. \A c \in Calls : call[c].mutex # NoMutex => (call[c].mutex \in used <=> call[c].node = n)
  BY <1>1 DEF LockInv
<1>9. \A k \in Nodes, p \in Orders : k # n /\ entry[k][p] # NoMutex => entry[k][p] \notin used
  BY <1>1 DEF LockInv
<1> HIDE DEF used
<1>10. LockInv'
  <2>1. \A m \in Mutexes : refs'[m] = Cardinality(Holders(m)')
    <3> SUFFICES ASSUME NEW m \in Mutexes
                 PROVE  refs'[m] = Cardinality(Holders(m)')
      OBVIOUS
    <3>1. m # NoMutex
      BY MutexesTyped DEF NoMutex
    <3>2. CASE m \in used
      <4>1. Holders(m)' = {}
        BY <1>2, <1>8, <3>1, <3>2 DEF Holders, Idle
      <4> QED
        BY <1>3, <3>2, <4>1, FS_EmptySet
    <3>3. CASE m \notin used
      <4>1. Holders(m)' = Holders(m)
        BY <1>2, <1>8, <3>1, <3>3 DEF Holders, Idle
      <4> QED
        BY <1>1, <1>3, <3>3, <4>1 DEF LockInv
    <3> QED
      BY <3>2, <3>3
  <2>2. \A c \in Calls : call'[c].mutex # NoMutex =>
          call[c].node # n /\ call'[c] = call[c] /\ call[c].mutex \notin used
    BY <1>2, <1>8 DEF Idle
  <2>3. \A c \in Calls : call'[c].mutex # NoMutex =>
          /\ call'[c].node \in Nodes /\ call'[c].order \in Orders
          /\ entry'[call'[c].node][call'[c].order] = call'[c].mutex
    BY <1>1, <1>7, <2>2 DEF LockInv
  <2>4. /\ \A n1, n2 \in Nodes, o1, o2 \in Orders :
             entry'[n1][o1] # NoMutex /\ entry'[n1][o1] = entry'[n2][o2] => n1 = n2 /\ o1 = o2
    BY <1>1, <1>7 DEF LockInv
  <2>5. \A k \in Nodes, p \in Orders : entry'[k][p] # NoMutex => refs'[entry'[k][p]] # 0
    BY <1>1, <1>3, <1>7, <1>9 DEF LockInv, TypeOK
  <2>6. \A c \in Calls : Inside(c)' =>
          Inside(c) /\ call'[c].mutex = call[c].mutex /\ call[c].mutex \notin used
    BY <2>2 DEF Inside
  <2> QED
    BY <1>1, <1>3, <2>1, <2>3, <2>4, <2>5, <2>6 DEF LockInv
<1>11. \A c \in Calls : CallOK(c)' /\ ReadOK(c)'
  <2> SUFFICES ASSUME NEW c \in Calls
               PROVE  CallOK(c)' /\ ReadOK(c)'
    OBVIOUS
  <2>1. CASE call[c].node = n
    BY <1>2, <2>1 DEF CallOK, ReadOK, Idle, NoMutex, None
  <2>2. CASE call[c].node # n
    BY <1>2, <1>3, <2>2 DEF IInv, CallInv, ReadInv, CallOK, ReadOK, setting, rows, OneNode, Locked
  <2> QED
    BY <2>1, <2>2
<1>12. \A o \in Orders : RowOK(o)'
  BY <1>3, <1>4 DEF IInv, RowInv, RowOK, setting, rows, Protected, OneNode
<1> QED
  BY <1>6, <1>10, <1>11, <1>12 DEF IInv, CallInv, ReadInv, RowInv

-------------------------------------------------------------------------------
(* Steps that write an order.                                                 *)

LEMMA WrittenFacts ==
  ASSUME TypeOK, NEW c \in Calls, NEW next \in CallRecord, call' = Written(c, next)
  PROVE  /\ call' \in [Calls -> CallRecord] /\ call'[c] = next /\ SameBut(c)
         /\ \A d \in Calls : d # c /\ db = "sqlite" /\ call[d].pc \in Open => call'[d].dirty
<1>1. call \in [Calls -> CallRecord]
  BY TypeFacts
<1>2. \A d \in Calls : call'[d] = IF d = c THEN next
                                  ELSE IF d \in Outdated(c) THEN [call[d] EXCEPT !.dirty = TRUE]
                                  ELSE call[d]
  BY DEF Written
<1>3. ASSUME NEW r \in CallRecord
      PROVE  /\ [r EXCEPT !.dirty = TRUE] \in CallRecord
             /\ [r EXCEPT !.dirty = TRUE].pc = r.pc /\ [r EXCEPT !.dirty = TRUE].op = r.op
             /\ [r EXCEPT !.dirty = TRUE].node = r.node /\ [r EXCEPT !.dirty = TRUE].order = r.order
             /\ [r EXCEPT !.dirty = TRUE].mutex = r.mutex /\ [r EXCEPT !.dirty = TRUE].row = r.row
             /\ [r EXCEPT !.dirty = TRUE].dirty = TRUE
  BY DEF CallRecord
<1>4. ASSUME NEW d \in Calls, d # c
      PROVE  /\ call'[d] \in CallRecord /\ SameCall(d)
             /\ db = "sqlite" /\ call[d].pc \in Open => call'[d].dirty
  <2>1. CASE d \in Outdated(c)
    <3>1. call'[d] = [call[d] EXCEPT !.dirty = TRUE] /\ call[d] \in CallRecord
      BY <1>1, <1>2, <1>4, <2>1
    <3> QED
      BY <1>3, <3>1 DEF SameCall
  <2>2. CASE d \notin Outdated(c)
    BY <1>1, <1>2, <1>4, <2>2 DEF SameCall, Outdated
  <2> QED
    BY <2>1, <2>2
<1>5. DOMAIN call' = Calls /\ call' = [d \in Calls |-> call'[d]]
  BY DEF Written
<1>6. \A d \in Calls : call'[d] \in CallRecord
  BY <1>2, <1>4
<1> QED
  BY <1>2, <1>4, <1>5, <1>6 DEF SameBut

\* At one node the calls that took the mutex of an order are one at a time.
LEMMA LockExcludes ==
  ASSUME IInv, OneNode, NEW c \in Calls, NEW d \in Calls, Working(c), Working(d),
         call[c].mutex # NoMutex, call[d].mutex # NoMutex, call[c].order = call[d].order
  PROVE  c = d
<1>1. call[c].node = call[d].node
  BY TypeFacts DEF IInv, CallInv, CallOK, Working
<1>2. Inside(c) /\ Inside(d) /\ call[c].mutex = call[d].mutex
  BY <1>1 DEF IInv, LockInv, Inside, Working
<1> QED
  BY <1>2 DEF IInv, LockInv

\* A call that writes the order o: nobody else holds a reading of it that mattered.
LEMMA WriteOthers ==
  ASSUME IInv, NEW c \in Calls, Working(c), NEW o \in Orders, call[c].order = o,
         call[c].op # "buy", SameBut(c),
         \A d \in Calls : d # c /\ db = "sqlite" /\ call[d].pc \in Open => call'[d].dirty,
         UNCHANGED <<setting, provider>>,
         \A p \in Orders : p # o => status'[p] = status[p] /\ credits'[p] = credits[p],
         status'[o] # "pending",
         \/ call[c].mutex # NoMutex
         \/ kind[o] = "code"
         \/ kind[o] = "waffo" /\ credits'[o] = credits[o],
         NEW d \in Calls, d # c
  PROVE  CallOK(d)' /\ ReadOK(d)'
<1>1. CallOK(d) /\ ReadOK(d) /\ SameCall(d) /\ TypeOK
  BY DEF IInv, CallInv, ReadInv, SameBut
<1>2. CallOK(d)'
  BY <1>1 DEF CallOK, SameCall, setting, Locked
<1>3. CASE call[d].pc = "idle" \/ call[d].op = "buy" \/ call[d].order # o
  <2>1. call[d].pc # "idle" /\ call[d].op # "buy" =>
          /\ call[d].order \in Orders /\ status'[call[d].order] = status[call[d].order]
          /\ credits'[call[d].order] = credits[call[d].order]
    BY <1>1, <1>3 DEF CallOK
  <2>2. ReadOK(d)'
    BY <1>1, <2>1 DEF ReadOK, SameCall, setting, OneNode
  <2> QED
    BY <1>2, <2>2
<1>4. CASE call[d].pc # "idle" /\ call[d].op # "buy" /\ call[d].order = o
  <2>1. kind[o] = "code" => call[d].mutex = NoMutex
    BY <1>1, <1>4 DEF CallOK, Locked, TopUpKinds
  <2>2. call[d].pc = "saved" => call[d].mutex # NoMutex /\ kind[o] = "epay"
    BY <1>1, <1>4 DEF CallOK, Locked
  <2>3. call[d].pc \in Open \union {"saved"} => Working(d)
    BY DEF Open, Working
  <2>4. OneNode /\ call[d].mutex # NoMutex /\ call[d].pc \in Open \union {"saved"} =>
          kind[o] = "waffo" /\ credits'[o] = credits[o]
    BY <1>4, <2>1, <2>3, LockExcludes
  <2>5. ReadOK(d)'
    BY <1>1, <1>4, <2>2, <2>4 DEF ReadOK, SameCall, setting, OneNode, Open
  <2> QED
    BY <1>2, <2>5
<1> QED
  BY <1>3, <1>4

LEMMA WriteStep ==
  ASSUME IInv, NEW c \in Calls, Working(c), NEW o \in Orders, call[c].order = o,
         call[c].op # "buy", NEW next \in CallRecord, call' = Written(c, next),
         CallOK(c)', ReadOK(c)', KeepsMutex(c),
         UNCHANGED <<setting, provider, locks>>,
         status' \in [Orders -> Statuses], credits' \in [Orders -> Nat],
         \A p \in Orders : p # o => /\ status'[p] = status[p] /\ credits'[p] = credits[p]
                                    /\ p \in topup' <=> p \in topup,
         topup' \subseteq Orders, subs' \in Nat, wallet' \in Int, acked' \subseteq Orders,
         faults' \in 0..MaxFaults, faults' >= faults,
         status'[o] # "pending",
         \/ call[c].mutex # NoMutex
         \/ kind[o] = "code"
         \/ kind[o] = "waffo" /\ credits'[o] = credits[o],
         RowOK(o)'
  PROVE  IInv'
<1>1. /\ call' \in [Calls -> CallRecord] /\ SameBut(c)
      /\ \A d \in Calls : d # c /\ db = "sqlite" /\ call[d].pc \in Open => call'[d].dirty
  BY WrittenFacts DEF IInv
<1>2. TypeOK'
  BY <1>1 DEF IInv, TypeOK, CallRecord, setting, locks
<1>3. \A d \in Calls : KeepsMutex(d)
  BY <1>1 DEF SameBut, SameCall, KeepsMutex, Inside
<1>4. LockInv'
  BY <1>3, LockFrame DEF IInv
<1>5. \A d \in Calls : d # c => CallOK(d)' /\ ReadOK(d)'
  BY <1>1, WriteOthers
<1>6. ASSUME NEW p \in Orders, p # o
      PROVE  RowOK(p)'
  <2>1. HalfDone(p) => HalfDone(p)'
    BY <1>1, <1>6 DEF HalfDone, SameBut, SameCall
  <2>2. faults > 0 => faults' > 0
    BY OrdersAssumption DEF IInv, TypeOK
  <2> QED
    BY <1>6, <2>1, <2>2 DEF IInv, RowInv, RowOK, setting, Protected, OneNode
<1> QED
  BY <1>2, <1>4, <1>5, <1>6 DEF IInv, CallInv, ReadInv, RowInv

-------------------------------------------------------------------------------
(* Steps of the ledger.                                                       *)

LedgerStep == [Ledger!Next]_(Ledger!vars)

LEMMA LedgerStutter ==
  ASSUME UNCHANGED <<setting, status, credits>>
  PROVE  LedgerStep
BY DEF LedgerStep, Ledger!vars, setting, Protected, OneNode

\* A credit of o is the first one; only a Waffo order may have been closed before.
LEMMA LedgerCredit ==
  ASSUME TypeOK, NEW o \in Orders, UNCHANGED setting,
         credits' = [credits EXCEPT ![o] = credits[o] + 1],
         \A p \in Orders : p # o => status'[p] = status[p],
         status'[o] = "success",
         Protected(o) => /\ credits[o] = 0
                         /\ kind[o] = "waffo" \/ status[o] \notin {"failed", "expired"}
  PROVE  LedgerStep
<1> DEFINE Cr == [p \in Orders |-> IF Protected(p) THEN credits[p] ELSE 0]
           Cl == {p \in Orders : Protected(p) /\ credits[p] = 0
                                 /\ status[p] \in {"failed", "expired"}}
           Re == {p \in Orders : kind[p] = "waffo"}
<1>1. /\ \A p \in Orders : Protected(p)' <=> Protected(p)
      /\ Re' = Re
      /\ \A p \in Orders : p # o => credits'[p] = credits[p]
      /\ credits'[o] = credits[o] + 1
  BY DEF setting, Protected, OneNode, TypeOK
<1>2. CASE ~Protected(o)
  <2>1. Cr' = Cr /\ Cl' = Cl
    BY <1>1, <1>2
  <2> QED
    BY <1>1, <2>1 DEF LedgerStep, Ledger!vars
<1>3. CASE Protected(o) /\ o \notin Cl
  <2>1. Cr[o] = 0 /\ Cr' = [Cr EXCEPT ![o] = 1]
    <3>1. Protected(o)' /\ Protected(o) /\ credits[o] = 0 /\ credits'[o] = 1
      BY <1>1, <1>3
    <3>2. \A p \in Orders : Cr'[p] = IF p = o THEN 1 ELSE Cr[p]
      BY <1>1, <3>1
    <3> QED
      BY <3>1, <3>2
  <2>2. Cl' = Cl
    BY <1>1, <1>3
  <2>3. Ledger!Credit(o)
    BY <1>1, <1>3, <2>1, <2>2 DEF Ledger!Credit
  <2> QED
    BY <2>3 DEF LedgerStep, Ledger!Next
<1>4. CASE Protected(o) /\ o \in Cl
  <2>1. o \in Re
    BY <1>4
  <2>2. Cr' = [Cr EXCEPT ![o] = 1]
    <3>1. Protected(o)' /\ Protected(o) /\ credits[o] = 0 /\ credits'[o] = 1
      BY <1>1, <1>4
    <3>2. \A p \in Orders : Cr'[p] = IF p = o THEN 1 ELSE Cr[p]
      BY <1>1, <3>1
    <3> QED
      BY <3>1, <3>2
  <2>3. Cl' = Cl \ {o}
    BY <1>1, <1>4
  <2>4. Ledger!Reopen(o)
    BY <1>1, <1>4, <2>1, <2>2, <2>3 DEF Ledger!Reopen
  <2> QED
    BY <2>4 DEF LedgerStep, Ledger!Next
<1> QED
  BY <1>2, <1>3, <1>4

\* The status of an order that is not credited changes, or of one that is.
LEMMA LedgerStatus ==
  ASSUME TypeOK, NEW o \in Orders, UNCHANGED <<setting, credits>>,
         \A p \in Orders : p # o => status'[p] = status[p],
         Protected(o) /\ credits[o] = 0 /\ status[o] \in {"failed", "expired"} =>
            status'[o] \in {"failed", "expired"}
  PROVE  LedgerStep
<1> DEFINE Cr == [p \in Orders |-> IF Protected(p) THEN credits[p] ELSE 0]
           Cl == {p \in Orders : Protected(p) /\ credits[p] = 0
                                 /\ status[p] \in {"failed", "expired"}}
           Re == {p \in Orders : kind[p] = "waffo"}
<1>1. /\ \A p \in Orders : Protected(p)' <=> Protected(p)
      /\ Re' = Re /\ Cr' = Cr
  BY DEF setting, Protected, OneNode
<1>2. CASE Protected(o) /\ credits[o] = 0 /\ status'[o] \in {"failed", "expired"}
  <2>1. Cl' = Cl \union {o}
    BY <1>1, <1>2
  <2>2. Cr[o] = 0
    BY <1>2
  <2>3. Ledger!Close(o)
    BY <1>1, <2>1, <2>2 DEF Ledger!Close
  <2> QED
    BY <2>3 DEF LedgerStep, Ledger!Next
<1>3. CASE ~(Protected(o) /\ credits[o] = 0 /\ status'[o] \in {"failed", "expired"})
  <2>1. Cl' = Cl
    BY <1>1, <1>3
  <2> QED
    BY <1>1, <2>1 DEF LedgerStep, Ledger!vars
<1> QED
  BY <1>2, <1>3

-------------------------------------------------------------------------------
(* The writers of orders.                                                     *)

LEMMA CommittedFacts ==
  ASSUME IInv, NEW c \in Calls, Working(c), Committed(c)
  PROVE  /\ Ended(c) \in CallRecord /\ call' = Written(c, Ended(c))
         /\ CallOK(c)' /\ ReadOK(c)' /\ KeepsMutex(c)
         /\ UNCHANGED <<setting, provider, locks>>
         /\ acked' \subseteq Orders
         /\ faults' \in 0..MaxFaults /\ faults' >= faults
<1>1. TypeOK /\ CallOK(c)
  BY DEF IInv, CallInv
<1>2. call' = Written(c, Ended(c)) /\ UNCHANGED <<setting, provider, locks>>
  BY DEF Committed
<1>3. call'[c] = Ended(c)
  BY <1>2 DEF Written
<1>4. Ended(c) \in CallRecord /\ CallOK(c)' /\ ReadOK(c)' /\ KeepsMutex(c)
  BY <1>1, <1>2, <1>3, EndedFacts
<1>5. acked' \subseteq Orders
  BY <1>1 DEF Committed, Answer, Acknowledges, CallOK, TypeOK, Working
<1>6. faults' \in 0..MaxFaults /\ faults' >= faults
  BY <1>1, OrdersAssumption DEF Committed, TypeOK
<1> QED
  BY <1>2, <1>4, <1>5, <1>6

LEMMA WritesFacts ==
  ASSUME IInv, NEW c \in Calls, NEW op \in Ops, Writes(c, op)
  PROVE  /\ Working(c) /\ call[c].pc \in Open /\ call[c].op = op /\ call[c].pc # "idle"
         /\ ~call[c].dirty
         /\ IsSubscription(c) /\ call[c].order \in topup => call[c].row
         /\ CallOK(c) /\ ReadOK(c) /\ TypeOK
         /\ op # "buy" => call[c].order \in Orders /\ RowOK(call[c].order)
<1>1. /\ Working(c) /\ call[c].pc \in Open /\ call[c].op = op /\ call[c].pc # "idle"
      /\ ~call[c].dirty
      /\ IsSubscription(c) /\ call[c].order \in topup => call[c].row
  BY DEF Writes, LastRead, Working, Open, Refused
<1>2. CallOK(c) /\ ReadOK(c) /\ TypeOK
  BY DEF IInv, CallInv, ReadInv
<1>3. op # "buy" => call[c].order \in Orders
  BY <1>1, <1>2 DEF CallOK
<1> QED
  BY <1>1, <1>2, <1>3 DEF IInv, RowInv

\* What a credit finds, for each of the three protections: the mutex, the conflict check
\* of SQLite, the snapshot of MySQL with the unique trade number.
LEMMA FirstCredit ==
  ASSUME IInv, NEW c \in Calls, NEW op \in {"pay", "admin", "redeem"}, Writes(c, op),
         NEW o \in Orders, o = call[c].order, Protected(o)
  PROVE  credits[o] = 0 /\ (kind[o] = "waffo" \/ status[o] \notin {"failed", "expired"})
<1>1. op \in Ops /\ op # "buy"
  BY DEF Ops
<1>2. /\ Working(c) /\ call[c].pc \in Open /\ call[c].op = op /\ call[c].pc # "idle"
      /\ ~call[c].dirty
      /\ IsSubscription(c) /\ call[c].order \in topup => call[c].row
      /\ CallOK(c) /\ ReadOK(c) /\ TypeOK
      /\ call[c].order \in Orders /\ RowOK(call[c].order)
  BY <1>1, WritesFacts
<1>3. CASE OneNode /\ kind[o] # "code"
  <2>1. call[c].mutex # NoMutex
    BY <1>1, <1>2, <1>3 DEF CallOK, Locked
  <2> QED
    BY <1>1, <1>2, <1>3, <2>1 DEF ReadOK
<1>4. CASE db = "sqlite" /\ kind[o] = "code"
  BY <1>1, <1>2, <1>4 DEF ReadOK, RowOK
<1>5. CASE db = "mysql" /\ kind[o] \in SubKinds
  <2>1. op = "pay"
    BY <1>1, <1>2, <1>5 DEF CallOK, SubKinds, TopUpKinds
  <2>2. ~call[c].row /\ IsSubscription(c)
    BY <1>1, <1>2, <1>5, <2>1 DEF ReadOK, IsSubscription
  <2>3. o \notin topup /\ provider[o] = "paid"
    BY <1>1, <1>2, <2>1, <2>2 DEF CallOK
  <2> QED
    BY <1>2, <1>5, <2>3 DEF RowOK
<1> QED
  BY <1>2, <1>3, <1>4, <1>5, TypeFacts DEF Protected

LEMMA CreditTopUpStep ==
  ASSUME IInv, NEW c \in Calls, CreditTopUp(c)
  PROVE  IInv' /\ LedgerStep
<1>1. PICK op \in {"pay", "admin"} : Writes(c, op)
  BY DEF CreditTopUp
<1>2. PICK o : o = call[c].order
  OBVIOUS
<1>3. /\ Working(c) /\ call[c].op = op /\ call[c].pc # "idle" /\ op # "buy"
      /\ CallOK(c) /\ TypeOK /\ o \in Orders /\ RowOK(o)
  BY <1>1, <1>2, WritesFacts DEF Ops
<1>4. /\ Committed(c) /\ kind[o] \in TopUpKinds /\ status' = [status EXCEPT ![o] = "success"]
      /\ credits' = [credits EXCEPT ![o] = credits[o] + 1]
      /\ wallet' = wallet + 1 /\ UNCHANGED <<topup, subs>>
  BY <1>2 DEF CreditTopUp, SetStatus
<1>5. /\ Ended(c) \in CallRecord /\ call' = Written(c, Ended(c))
      /\ CallOK(c)' /\ ReadOK(c)' /\ KeepsMutex(c)
      /\ UNCHANGED <<setting, provider, locks>>
      /\ acked' \subseteq Orders
      /\ faults' \in 0..MaxFaults /\ faults' >= faults
  BY <1>3, <1>4, CommittedFacts
<1>6. Protected(o) => credits[o] = 0 /\ (kind[o] = "waffo" \/ status[o] \notin {"failed", "expired"})
  BY <1>1, <1>2, <1>3, FirstCredit
<1>7. /\ status' \in [Orders -> Statuses] /\ credits' \in [Orders -> Nat]
      /\ \A p \in Orders : p # o => /\ status'[p] = status[p] /\ credits'[p] = credits[p]
                                    /\ p \in topup' <=> p \in topup
      /\ status'[o] = "success" /\ credits'[o] = credits[o] + 1 /\ credits'[o] # 0
      /\ topup' \subseteq Orders /\ subs' \in Nat /\ wallet' \in Int
  BY <1>3, <1>4 DEF TypeOK, Statuses
<1>8. call[c].mutex # NoMutex
  BY <1>2, <1>3 DEF CallOK, Locked
<1>9. RowOK(o)'
  BY <1>4, <1>5, <1>6, <1>7 DEF RowOK, setting, Protected, OneNode, TopUpKinds, SubKinds
<1>10. IInv'
  BY <1>2, <1>3, <1>5, <1>7, <1>8, <1>9, WriteStep
<1>11. LedgerStep
  BY <1>3, <1>4, <1>5, <1>6, <1>7, LedgerCredit
<1> QED
  BY <1>10, <1>11

LEMMA CompleteSubscriptionStep ==
  ASSUME IInv, NEW c \in Calls, CompleteSubscriptionOrder(c)
  PROVE  IInv' /\ LedgerStep
<1>1. Writes(c, "pay") /\ IsSubscription(c)
  BY DEF CompleteSubscriptionOrder
<1>2. PICK o : o = call[c].order
  OBVIOUS
<1>3. /\ Working(c) /\ call[c].op = "pay" /\ call[c].pc # "idle"
      /\ CallOK(c) /\ TypeOK /\ o \in Orders /\ RowOK(o)
  BY <1>1, <1>2, WritesFacts DEF Ops
<1>4. /\ Committed(c) /\ kind[o] \in SubKinds /\ status' = [status EXCEPT ![o] = "success"]
      /\ credits' = [credits EXCEPT ![o] = credits[o] + 1]
      /\ topup' = topup \union {o} /\ subs' = subs + 1 /\ UNCHANGED wallet
  BY <1>2 DEF CompleteSubscriptionOrder, SetStatus, IsSubscription
<1>5. /\ Ended(c) \in CallRecord /\ call' = Written(c, Ended(c))
      /\ CallOK(c)' /\ ReadOK(c)' /\ KeepsMutex(c)
      /\ UNCHANGED <<setting, provider, locks>>
      /\ acked' \subseteq Orders
      /\ faults' \in 0..MaxFaults /\ faults' >= faults
  BY <1>3, <1>4, CommittedFacts
<1>6. Protected(o) => credits[o] = 0 /\ (kind[o] = "waffo" \/ status[o] \notin {"failed", "expired"})
  BY <1>1, <1>2, <1>3, FirstCredit
<1>7. /\ status' \in [Orders -> Statuses] /\ credits' \in [Orders -> Nat]
      /\ \A p \in Orders : p # o => /\ status'[p] = status[p] /\ credits'[p] = credits[p]
                                    /\ p \in topup' <=> p \in topup
      /\ status'[o] = "success" /\ credits'[o] = credits[o] + 1 /\ credits'[o] # 0
      /\ topup' \subseteq Orders /\ subs' \in Nat /\ wallet' \in Int
  BY <1>3, <1>4 DEF TypeOK, Statuses
<1>8. call[c].mutex # NoMutex /\ provider[o] = "paid"
  BY <1>2, <1>3 DEF CallOK, Locked
<1>9. RowOK(o)'
  BY <1>4, <1>5, <1>6, <1>7, <1>8 DEF RowOK, setting, Protected, OneNode, SubKinds
<1>10. IInv'
  BY <1>2, <1>3, <1>5, <1>7, <1>8, <1>9, WriteStep
<1>11. LedgerStep
  BY <1>3, <1>4, <1>5, <1>6, <1>7, LedgerCredit
<1> QED
  BY <1>10, <1>11

LEMMA RedeemStep ==
  ASSUME IInv, NEW c \in Calls, Redeem(c)
  PROVE  IInv' /\ LedgerStep
<1>1. Writes(c, "redeem")
  BY DEF Redeem
<1>2. PICK o : o = call[c].order
  OBVIOUS
<1>3. /\ Working(c) /\ call[c].op = "redeem" /\ call[c].pc # "idle"
      /\ CallOK(c) /\ TypeOK /\ o \in Orders /\ RowOK(o)
  BY <1>1, <1>2, WritesFacts DEF Ops
<1>4. /\ Committed(c) /\ kind[o] = "code" /\ status' = [status EXCEPT ![o] = "success"]
      /\ credits' = [credits EXCEPT ![o] = credits[o] + 1]
      /\ wallet' \in {wallet, wallet + 1} /\ UNCHANGED <<topup, subs>>
  BY <1>2, <1>3 DEF Redeem, SetStatus, CallOK
<1>5. /\ Ended(c) \in CallRecord /\ call' = Written(c, Ended(c))
      /\ CallOK(c)' /\ ReadOK(c)' /\ KeepsMutex(c)
      /\ UNCHANGED <<setting, provider, locks>>
      /\ acked' \subseteq Orders
      /\ faults' \in 0..MaxFaults /\ faults' >= faults
  BY <1>3, <1>4, CommittedFacts
<1>6. Protected(o) => credits[o] = 0 /\ (kind[o] = "waffo" \/ status[o] \notin {"failed", "expired"})
  BY <1>1, <1>2, <1>3, FirstCredit
<1>7. /\ status' \in [Orders -> Statuses] /\ credits' \in [Orders -> Nat]
      /\ \A p \in Orders : p # o => /\ status'[p] = status[p] /\ credits'[p] = credits[p]
                                    /\ p \in topup' <=> p \in topup
      /\ status'[o] = "success" /\ credits'[o] = credits[o] + 1 /\ credits'[o] # 0
      /\ topup' \subseteq Orders /\ subs' \in Nat /\ wallet' \in Int
  BY <1>3, <1>4 DEF TypeOK, Statuses
<1>8. RowOK(o)'
  BY <1>4, <1>5, <1>6, <1>7 DEF RowOK, setting, Protected, OneNode, SubKinds
<1>9. IInv'
  BY <1>2, <1>3, <1>4, <1>5, <1>7, <1>8, WriteStep
<1>10. LedgerStep
  BY <1>3, <1>4, <1>5, <1>6, <1>7, LedgerCredit
<1> QED
  BY <1>9, <1>10

\* An order that is closed was not credited: its checkout ended unpaid, or the mutex
\* kept the administrator out.
LEMMA ExpireStep ==
  ASSUME IInv, NEW c \in Calls, ExpireOrder(c)
  PROVE  IInv' /\ LedgerStep
<1>1. Writes(c, "close")
  BY DEF ExpireOrder
<1>2. PICK o : o = call[c].order
  OBVIOUS
<1>3. /\ Working(c) /\ call[c].op = "close" /\ call[c].pc # "idle" /\ call[c].pc \in Open
      /\ CallOK(c) /\ ReadOK(c) /\ TypeOK /\ o \in Orders /\ RowOK(o)
  BY <1>1, <1>2, WritesFacts DEF Ops
<1>4. /\ Committed(c) /\ status' = [status EXCEPT ![o] = "expired"]
      /\ UNCHANGED <<topup, subs, wallet, credits>>
  BY <1>2 DEF ExpireOrder, SetStatus
<1>5. /\ Ended(c) \in CallRecord /\ call' = Written(c, Ended(c))
      /\ CallOK(c)' /\ ReadOK(c)' /\ KeepsMutex(c)
      /\ UNCHANGED <<setting, provider, locks>>
      /\ acked' \subseteq Orders
      /\ faults' \in 0..MaxFaults /\ faults' >= faults
  BY <1>3, <1>4, CommittedFacts
<1>6. /\ call[c].mutex # NoMutex /\ provider[o] = "void" /\ kind[o] \in {"stripe", "subStripe"}
  BY <1>2, <1>3 DEF CallOK, Locked
<1>7. Protected(o) => credits[o] = 0
  <2>1. CASE OneNode
    BY <1>2, <1>3, <1>6, <2>1 DEF ReadOK
  <2>2. CASE ~OneNode
    BY <1>3, <1>6, <2>2, TypeFacts DEF Protected, RowOK
  <2> QED
    BY <2>1, <2>2
<1>8. /\ status' \in [Orders -> Statuses] /\ credits' \in [Orders -> Nat]
      /\ \A p \in Orders : p # o => /\ status'[p] = status[p] /\ credits'[p] = credits[p]
                                    /\ p \in topup' <=> p \in topup
      /\ status'[o] = "expired" /\ credits'[o] = credits[o]
      /\ topup' \subseteq Orders /\ subs' \in Nat /\ wallet' \in Int
  BY <1>3, <1>4 DEF TypeOK, Statuses
<1>9. RowOK(o)'
  BY <1>3, <1>4, <1>5, <1>6, <1>7, <1>8 DEF RowOK, setting, Protected, OneNode, SubKinds
<1>10. IInv'
  BY <1>2, <1>3, <1>5, <1>6, <1>8, <1>9, WriteStep
<1>11. LedgerStep
  BY <1>3, <1>4, <1>5, <1>8, LedgerStatus
<1> QED
  BY <1>10, <1>11

\* The Waffo failure notice writes whatever it finds.
LEMMA FailWaffoStep ==
  ASSUME IInv, NEW c \in Calls, FailWaffoOrder(c)
  PROVE  IInv' /\ LedgerStep
<1>1. Writes(c, "fail")
  BY DEF FailWaffoOrder
<1>2. PICK o : o = call[c].order
  OBVIOUS
<1>3. /\ Working(c) /\ call[c].op = "fail" /\ call[c].pc # "idle" /\ call[c].pc \in Open
      /\ CallOK(c) /\ TypeOK /\ o \in Orders /\ RowOK(o)
  BY <1>1, <1>2, WritesFacts DEF Ops
<1>4. /\ Committed(c) /\ status' = [status EXCEPT ![o] = "failed"]
      /\ UNCHANGED <<topup, subs, wallet, credits>> /\ kind[o] = "waffo"
  BY <1>1, <1>2, <1>3 DEF FailWaffoOrder, SetStatus, Writes, Transactional, CallOK
<1>5. /\ Ended(c) \in CallRecord /\ call' = Written(c, Ended(c))
      /\ CallOK(c)' /\ ReadOK(c)' /\ KeepsMutex(c)
      /\ UNCHANGED <<setting, provider, locks>>
      /\ acked' \subseteq Orders
      /\ faults' \in 0..MaxFaults /\ faults' >= faults
  BY <1>3, <1>4, CommittedFacts
<1>6. /\ status' \in [Orders -> Statuses] /\ credits' \in [Orders -> Nat]
      /\ \A p \in Orders : p # o => /\ status'[p] = status[p] /\ credits'[p] = credits[p]
                                    /\ p \in topup' <=> p \in topup
      /\ status'[o] = "failed" /\ credits'[o] = credits[o]
      /\ topup' \subseteq Orders /\ subs' \in Nat /\ wallet' \in Int
  BY <1>3, <1>4 DEF TypeOK, Statuses
<1>7. RowOK(o)'
  BY <1>3, <1>4, <1>5, <1>6 DEF RowOK, setting, Protected, OneNode, SubKinds
<1>8. IInv'
  BY <1>2, <1>3, <1>4, <1>5, <1>6, <1>7, WriteStep
<1>9. LedgerStep
  BY <1>3, <1>4, <1>5, <1>6, LedgerStatus
<1> QED
  BY <1>8, <1>9

LEMMA StripeFailedStep ==
  ASSUME IInv, NEW c \in Calls, StripePaymentFailed(c)
  PROVE  IInv' /\ LedgerStep
<1>1. PICK o : o = call[c].order
  OBVIOUS
<1>2. /\ Working(c) /\ call[c].op = "fail" /\ call[c].pc = "read" /\ call[c].pc \in Open
      /\ CallOK(c) /\ ReadOK(c) /\ TypeOK /\ o \in Orders /\ RowOK(o) /\ kind[o] = "stripe"
  <2>1. /\ Working(c) /\ call[c].op = "fail" /\ call[c].pc = "read" /\ call[c].pc \in Open
        /\ kind[o] = "stripe"
    BY <1>1 DEF StripePaymentFailed, Working, Open
  <2>2. CallOK(c) /\ ReadOK(c) /\ TypeOK
    BY DEF IInv, CallInv, ReadInv
  <2>3. o \in Orders
    BY <1>1, <2>1, <2>2 DEF CallOK
  <2> QED
    BY <2>1, <2>2, <2>3 DEF IInv, RowInv
<1>3. /\ call' = Written(c, Ended(c)) /\ status' = [status EXCEPT ![o] = "failed"]
      /\ UNCHANGED <<setting, topup, subs, wallet, credits, provider, acked, locks, faults>>
  BY <1>1 DEF StripePaymentFailed, SetStatus
<1>4. call'[c] = Ended(c)
  BY <1>3 DEF Written
<1>5. Ended(c) \in CallRecord /\ CallOK(c)' /\ ReadOK(c)' /\ KeepsMutex(c)
  BY <1>2, <1>3, <1>4, EndedFacts
<1>6. call[c].mutex # NoMutex
  BY <1>1, <1>2 DEF CallOK, Locked
<1>7. Protected(o) => credits[o] = 0
  <2>1. Protected(o) => OneNode
    BY <1>2, TypeFacts DEF Protected, SubKinds
  <2> QED
    BY <1>1, <1>2, <1>6, <2>1 DEF ReadOK
<1>8. /\ status' \in [Orders -> Statuses] /\ credits' \in [Orders -> Nat]
      /\ \A p \in Orders : p # o => /\ status'[p] = status[p] /\ credits'[p] = credits[p]
                                    /\ p \in topup' <=> p \in topup
      /\ status'[o] = "failed" /\ credits'[o] = credits[o]
      /\ topup' \subseteq Orders /\ subs' \in Nat /\ wallet' \in Int
      /\ acked' \subseteq Orders /\ faults' \in 0..MaxFaults /\ faults' >= faults
  BY <1>2, <1>3, OrdersAssumption DEF TypeOK, Statuses
<1>9. RowOK(o)'
  BY <1>2, <1>3, <1>7, <1>8 DEF RowOK, setting, Protected, OneNode, SubKinds
<1>10. IInv'
  BY <1>1, <1>2, <1>3, <1>5, <1>6, <1>8, <1>9, WriteStep
<1>11. LedgerStep
  BY <1>2, <1>3, <1>8, LedgerStatus
<1> QED
  BY <1>10, <1>11

\* EpayNotify between its two statements.
LEMMA EpaySaveStep ==
  ASSUME IInv, NEW c \in Calls, EpaySaveOrder(c)
  PROVE  IInv' /\ LedgerStep
<1>1. PICK o : o = call[c].order
  OBVIOUS
<1>2. /\ Working(c) /\ call[c].op = "pay" /\ call[c].pc = "read" /\ call[c].pc \in Open
      /\ CallOK(c) /\ ReadOK(c) /\ TypeOK /\ o \in Orders /\ RowOK(o) /\ kind[o] = "epay"
  <2>1. /\ Working(c) /\ call[c].op = "pay" /\ call[c].pc = "read" /\ call[c].pc \in Open
        /\ kind[o] = "epay"
    BY <1>1 DEF EpaySaveOrder, Working, Open
  <2>2. CallOK(c) /\ ReadOK(c) /\ TypeOK
    BY DEF IInv, CallInv, ReadInv
  <2>3. o \in Orders
    BY <1>1, <2>1, <2>2 DEF CallOK
  <2> QED
    BY <2>1, <2>2, <2>3 DEF IInv, RowInv
<1> DEFINE next == [call[c] EXCEPT !.pc = "saved"]
<1>3. /\ call' = Written(c, next) /\ status' = [status EXCEPT ![o] = "success"]
      /\ UNCHANGED <<setting, topup, subs, wallet, credits, provider, acked, locks, faults>>
  BY <1>1 DEF EpaySaveOrder, SetStatus
<1>4. /\ next \in CallRecord /\ next.pc = "saved" /\ next.op = call[c].op
      /\ next.node = call[c].node /\ next.order = call[c].order /\ next.mutex = call[c].mutex
  <2>1. call[c] \in CallRecord
    BY <1>2, TypeFacts
  <2> QED
    BY <2>1 DEF CallRecord, Steps
<1> HIDE DEF next
<1>5. call'[c] = next
  BY <1>3 DEF Written
<1>6. CallOK(c)' /\ KeepsMutex(c)
  BY <1>1, <1>2, <1>3, <1>4, <1>5 DEF CallOK, KeepsMutex, Inside, Working, setting, Locked
<1>7. call[c].mutex # NoMutex
  BY <1>1, <1>2 DEF CallOK, Locked
<1>8. OneNode => credits[o] = 0 /\ status[o] = "pending"
  BY <1>1, <1>2, <1>7 DEF ReadOK
<1>9. /\ status' \in [Orders -> Statuses] /\ credits' \in [Orders -> Nat]
      /\ \A p \in Orders : p # o => /\ status'[p] = status[p] /\ credits'[p] = credits[p]
                                    /\ p \in topup' <=> p \in topup
      /\ status'[o] = "success" /\ credits'[o] = credits[o]
      /\ topup' \subseteq Orders /\ subs' \in Nat /\ wallet' \in Int
      /\ acked' \subseteq Orders /\ faults' \in 0..MaxFaults /\ faults' >= faults
  BY <1>2, <1>3, OrdersAssumption DEF TypeOK, Statuses
<1>10. ReadOK(c)'
  BY <1>1, <1>3, <1>4, <1>5, <1>8, <1>9 DEF ReadOK, setting, OneNode, Open
<1>11. HalfDone(o)'
  BY <1>1, <1>4, <1>5 DEF HalfDone
<1>12. RowOK(o)'
  BY <1>2, <1>3, <1>8, <1>9, <1>11 DEF RowOK, setting, Protected, OneNode, SubKinds
<1>13. IInv'
  BY <1>1, <1>2, <1>3, <1>4, <1>6, <1>7, <1>9, <1>10, <1>12, WriteStep
<1>14. Protected(o) => OneNode
  BY <1>2, TypeFacts DEF Protected, SubKinds
<1>15. LedgerStep
  BY <1>2, <1>3, <1>8, <1>9, <1>14, LedgerStatus
<1> QED
  BY <1>13, <1>15

LEMMA EpayIncreaseStep ==
  ASSUME IInv, NEW c \in Calls, EpayIncreaseUserQuota(c)
  PROVE  IInv' /\ LedgerStep
<1>1. PICK o : o = call[c].order
  OBVIOUS
<1>2. /\ Working(c) /\ call[c].op = "pay" /\ call[c].pc = "saved"
      /\ CallOK(c) /\ ReadOK(c) /\ TypeOK /\ o \in Orders /\ RowOK(o) /\ kind[o] = "epay"
  <2>1. Working(c) /\ call[c].pc = "saved"
    BY DEF EpayIncreaseUserQuota, Working
  <2>2. CallOK(c) /\ ReadOK(c) /\ TypeOK
    BY DEF IInv, CallInv, ReadInv
  <2>3. o \in Orders /\ call[c].op = "pay" /\ kind[o] = "epay"
    BY <1>1, <2>1, <2>2 DEF CallOK
  <2> QED
    BY <2>1, <2>2, <2>3 DEF IInv, RowInv
<1>3. /\ call' = Written(c, Ended(c)) /\ credits' = [credits EXCEPT ![o] = credits[o] + 1]
      /\ wallet' = wallet + 1
      /\ UNCHANGED <<setting, status, topup, subs, provider, acked, locks, faults>>
  BY <1>1 DEF EpayIncreaseUserQuota
<1>4. call'[c] = Ended(c)
  BY <1>3 DEF Written
<1>5. Ended(c) \in CallRecord /\ CallOK(c)' /\ ReadOK(c)' /\ KeepsMutex(c)
  BY <1>2, <1>3, <1>4, EndedFacts
<1>6. call[c].mutex # NoMutex
  BY <1>1, <1>2 DEF CallOK, Locked
<1>7. status[o] # "pending" /\ (OneNode => credits[o] = 0 /\ status[o] = "success")
  BY <1>1, <1>2 DEF ReadOK
<1>8. Protected(o) => OneNode
  BY <1>2, TypeFacts DEF Protected, SubKinds
<1>9. /\ status' \in [Orders -> Statuses] /\ credits' \in [Orders -> Nat]
      /\ \A p \in Orders : p # o => /\ status'[p] = status[p] /\ credits'[p] = credits[p]
                                    /\ p \in topup' <=> p \in topup
      /\ status'[o] = status[o] /\ credits'[o] = credits[o] + 1 /\ credits'[o] # 0
      /\ topup' \subseteq Orders /\ subs' \in Nat /\ wallet' \in Int
      /\ acked' \subseteq Orders /\ faults' \in 0..MaxFaults /\ faults' >= faults
  BY <1>2, <1>3, OrdersAssumption DEF TypeOK
<1>10. RowOK(o)'
  BY <1>2, <1>3, <1>7, <1>8, <1>9 DEF RowOK, setting, Protected, OneNode, SubKinds
<1>11. IInv'
  BY <1>1, <1>2, <1>3, <1>5, <1>6, <1>7, <1>9, <1>10, WriteStep
<1>12. LedgerStep
  <2>1. CASE OneNode
    BY <1>2, <1>3, <1>7, <1>9, <2>1, LedgerCredit
  <2>2. CASE ~OneNode
    <3>1. /\ \A p \in Orders : Protected(p)' <=> Protected(p)
          /\ \A p \in Orders : Protected(p) => credits'[p] = credits[p]
      BY <1>3, <1>8, <1>9, <2>2 DEF setting, Protected, OneNode
    <3>2. UNCHANGED <<kind, status>>
      BY <1>3 DEF setting
    <3> QED
      BY <3>1, <3>2 DEF LedgerStep, Ledger!vars
  <2> QED
    BY <2>1, <2>2
<1> QED
  BY <1>11, <1>12

LEMMA PurchaseStep ==
  ASSUME IInv, NEW c \in Calls, PurchaseSubscriptionWithBalance(c)
  PROVE  IInv' /\ LedgerStep
<1>1. Writes(c, "buy") /\ Committed(c) /\ wallet' = wallet - 1 /\ subs' = subs + 1
      /\ UNCHANGED <<status, topup, credits>>
  BY DEF PurchaseSubscriptionWithBalance
<1>2. Working(c) /\ call[c].pc \in Open /\ TypeOK
  BY <1>1, WritesFacts DEF Ops
<1>3. /\ Ended(c) \in CallRecord /\ call' = Written(c, Ended(c))
      /\ CallOK(c)' /\ ReadOK(c)' /\ KeepsMutex(c)
      /\ UNCHANGED <<setting, provider, locks>>
      /\ acked' \subseteq Orders
      /\ faults' \in 0..MaxFaults /\ faults' >= faults
  BY <1>1, <1>2, CommittedFacts
<1>4. call' \in [Calls -> CallRecord] /\ SameBut(c)
  BY <1>2, <1>3, WrittenFacts
<1>5. subs' \in Nat /\ wallet' \in Int /\ call[c].pc # "saved"
  BY <1>1, <1>2 DEF TypeOK, Open
<1>6. IInv'
  BY <1>1, <1>3, <1>4, <1>5, LocalStep
<1>7. LedgerStep
  BY <1>1, <1>3, LedgerStutter
<1> QED
  BY <1>6, <1>7

-------------------------------------------------------------------------------
(* The theorems.                                                              *)

LEMMA InitInv == Init => IInv
<1> SUFFICES ASSUME Init
             PROVE  IInv
  OBVIOUS
<1>1. <<db, nodes>> \in Deployments
  BY OrdersAssumption DEF Init
<1>2. /\ call = [c \in Calls |-> Idle] /\ entry = [n \in Nodes |-> [o \in Orders |-> NoMutex]]
      /\ refs = [m \in Mutexes |-> 0] /\ held = {}
  BY DEF Init
<1>3. call \in [Calls -> CallRecord]
  BY <1>2, IdleTyped
<1>4. TypeOK
  <2>1. kind \in [Orders -> Kinds]
    BY DEF Init
  <2> QED
    BY <1>1, <1>2, <1>3, <2>1, OrdersAssumption DEF Init, TypeOK, CallRecord, Statuses
<1>5. LockInv
  <2>1. \A m \in Mutexes : Holders(m) = {}
    BY <1>2, MutexesTyped DEF Holders, Idle, NoMutex
  <2> QED
    BY <1>2, <2>1, FS_EmptySet DEF LockInv, Inside, Idle
<1>6. CallInv /\ ReadInv
  BY <1>2 DEF CallInv, CallOK, ReadInv, ReadOK, Idle, None
<1>7. RowInv
  BY OrdersAssumption DEF Init, RowInv, RowOK
<1> QED
  BY <1>4, <1>5, <1>6, <1>7 DEF IInv

\* Every step preserves the invariant and is a step of the ledger.
LEMMA NextInv == IInv /\ [Next]_vars => IInv' /\ LedgerStep
<1> SUFFICES ASSUME IInv, [Next]_vars
             PROVE  IInv' /\ LedgerStep
  OBVIOUS
<1>1. ASSUME NEW o \in Orders, ProviderSettles(o)
      PROVE  IInv' /\ LedgerStep
  BY <1>1, ProviderStep, LedgerStutter DEF ProviderSettles, rows
<1>2. ASSUME NEW c \in Calls, NEW n \in nodes, ArriveBuy(c, n)
      PROVE  IInv' /\ LedgerStep
  BY <1>2, ArriveBuyStep, LedgerStutter DEF ArriveBuy, rows
<1>3. ASSUME NEW c \in Calls, NEW n \in nodes, NEW o \in Orders, NEW op \in Ops,
             NEW who \in Users \union {None}, Arrive(c, n, o, op, who)
      PROVE  IInv' /\ LedgerStep
  BY <1>3, ArriveStep, LedgerStutter DEF Arrive, rows
<1>4. ASSUME NEW c \in Calls, Acquire(c) \/ Unlock(c) \/ UnlockOrder(c)
      PROVE  IInv' /\ LedgerStep
  BY <1>4, AcquireStep, UnlockStep, UnlockOrderStep, LedgerStutter
  DEF Acquire, Unlock, UnlockOrder, rows
<1>5. ASSUME NEW c \in Calls, CreemCheck(c) \/ ReadOrder(c) \/ ReadUser(c) \/ Charge(c)
      PROVE  IInv' /\ LedgerStep
  BY <1>5, CreemCheckStep, ReadOrderStep, ReadUserStep, ChargeStep, LedgerStutter
  DEF CreemCheck, ReadOrder, ReadUser, Charge, Return, rows
<1>6. ASSUME NEW c \in Calls, CountSubscriptions(c) \/ LookUpTopUp(c) \/ Rollback(c)
                              \/ DatabaseFails(c)
      PROVE  IInv' /\ LedgerStep
  BY <1>6, CountStep, LookUpStep, RollbackStep, DatabaseFailsStep, LedgerStutter
  DEF CountSubscriptions, LookUpTopUp, Rollback, DatabaseFails, Return, rows
<1>7. ASSUME NEW c \in Calls,
             \/ CreditTopUp(c) \/ CompleteSubscriptionOrder(c) \/ ExpireOrder(c)
             \/ FailWaffoOrder(c) \/ Redeem(c) \/ PurchaseSubscriptionWithBalance(c)
             \/ EpaySaveOrder(c) \/ EpayIncreaseUserQuota(c) \/ StripePaymentFailed(c)
      PROVE  IInv' /\ LedgerStep
  BY <1>7, CreditTopUpStep, CompleteSubscriptionStep, ExpireStep, FailWaffoStep, RedeemStep,
     PurchaseStep, EpaySaveStep, EpayIncreaseStep, StripeFailedStep
<1>8. ASSUME NEW n \in nodes, Crash(n)
      PROVE  IInv' /\ LedgerStep
  BY <1>8, CrashStep, LedgerStutter DEF Crash, rows
<1>9. CASE UNCHANGED vars
  <2>1. UNCHANGED <<setting, rows, provider, acked, locks, call, faults>>
    BY <1>9 DEF vars
  <2>2. IInv'
    BY <2>1 DEF IInv, TypeOK, LockInv, Holders, Inside, CallInv, CallOK, RowInv, RowOK,
       ReadInv, ReadOK, HalfDone, Protected, OneNode, Locked, setting, rows, locks
  <2> QED
    BY <2>1, <2>2, LedgerStutter DEF rows
<1>10. CASE Next
  <2>1. \A c \in Calls : Step(c) => IInv' /\ LedgerStep
    BY <1>4, <1>5, <1>6, <1>7 DEF Step
  <2>2. ASSUME NEW c \in Calls, NEW n \in nodes, NEW o \in Orders,
               \/ \E op \in Ops \ {"redeem", "buy"} : Arrive(c, n, o, op, None)
               \/ \E who \in Users : Arrive(c, n, o, "redeem", who)
        PROVE  IInv' /\ LedgerStep
    <3>1. "redeem" \in Ops
      BY DEF Ops
    <3> QED
      BY <1>3, <2>2, <3>1
  <2> QED
    BY <1>1, <1>2, <1>6, <1>8, <1>10, <2>1, <2>2 DEF Next
<1> QED
  BY <1>9, <1>10

\* The rows, the mutexes and their counters, and the calls have their types: in
\* particular a reference count never goes below zero.
THEOREM TypeCorrect == Spec => []TypeOK
<1>1. IInv => TypeOK
  BY DEF IInv
<1> QED
  BY <1>1, InitInv, NextInv, PTL DEF Spec

\* LockOrder and UnlockOrder exclude the calls of one order at one node, for any number
\* of calls, orders and nodes, although the mutexes are created and deleted on the way.
THEOREM OneCallPerOrder == Spec => []MutualExclusion
<1>1. IInv => MutualExclusion
  BY DEF IInv, LockInv, MutualExclusion, Inside
<1> QED
  BY <1>1, InitInv, NextInv, PTL DEF Spec

\* A successful order was credited, and a credited one shows it, apart from the cases
\* StatusTellsCredit names.
THEOREM StatusIsTrue == Spec => []StatusTellsCredit
<1>1. IInv => StatusTellsCredit
  <2> SUFFICES ASSUME IInv, NEW o \in Orders
               PROVE  /\ status[o] = "success" =>
                           \/ credits[o] >= 1
                           \/ kind[o] = "epay" /\ (HalfDone(o) \/ faults > 0)
                      /\ credits[o] >= 1 => status[o] = "success" \/ kind[o] = "waffo"
                                            \/ ~Protected(o)
    BY DEF StatusTellsCredit
  <2>1. credits[o] \in Nat /\ RowOK(o)
    BY DEF IInv, TypeOK, RowInv
  <2> QED
    BY <2>1 DEF RowOK
<1> QED
  BY <1>1, InitInv, NextInv, PTL DEF Spec

\* A protected order is never credited twice (CreditedOnce, where something prevents it).
THEOREM ProtectedOnce == Spec => [](\A o \in Orders : Protected(o) => credits[o] <= 1)
<1>1. IInv => \A o \in Orders : Protected(o) => credits[o] <= 1
  BY DEF IInv, RowInv, RowOK
<1> QED
  BY <1>1, InitInv, NextInv, PTL DEF Spec

\* Whatever is repeated, overlaps, fails or crashes, a protected order is credited in one
\* step and at most once, or closed: the handlers implement OrderLedger.
THEOREM LedgerImplemented == Spec => ImplementsLedger
<1>1. Init => Ledger!Init
  BY DEF Init, Ledger!Init
<1> QED
  BY <1>1, InitInv, NextInv, PTL DEF Spec, ImplementsLedger, Ledger!Spec, LedgerStep
===============================================================================
