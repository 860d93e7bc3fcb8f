------------------------ MODULE DesktopPaymentProofs ------------------------
(***************************************************************************)
(* Proofs about DesktopPayment: the types, the gate of the queries and the  *)
(* outcome the dialog shows, for any number of flows, failures and changes  *)
(* of visibility.                                                           *)
(*                                                                          *)
(* The code a task runs is a composition of functions on the record of the  *)
(* hook.  The invariant is therefore a predicate Good on such a record, and *)
(* every helper is shown to map good records to good ones; the actions only *)
(* put the helpers together.                                                *)
(***************************************************************************)
EXTENDS DesktopPayment, TLAPS

Hook == [open : BOOLEAN, status : Statuses, payment : Flows \cup {None}, error : BOOLEAN,
         checking : BOOLEAN, flow : 0..MaxFlows, paymentRef : Flows \cup {None},
         active : Flows \cup {None}, queued : Flows \cup {None}, queries : SUBSET Query,
         timer : BOOLEAN, leaked : Nat, stray : Nat, closing : BOOLEAN,
         mounted : BOOLEAN, hidden : BOOLEAN]

\* No query and a free gate, or one query whose flow has the gate.
Gate(r) ==
    \/ r.queries = {} /\ r.active = None
    \/ \E q \in Query : r.queries = {q} /\ q.flow = r.active

\* The order in the state and in the ref are one, created by the present flow or an
\* earlier one, and a query of the present flow is about it.
Bound(r) ==
    /\ r.paymentRef = r.payment /\ r.payment <= r.flow
    /\ \A q \in r.queries : q.flow <= r.flow /\ (q.flow = r.flow => q.payment = r.payment)

\* A final answer is what the trade is.
Final == {"TRADE_SUCCESS", "TRADE_CLOSED"}

Answered(r, tr) ==
    \A q \in r.queries :
        /\ q.answer \in Final => tr[q.payment] = q.answer
        /\ q.stage = "refreshing" => q.answer = "TRADE_SUCCESS"

Outcome(r, tr, ex) ==
    /\ r.status = "success" => r.payment # None /\ tr[r.payment] = "TRADE_SUCCESS"
    /\ r.status = "closed" => r.payment # None /\ tr[r.payment] = "TRADE_CLOSED"
    /\ r.status = "expired" => r.payment # None /\ r.payment \in ex

Good(r, tr, ex) ==
    r \in Hook /\ Gate(r) /\ Bound(r) /\ Answered(r, tr) /\ Outcome(r, tr, ex)

\* What is drawn is about the present order, or about none.
Drawn(u, r) == u.payment \in {None, r.payment}

\* Orders not yet created have no trade; while one is created there is none.
Creating ==
    /\ \A f \in Flows : f > h.flow \/ f \in creates => trade[f] = "NONE"
    /\ h.flow \in creates => h.payment = None

\* The inductive invariant.
IInv == TypeOK /\ Good(h, trade, expired) /\ Drawn(ui, h) /\ Creating

-----------------------------------------------------------------------------
(* Helpers map good records to good records.                                *)

\* The order a record is about.
About(s, r) == s.flow = r.flow /\ s.payment = r.payment

LEMMA GoodFrame ==
    ASSUME NEW tr, NEW ex \in SUBSET Flows, NEW r, Good(r, tr, ex), NEW s \in Hook,
           s.queries = r.queries, s.active = r.active, s.flow = r.flow,
           s.payment = r.payment, s.paymentRef = r.paymentRef,
           \/ s.status = r.status
           \/ s.status \notin {"success", "closed", "expired"}
           \/ s.status = "expired" /\ r.payment \in ex
    PROVE  Good(s, tr, ex) /\ About(s, r)
<1>1. Gate(s) /\ Bound(s) /\ Answered(s, tr)
    BY DEF Good, Gate, Bound, Answered
<1>2. Outcome(s, tr, ex)
    BY BoundsAssumption DEF Good, Outcome, Flows, None
<1> QED
    BY <1>1, <1>2 DEF Good, About

LEMMA SetStatusFields ==
    ASSUME NEW r \in Hook, NEW st \in Statuses
    PROVE  LET s == SetStatus(r, st)
           IN  /\ s \in Hook /\ s.status = st
               /\ s.queries = r.queries /\ s.active = r.active /\ s.flow = r.flow
               /\ s.payment = r.payment /\ s.paymentRef = r.paymentRef
               /\ s.hidden = r.hidden
BY DEF SetStatus, Hook

LEMMA ScheduleFields ==
    ASSUME NEW r \in Hook
    PROVE  LET s == Schedule(r)
           IN  /\ s \in Hook /\ s.status = r.status
               /\ s.queries = r.queries /\ s.active = r.active /\ s.flow = r.flow
               /\ s.payment = r.payment /\ s.paymentRef = r.paymentRef
<1>1. PICK k \in Nat : k = IF r.timer THEN 1 ELSE 0
    OBVIOUS
<1>2. Schedule(r) = [r EXCEPT !.timer = TRUE, !.leaked = r.leaked + k]
    BY <1>1, Zenon DEF Schedule
<1>3. r.leaked + k \in Nat
    BY DEF Hook
<1> QED
    BY <1>2, <1>3 DEF Hook

LEMMA ExpiredGood ==
    ASSUME NEW tr, NEW ex \in SUBSET Flows, NEW r, Good(r, tr, ex), r.payment \in ex
    PROVE  Good(SetStatus(r, "expired"), tr, ex) /\ About(SetStatus(r, "expired"), r)
<1>1. r \in Hook /\ "expired" \in Statuses
    BY DEF Good, Statuses
<1> QED
    BY <1>1, SetStatusFields, GoodFrame

LEMMA ContinueGood ==
    ASSUME NEW tr, expired \in SUBSET Flows, NEW r, Good(r, tr, expired), Drawn(ui, r), NEW loop
    PROVE  Good(Continue(r, loop), tr, expired) /\ About(Continue(r, loop), r)
<1>1. CASE loop # "current" \/ r.hidden
    BY <1>1 DEF Continue, About
<1>2. CASE loop = "current" /\ ~r.hidden /\ ui.payment \in expired
    <2>1. r.payment \in expired
        BY <1>2, BoundsAssumption DEF Drawn, Flows, None
    <2> QED
        BY <1>2, <2>1, ExpiredGood DEF Continue
<1>3. CASE loop = "current" /\ ~r.hidden /\ ui.payment \notin expired
    <2>1. r \in Hook /\ Continue(r, loop) = Schedule(r)
        BY <1>3 DEF Continue, Good
    <2> QED
        BY <2>1, ScheduleFields, GoodFrame
<1> QED
    BY <1>1, <1>2, <1>3

\* A record that only forgot or noted who waits for the gate.
LEMMA QueuedGood ==
    ASSUME NEW tr, NEW ex \in SUBSET Flows, NEW r, Good(r, tr, ex), NEW w \in Flows \cup {None}
    PROVE  Good([r EXCEPT !.queued = w], tr, ex) /\ About([r EXCEPT !.queued = w], r)
<1>1. r \in Hook
    BY DEF Good
<1>2. LET s == [r EXCEPT !.queued = w]
      IN  /\ s \in Hook /\ s.status = r.status
          /\ s.queries = r.queries /\ s.active = r.active /\ s.flow = r.flow
          /\ s.payment = r.payment /\ s.paymentRef = r.paymentRef
    BY <1>1 DEF Hook
<1> QED
    BY <1>2, GoodFrame

\* The query checkOrder sends when the gate is free, for the order in paymentRef.
Sent(r, manual, loop) ==
    [flow |-> r.flow, payment |-> r.paymentRef, manual |-> manual, loop |-> loop,
     stage |-> "sent", answer |-> "NONE"]

LEMMA SentGood ==
    ASSUME NEW tr, NEW ex \in SUBSET Flows, NEW r, Good(r, tr, ex), r.paymentRef # None,
           r.active = None, NEW manual \in BOOLEAN, NEW loop \in {"current", "disposed", "none"},
           NEW w \in Flows \cup {None}, NEW b \in BOOLEAN
    PROVE  LET s == [r EXCEPT !.active = r.flow, !.queued = w, !.checking = b,
                              !.queries = r.queries \cup {Sent(r, manual, loop)}]
           IN  Good(s, tr, ex) /\ About(s, r)
<1> DEFINE q == Sent(r, manual, loop)
           s == [r EXCEPT !.active = r.flow, !.queued = w, !.checking = b,
                          !.queries = r.queries \cup {q}]
<1>1. r \in Hook /\ Gate(r) /\ Bound(r)
    BY DEF Good
<1>2. r.queries = {}
    BY <1>1, BoundsAssumption DEF Gate, Query, Flows, None
<1>3. r.flow \in Flows /\ r.paymentRef \in Flows
    BY <1>1, BoundsAssumption DEF Bound, Hook, Flows, None
<1>4. q \in Query /\ q.flow = r.flow /\ q.payment = r.payment /\ q.answer = "NONE" /\ q.stage = "sent"
    BY <1>1, <1>3 DEF Sent, Query, Trades, Bound
<1> HIDE DEF q
<1>5. r.queries \cup {q} = {q} /\ {q} \in SUBSET Query
    BY <1>2, <1>4
<1>6. /\ s \in Hook /\ s.status = r.status /\ s.queries = {q} /\ s.active = r.flow
      /\ s.flow = r.flow /\ s.payment = r.payment /\ s.paymentRef = r.paymentRef
    BY <1>1, <1>3, <1>5 DEF Hook
<1> HIDE DEF s
<1>7. Gate(s)
    BY <1>4, <1>6 DEF Gate
<1>8. Bound(s)
    BY <1>1, <1>3, <1>4, <1>6, BoundsAssumption DEF Bound, Flows
<1>9. Answered(s, tr)
    BY <1>4, <1>6 DEF Answered, Final
<1>10. Outcome(s, tr, ex)
    BY <1>6 DEF Outcome, Good
<1>11. Good(s, tr, ex) /\ About(s, r)
    BY <1>6, <1>7, <1>8, <1>9, <1>10 DEF Good, About
<1> QED
    BY <1>11 DEF s, q

LEMMA CheckOrderGood ==
    ASSUME NEW tr, expired \in SUBSET Flows, NEW r, Good(r, tr, expired), Drawn(ui, r),
           NEW manual \in BOOLEAN, NEW loop \in {"current", "disposed", "none"}
    PROVE  Good(CheckOrder(r, manual, loop), tr, expired) /\ About(CheckOrder(r, manual, loop), r)
<1>1. r \in Hook /\ r.paymentRef = r.payment
    BY DEF Good, Bound
<1>2. CASE r.paymentRef = None
    BY <1>2, ContinueGood DEF CheckOrder
<1>3. CASE r.paymentRef # None /\ r.paymentRef \in expired
    <2> DEFINE s == SetStatus(r, "expired")
    <2>1. CheckOrder(r, manual, loop) = Continue(s, loop)
        BY <1>3 DEF CheckOrder
    <2>2. Good(s, tr, expired) /\ About(s, r)
        BY <1>1, <1>3, ExpiredGood
    <2> HIDE DEF s
    <2>3. Drawn(ui, s)
        BY <2>2 DEF Drawn, About
    <2>4. Good(Continue(s, loop), tr, expired) /\ About(Continue(s, loop), s)
        BY <2>2, <2>3, ContinueGood
    <2> QED
        BY <2>1, <2>2, <2>4 DEF About
<1>4. CASE r.paymentRef # None /\ r.paymentRef \notin expired /\ r.active # None
    <2> DEFINE w == IF r.active # r.flow THEN r.flow ELSE r.queued
               s == [r EXCEPT !.queued = w]
    <2>1. CheckOrder(r, manual, loop) = Continue(s, loop)
        BY <1>4, Zenon DEF CheckOrder, tryAcquire
    <2>2. w \in Flows \cup {None}
        BY <1>1, BoundsAssumption DEF Hook, Flows, None
    <2> HIDE DEF w
    <2>3. Good(s, tr, expired) /\ About(s, r)
        BY <2>2, QueuedGood
    <2> HIDE DEF s
    <2>4. Drawn(ui, s)
        BY <2>3 DEF Drawn, About
    <2>5. Good(Continue(s, loop), tr, expired) /\ About(Continue(s, loop), s)
        BY <2>3, <2>4, ContinueGood
    <2> QED
        BY <2>1, <2>3, <2>5 DEF About
<1>5. CASE r.paymentRef # None /\ r.paymentRef \notin expired /\ r.active = None
    <2> DEFINE w == IF r.queued = r.flow THEN None ELSE r.queued
               b == r.checking \/ manual
               t == tryAcquire(r)
    <2>1. /\ w \in Flows \cup {None} /\ b \in BOOLEAN
        BY <1>1 DEF Hook
    <2>2. t = [r EXCEPT !.active = r.flow, !.queued = w]
        BY <1>5, Zenon DEF tryAcquire
    <2>3. t.checking = r.checking /\ t.queries = r.queries
        BY <1>1, <2>2 DEF Hook
    <2>4. CheckOrder(r, manual, loop) =
            [t EXCEPT !.checking = t.checking \/ manual, !.queries = t.queries \cup {Sent(r, manual, loop)}]
        BY <1>5, Zenon DEF CheckOrder, Sent
    <2>5. CheckOrder(r, manual, loop) =
            [r EXCEPT !.active = r.flow, !.queued = w, !.checking = b,
                      !.queries = r.queries \cup {Sent(r, manual, loop)}]
        BY <2>2, <2>3, <2>4, Zenon
    <2> HIDE DEF w, b
    <2>6. LET s == [r EXCEPT !.active = r.flow, !.queued = w, !.checking = b,
                             !.queries = r.queries \cup {Sent(r, manual, loop)}]
          IN  Good(s, tr, expired) /\ About(s, r)
        BY <1>5, <2>1, SentGood, Zenon
    <2> QED
        BY <2>5, <2>6, Zenon
<1> QED
    BY <1>2, <1>3, <1>4, <1>5

\* The gate is freed with the end of its query.
LEMMA FreedGood ==
    ASSUME NEW tr, NEW ex \in SUBSET Flows, NEW r, Good(r, tr, ex), NEW q \in r.queries,
           NEW b \in BOOLEAN
    PROVE  LET s == [[r EXCEPT !.queries = r.queries \ {q}, !.checking = b]
                        EXCEPT !.active = None, !.queued = None]
           IN  r.active = q.flow /\ Good(s, tr, ex) /\ About(s, r)
<1> DEFINE s == [[r EXCEPT !.queries = r.queries \ {q}, !.checking = b]
                    EXCEPT !.active = None, !.queued = None]
<1>1. r \in Hook /\ Gate(r) /\ Bound(r)
    BY DEF Good
<1>2. r.queries = {q} /\ q.flow = r.active
    BY <1>1 DEF Gate
<1>3. r.queries \ {q} = {} /\ {} \in SUBSET Query
    BY <1>2
<1>4. /\ s \in Hook /\ s.status = r.status /\ s.queries = {} /\ s.active = None
      /\ s.flow = r.flow /\ s.payment = r.payment /\ s.paymentRef = r.paymentRef
    BY <1>1, <1>3 DEF Hook
<1> HIDE DEF s
<1>5. Gate(s) /\ Bound(s) /\ Answered(s, tr) /\ Outcome(s, tr, ex)
    BY <1>1, <1>4 DEF Gate, Bound, Answered, Outcome, Good
<1>6. Good(s, tr, ex) /\ About(s, r)
    BY <1>4, <1>5 DEF Good, About
<1> QED
    BY <1>2, <1>6 DEF s

LEMMA ReleaseGood ==
    ASSUME NEW tr, expired \in SUBSET Flows, NEW r, Good(r, tr, expired), Drawn(ui, r),
           NEW q \in r.queries
    PROVE  Good(Release(r, q), tr, expired) /\ About(Release(r, q), r)
<1> DEFINE b == IF q.manual /\ r.flow = q.flow THEN FALSE ELSE r.checking
           freed == [[r EXCEPT !.queries = r.queries \ {q}, !.checking = b]
                        EXCEPT !.active = None, !.queued = None]
           after == IF r.queued # None /\ r.queued = r.flow THEN CheckOrder(freed, FALSE, "none")
                    ELSE freed
<1>1. b \in BOOLEAN /\ r \in Hook
    BY DEF Good, Hook
<1>2. r.active = q.flow /\ Good(freed, tr, expired) /\ About(freed, r)
    <2> HIDE DEF b
    <2> QED
        BY <1>1, FreedGood, Zenon
<1>3. Release(r, q) = Continue(after, q.loop)
    BY <1>2, Zenon DEF Release
<1> HIDE DEF freed, b
<1>4. Good(after, tr, expired) /\ About(after, r)
    <2>1. Drawn(ui, freed)
        BY <1>2 DEF Drawn, About
    <2>2. Good(CheckOrder(freed, FALSE, "none"), tr, expired)
          /\ About(CheckOrder(freed, FALSE, "none"), freed)
        BY <1>2, <2>1, CheckOrderGood
    <2>3. CASE r.queued # None /\ r.queued = r.flow
        BY <1>2, <2>2, <2>3 DEF About
    <2>4. CASE ~(r.queued # None /\ r.queued = r.flow)
        BY <1>2, <2>4
    <2> QED
        BY <2>3, <2>4
<1> HIDE DEF after
<1>5. Drawn(ui, after)
    BY <1>4 DEF Drawn, About
<1>6. Good(Continue(after, q.loop), tr, expired) /\ About(Continue(after, q.loop), after)
    BY <1>4, <1>5, ContinueGood
<1> QED
    BY <1>3, <1>4, <1>6 DEF About

\* The effect is cleaned up: the query in flight no longer belongs to its loop.
Detached(q) == [q EXCEPT !.loop = IF q.loop = "current" THEN "disposed" ELSE q.loop]

LEMMA DetachedFields ==
    ASSUME NEW q \in Query
    PROVE  /\ Detached(q) \in Query /\ Detached(q).flow = q.flow
           /\ Detached(q).payment = q.payment /\ Detached(q).answer = q.answer
           /\ Detached(q).stage = q.stage
<1>1. PICK k \in {"current", "disposed", "none"} :
            k = IF q.loop = "current" THEN "disposed" ELSE q.loop
    BY DEF Query
<1>2. Detached(q) = [q EXCEPT !.loop = k]
    BY <1>1, Zenon DEF Detached
<1> QED
    BY <1>2 DEF Query

\* Any record whose queries are detached, or the same.
LEMMA DetachedGood ==
    ASSUME NEW tr, NEW ex \in SUBSET Flows, NEW r, Good(r, tr, ex), NEW s \in Hook,
           s.queries = {Detached(q) : q \in r.queries}, s.active = r.active, s.flow = r.flow,
           s.payment = r.payment, s.paymentRef = r.paymentRef, s.status = r.status
    PROVE  Good(s, tr, ex) /\ About(s, r)
<1>1. r \in Hook /\ r.queries \in SUBSET Query
    BY DEF Good, Hook
<1>2. Gate(s)
    <2>1. CASE r.queries = {} /\ r.active = None
        BY <2>1 DEF Gate
    <2>2. ASSUME NEW q \in Query, r.queries = {q}, q.flow = r.active
          PROVE  Gate(s)
        <3>1. s.queries = {Detached(q)}
            BY <2>2
        <3> QED
            BY <2>2, <3>1, DetachedFields DEF Gate
    <2> QED
        BY <2>1, <2>2 DEF Good, Gate
<1>3. \A p \in s.queries : \E q \in r.queries :
            p.flow = q.flow /\ p.payment = q.payment /\ p.answer = q.answer /\ p.stage = q.stage
    BY <1>1, DetachedFields
<1>4. Bound(s)
    BY <1>3 DEF Good, Bound
<1>5. Answered(s, tr)
    BY <1>3 DEF Good, Answered
<1>6. Outcome(s, tr, ex)
    BY DEF Good, Outcome
<1> QED
    BY <1>2, <1>4, <1>5, <1>6 DEF Good, About

LEMMA RerunGood ==
    ASSUME NEW tr, expired \in SUBSET Flows, NEW r, Good(r, tr, expired)
    PROVE  Good(Rerun(r), tr, expired) /\ About(Rerun(r), r)
<1> DEFINE disposed == [r EXCEPT !.timer = FALSE, !.leaked = 0, !.stray = r.stray + r.leaked,
                                 !.queries = {Detached(q) : q \in r.queries}]
           polling == IF Dependencies(Shown(r)) = Dependencies(ui) THEN r
                      ELSE IF ~Polls(Shown(r)) THEN disposed
                      ELSE IF r.payment \in expired THEN SetStatus(disposed, "expired")
                      ELSE [disposed EXCEPT !.timer = ~r.hidden]
           k == IF <<r.open, r.status>> = <<ui.open, ui.status>>
                THEN polling.closing ELSE r.open /\ r.status = "success"
<1>1. Rerun(r) = [polling EXCEPT !.closing = k]
    BY Zenon DEF Rerun, Detached
<1>2. r \in Hook
    BY DEF Good
<1>3. Good(disposed, tr, expired) /\ About(disposed, r)
    <2>0. PICK Q, n : Q = {Detached(q) : q \in r.queries} /\ n = r.stray + r.leaked
        OBVIOUS
    <2>1. disposed = [r EXCEPT !.timer = FALSE, !.leaked = 0, !.stray = n, !.queries = Q]
        BY <2>0, Zenon
    <2> HIDE DEF disposed
    <2>2. /\ disposed \in Hook /\ disposed.queries = {Detached(q) : q \in r.queries}
          /\ disposed.active = r.active /\ disposed.flow = r.flow
          /\ disposed.payment = r.payment /\ disposed.paymentRef = r.paymentRef
          /\ disposed.status = r.status
        <3>1. Q \in SUBSET Query /\ n \in Nat
            BY <1>2, <2>0, DetachedFields DEF Hook
        <3>2. /\ disposed \in Hook /\ disposed.queries = Q
              /\ disposed.active = r.active /\ disposed.flow = r.flow
              /\ disposed.payment = r.payment /\ disposed.paymentRef = r.paymentRef
              /\ disposed.status = r.status
            BY <1>2, <2>1, <3>1 DEF Hook
        <3> QED
            BY <2>0, <3>2
    <2> QED
        BY <2>2, DetachedGood
<1> HIDE DEF disposed
<1>4. Good(polling, tr, expired) /\ About(polling, r)
    <2>1. CASE Dependencies(Shown(r)) = Dependencies(ui)
        BY <2>1 DEF About
    <2>2. CASE Dependencies(Shown(r)) # Dependencies(ui) /\ ~Polls(Shown(r))
        BY <1>3, <2>2
    <2>3. CASE Dependencies(Shown(r)) # Dependencies(ui) /\ Polls(Shown(r)) /\ r.payment \in expired
        <3>1. Good(SetStatus(disposed, "expired"), tr, expired)
              /\ About(SetStatus(disposed, "expired"), disposed)
            BY <1>3, <2>3, ExpiredGood DEF About
        <3> QED
            BY <1>3, <2>3, <3>1 DEF About
    <2>4. CASE Dependencies(Shown(r)) # Dependencies(ui) /\ Polls(Shown(r)) /\ r.payment \notin expired
        <3> DEFINE s == [disposed EXCEPT !.timer = ~r.hidden]
        <3>1. /\ s \in Hook /\ s.queries = disposed.queries /\ s.active = disposed.active
              /\ s.flow = disposed.flow /\ s.payment = disposed.payment
              /\ s.paymentRef = disposed.paymentRef /\ s.status = disposed.status
            BY <1>2, <1>3 DEF Hook, Good
        <3>2. polling = s
            BY <2>4
        <3> HIDE DEF s, polling
        <3>3. Good(s, tr, expired) /\ About(s, disposed)
            BY <1>3, <3>1, GoodFrame
        <3> QED
            BY <1>3, <3>2, <3>3 DEF About
    <2> QED
        BY <2>1, <2>2, <2>3, <2>4
<1>5. polling \in Hook /\ k \in BOOLEAN
    <2>1. polling \in Hook /\ polling.closing \in BOOLEAN
        <3> HIDE DEF polling
        <3> QED
            BY <1>4 DEF Good, Hook
    <2>2. (r.open /\ r.status = "success") \in BOOLEAN
        BY <1>2 DEF Hook
    <2> HIDE DEF polling
    <2> QED
        BY <2>1, <2>2
<1> HIDE DEF polling, k
<1>6. LET s == [polling EXCEPT !.closing = k]
      IN  /\ s \in Hook /\ s.queries = polling.queries /\ s.active = polling.active
          /\ s.flow = polling.flow /\ s.payment = polling.payment
          /\ s.paymentRef = polling.paymentRef /\ s.status = polling.status
    BY <1>5 DEF Hook
<1>7. Good(Rerun(r), tr, expired) /\ About(Rerun(r), polling)
    BY <1>1, <1>4, <1>6, GoodFrame
<1> QED
    BY <1>4, <1>7 DEF About

\* A query that went one step further.
LEMMA ReplacedGood ==
    ASSUME NEW tr, NEW ex \in SUBSET Flows, NEW r, Good(r, tr, ex), NEW q \in r.queries,
           NEW p \in Query, p.flow = q.flow, p.payment = q.payment,
           p.answer \in Final => tr[p.payment] = p.answer,
           p.stage = "refreshing" => p.answer = "TRADE_SUCCESS"
    PROVE  LET s == [r EXCEPT !.queries = (r.queries \ {q}) \cup {p}]
           IN  Good(s, tr, ex) /\ About(s, r)
<1> DEFINE s == [r EXCEPT !.queries = (r.queries \ {q}) \cup {p}]
<1>1. r \in Hook /\ Gate(r) /\ Bound(r)
    BY DEF Good
<1>2. r.queries = {q} /\ q.flow = r.active
    BY <1>1 DEF Gate
<1>3. (r.queries \ {q}) \cup {p} = {p} /\ {p} \in SUBSET Query
    BY <1>2
<1>4. /\ s \in Hook /\ s.status = r.status /\ s.queries = {p} /\ s.active = r.active
      /\ s.flow = r.flow /\ s.payment = r.payment /\ s.paymentRef = r.paymentRef
    BY <1>1, <1>3 DEF Hook
<1> HIDE DEF s
<1>5. Gate(s)
    BY <1>2, <1>4 DEF Gate
<1>6. Bound(s) /\ Answered(s, tr) /\ Outcome(s, tr, ex)
    BY <1>1, <1>4 DEF Bound, Answered, Outcome, Good
<1>7. Good(s, tr, ex) /\ About(s, r)
    BY <1>4, <1>5, <1>6 DEF Good, About
<1> QED
    BY <1>7 DEF s

\* Trades that have ended stay as they are, and orders stay expired.
LEMMA WorldGood ==
    ASSUME NEW tr, NEW ex, NEW tr2, NEW ex2, NEW r, Good(r, tr, ex),
           \A p \in Flows : tr[p] \in Final => tr2[p] = tr[p], ex \subseteq ex2
    PROVE  Good(r, tr2, ex2)
<1>1. r \in Hook /\ (r.payment # None => r.payment \in Flows)
      /\ \A q \in r.queries : q.payment \in Flows
    BY DEF Good, Hook, Query
<1>2. Answered(r, tr2)
    BY <1>1 DEF Good, Answered, Final
<1>3. Outcome(r, tr2, ex2)
    BY <1>1 DEF Good, Outcome, Final
<1> QED
    BY <1>2, <1>3 DEF Good

\* A new flow: what the queries in flight are about is over.
LEMMA NewFlowGood ==
    ASSUME NEW tr, NEW ex \in SUBSET Flows, NEW r, Good(r, tr, ex), NEW s \in Hook,
           s.flow = r.flow + 1, s.queries = r.queries, s.active = r.active,
           \/ s.payment = r.payment /\ s.paymentRef = r.paymentRef /\ s.status = r.status
           \/ s.payment = None /\ s.paymentRef = None /\ s.status \in {"creating", "idle"}
    PROVE  Good(s, tr, ex)
<1>1. r \in Hook /\ Gate(r) /\ Bound(r) /\ Answered(r, tr) /\ Outcome(r, tr, ex)
    BY DEF Good
<1>2. \A q \in r.queries : q.flow \in Nat
    BY <1>1, BoundsAssumption DEF Hook, Query, Flows
<1>3. r.flow \in Nat /\ r.payment \in Nat
    BY <1>1, BoundsAssumption DEF Hook, Flows, None
<1>4. Gate(s) /\ Answered(s, tr)
    BY <1>1 DEF Gate, Answered
<1>5. Bound(s)
    BY <1>1, <1>2, <1>3 DEF Bound, None
<1>6. Outcome(s, tr, ex)
    BY <1>1 DEF Outcome
<1> QED
    BY <1>4, <1>5, <1>6 DEF Good

-----------------------------------------------------------------------------
(* The actions.                                                             *)

Ui == [open : BOOLEAN, status : Statuses, payment : Flows \cup {None}, checking : BOOLEAN]

\* A step of the hook within a flow.
LEMMA HookStep ==
    ASSUME IInv, Good(h', trade, expired), About(h', h), ui' \in Ui, Drawn(ui', h'),
           UNCHANGED <<trade, expired, creates>>,
           flips' \in 0..MaxFlips, fails' \in 0..MaxFails
    PROVE  IInv'
<1>1. TypeOK'
    BY DEF IInv, TypeOK, Good, Hook, Ui, About
<1>2. Creating'
    BY DEF IInv, Creating, About
<1> QED
    BY <1>1, <1>2 DEF IInv

LEMMA RenderFacts ==
    ASSUME IInv, NEW r, Good(r, trade, expired), Render(r)
    PROVE  Good(h', trade, expired) /\ About(h', r) /\ ui' \in Ui /\ Drawn(ui', h')
<1>1. expired \in SUBSET Flows /\ h' = Rerun(r) /\ ui' = Shown(r)
    BY DEF IInv, TypeOK, Render
<1>2. Good(h', trade, expired) /\ About(h', r)
    BY <1>1, RerunGood
<1>3. ui' \in Ui /\ ui'.payment = r.payment
    BY <1>1 DEF Shown, Ui, Good, Hook
<1> QED
    BY <1>2, <1>3 DEF Drawn, About

LEMMA Now ==
    ASSUME IInv
    PROVE  /\ Good(h, trade, expired) /\ h \in Hook /\ ui \in Ui /\ Drawn(ui, h)
           /\ expired \in SUBSET Flows
           /\ h.flow \in Nat /\ MaxFlows \in Nat /\ creates \subseteq 1..h.flow
           /\ flips \in 0..MaxFlips /\ fails \in 0..MaxFails
BY BoundsAssumption DEF IInv, TypeOK, Hook, Ui

\* A step into a new flow.
LEMMA FlowStep ==
    ASSUME IInv, h.flow < MaxFlows, Good(h', trade, expired), h'.flow = h.flow + 1,
           creates' \subseteq creates \cup {h.flow + 1},
           h.flow + 1 \in creates' => h'.payment = None,
           ui' \in Ui, Drawn(ui', h'), UNCHANGED <<trade, expired, flips, fails>>
    PROVE  IInv'
<1>1. h' \in Hook
    BY DEF Good
<1>2. creates' \subseteq 1..h'.flow
    BY Now
<1>3. TypeOK'
    BY <1>1, <1>2 DEF IInv, TypeOK, Hook, Ui
<1>4. Creating'
    BY Now DEF IInv, Creating, Flows
<1> QED
    BY <1>3, <1>4 DEF IInv

LEMMA startPaymentStep ==
    ASSUME IInv, startPayment
    PROVE  IInv'
<1> DEFINE r == [h EXCEPT !.flow = h.flow + 1, !.checking = FALSE, !.open = TRUE, !.status = "creating",
                          !.payment = None, !.error = FALSE, !.paymentRef = None]
<1>1. Render(r) /\ h.flow < MaxFlows /\ creates' = creates \cup {h.flow + 1}
      /\ UNCHANGED <<trade, expired, flips, fails>>
    BY DEF startPayment, env
<1>2. /\ r \in Hook /\ r.flow = h.flow + 1 /\ r.queries = h.queries /\ r.active = h.active
      /\ r.payment = None /\ r.paymentRef = None /\ r.status = "creating"
    <2>1. h.flow + 1 \in 0..MaxFlows
        BY <1>1, Now
    <2> QED
        BY <2>1, Now DEF Hook, Statuses
<1> HIDE DEF r
<1>3. Good(r, trade, expired)
    BY <1>2, Now, NewFlowGood
<1>4. Good(h', trade, expired) /\ About(h', r) /\ ui' \in Ui /\ Drawn(ui', h')
    BY <1>1, <1>3, RenderFacts
<1>5. h'.flow = h.flow + 1 /\ h'.payment = None
    BY <1>2, <1>4 DEF About
<1> QED
    BY <1>1, <1>4, <1>5, FlowStep

LEMMA closeDialogStep ==
    ASSUME IInv, closeDialog
    PROVE  IInv'
<1> DEFINE r == [h EXCEPT !.flow = h.flow + 1, !.checking = FALSE, !.open = FALSE]
<1>1. Render(r) /\ h.flow < MaxFlows /\ UNCHANGED <<trade, expired, flips, fails, creates>>
    BY DEF closeDialog, env
<1>2. /\ r \in Hook /\ r.flow = h.flow + 1 /\ r.queries = h.queries /\ r.active = h.active
      /\ r.payment = h.payment /\ r.paymentRef = h.paymentRef /\ r.status = h.status
    <2>1. h.flow + 1 \in 0..MaxFlows
        BY <1>1, Now
    <2> QED
        BY <2>1, Now DEF Hook, Statuses
<1> HIDE DEF r
<1>3. Good(r, trade, expired)
    BY <1>2, Now, NewFlowGood
<1>4. Good(h', trade, expired) /\ About(h', r) /\ ui' \in Ui /\ Drawn(ui', h')
    BY <1>1, <1>3, RenderFacts
<1>5. h'.flow = h.flow + 1 /\ h.flow + 1 \notin creates
    BY <1>2, <1>4, Now DEF About
<1> QED
    BY <1>1, <1>4, <1>5, FlowStep

LEMMA retryPaymentStep ==
    ASSUME IInv, retryPayment
    PROVE  IInv'
<1> DEFINE r == [h EXCEPT !.flow = h.flow + 1, !.checking = FALSE, !.paymentRef = None, !.open = FALSE,
                          !.status = "idle", !.payment = None, !.error = FALSE]
<1>1. Render(r) /\ h.flow < MaxFlows /\ UNCHANGED <<trade, expired, flips, fails, creates>>
    BY DEF retryPayment, env
<1>2. /\ r \in Hook /\ r.flow = h.flow + 1 /\ r.queries = h.queries /\ r.active = h.active
      /\ r.payment = None /\ r.paymentRef = None /\ r.status = "idle"
    <2>1. h.flow + 1 \in 0..MaxFlows
        BY <1>1, Now
    <2> QED
        BY <2>1, Now DEF Hook, Statuses
<1> HIDE DEF r
<1>3. Good(r, trade, expired)
    BY <1>2, Now, NewFlowGood
<1>4. Good(h', trade, expired) /\ About(h', r) /\ ui' \in Ui /\ Drawn(ui', h')
    BY <1>1, <1>3, RenderFacts
<1>5. h'.flow = h.flow + 1 /\ h.flow + 1 \notin creates
    BY <1>2, <1>4, Now DEF About
<1> QED
    BY <1>1, <1>4, <1>5, FlowStep

LEMMA checkNowStep ==
    ASSUME IInv, checkNow
    PROVE  IInv'
<1> DEFINE r == CheckOrder(h, TRUE, "none")
<1>1. Render(r) /\ UNCHANGED <<trade, expired, flips, fails, creates>>
    BY DEF checkNow, env
<1>2. Good(r, trade, expired) /\ About(r, h)
    BY Now, CheckOrderGood
<1> HIDE DEF r
<1>3. Good(h', trade, expired) /\ About(h', r) /\ ui' \in Ui /\ Drawn(ui', h')
    BY <1>1, <1>2, RenderFacts
<1>4. About(h', h)
    BY <1>2, <1>3 DEF About
<1> QED
    BY <1>1, <1>3, <1>4, HookStep, Now

\* The page is left: first a new flow, then the effects are cleaned up.
LEMMA UnmountStep ==
    ASSUME IInv, Unmount
    PROVE  IInv'
<1> DEFINE r == [h EXCEPT !.flow = h.flow + 1, !.mounted = FALSE]
<1>1. PICK Q, n : Q = {Detached(q) : q \in h.queries} /\ n = h.stray + h.leaked
    OBVIOUS
<1>2. /\ h' = [h EXCEPT !.flow = h.flow + 1, !.mounted = FALSE, !.timer = FALSE, !.leaked = 0,
                        !.stray = n, !.closing = FALSE, !.queries = Q]
      /\ h.flow < MaxFlows /\ UNCHANGED <<ui, trade, expired, flips, fails, creates>>
    BY <1>1, Zenon DEF Unmount, env, Detached
<1>3. h.flow + 1 \in 0..MaxFlows /\ h.flow + 1 \notin creates
    BY <1>2, Now
<1>4. /\ r \in Hook /\ r.flow = h.flow + 1 /\ r.queries = h.queries /\ r.active = h.active
      /\ r.payment = h.payment /\ r.paymentRef = h.paymentRef /\ r.status = h.status
    BY <1>3, Now DEF Hook
<1>5. Q \in SUBSET Query /\ n \in Nat
    BY <1>1, DetachedFields, Now DEF Hook
<1>6. /\ h' \in Hook /\ h'.flow = h.flow + 1 /\ h'.queries = Q /\ h'.active = h.active
      /\ h'.payment = h.payment /\ h'.paymentRef = h.paymentRef /\ h'.status = h.status
    BY <1>2, <1>3, <1>5, Now DEF Hook
<1> HIDE DEF r
<1>7. Good(r, trade, expired)
    BY <1>4, Now, NewFlowGood
<1>8. Good(h', trade, expired)
    BY <1>1, <1>4, <1>6, <1>7, Now, DetachedGood
<1>9. ui' \in Ui /\ Drawn(ui', h')
    BY <1>2, <1>6, Now DEF Drawn
<1> QED
    BY <1>2, <1>3, <1>6, <1>8, <1>9, FlowStep

LEMMA PaymentCreatedStep ==
    ASSUME IInv, NEW f \in Flows, PaymentCreated(f)
    PROVE  IInv'
<1>1. /\ f \in creates /\ creates' = creates \ {f}
      /\ trade' = [trade EXCEPT ![f] = "WAIT_BUYER_PAY"]
      /\ UNCHANGED <<ui, expired, flips, fails>>
    BY DEF PaymentCreated
<1>2. trade \in [Flows -> Trades] /\ trade[f] = "NONE"
    BY <1>1 DEF IInv, TypeOK, Creating
<1>3. /\ trade' \in [Flows -> Trades] /\ \A p \in Flows : p # f => trade'[p] = trade[p]
      /\ \A p \in Flows : trade[p] \in Final => trade'[p] = trade[p]
    BY <1>1, <1>2 DEF Trades, Final
<1>4. Good(h, trade', expired)
    BY <1>3, Now, WorldGood
<1>5. Good(h', trade', expired) /\ Drawn(ui', h') /\ h'.flow = h.flow
      /\ (h.flow # f => h'.payment = h.payment)
    <2>1. CASE h.flow # f
        BY <1>1, <1>4, <2>1, Now DEF PaymentCreated
    <2>2. CASE h.flow = f
        <3>1. h' = [h EXCEPT !.open = TRUE, !.status = "awaiting_payment", !.payment = f,
                             !.error = FALSE, !.paymentRef = f]
            BY <2>2, Zenon DEF PaymentCreated
        <3>2. /\ h' \in Hook /\ h'.status = "awaiting_payment" /\ h'.payment = f /\ h'.paymentRef = f
              /\ h'.flow = f /\ h'.queries = h.queries /\ h'.active = h.active
            BY <2>2, <3>1, Now DEF Hook, Statuses
        <3>3. h.payment = None
            BY <1>1, <2>2 DEF IInv, Creating
        <3>4. /\ Gate(h) /\ Bound(h) /\ Answered(h, trade')
              /\ \A q \in h.queries : q.payment # None
            BY <1>4, BoundsAssumption DEF Good, Hook, Query, Flows, None
        <3>5. Gate(h') /\ Answered(h', trade') /\ Outcome(h', trade', expired)
            BY <3>2, <3>4 DEF Gate, Answered, Outcome
        <3>6. Bound(h')
            BY <2>2, <3>2, <3>3, <3>4, BoundsAssumption DEF Bound, Flows
        <3>7. Drawn(ui', h')
            BY <1>1, <3>3, Now DEF Drawn
        <3> QED
            BY <2>2, <3>2, <3>5, <3>6, <3>7 DEF Good
    <2> QED
        BY <2>1, <2>2
<1>6. TypeOK'
    BY <1>1, <1>3, <1>5 DEF IInv, TypeOK, Good, Hook
<1>7. Creating'
    BY <1>1, <1>3, <1>5, Now DEF IInv, Creating, Flows
<1> QED
    BY <1>1, <1>5, <1>6, <1>7 DEF IInv

LEMMA PaymentFailedStep ==
    ASSUME IInv, NEW f \in Flows, PaymentFailed(f)
    PROVE  IInv'
<1>1. /\ f \in creates /\ creates' = creates \ {f} /\ fails' \in 0..MaxFails
      /\ UNCHANGED <<ui, trade, expired, flips>>
    BY Now, BoundsAssumption DEF PaymentFailed, env
<1>2. Good(h', trade, expired) /\ h'.flow = h.flow /\ h'.payment = h.payment
    <2>1. CASE h.flow # f
        BY <2>1, Now DEF PaymentFailed
    <2>2. CASE h.flow = f
        <3>1. h' = [h EXCEPT !.open = TRUE, !.status = "error", !.payment = None, !.error = TRUE]
            BY <2>2, Zenon DEF PaymentFailed
        <3>2. h.payment = None
            BY <1>1, <2>2 DEF IInv, Creating
        <3>3. /\ h' \in Hook /\ h'.status = "error" /\ h'.payment = h.payment
              /\ h'.paymentRef = h.paymentRef /\ h'.flow = h.flow
              /\ h'.queries = h.queries /\ h'.active = h.active
            BY <3>1, <3>2, Now DEF Hook, Statuses
        <3>4. Good(h', trade, expired) /\ About(h', h)
            BY <3>3, Now, GoodFrame
        <3> QED
            BY <3>3, <3>4
    <2> QED
        BY <2>1, <2>2
<1>3. Drawn(ui', h')
    BY <1>1, <1>2, Now DEF Drawn
<1>4. TypeOK'
    BY <1>1, <1>2 DEF IInv, TypeOK, Good, Hook
<1>5. Creating'
    BY <1>1, <1>2 DEF IInv, Creating
<1> QED
    BY <1>1, <1>2, <1>3, <1>4, <1>5 DEF IInv

\* A step within the flow that is not rendered.
LEMMA QuietStep ==
    ASSUME IInv, Good(h', trade, expired), About(h', h),
           UNCHANGED <<ui, trade, expired, creates>>,
           flips' \in 0..MaxFlips, fails' \in 0..MaxFails
    PROVE  IInv'
<1>1. ui' \in Ui /\ Drawn(ui', h')
    BY Now DEF Drawn, About
<1> QED
    BY <1>1, HookStep

LEMMA ServerAnswersStep ==
    ASSUME IInv, NEW q \in h.queries, ServerAnswers(q)
    PROVE  IInv'
<1>1. PICK a \in {trade[q.payment]} \cup (IF fails < MaxFails THEN {"FAILED"} ELSE {}) :
        /\ h' = [h EXCEPT !.queries = (h.queries \ {q}) \cup {[q EXCEPT !.stage = "answered", !.answer = a]}]
        /\ fails' = IF a = "FAILED" THEN fails + 1 ELSE fails
    BY DEF ServerAnswers
<1>2. UNCHANGED <<ui, trade, expired, flips, creates>>
    BY DEF ServerAnswers, env
<1>3. q \in Query /\ trade \in [Flows -> Trades]
    BY Now DEF Hook, IInv, TypeOK
<1>4. trade[q.payment] \in Trades /\ "FAILED" \notin Trades \cup Final
    BY <1>3 DEF Query, Trades, Final
<1>5. a \in Trades \cup {"FAILED"} /\ (a \in Final => trade[q.payment] = a)
      /\ fails' \in 0..MaxFails
    BY <1>1, <1>4, Now, BoundsAssumption
<1>6. PICK p : p = [q EXCEPT !.stage = "answered", !.answer = a]
    OBVIOUS
<1>7. p \in Query /\ p.flow = q.flow /\ p.payment = q.payment /\ p.answer = a /\ p.stage = "answered"
    BY <1>3, <1>5, <1>6 DEF Query
<1>8. h' = [h EXCEPT !.queries = (h.queries \ {q}) \cup {p}]
    BY <1>1, <1>6
<1>9. /\ p.answer \in Final => trade[p.payment] = p.answer
      /\ p.stage = "refreshing" => p.answer = "TRADE_SUCCESS"
    BY <1>5, <1>7
<1>10. Good(h', trade, expired) /\ About(h', h)
    BY <1>7, <1>8, <1>9, Now, ReplacedGood, Zenon
<1> QED
    BY <1>2, <1>5, <1>10, Now, QuietStep

\* The answer to a query of the present flow is the outcome of the order shown.
LEMMA AnswerIsOfTheOrder ==
    ASSUME IInv, NEW q \in h.queries, q.flow = h.flow
    PROVE  /\ h.payment # None /\ q.payment = h.payment /\ q \in Query
           /\ q.answer \in Final => trade[h.payment] = q.answer
           /\ q.stage = "refreshing" => q.answer = "TRADE_SUCCESS"
<1>1. q \in Query /\ Bound(h) /\ Answered(h, trade)
    BY Now DEF Good, Hook
<1>2. q.payment # None
    BY <1>1, BoundsAssumption DEF Query, Flows, None
<1> QED
    BY <1>1, <1>2 DEF Bound, Answered

\* A status that tells the outcome of the order shown may be set.
LEMMA ToldGood ==
    ASSUME IInv, NEW st \in Statuses, st # "expired", h.payment # None,
           st = "success" => trade[h.payment] = "TRADE_SUCCESS",
           st = "closed" => trade[h.payment] = "TRADE_CLOSED"
    PROVE  LET s == SetStatus(h, st)
           IN  Good(s, trade, expired) /\ About(s, h) /\ s.queries = h.queries
<1> DEFINE s == SetStatus(h, st)
<1>1. /\ s \in Hook /\ s.status = st
      /\ s.queries = h.queries /\ s.active = h.active /\ s.flow = h.flow
      /\ s.payment = h.payment /\ s.paymentRef = h.paymentRef
    BY Now, SetStatusFields
<1> HIDE DEF s
<1>2. Gate(s) /\ Bound(s) /\ Answered(s, trade)
    BY <1>1, Now DEF Good, Gate, Bound, Answered
<1>3. Outcome(s, trade, expired)
    BY <1>1 DEF Outcome
<1>4. Good(s, trade, expired) /\ About(s, h) /\ s.queries = h.queries
    BY <1>1, <1>2, <1>3 DEF Good, About
<1> QED
    BY <1>4 DEF s

\* The end of a query whose outcome has been noted in s.
LEMMA EndGood ==
    ASSUME IInv, NEW s, Good(s, trade, expired), About(s, h), NEW q \in s.queries
    PROVE  Good(Release(s, q), trade, expired) /\ About(Release(s, q), h)
<1>1. Drawn(ui, s)
    BY Now DEF Drawn, About
<1>2. Good(Release(s, q), trade, expired) /\ About(Release(s, q), s)
    BY <1>1, Now, ReleaseGood
<1> QED
    BY <1>2 DEF About

LEMMA QueryResumesStep ==
    ASSUME IInv, NEW q \in h.queries, QueryResumes(q)
    PROVE  IInv'
<1> DEFINE st == resolveDesktopAlipayStatus(q.answer)
<1>1. UNCHANGED <<ui, trade, expired, flips, creates, fails>>
    BY DEF QueryResumes, env
<1>2. Good(h', trade, expired) /\ About(h', h)
    <2>1. CASE h.flow # q.flow
        <3>1. h' = Release(h, q) /\ About(h, h)
            BY <2>1, Zenon DEF QueryResumes, About
        <3> QED
            BY <3>1, Now, EndGood
    <2>2. CASE h.flow = q.flow /\ q.answer = "FAILED"
        <3>1. PICK e : e = (h.error \/ q.manual)
            OBVIOUS
        <3>2. PICK s : s = [h EXCEPT !.error = e]
            OBVIOUS
        <3>3. h' = Release(s, q)
            BY <2>2, <3>1, <3>2, Zenon DEF QueryResumes
        <3>4. e \in BOOLEAN
            BY <3>1
        <3>5. /\ s \in Hook /\ s.status = h.status
              /\ s.queries = h.queries /\ s.active = h.active /\ s.flow = h.flow
              /\ s.payment = h.payment /\ s.paymentRef = h.paymentRef
            BY <3>2, <3>4, Now DEF Hook
        <3>6. Good(s, trade, expired) /\ About(s, h)
            BY <3>5, Now, GoodFrame
        <3> QED
            BY <3>3, <3>5, <3>6, EndGood
    <2>3. CASE h.flow = q.flow /\ q.answer # "FAILED" /\ st = "success"
        <3>1. PICK p : p = [q EXCEPT !.stage = "refreshing"]
            OBVIOUS
        <3>2. h' = [h EXCEPT !.queries = (h.queries \ {q}) \cup {p}]
            BY <2>3, <3>1, Zenon DEF QueryResumes
        <3>3. q.answer = "TRADE_SUCCESS"
            BY <2>3 DEF resolveDesktopAlipayStatus
        <3>4. /\ p \in Query /\ p.flow = q.flow /\ p.payment = q.payment
              /\ p.answer = "TRADE_SUCCESS" /\ p.stage = "refreshing"
            BY <2>3, <3>1, <3>3, AnswerIsOfTheOrder DEF Query
        <3>5. p.answer \in Final => trade[p.payment] = p.answer
            BY <2>3, <3>3, <3>4, AnswerIsOfTheOrder
        <3> QED
            BY <3>2, <3>4, <3>5, Now, ReplacedGood, Zenon
    <2>4. CASE h.flow = q.flow /\ q.answer # "FAILED" /\ st # "success"
        <3>1. h' = Release(SetStatus(h, st), q)
            BY <2>4, Zenon DEF QueryResumes
        <3>2. st \in Statuses /\ st # "expired" /\ (st = "closed" => q.answer = "TRADE_CLOSED")
            BY DEF resolveDesktopAlipayStatus, Statuses
        <3>3. h.payment # None /\ (st = "closed" => trade[h.payment] = "TRADE_CLOSED")
            BY <2>4, <3>2, AnswerIsOfTheOrder DEF Final
        <3> HIDE DEF st
        <3>4. LET s == SetStatus(h, st)
              IN  Good(s, trade, expired) /\ About(s, h) /\ s.queries = h.queries
            BY <2>4, <3>2, <3>3, ToldGood
        <3> QED
            BY <3>1, <3>4, EndGood
    <2> QED
        BY <2>1, <2>2, <2>3, <2>4
<1> QED
    BY <1>1, <1>2, Now, QuietStep

LEMMA RefreshEndsStep ==
    ASSUME IInv, NEW q \in h.queries, RefreshEnds(q)
    PROVE  IInv'
<1>1. UNCHANGED <<ui, trade, expired, flips, creates, fails>>
    BY DEF RefreshEnds, env
<1>2. Good(h', trade, expired) /\ About(h', h)
    <2>1. CASE h.flow # q.flow
        <3>1. h' = Release(h, q) /\ About(h, h)
            BY <2>1, Zenon DEF RefreshEnds, About
        <3> QED
            BY <3>1, Now, EndGood
    <2>2. CASE h.flow = q.flow
        <3>1. h' = Release(SetStatus(h, "success"), q) /\ q.stage = "refreshing"
            BY <2>2, Zenon DEF RefreshEnds
        <3>2. h.payment # None /\ trade[h.payment] = "TRADE_SUCCESS"
            BY <2>2, <3>1, AnswerIsOfTheOrder DEF Final
        <3>3. LET s == SetStatus(h, "success")
              IN  Good(s, trade, expired) /\ About(s, h) /\ s.queries = h.queries
            BY <3>2, ToldGood DEF Statuses
        <3> QED
            BY <3>1, <3>3, EndGood
    <2> QED
        BY <2>1, <2>2
<1> QED
    BY <1>1, <1>2, Now, QuietStep

\* checkOrder called on a record of which only a timer was taken.
LEMMA FiredGood ==
    ASSUME IInv, NEW s \in Hook, s.status = h.status,
           s.queries = h.queries, s.active = h.active, s.flow = h.flow,
           s.payment = h.payment, s.paymentRef = h.paymentRef,
           NEW loop \in {"current", "disposed", "none"}
    PROVE  Good(CheckOrder(s, FALSE, loop), trade, expired) /\ About(CheckOrder(s, FALSE, loop), h)
<1>1. Good(s, trade, expired) /\ About(s, h)
    BY Now, GoodFrame
<1>2. Drawn(ui, s)
    BY <1>1, Now DEF Drawn, About
<1>3. Good(CheckOrder(s, FALSE, loop), trade, expired) /\ About(CheckOrder(s, FALSE, loop), s)
    BY <1>1, <1>2, Now, CheckOrderGood
<1> QED
    BY <1>1, <1>3 DEF About

LEMMA TimerFiresStep ==
    ASSUME IInv, TimerFires
    PROVE  IInv'
<1>1. UNCHANGED <<ui, trade, expired, flips, creates, fails>>
    BY DEF TimerFires, env
<1>2. Good(h', trade, expired) /\ About(h', h)
    <2>1. CASE h' = CheckOrder([h EXCEPT !.timer = FALSE], FALSE, "current")
        <3>1. LET s == [h EXCEPT !.timer = FALSE]
              IN  /\ s \in Hook /\ s.status = h.status
                  /\ s.queries = h.queries /\ s.active = h.active /\ s.flow = h.flow
                  /\ s.payment = h.payment /\ s.paymentRef = h.paymentRef
            BY Now DEF Hook
        <3> QED
            BY <2>1, <3>1, FiredGood
    <2>2. CASE h.leaked > 0 /\ h' = CheckOrder([h EXCEPT !.leaked = h.leaked - 1], FALSE, "current")
        <3>1. PICK n \in Nat : n = h.leaked - 1
            BY <2>2, Now DEF Hook
        <3>2. LET s == [h EXCEPT !.leaked = n]
              IN  /\ s \in Hook /\ s.status = h.status
                  /\ s.queries = h.queries /\ s.active = h.active /\ s.flow = h.flow
                  /\ s.payment = h.payment /\ s.paymentRef = h.paymentRef
            BY Now DEF Hook
        <3> QED
            BY <2>2, <3>1, <3>2, FiredGood
    <2>3. CASE h.stray > 0 /\ h' = CheckOrder([h EXCEPT !.stray = h.stray - 1], FALSE, "disposed")
        <3>1. PICK n \in Nat : n = h.stray - 1
            BY <2>3, Now DEF Hook
        <3>2. LET s == [h EXCEPT !.stray = n]
              IN  /\ s \in Hook /\ s.status = h.status
                  /\ s.queries = h.queries /\ s.active = h.active /\ s.flow = h.flow
                  /\ s.payment = h.payment /\ s.paymentRef = h.paymentRef
            BY Now DEF Hook
        <3> QED
            BY <2>3, <3>1, <3>2, FiredGood
    <2> QED
        BY <2>1, <2>2, <2>3 DEF TimerFires
<1> QED
    BY <1>1, <1>2, Now, QuietStep

LEMMA CloseTimerFiresStep ==
    ASSUME IInv, CloseTimerFires
    PROVE  IInv'
<1>1. UNCHANGED <<ui, trade, expired, flips, creates, fails>>
    BY DEF CloseTimerFires, env
<1>2. /\ h' \in Hook /\ h'.status = h.status
      /\ h'.queries = h.queries /\ h'.active = h.active /\ h'.flow = h.flow
      /\ h'.payment = h.payment /\ h'.paymentRef = h.paymentRef
    BY Now DEF CloseTimerFires, Hook
<1>3. Good(h', trade, expired) /\ About(h', h)
    BY <1>2, Now, GoodFrame
<1> QED
    BY <1>1, <1>3, Now, QuietStep

LEMMA CommitStep ==
    ASSUME IInv, Commit
    PROVE  IInv'
<1>1. Render(h) /\ UNCHANGED <<trade, expired, flips, creates, fails>>
    BY DEF Commit, env
<1>2. Good(h', trade, expired) /\ About(h', h) /\ ui' \in Ui /\ Drawn(ui', h')
    BY <1>1, Now, RenderFacts
<1> QED
    BY <1>1, <1>2, Now, HookStep

LEMMA VisibilityChangeStep ==
    ASSUME IInv, VisibilityChange
    PROVE  IInv'
<1> DEFINE turned == [h EXCEPT !.hidden = ~h.hidden]
           cleared == [turned EXCEPT !.timer = FALSE]
<1>1. UNCHANGED <<ui, trade, expired, creates, fails>> /\ flips' \in 0..MaxFlips
    BY Now, BoundsAssumption DEF VisibilityChange
<1>2. h' = IF ~(h.mounted /\ Polls(ui)) THEN turned
           ELSE IF cleared.hidden THEN cleared
           ELSE IF ui.payment \in expired THEN SetStatus(cleared, "expired")
           ELSE CheckOrder(cleared, FALSE, "current")
    BY Zenon DEF VisibilityChange
<1>3. /\ turned \in Hook /\ turned.status = h.status
      /\ turned.queries = h.queries /\ turned.active = h.active /\ turned.flow = h.flow
      /\ turned.payment = h.payment /\ turned.paymentRef = h.paymentRef
    <2>1. PICK k \in BOOLEAN : k = ~h.hidden
        OBVIOUS
    <2>2. turned = [h EXCEPT !.hidden = k]
        BY <2>1, Zenon
    <2> HIDE DEF turned
    <2> QED
        BY <2>2, Now DEF Hook
<1> HIDE DEF turned
<1>4. /\ cleared \in Hook /\ cleared.status = h.status
      /\ cleared.queries = h.queries /\ cleared.active = h.active /\ cleared.flow = h.flow
      /\ cleared.payment = h.payment /\ cleared.paymentRef = h.paymentRef
    BY <1>3 DEF Hook
<1> HIDE DEF cleared
<1>5. Good(turned, trade, expired) /\ About(turned, h)
    BY <1>3, Now, GoodFrame
<1>6. Good(cleared, trade, expired) /\ About(cleared, h)
    BY <1>4, Now, GoodFrame
<1>7. Good(CheckOrder(cleared, FALSE, "current"), trade, expired)
      /\ About(CheckOrder(cleared, FALSE, "current"), h)
    BY <1>4, FiredGood
<1>8. ASSUME ui.payment \in expired
      PROVE  Good(SetStatus(cleared, "expired"), trade, expired) /\ About(SetStatus(cleared, "expired"), h)
    <2>1. cleared.payment \in expired
        BY <1>4, <1>8, Now, BoundsAssumption DEF Drawn, Flows, None
    <2> QED
        BY <1>6, <2>1, Now, ExpiredGood DEF About
<1>9. Good(h', trade, expired) /\ About(h', h)
    BY <1>2, <1>5, <1>6, <1>7, <1>8
<1> QED
    BY <1>1, <1>9, Now, QuietStep

\* What happens at Alipay: a waiting trade ends, an order expires.
LEMMA AlipayStep ==
    ASSUME IInv, NEW p \in Flows, Pay(p) \/ CloseTrade(p) \/ Expire(p)
    PROVE  IInv'
<1>1. trade \in [Flows -> Trades] /\ expired \in SUBSET Flows
    BY DEF IInv, TypeOK
<1>2. /\ trade' \in [Flows -> Trades] /\ expired' \in SUBSET Flows /\ expired \subseteq expired'
      /\ \A k \in Flows : trade[k] \in Final => trade'[k] = trade[k]
      /\ \A k \in Flows : trade[k] = "NONE" => trade'[k] = "NONE"
      /\ UNCHANGED <<h, ui, creates, flips, fails>>
    BY <1>1 DEF Pay, CloseTrade, Expire, Trades, Final
<1>3. Good(h', trade', expired')
    BY <1>2, Now, WorldGood
<1>4. TypeOK' /\ Drawn(ui', h') /\ Creating'
    BY <1>2, Now DEF IInv, TypeOK, Drawn, Creating
<1> QED
    BY <1>3, <1>4 DEF IInv

LEMMA InitInv ==
    ASSUME Init
    PROVE  IInv
<1>1. h \in Hook
    BY BoundsAssumption DEF Init, Hook, Statuses, None
<1>2. TypeOK
    BY <1>1, BoundsAssumption DEF Init, TypeOK, Hook, Statuses, None, Trades
<1>3. h.queries = {} /\ h.active = None /\ h.payment = None /\ h.paymentRef = None
      /\ h.flow = 0 /\ h.status = "idle" /\ ui.payment = None
    BY DEF Init
<1>4. Good(h, trade, expired) /\ Drawn(ui, h)
    BY <1>1, <1>3 DEF Good, Gate, Bound, Answered, Outcome, Drawn, None
<1>5. Creating
    BY <1>3 DEF Init, Creating
<1> QED
    BY <1>2, <1>4, <1>5 DEF IInv

LEMMA NextInv ==
    ASSUME IInv, [Next]_vars
    PROVE  IInv'
<1>1. CASE User
    BY <1>1, startPaymentStep, checkNowStep, closeDialogStep, retryPaymentStep, UnmountStep DEF User
<1>2. CASE Answer
    BY <1>2, PaymentCreatedStep, PaymentFailedStep, ServerAnswersStep, QueryResumesStep,
       RefreshEndsStep DEF Answer
<1>3. CASE Browser
    BY <1>3, TimerFiresStep, CloseTimerFiresStep, CommitStep, VisibilityChangeStep DEF Browser
<1>4. CASE Alipay
    BY <1>4, AlipayStep DEF Alipay
<1>5. CASE UNCHANGED vars
    <2>1. UNCHANGED <<h, ui, creates, trade, expired, flips, fails>>
        BY <1>5 DEF vars
    <2>2. About(h', h) /\ Good(h', trade, expired)
        BY <2>1, Now DEF About
    <2> QED
        BY <2>1, <2>2, Now, QuietStep
<1> QED
    BY <1>1, <1>2, <1>3, <1>4, <1>5 DEF Next

LEMMA Invariant == Spec => []IInv
BY InitInv, NextInv, PTL DEF Spec

-----------------------------------------------------------------------------
(* The theorems.                                                            *)

\* The hook, what it has drawn and the orders have their types in every reachable state, and
\* the dialog only ever has a status it can show (TypeOK).
THEOREM TypeCorrect == Spec => []TypeOK
<1>1. IInv => TypeOK
    BY DEF IInv
<1> QED
    BY <1>1, Invariant, PTL

\* The query gate of checkOrder (tryAcquire and the release in its finally block) is held by
\* exactly the flow whose query is in flight, and there is at most one such query across all
\* flows (GateSound): no interleaving of timers, closed and reopened dialogs, hidden tabs and
\* late answers loses the gate or passes it twice.
THEOREM GateIsSound == Spec => []GateSound
<1>1. ASSUME IInv PROVE GateSound
    <2>1. \/ h.queries = {} /\ h.active = None
          \/ \E q \in Query : h.queries = {q} /\ q.flow = h.active
        BY <1>1 DEF IInv, Good, Gate
    <2>2. \A q \in Query : q.flow # None
        BY BoundsAssumption DEF Query, Flows, None
    <2> QED
        BY <2>1, <2>2 DEF GateSound
<1> QED
    BY <1>1, Invariant, PTL

\* The outcome the dialog tells (success, closed, expired) is the outcome of the order it
\* shows (OutcomeOfTheOrder): the check of flowRef after every await keeps the late answer to
\* an earlier order out, whenever it arrives.
THEOREM OutcomeIsOfTheOrder == Spec => []OutcomeOfTheOrder
<1>1. IInv => OutcomeOfTheOrder
    BY DEF IInv, Good, Outcome, OutcomeOfTheOrder
<1> QED
    BY <1>1, Invariant, PTL
===============================================================================
