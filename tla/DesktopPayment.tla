--------------------------- MODULE DesktopPayment ---------------------------
(***************************************************************************)
(* The desktop Alipay checkout of the wallet page: the React hook          *)
(* useAlipayDesktopPayment, the helpers of lib/alipay-desktop-payment.ts   *)
(* and the buttons of AlipayDesktopPaymentDialog.                          *)
(*                                                                         *)
(* The hook creates an order, polls the server for its outcome and shows   *)
(* it.  Every await is a point where the user, a timer, the clock, the tab *)
(* or another answer may act, so a request is one action and its answer    *)
(* another.  What JavaScript runs in one task is one action: an awaiting   *)
(* caller resumes in the task of the answer it waited for.  A state update *)
(* made in a user event is rendered in that event; one made in a timer or  *)
(* after an await is rendered, and the effects re-run, in a later Commit.  *)
(*                                                                         *)
(* The hook's variables are one record, h, so that the calls a task makes  *)
(* compose: CheckOrder, Continue and Release map a record to a record.     *)
(* Poll delays are left out: an armed timer may fire at any time.  The     *)
(* attempt counter, which only selects a delay, goes with them.            *)
(***************************************************************************)
EXTENDS Naturals, FiniteSets

CONSTANTS MaxFlows,   \* bound: how often flowRef is incremented
          MaxFlips,   \* bound: visibility changes of the tab
          MaxFails    \* bound: failed requests

ASSUME BoundsAssumption == MaxFlows \in Nat /\ MaxFlips \in Nat /\ MaxFails \in Nat

VARIABLES h,         \* state, checking and refs of the hook, and document.hidden
          ui,        \* what the last render showed; the effects' dependencies
          creates,   \* flows whose create request is unanswered
          trade,     \* external: the trade of each order at Alipay
          expired,   \* orders whose expiresAt has passed
          flips, fails

vars == <<h, ui, creates, trade, expired, flips, fails>>

\* A flow is the value of flowRef, an order is named by the flow that created it.
Flows == 1..MaxFlows
None == 0
Statuses == {"idle", "creating", "awaiting_payment", "success", "closed", "expired", "error"}
Trades == {"NONE", "WAIT_BUYER_PAY", "TRADE_SUCCESS", "TRADE_CLOSED"}

\* Mutant: the trade status is shown as it is.
UnmappedStatus(t) == t

resolveDesktopAlipayStatus(t) ==
    CASE t = "TRADE_SUCCESS" -> "success"
      [] t = "TRADE_CLOSED"  -> "closed"
      [] OTHER               -> "awaiting_payment"

\* A query in flight: the flow and order it was sent for, whether the user
\* asked for it, the loop that awaits it (runAndSchedule of the present effect,
\* of a disposed one, or none), and how far it has come.
Query == [flow : Flows, payment : Flows, manual : BOOLEAN,
          loop : {"current", "disposed", "none"},
          stage : {"sent", "answered", "refreshing"},
          answer : Trades \cup {"FAILED"}]

Init ==
    /\ h = [open |-> FALSE, status |-> "idle", payment |-> None, error |-> FALSE,
            checking |-> FALSE, flow |-> 0, paymentRef |-> None,
            active |-> None, queued |-> None, queries |-> {},
            timer |-> FALSE, leaked |-> 0, stray |-> 0,
            closing |-> FALSE, mounted |-> TRUE, hidden |-> FALSE]
    /\ ui = [open |-> FALSE, status |-> "idle", payment |-> None, checking |-> FALSE]
    /\ creates = {}
    /\ trade = [p \in Flows |-> "NONE"]
    /\ expired = {}
    /\ flips = 0
    /\ fails = 0

-----------------------------------------------------------------------------
(* Helpers: each maps the hook's record to the record the call leaves.      *)

\* The effect polls while the rendered checkout awaits payment.
Polls(u) == u.payment # None /\ u.open /\ u.status = "awaiting_payment"

SetStatus(r, s) == [r EXCEPT !.status = s, !.error = FALSE]

\* scheduleCheck: a timer armed before and not yet fired is forgotten, not cleared.
Schedule(r) == [r EXCEPT !.timer = TRUE, !.leaked = @ + (IF r.timer THEN 1 ELSE 0)]

\* runAndSchedule after its await.
Continue(r, loop) ==
    IF loop # "current" \/ r.hidden THEN r
    ELSE IF ui.payment \in expired THEN SetStatus(r, "expired")
    ELSE Schedule(r)

tryAcquire(r) ==
    IF r.active = None
    THEN [r EXCEPT !.active = r.flow, !.queued = IF @ = r.flow THEN None ELSE @]
    ELSE [r EXCEPT !.queued = IF r.active # r.flow THEN r.flow ELSE @]

\* checkOrder up to its first await; without one, the awaiting loop goes on.
CheckOrder(r, manual, loop) ==
    IF r.paymentRef = None THEN Continue(r, loop)
    ELSE IF r.paymentRef \in expired THEN Continue(SetStatus(r, "expired"), loop)
    ELSE IF r.active # None THEN Continue(tryAcquire(r), loop)
    ELSE [tryAcquire(r) EXCEPT
            !.checking = @ \/ manual,
            !.queries = @ \cup {[flow |-> r.flow, payment |-> r.paymentRef, manual |-> manual,
                                 loop |-> loop, stage |-> "sent", answer |-> "NONE"]}]

\* Mutant: the gate is released for the present flow, not for the query's own.
ReleaseOfPresentFlow(r, q) ==
    LET ended == [r EXCEPT !.queries = @ \ {q},
                           !.checking = IF q.manual /\ r.flow = q.flow THEN FALSE ELSE @]
    IN Continue(IF r.active # r.flow THEN ended ELSE [ended EXCEPT !.active = None], q.loop)

\* The finally block of checkOrder for query q, then the loop that awaited it.
Release(r, q) ==
    LET ended == [r EXCEPT !.queries = @ \ {q},
                           !.checking = IF q.manual /\ r.flow = q.flow THEN FALSE ELSE @]
        freed == [ended EXCEPT !.active = None, !.queued = None]
        after == IF r.active # q.flow THEN ended
                 ELSE IF r.queued # None /\ r.queued = r.flow THEN CheckOrder(freed, FALSE, "none")
                 ELSE freed
    IN Continue(after, q.loop)

\* React renders record r: when the dependencies changed, the polling effect
\* is cleaned up and run again, and so is the effect that closes the dialog.
Shown(r) == [open |-> r.open, status |-> r.status, payment |-> r.payment, checking |-> r.checking]
Dependencies(u) == <<u.open, u.payment, u.status>>

Rerun(r) ==
    LET disposed == [r EXCEPT !.timer = FALSE, !.leaked = 0, !.stray = @ + r.leaked,
                              !.queries = {[q EXCEPT !.loop = IF @ = "current" THEN "disposed" ELSE @]
                                             : q \in @}]
        polling == IF Dependencies(Shown(r)) = Dependencies(ui) THEN r
                   ELSE IF ~Polls(Shown(r)) THEN disposed
                   ELSE IF r.payment \in expired THEN SetStatus(disposed, "expired")
                   ELSE [disposed EXCEPT !.timer = ~r.hidden]
    IN [polling EXCEPT !.closing = IF <<r.open, r.status>> = <<ui.open, ui.status>>
                                   THEN @ ELSE r.open /\ r.status = "success"]

Render(r) == /\ h' = Rerun(r)
             /\ ui' = Shown(r)

-----------------------------------------------------------------------------
(* The user.  The buttons are those of the last render.                     *)

env == <<trade, expired, flips>>

startPayment ==
    /\ h.mounted /\ ~ui.open /\ h.flow < MaxFlows
    /\ Render([h EXCEPT !.flow = @ + 1, !.checking = FALSE, !.open = TRUE, !.status = "creating",
                        !.payment = None, !.error = FALSE, !.paymentRef = None])
    /\ creates' = creates \cup {h.flow + 1}
    /\ UNCHANGED <<env, fails>>

checkNow ==
    /\ h.mounted /\ Polls(ui) /\ ~ui.checking
    /\ Render(CheckOrder(h, TRUE, "none"))
    /\ UNCHANGED <<env, creates, fails>>

closeDialog ==
    /\ h.mounted /\ ui.open /\ h.flow < MaxFlows
    /\ Render([h EXCEPT !.flow = @ + 1, !.checking = FALSE, !.open = FALSE])
    /\ UNCHANGED <<env, creates, fails>>

retryPayment ==
    /\ h.mounted /\ ui.open /\ ui.status \in {"closed", "expired", "error"} /\ h.flow < MaxFlows
    /\ Render([h EXCEPT !.flow = @ + 1, !.checking = FALSE, !.paymentRef = None, !.open = FALSE,
                        !.status = "idle", !.payment = None, !.error = FALSE])
    /\ UNCHANGED <<env, creates, fails>>

\* The page is left: the cleanup functions of the effects run.
Unmount ==
    /\ h.mounted /\ h.flow < MaxFlows
    /\ h' = [h EXCEPT !.flow = @ + 1, !.mounted = FALSE, !.timer = FALSE, !.leaked = 0,
                      !.stray = @ + h.leaked, !.closing = FALSE,
                      !.queries = {[q EXCEPT !.loop = IF @ = "current" THEN "disposed" ELSE @]
                                     : q \in @}]
    /\ UNCHANGED <<ui, env, creates, fails>>

-----------------------------------------------------------------------------
(* Answers.                                                                 *)

\* requestAlipayPayment resolves with an order.
PaymentCreated(f) ==
    /\ f \in creates
    /\ creates' = creates \ {f}
    /\ trade' = [trade EXCEPT ![f] = "WAIT_BUYER_PAY"]
    /\ h' = IF h.flow # f THEN h
            ELSE [h EXCEPT !.open = TRUE, !.status = "awaiting_payment", !.payment = f,
                           !.error = FALSE, !.paymentRef = f]
    /\ UNCHANGED <<ui, expired, flips, fails>>

\* It rejects, or resolves without an order.
PaymentFailed(f) ==
    /\ f \in creates /\ fails < MaxFails
    /\ creates' = creates \ {f}
    /\ fails' = fails + 1
    /\ h' = IF h.flow # f THEN h
            ELSE [h EXCEPT !.open = TRUE, !.status = "error", !.payment = None, !.error = TRUE]
    /\ UNCHANGED <<ui, env>>

\* External: the server answers a query with the trade as it is now, or fails.
ServerAnswers(q) ==
    /\ q \in h.queries /\ q.stage = "sent"
    /\ \E a \in {trade[q.payment]} \cup (IF fails < MaxFails THEN {"FAILED"} ELSE {}) :
         /\ h' = [h EXCEPT !.queries = (@ \ {q}) \cup {[q EXCEPT !.stage = "answered", !.answer = a]}]
         /\ fails' = IF a = "FAILED" THEN fails + 1 ELSE fails
    /\ UNCHANGED <<ui, env, creates>>

\* Mutant: the answer is used whatever flow it belongs to.
ResumesInAnyFlow(q) ==
    /\ q \in h.queries /\ q.stage = "answered"
    /\ h' = IF q.answer = "FAILED" THEN Release(h, q)
            ELSE Release(SetStatus(h, resolveDesktopAlipayStatus(q.answer)), q)
    /\ UNCHANGED <<ui, env, creates, fails>>

\* checkOrder resumes with the answer.
QueryResumes(q) ==
    /\ q \in h.queries /\ q.stage = "answered"
    /\ h' = IF h.flow # q.flow THEN Release(h, q)
            ELSE IF q.answer = "FAILED"
                 THEN Release([h EXCEPT !.error = @ \/ q.manual], q)
            ELSE IF resolveDesktopAlipayStatus(q.answer) = "success"
                 THEN [h EXCEPT !.queries = (@ \ {q}) \cup {[q EXCEPT !.stage = "refreshing"]}]
            ELSE Release(SetStatus(h, resolveDesktopAlipayStatus(q.answer)), q)
    /\ UNCHANGED <<ui, env, creates, fails>>

\* Mutant: a failed refresh ends checkOrder before the success is shown.
RefreshFailureEndsCheck(q) ==
    /\ q \in h.queries /\ q.stage = "refreshing"
    /\ h' = Release(h, q)
    /\ UNCHANGED <<ui, env, creates, fails>>

\* The balance refresh ends, well or not: only a toast depends on which.
RefreshEnds(q) ==
    /\ q \in h.queries /\ q.stage = "refreshing"
    /\ h' = Release(IF h.flow # q.flow THEN h
                    ELSE SetStatus(h, "success"), q)
    /\ UNCHANGED <<ui, env, creates, fails>>

-----------------------------------------------------------------------------
(* Timers, rendering and the browser.                                       *)

\* The callback of a poll timer: the one the effect remembers, one it forgot,
\* or one of a disposed effect.
TimerFires ==
    /\ \/ h.timer /\ h' = CheckOrder([h EXCEPT !.timer = FALSE], FALSE, "current")
       \/ h.leaked > 0 /\ h' = CheckOrder([h EXCEPT !.leaked = @ - 1], FALSE, "current")
       \/ h.stray > 0 /\ h' = CheckOrder([h EXCEPT !.stray = @ - 1], FALSE, "disposed")
    /\ UNCHANGED <<ui, env, creates, fails>>

\* The success dialog closes by itself.
CloseTimerFires ==
    /\ h.closing
    /\ h' = [h EXCEPT !.closing = FALSE, !.open = FALSE]
    /\ UNCHANGED <<ui, env, creates, fails>>

\* React renders the updates made outside user events.
Commit ==
    /\ h.mounted /\ Shown(h) # ui
    /\ Render(h)
    /\ UNCHANGED <<env, creates, fails>>

\* The tab is hidden or shown; handleVisibilityChange if the effect polls.
VisibilityChange ==
    /\ flips < MaxFlips
    /\ flips' = flips + 1
    /\ LET turned == [h EXCEPT !.hidden = ~@]
           cleared == [turned EXCEPT !.timer = FALSE]
       IN h' = IF ~(h.mounted /\ Polls(ui)) THEN turned
               ELSE IF cleared.hidden THEN cleared
               ELSE IF ui.payment \in expired THEN SetStatus(cleared, "expired")
               ELSE CheckOrder(cleared, FALSE, "current")
    /\ UNCHANGED <<ui, trade, expired, creates, fails>>

\* External: the buyer pays, Alipay closes the trade, expiresAt passes.
Pay(p) ==
    /\ trade[p] = "WAIT_BUYER_PAY"
    /\ trade' = [trade EXCEPT ![p] = "TRADE_SUCCESS"]
    /\ UNCHANGED <<h, ui, creates, expired, flips, fails>>

CloseTrade(p) ==
    /\ trade[p] = "WAIT_BUYER_PAY"
    /\ trade' = [trade EXCEPT ![p] = "TRADE_CLOSED"]
    /\ UNCHANGED <<h, ui, creates, expired, flips, fails>>

Expire(p) ==
    /\ trade[p] # "NONE" /\ p \notin expired
    /\ expired' = expired \cup {p}
    /\ UNCHANGED <<h, ui, creates, trade, flips, fails>>

User == startPayment \/ checkNow \/ closeDialog \/ retryPayment \/ Unmount

Answer == \/ \E f \in Flows : PaymentCreated(f) \/ PaymentFailed(f)
          \/ \E q \in h.queries : ServerAnswers(q) \/ QueryResumes(q) \/ RefreshEnds(q)

Browser == TimerFires \/ CloseTimerFires \/ Commit \/ VisibilityChange

Alipay == \E p \in Flows : Pay(p) \/ CloseTrade(p) \/ Expire(p)

Next == User \/ Answer \/ Browser \/ Alipay

Spec == Init /\ [][Next]_vars

\* Requests are answered, timers fire and React renders; the user, the buyer
\* and the clock owe nothing.
Fairness ==
    /\ WF_vars(Answer)
    /\ WF_vars(TimerFires)
    /\ WF_vars(CloseTimerFires)
    /\ WF_vars(Commit)

FairSpec == Spec /\ Fairness

-----------------------------------------------------------------------------
(* Properties.                                                              *)

\* The state of the hook, of the last render and of the orders has its type; a status is
\* one the dialog can show (resolveDesktopAlipayStatus).
TypeOK ==
    /\ h \in [open : BOOLEAN, status : Statuses, payment : Flows \cup {None}, error : BOOLEAN,
              checking : BOOLEAN, flow : 0..MaxFlows, paymentRef : Flows \cup {None},
              active : Flows \cup {None}, queued : Flows \cup {None}, queries : SUBSET Query,
              timer : BOOLEAN, leaked : Nat, stray : Nat, closing : BOOLEAN,
              mounted : BOOLEAN, hidden : BOOLEAN]
    /\ ui \in [open : BOOLEAN, status : Statuses, payment : Flows \cup {None}, checking : BOOLEAN]
    /\ creates \subseteq 1..h.flow
    /\ trade \in [Flows -> Trades]
    /\ expired \subseteq Flows
    /\ flips \in 0..MaxFlips
    /\ fails \in 0..MaxFails

\* The query gate: there is never more than one query in flight, across all
\* flows, and the gate is held exactly by the flow of that query, so it can
\* neither be lost (polling would stop for good) nor be passed twice.
GateSound ==
    /\ \A q1, q2 \in h.queries : q1 = q2
    /\ h.active # None => \E q \in h.queries : q.flow = h.active
    /\ h.queries # {} => h.active # None

\* The outcome the dialog shows is the outcome of the order it shows: the late
\* answer to an order of an earlier flow never reaches the present one.
OutcomeOfTheOrder ==
    /\ h.status = "success" => h.payment # None /\ trade[h.payment] = "TRADE_SUCCESS"
    /\ h.status = "closed" => h.payment # None /\ trade[h.payment] = "TRADE_CLOSED"
    /\ h.status = "expired" => h.payment # None /\ h.payment \in expired

\* A paid order is noticed: polling never dies on the way through hidden tabs, failed
\* queries, the gate and re-run effects, and the dialog that awaits the order stops
\* awaiting, unless the user closes it, leaves the page or hides the tab.
PaidIsNoticed ==
    \A p \in Flows :
        (Polls(ui) /\ ui.payment = p /\ trade[p] = "TRADE_SUCCESS" /\ p \notin expired)
            ~> (~Polls(ui) \/ ui.payment # p \/ h.hidden \/ ~h.mounted \/ p \in expired)

=============================================================================
