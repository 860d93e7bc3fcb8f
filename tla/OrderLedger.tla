------------------------------ MODULE OrderLedger ------------------------------
(***************************************************************************)
(* What the handling of payments promises, whatever the number of webhooks,  *)
(* retries, administrators and faults: an order is credited in one step and  *)
(* at most once, or it is closed without a credit and stays closed.          *)
(*                                                                           *)
(* The Waffo failure notice is handled without the lock of the order         *)
(* (controller/topup_waffo.go), so that a notice and a payment handled at    *)
(* the same time may close the order and credit it afterwards: reopenable    *)
(* names those orders, and Reopen is the step.                               *)
(***************************************************************************)
EXTENDS Naturals

CONSTANT Orders

VARIABLES credited,   \* number of credits of each order
          closed,     \* orders that ended without a credit
          reopenable  \* orders whose closing is not synchronised with payment

vars == <<credited, closed, reopenable>>

Init ==
  /\ credited = [o \in Orders |-> 0]
  /\ closed = {}
  /\ reopenable \subseteq Orders

Credit(o) ==
  /\ credited[o] = 0
  /\ o \notin closed
  /\ credited' = [credited EXCEPT ![o] = 1]
  /\ UNCHANGED <<closed, reopenable>>

Close(o) ==
  /\ credited[o] = 0
  /\ closed' = closed \union {o}
  /\ UNCHANGED <<credited, reopenable>>

Reopen(o) ==
  /\ o \in reopenable \intersect closed
  /\ credited' = [credited EXCEPT ![o] = 1]
  /\ closed' = closed \ {o}
  /\ UNCHANGED reopenable

Next == \E o \in Orders : Credit(o) \/ Close(o) \/ Reopen(o)

Spec == Init /\ [][Next]_vars
===============================================================================
