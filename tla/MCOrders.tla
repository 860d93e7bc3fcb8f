------------------------------- MODULE MCOrders -------------------------------
EXTENDS Orders, TLC

CONSTANTS o1, n1, n2

\* One order of any kind; one Waffo top-up.
AnyOrder == o1 :> Kinds
WaffoOrder == o1 :> {"waffo"}

\* Each database once; two nodes where the key of top_ups matters.
EachDatabase == {<<"sqlite", {n1}>>, <<"mysql", {n1, n2}>>, <<"postgres", {n1}>>}
TwoNodes == {<<"mysql", {n1, n2}>>}
===============================================================================
