-------------------------- MODULE MCBillingSession --------------------------
(***************************************************************************)
(* Instances of BillingSession.                                            *)
(***************************************************************************)
EXTENDS BillingSession, TLC

Perms == Permutations(Requests)

\* amount_total of one limited subscription, and of a limited one followed by
\* an unlimited one.
OneSub == <<4>>
TwoSubs == <<2, 0>>
=============================================================================
