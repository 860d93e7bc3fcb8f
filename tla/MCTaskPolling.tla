--------------------------- MODULE MCTaskPolling ---------------------------
(***************************************************************************)
(* Instances of TaskPolling.                                               *)
(***************************************************************************)
EXTENDS TaskPolling

\* One channel of each kind.
AllKinds == <<"suno", "video", "live">>
\* All tasks were charged 2 after a pre-consumption of 1.
QuotaOf == [t \in Tasks |-> 2]
PreOf == [t \in Tasks |-> 1]
=============================================================================
