--------------------------- MODULE MCChannelSelect ---------------------------
(***************************************************************************)
(* Three channels: a alone in the first group, all of them in the second, *)
(* where a has the middle one of three priorities.  The second group has   *)
(* more priorities than a request has attempts, the first one fewer.       *)
(***************************************************************************)
EXTENDS ChannelSelect, TLC

CONSTANTS a, b, c, q1

MCGroupsOf == (a :> {1, 2}) @@ (b :> {2}) @@ (c :> {2})
MCPriority == (a :> 1) @@ (b :> 2) @@ (c :> 0)
=============================================================================
