---------------------------- MODULE ChannelSelect ----------------------------
(***************************************************************************)
(* The relay loop and the selection of channels (controller/relay.go,      *)
(* middleware/distributor.go, service/channel_select.go), with the memory  *)
(* cache of channels and the status changes that go on meanwhile           *)
(* (model/channel_cache.go, UpdateChannelStatus in model/channel.go).      *)
(*                                                                         *)
(* One model name and one path; a channel belongs to some groups and has a *)
(* priority.  The draw in one group holds channelSyncLock and is one step, *)
(* and so is each critical section of the cache.  The settings             *)
(* KeepOnChannelDisabled and SwitchOnSuccess are options that may be edited *)
(* at any time: either value may be found at each use.  Left out: weights  *)
(* (any channel of the priority may be drawn), channels with several keys, *)
(* tokens bound to one channel, and the mode without a memory cache.       *)
(***************************************************************************)
EXTENDS Naturals, FiniteSets, FiniteSetsExt

CONSTANTS Channels, Requests,
          NGroups,     \* the auto groups of the user; group 1 is also a token's own group
          GroupsOf,    \* groups of a channel
          Priority,
          RetryTimes,
          MaxEvents,   \* bound on an administrator's changes, tests that enable a channel,
                       \* failing writes of a row and failing reads of the tables, together
          None

Groups == 1..NGroups
Modes == {"single", "auto", "cross"}
Rules == {"none", "retry", "skip"}
Status == {"enabled", "auto", "manual"}
\* What the cache may hold of a channel: its status, or no object at all.
Entries == Status \union {"absent"}
\* The callers of InitChannelCache: SyncChannelCache, and an administrator's request.
Syncers == {"loop", "admin"}
Idle == [at |-> "idle", rows |-> None]
Due == [at |-> "due", rows |-> None]

ASSUME ChannelAssumption ==
    /\ NGroups \in Nat \ {0} /\ RetryTimes \in Nat /\ MaxEvents \in Nat
    /\ GroupsOf \in [Channels -> SUBSET Groups]
    /\ Priority \in [Channels -> Nat]
    /\ None \notin Channels
    /\ IsFiniteSet(Channels)

VARIABLES row,       \* status column of the channels
          cached,    \* Status of the objects in channelsIDM, "absent" without one
          listed,    \* the channels in group2model2channels
          sync,      \* a running InitChannelCache, and the rows it has read
          waiting,   \* UpdateChannelStatus calls at channelStatusLock
          writing,   \* the one that holds it, before its database part
          affinity,  \* channel kept for the session the requests belong to
          req, past, events

cache == <<cached, listed, sync>>
updates == <<waiting, writing>>
vars == <<row, cache, updates, affinity, req, past, events>>

\* A request: what the context and RetryParam hold of it.  "first" is Distribute's own
\* selection, "select" one of getChannel; chosen is the channel Distribute set out with.
Blank(pc, mode, rule) ==
    [pc |-> pc, mode |-> mode, rule |-> rule, skip |-> FALSE, index |-> 1, retry |-> 0,
     reset |-> FALSE, channel |-> None, group |-> 1, chosen |-> None]

\* History of a request, until it ends: its attempts, in all and by group; the groups
\* seen without a channel, the priorities tried, whether the first attempt went to the
\* channel of the session, and whether the list has changed since the group was entered.
NoPast == [count |-> 0, share |-> [g \in Groups |-> 0], dry |-> {}, seen |-> {},
           preferred |-> FALSE, disturbed |-> FALSE]

Started == [s \in Syncers |-> IF s = "loop" THEN Due ELSE Idle]

Init ==
    /\ row = [c \in Channels |-> "enabled"]
    /\ cached = row
    /\ listed = Channels
    /\ sync = Started
    /\ waiting = {}
    /\ writing = None
    /\ affinity \in Channels \union {None}
    /\ req \in [Requests -> {Blank("new", m, u) : m \in Modes, u \in Rules}]
    /\ past = [q \in Requests |-> NoPast]
    /\ events = 0

-----------------------------------------------------------------------------
(* Selection.                                                               *)

Candidates(g) == {c \in listed : g \in GroupsOf[c]}

\* The channels it may return: those of the priority number retry from above,
\* of the lowest one when there are not so many.
GetRandomSatisfiedChannel(g, retry) ==
    LET priorities == {Priority[c] : c \in Candidates(g)}
        level == IF retry >= Cardinality(priorities) THEN Cardinality(priorities) - 1 ELSE retry
    IN {c \in Candidates(g) : Cardinality({p \in priorities : p > Priority[c]}) = level}

\* The history of an attempt at channel c of group g.
Attempt(q, g, c, preferred) ==
    LET p == past[q]
    IN past' = [past EXCEPT ![q] = [p EXCEPT
        !.count = p.count + 1,
        !.share[g] = IF preferred THEN p.share[g] ELSE p.share[g] + 1,
        !.seen = p.seen \union {<<g, Priority[c]>>},
        !.preferred = p.preferred \/ preferred,
        !.disturbed = p.disturbed /\ p.share[g] > 0]]

\* CacheGetRandomSatisfiedChannel takes the auto groups from the index in the context on,
\* a token's own group is its group 1.  Each group is looked at under a lock of its own.
Drawing(q) == req[q].pc \in {"first", "select"} /\ req[q].index <= NGroups

\* Mutant: a group whose retries are used up is not left.
DrawAndStay(q) ==
    LET r == req[q]
        leave == r.mode = "cross" /\ r.retry >= RetryTimes
    IN /\ Drawing(q)
       /\ \E c \in GetRandomSatisfiedChannel(r.index, r.retry) :
            /\ req' = [req EXCEPT ![q] = [r EXCEPT
                   !.pc = "relay", !.channel = c, !.group = r.index,
                   !.chosen = IF r.pc = "first" THEN c ELSE r.chosen,
                   !.retry = IF leave THEN 0 ELSE r.retry,
                   !.reset = leave /\ r.pc = "select"]]
            /\ Attempt(q, r.index, c, FALSE)
       /\ UNCHANGED <<row, cache, updates, affinity, events>>

\* The group has a channel.  With cross-group retry a group that has had all its retries
\* is left: the index moves on and the counter starts again.  The counter of Distribute's
\* selection is its own, so the mark to skip the next increment is lost there.
CacheGetRandomSatisfiedChannel(q) ==
    LET r == req[q]
        leave == r.mode = "cross" /\ r.retry >= RetryTimes
    IN /\ Drawing(q)
       /\ \E c \in GetRandomSatisfiedChannel(r.index, r.retry) :
            /\ req' = [req EXCEPT ![q] = [r EXCEPT
                   !.pc = "relay", !.channel = c, !.group = r.index,
                   !.chosen = IF r.pc = "first" THEN c ELSE r.chosen,
                   !.index = IF leave THEN r.index + 1 ELSE r.index,
                   !.retry = IF leave THEN 0 ELSE r.retry,
                   !.reset = leave /\ r.pc = "select"]]
            /\ Attempt(q, r.index, c, FALSE)
       /\ UNCHANGED <<row, cache, updates, affinity, events>>

\* Mutant: the counter is carried over to the next group.
PassGroupKeepsRetry(q) ==
    LET r == req[q]
    IN /\ Drawing(q) /\ r.mode # "single" /\ Candidates(r.index) = {}
       /\ req' = [req EXCEPT ![q] = [r EXCEPT !.index = r.index + 1]]
       /\ past' = [past EXCEPT ![q] = [past[q] EXCEPT !.dry = past[q].dry \union {r.index}]]
       /\ UNCHANGED <<row, cache, updates, affinity, events>>

\* An auto group without a channel is passed over, and the counter starts again.
PassGroup(q) ==
    LET r == req[q]
    IN /\ Drawing(q) /\ r.mode # "single" /\ Candidates(r.index) = {}
       /\ req' = [req EXCEPT ![q] = [r EXCEPT !.index = r.index + 1, !.retry = 0]]
       /\ past' = [past EXCEPT ![q] = [past[q] EXCEPT !.dry = past[q].dry \union {r.index}]]
       /\ UNCHANGED <<row, cache, updates, affinity, events>>

-----------------------------------------------------------------------------
(* A request.                                                               *)

\* Nothing is kept of a request that has ended.
End(q) ==
    /\ req' = [req EXCEPT ![q] = Blank("done", "single", "none")]
    /\ past' = [past EXCEPT ![q] = NoPast]

\* The groups in which Distribute looks for the preferred channel.
PreferredGroups(q) ==
    {g \in Groups : (req[q].mode = "single" => g = 1) /\ affinity \in Candidates(g)}

AffinityUsable(q) ==
    /\ req[q].rule # "none" /\ affinity # None
    /\ cached[affinity] = "enabled"
    /\ PreferredGroups(q) # {}

\* Distribute, with the channel of the session.
DistributePreferred(q) ==
    LET g == Min(PreferredGroups(q))
    IN /\ req[q].pc = "new" /\ AffinityUsable(q)
       /\ req' = [req EXCEPT ![q] = [@ EXCEPT !.pc = "relay", !.skip = (req[q].rule = "skip"),
                                              !.channel = affinity, !.chosen = affinity, !.group = g]]
       /\ Attempt(q, g, affinity, TRUE)
       /\ UNCHANGED <<row, cache, updates, affinity, events>>

\* Distribute without one.  A channel that is no longer usable is forgotten, unless
\* KeepOnChannelDisabled is set; the rule of the session decides about retries only
\* if it was not.
Distribute(q) ==
    /\ req[q].pc = "new" /\ ~AffinityUsable(q)
    /\ \E keep \in BOOLEAN :
         LET forget == req[q].rule # "none" /\ affinity # None /\ ~keep
         IN /\ affinity' = IF forget THEN None ELSE affinity
            /\ req' = [req EXCEPT ![q] = [@ EXCEPT !.pc = "first", !.skip = (req[q].rule = "skip" /\ ~forget)]]
    /\ UNCHANGED <<row, cache, updates, past, events>>

\* No group is left, or the token's own group has no channel.
NoChannel(q) ==
    /\ req[q].pc \in {"first", "select"}
    /\ \/ req[q].index > NGroups
       \/ req[q].mode = "single" /\ Candidates(req[q].index) = {}
    /\ End(q)
    /\ UNCHANGED <<row, cache, updates, affinity, events>>

\* The helper succeeds, and Distribute keeps a channel for the session: the one that
\* answered with SwitchOnSuccess, otherwise the one it had chosen itself.
RelaySucceeds(q) ==
    /\ req[q].pc = "relay"
    /\ affinity' \in IF req[q].rule = "none" THEN {affinity} ELSE {req[q].channel, req[q].chosen}
    /\ End(q)
    /\ UNCHANGED <<row, cache, updates, events>>

\* What a failed attempt reports: an error of the channel, which is retried whatever
\* counters say; a status that is retried as long as retries are left; one that is not
\* retried; an error made in the gateway that says so itself.
Errors == {"channel", "status", "final", "skip"}

shouldRetry(q, error) ==
    /\ ~req[q].skip
    /\ error \notin {"final", "skip"}
    /\ error = "channel" \/ RetryTimes > req[q].retry

\* Mutant: the loop runs once more.
IncreaseRetryOnceMore(q) ==
    LET retry == IF req[q].reset THEN req[q].retry ELSE req[q].retry + 1
    IN IF retry <= RetryTimes + 1
       THEN /\ req' = [req EXCEPT ![q] = [@ EXCEPT !.pc = "select", !.retry = retry, !.reset = FALSE,
                                                   !.channel = None]]
            /\ UNCHANGED past
       ELSE End(q)

\* IncreaseRetry and the condition of the loop.
IncreaseRetry(q) ==
    LET retry == IF req[q].reset THEN req[q].retry ELSE req[q].retry + 1
    IN IF retry <= RetryTimes
       THEN /\ req' = [req EXCEPT ![q] = [@ EXCEPT !.pc = "select", !.retry = retry, !.reset = FALSE,
                                                   !.channel = None]]
            /\ UNCHANGED past
       ELSE End(q)

\* The helper fails: processChannelError may start DisableChannel, then the loop
\* goes on or ends.
RelayFails(q, error) ==
    /\ req[q].pc = "relay"
    /\ waiting' \in {waiting} \union (IF error = "skip" THEN {} ELSE {waiting \union {<<req[q].channel, "auto">>}})
    /\ IF shouldRetry(q, error) THEN IncreaseRetry(q) ELSE End(q)
    /\ UNCHANGED <<row, cache, writing, affinity, events>>

-----------------------------------------------------------------------------
(* The cache and the status of channels.                                    *)

List(channels) ==
    /\ listed' = channels
    /\ past' = IF channels = listed THEN past
               ELSE [q \in Requests |-> IF req[q].pc \in {"relay", "select"} THEN [past[q] EXCEPT !.disturbed = TRUE]
                                 ELSE past[q]]

\* UpdateChannelStatus under channelStatusLock, its first part: the cache; a channel
\* that is not there is given up.  An enabled channel is not listed again before the
\* next InitChannelCache.
UpdateChannelStatus(c, status) ==
    /\ writing = None /\ <<c, status>> \in waiting
    /\ waiting' = waiting \ {<<c, status>>}
    /\ IF cached[c] \in {status, "absent"}
       THEN UNCHANGED <<cached, listed, past, writing>>
       ELSE /\ cached' = [cached EXCEPT ![c] = status]
            /\ List(IF status = "enabled" THEN listed ELSE listed \ {c})
            /\ writing' = <<c, status>>
    /\ UNCHANGED <<row, sync, affinity, req, events>>

\* Its second part: the row, when it has another status; the write may fail.
SaveChannelStatus ==
    /\ writing # None
    /\ \/ /\ row' = [row EXCEPT ![writing[1]] = writing[2]]
          /\ UNCHANGED events
       \/ /\ events < MaxEvents
          /\ events' = events + 1
          /\ UNCHANGED row
    /\ writing' = None
    /\ UNCHANGED <<cache, waiting, affinity, req, past>>

\* A test of an automatically disabled channel succeeds: EnableChannel.
EnableChannel(c) ==
    /\ events < MaxEvents /\ row[c] = "auto"
    /\ events' = events + 1
    /\ waiting' = waiting \union {<<c, "enabled">>}
    /\ UNCHANGED <<row, cache, writing, affinity, req, past>>

\* The administrator changes the row; an InitChannelCache is to follow.
AdminSets(c, status) ==
    /\ events < MaxEvents /\ sync["admin"] = Idle /\ row[c] # status
    /\ events' = events + 1
    /\ row' = [row EXCEPT ![c] = status]
    /\ sync' = [sync EXCEPT !["admin"] = Due]
    /\ UNCHANGED <<cached, listed, updates, affinity, req, past>>

\* InitChannelCache reads the rows.
ReadChannels(s) ==
    /\ sync[s] = Due
    /\ sync' = [sync EXCEPT ![s] = [at |-> "read", rows |-> row]]
    /\ UNCHANGED <<row, cached, listed, updates, affinity, req, past, events>>

\* The read of the channels fails; the error is ignored, and it goes on with no row.
ReadChannelsFails(s) ==
    /\ sync[s] = Due /\ events < MaxEvents
    /\ events' = events + 1
    /\ sync' = [sync EXCEPT ![s] = [at |-> "read", rows |-> [c \in Channels |-> "absent"]]]
    /\ UNCHANGED <<row, cached, listed, updates, affinity, req, past>>

\* The node stops and starts again: it loads the cache; running requests are lost, and
\* the channel of the session where it was kept in memory.
Restart ==
    /\ cached' = row
    /\ listed' = {c \in Channels : row[c] = "enabled"}
    /\ sync' = Started
    /\ waiting' = {} /\ writing' = None
    /\ affinity' \in {affinity, None}
    /\ req' = [q \in Requests |-> IF req[q].pc = "new" THEN req[q] ELSE Blank("done", "single", "none")]
    /\ past' = [q \in Requests |-> NoPast]

\* The read of the abilities fails: there is no map for the group of an enabled channel,
\* and its entry is written to a nil map.  An administrator's request recovers from the
\* panic; in the goroutine of SyncChannelCache it ends the process.
ReadAbilitiesFails(s) ==
    /\ sync[s] = Due /\ events < MaxEvents
    /\ \E c \in Channels : row[c] = "enabled"
    /\ events' = events + 1
    /\ IF s = "loop"
       THEN Restart
       ELSE /\ sync' = [sync EXCEPT ![s] = Idle]
            /\ UNCHANGED <<cached, listed, updates, affinity, req, past>>
    /\ UNCHANGED row

\* Mutant: what was listed stays listed.
SwapKeepsListed(s) ==
    /\ sync[s].at = "read"
    /\ cached' = sync[s].rows
    /\ List(listed \union {c \in Channels : sync[s].rows[c] = "enabled"})
    /\ sync' = [sync EXCEPT ![s] = IF s = "loop" THEN Due ELSE Idle]
    /\ UNCHANGED <<row, updates, affinity, req, events>>

\* InitChannelCache replaces the maps, whatever happened since it read the rows;
\* SyncChannelCache calls it again.
InitChannelCache(s) ==
    /\ sync[s].at = "read"
    /\ cached' = sync[s].rows
    /\ List({c \in Channels : sync[s].rows[c] = "enabled"})
    /\ sync' = [sync EXCEPT ![s] = IF s = "loop" THEN Due ELSE Idle]
    /\ UNCHANGED <<row, updates, affinity, req, events>>

Request(q) ==
    \/ DistributePreferred(q) \/ Distribute(q)
    \/ CacheGetRandomSatisfiedChannel(q) \/ PassGroup(q) \/ NoChannel(q)
    \/ RelaySucceeds(q)
    \/ \E error \in Errors : RelayFails(q, error)

Next ==
    \/ \E q \in Requests : Request(q)
    \/ \E c \in Channels : \/ \E s \in {"enabled", "auto"} : UpdateChannelStatus(c, s)
                           \/ EnableChannel(c)
                           \/ \E s \in {"enabled", "manual"} : AdminSets(c, s)
    \/ SaveChannelStatus
    \/ \E s \in Syncers : \/ ReadChannels(s) \/ InitChannelCache(s)
                          \/ ReadChannelsFails(s) \/ ReadAbilitiesFails(s)

Spec == Init /\ [][Next]_vars

\* SyncChannelCache runs every SYNC_FREQUENCY seconds.
Fairness == WF_vars(ReadChannels("loop")) /\ WF_vars(InitChannelCache("loop"))

FairSpec == Spec /\ Fairness

-----------------------------------------------------------------------------
(* Properties.                                                              *)

Counters == [count : Nat, share : [Groups -> Nat], dry : SUBSET Groups,
             seen : SUBSET (Groups \X Nat), preferred : BOOLEAN, disturbed : BOOLEAN]

\* Types; the retry counter of a request that goes on stays within RetryTimes, and the
\* group index at most one behind the last group.
TypeOK ==
    /\ row \in [Channels -> Status] /\ cached \in [Channels -> Entries]
    /\ listed \subseteq Channels
    /\ \A s \in Syncers : sync[s] \in {Idle, Due} \union [at : {"read"}, rows : [Channels -> Entries]]
    /\ waiting \subseteq Channels \X Status
    /\ writing = None \/ writing \in Channels \X Status
    /\ affinity \in Channels \union {None}
    /\ req \in [Requests -> [pc : {"new", "first", "relay", "select", "done"}, mode : Modes, rule : Rules,
                             skip : BOOLEAN, index : 1..(NGroups + 1), retry : 0..(RetryTimes + 1),
                             reset : BOOLEAN, channel : Channels \union {None}, group : Groups,
                             chosen : Channels \union {None}]]
    /\ \A q \in Requests : req[q].pc \in {"first", "select", "relay"} => req[q].retry <= RetryTimes
    /\ past \in [Requests -> Counters]
    /\ events \in 0..MaxEvents

\* No group gets more than RetryTimes + 1 attempts of a request, although the counter the
\* loop runs on is set back while it runs (service/channel_select.go:129, 148) and channels
\* come and go.  Counted are the channels selected in the group; the attempt at a session's
\* preferred channel counts for the first group, wherever that channel is, so that a later
\* group that holds it may see one attempt more.  In all there are not more attempts than
\* that for every group.
AttemptsBounded ==
    \A q \in Requests :
        /\ \A g \in Groups :
             past[q].share[g] + (IF past[q].preferred /\ g = 1 THEN 1 ELSE 0) <= RetryTimes + 1
        /\ past[q].count <= (RetryTimes + 1) * (IF req[q].mode = "single" THEN 1 ELSE NGroups)

\* No group before the present one was passed over while it had a channel, unless, with
\* cross-group retry, it got all its attempts; and while the list of channels stands
\* still, a lower priority is used only after every higher one of the group was tried,
\* although the counter that selects the priority is also the one that ends the loop.
\* (The attempt at a session's preferred channel counts as the first one of the first
\* group, wherever that channel is: the highest priority of that group is not tried.)
NothingSkipped ==
    \A q \in Requests : req[q].pc = "relay" /\ past[q].share[req[q].group] > 0 =>
        /\ \A g \in Groups : g < req[q].group =>
             \/ g \in past[q].dry
             \/ req[q].mode = "cross"
                /\ past[q].share[g] + (IF past[q].preferred /\ g = 1 THEN 1 ELSE 0) >= RetryTimes + 1
        /\ ~past[q].disturbed /\ (past[q].preferred => req[q].group # 1) =>
             \A c \in Candidates(req[q].group) :
                Priority[c] > Priority[req[q].channel] => <<req[q].group, Priority[c]>> \in past[q].seen

\* What the rows say in the end is what is selected from: a channel whose row stays
\* disabled disappears from the list for good, although an InitChannelCache that read
\* the row earlier may list it again after it was removed (model/channel_cache.go:79), and
\* one whose row stays enabled is on it for good, although a failed read may empty the
\* cache (model/channel_cache.go:33), a panic end the process that reloads it
\* (model/channel_cache.go:61), and a failed write remove a channel whose row stays
\* enabled (model/channel.go:770).
ListFollowsRows ==
    \A c \in Channels : /\ (<>[](row[c] # "enabled")) => <>[](c \notin listed)
                        /\ (<>[](row[c] = "enabled")) => <>[](c \in listed)
=============================================================================
