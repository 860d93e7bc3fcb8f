------------------------- MODULE ChannelSelectProofs -------------------------
(***************************************************************************)
(* Proofs about ChannelSelect: the types, the bound on the attempts of a   *)
(* request and that no group and no priority is skipped, for any number of *)
(* channels, requests, groups and retries, any groups and priorities of    *)
(* the channels, and any changes of the list while the requests run.       *)
(***************************************************************************)
EXTENDS ChannelSelect, FiniteSetTheorems, TLAPS

\* The attempts a group has had; the one at a session's channel counts for the first.
Credit(p, g) == p.share[g] + (IF p.preferred /\ g = 1 THEN 1 ELSE 0)

\* The groups below n were without a channel, or have had all their attempts.
Passed(r, p, n) ==
    \A g \in Groups : g < n =>
        g \in p.dry \/ (r.mode = "cross" /\ Credit(p, g) >= RetryTimes + 1)

\* The list stood still since group g was entered, and g was entered by a selection.
Settled(p, g) == ~p.disturbed /\ (p.preferred => g # 1)

Priorities(g) == {Priority[c] : c \in Candidates(g)}
Above(x, g) == {y \in Priorities(g) : y > x}
Level(x, g) == Cardinality(Above(x, g))

\* The n highest priorities of group g were tried.
Tried(p, g, n) ==
    \A c \in Candidates(g) : Level(Priority[c], g) < n => <<g, Priority[c]>> \in p.seen

TriedAbove(p, g, x) ==
    \A c \in Candidates(g) : Priority[c] > x => <<g, Priority[c]>> \in p.seen

Cap(r) == (RetryTimes + 1) * (IF r.mode = "single" THEN 1 ELSE NGroups)

\* Before the first attempt and after the end.
Resting(r, p) == p = NoPast /\ r.index = 1 /\ r.retry = 0 /\ ~r.reset

\* The attempts made when n of them were made in group i: none in a later group.
Spent(p, i, n) ==
    /\ p.count <= (i - 1) * (RetryTimes + 1) + n
    /\ \A g \in Groups : /\ g > i => Credit(p, g) = 0
                         /\ g = i => Credit(p, g) = n

\* At a selection: the groups below index are done with, the counter is the number of
\* attempts in group index and of priorities tried there.
Selecting(r, p) ==
    /\ ~r.reset /\ r.retry <= RetryTimes
    /\ Spent(p, r.index, r.retry)
    /\ Passed(r, p, r.index)
    /\ r.index \in Groups /\ r.retry > 0 /\ Settled(p, r.index) => Tried(p, r.index, r.retry)

\* At the channel of the session.
AtPreferred(r, p) ==
    /\ p.preferred /\ p.count = 1 /\ \A g \in Groups : p.share[g] = 0
    /\ r.index = 1 /\ r.retry = 0 /\ ~r.reset

\* At a selected channel: the group goes on, or it has had all its attempts.
GoesOn(r, p) ==
    /\ r.index = r.group /\ ~r.reset
    /\ Spent(p, r.group, r.retry + 1)
    /\ Settled(p, r.group) => Tried(p, r.group, r.retry + 1)

UsedUp(r, p) ==
    /\ r.index = r.group + 1 /\ r.retry = 0 /\ (r.reset \/ RetryTimes = 0)
    /\ r.mode = "cross" /\ Spent(p, r.index, 0)
    /\ Credit(p, r.group) >= RetryTimes + 1

AtSelected(r, p) ==
    /\ Passed(r, p, r.group)
    /\ Settled(p, r.group) => TriedAbove(p, r.group, Priority[r.channel])
    /\ GoesOn(r, p) \/ UsedUp(r, p)

Relaying(r, p) ==
    /\ r.channel \in Channels /\ r.retry <= RetryTimes
    /\ AtPreferred(r, p) \/ AtSelected(r, p)

\* No more attempts than there may be, in a group and in all.
Within(r, p) ==
    /\ p.count <= Cap(r)
    /\ \A g \in Groups : Credit(p, g) <= RetryTimes + 1

Fit(r, p) ==
    /\ Within(r, p)
    /\ r.mode = "single" => r.index = 1 /\ r.group = 1
    /\ r.pc \in {"new", "done"} => Resting(r, p)
    /\ r.pc = "first" => r.retry = 0
    /\ r.pc \in {"first", "select"} => Selecting(r, p)
    /\ r.pc = "relay" => Relaying(r, p)

RequestRecord ==
    [pc : {"new", "first", "relay", "select", "done"}, mode : Modes, rule : Rules,
     skip : BOOLEAN, index : 1..(NGroups + 1), retry : 0..(RetryTimes + 1),
     reset : BOOLEAN, channel : Channels \union {None}, group : Groups,
     chosen : Channels \union {None}]

SyncStates == {Idle, Due} \union [at : {"read"}, rows : [Channels -> Entries]]

\* The inductive invariant.
Types ==
    /\ row \in [Channels -> Status] /\ cached \in [Channels -> Entries]
    /\ listed \subseteq Channels
    /\ sync \in [Syncers -> SyncStates]
    /\ waiting \subseteq Channels \X Status
    /\ writing = None \/ writing \in Channels \X Status
    /\ affinity \in Channels \union {None}
    /\ req \in [Requests -> RequestRecord]
    /\ past \in [Requests -> Counters]
    /\ events \in 0..MaxEvents

Fits == \A q \in Requests : Fit(req[q], past[q])

IInv == Types /\ Fits

-----------------------------------------------------------------------------
(* Priorities and their levels.                                             *)

LEMMA CandidateFacts ==
    ASSUME listed \subseteq Channels, NEW g
    PROVE  /\ Candidates(g) \subseteq Channels /\ IsFiniteSet(Candidates(g))
           /\ Priorities(g) \subseteq Nat /\ IsFiniteSet(Priorities(g))
<1>1. Candidates(g) \subseteq Channels /\ Candidates(g) \in SUBSET Channels
    BY DEF Candidates
<1>2. IsFiniteSet(Candidates(g))
    BY <1>1, ChannelAssumption, FS_Subset
<1>3. Priorities(g) \subseteq Nat
    BY <1>1, ChannelAssumption DEF Priorities
<1>4. PICK f : f = [c \in Candidates(g) |-> Priority[c]]
    OBVIOUS
<1>5. f \in Surjection(Candidates(g), Priorities(g))
    BY <1>4 DEF Surjection, Priorities
<1>6. IsFiniteSet(Priorities(g))
    BY <1>2, <1>5, FS_Surjection
<1> QED
    BY <1>1, <1>2, <1>3, <1>6

\* A priority has fewer priorities above it than there are, and a higher one fewer still.
LEMMA LevelFacts ==
    ASSUME listed \subseteq Channels, NEW g, NEW x \in Priorities(g)
    PROVE  /\ Level(x, g) \in Nat /\ Cardinality(Priorities(g)) \in Nat
           /\ Level(x, g) < Cardinality(Priorities(g))
           /\ \A y \in Priorities(g) : y > x => Level(y, g) < Level(x, g)
<1> DEFINE P == Priorities(g)
<1>1. IsFiniteSet(P) /\ P \subseteq Nat /\ Cardinality(P) \in Nat
    BY CandidateFacts, FS_CardinalityType
<1>2. /\ Above(x, g) \in SUBSET P /\ x \notin Above(x, g)
    BY <1>1 DEF Above
<1>3. IsFiniteSet(Above(x, g)) /\ Level(x, g) \in Nat
    BY <1>1, <1>2, FS_Subset, FS_CardinalityType DEF Level
<1>4. Level(x, g) <= Cardinality(P) /\ Level(x, g) # Cardinality(P)
    BY <1>1, <1>2, FS_Subset DEF Level
<1>5. ASSUME NEW y \in P, y > x
      PROVE  Level(y, g) < Level(x, g)
    <2>1. Above(y, g) \in SUBSET Above(x, g) /\ y \in Above(x, g) /\ y \notin Above(y, g)
        BY <1>1, <1>5 DEF Above
    <2>2. Level(y, g) <= Level(x, g) /\ Level(y, g) # Level(x, g)
        BY <1>3, <2>1, FS_Subset DEF Level
    <2>3. IsFiniteSet(Above(y, g)) /\ Level(y, g) \in Nat
        BY <1>3, <2>1, FS_Subset, FS_CardinalityType DEF Level
    <2> QED
        BY <1>3, <2>2, <2>3
<1> QED
    BY <1>1, <1>3, <1>4, <1>5

\* What getRandomSatisfiedChannel draws: of the priorities up to number retry, those
\* above it are of a smaller number, and the one of that number is its own.
LEMMA DrawnFacts ==
    ASSUME listed \subseteq Channels, NEW g, NEW retry \in Nat,
           NEW c \in GetRandomSatisfiedChannel(g, retry)
    PROVE  /\ c \in Candidates(g)
           /\ \A d \in Candidates(g) : Priority[d] > Priority[c] => Level(Priority[d], g) < retry
           /\ \A d \in Candidates(g) : Level(Priority[d], g) < retry + 1 =>
                Level(Priority[d], g) < retry \/ Priority[d] = Priority[c]
<1> DEFINE n == Cardinality(Priorities(g))
<1>1. c \in Candidates(g)
      /\ Level(Priority[c], g) = IF retry >= n THEN n - 1 ELSE retry
    BY Zenon DEF GetRandomSatisfiedChannel, Level, Above, Priorities
<1>2. \A d \in Candidates(g) : Priority[d] \in Priorities(g)
    BY DEF Priorities
<1>3. Priorities(g) \subseteq Nat
    BY CandidateFacts
<1>4. n \in Nat /\ \A d \in Candidates(g) : Level(Priority[d], g) \in Nat /\ Level(Priority[d], g) < n
    BY <1>1, <1>2, LevelFacts
<1>5. ASSUME NEW d \in Candidates(g), NEW e \in Candidates(g), Priority[d] > Priority[e]
      PROVE  Level(Priority[d], g) < Level(Priority[e], g)
    BY <1>2, <1>5, LevelFacts
<1> HIDE DEF n
<1>6. Level(Priority[c], g) <= retry
    BY <1>1, <1>4
<1>7. ASSUME NEW d \in Candidates(g), Level(Priority[d], g) = retry
      PROVE  Priority[d] = Priority[c]
    <2>1. Level(Priority[c], g) = retry
        BY <1>1, <1>4, <1>7
    <2>2. ~(Priority[d] > Priority[c]) /\ ~(Priority[c] > Priority[d])
        BY <1>1, <1>4, <1>5, <1>7, <2>1
    <2> QED
        BY <1>1, <1>2, <1>3, <2>2
<1>8. ASSUME NEW d \in Candidates(g), Priority[d] > Priority[c]
      PROVE  Level(Priority[d], g) < retry
    BY <1>1, <1>4, <1>5, <1>6, <1>8
<1>9. ASSUME NEW d \in Candidates(g), Level(Priority[d], g) < retry + 1
      PROVE  Level(Priority[d], g) < retry \/ Priority[d] = Priority[c]
    BY <1>4, <1>7, <1>9
<1> QED
    BY <1>1, <1>8, <1>9

-----------------------------------------------------------------------------
(* Selection.                                                               *)

LEMMA MinFacts ==
    ASSUME NEW S, S \subseteq Nat, S # {}
    PROVE  Min(S) \in S /\ \A y \in S : Min(S) <= y
<1> DEFINE R == OpToRel(<, Nat)
<1>1. IsWellFoundedOn(R, Nat)
    BY NatLessThanWellFounded, Zenon
<1>2. \A x, y \in Nat : x < y => <<x, y>> \in R
    BY DEF OpToRel
<1> HIDE DEF R
<1>3. PICK x \in S : \A y \in S : ~(<<y, x>> \in R)
    BY <1>1, WFMin
<1>4. ASSUME NEW y \in S PROVE x <= y
    <2>1. x \in Nat /\ y \in Nat
        OBVIOUS
    <2>2. ~(y < x)
        BY <1>2, <1>3, <2>1, Zenon
    <2> QED
        BY <2>1, <2>2
<1>5. \E z \in S : \A y \in S : z =< y
    BY <1>4
<1> QED
    BY <1>5, Zenon DEF Min

-----------------------------------------------------------------------------
(* The history of an attempt.                                               *)

\* p2 is p after an attempt at channel c of group g.
Tallied(p, p2, g, c, preferred) ==
    /\ p2.count = p.count + 1
    /\ p2.share[g] = p.share[g] + (IF preferred THEN 0 ELSE 1)
    /\ \A h \in Groups : h # g => p2.share[h] = p.share[h]
    /\ p2.dry = p.dry
    /\ p2.seen = p.seen \union {<<g, Priority[c]>>}
    /\ p2.preferred <=> (p.preferred \/ preferred)
    /\ p2.disturbed <=> (p.disturbed /\ p.share[g] > 0)

LEMMA AttemptFacts ==
    ASSUME past \in [Requests -> Counters], NEW q \in Requests, NEW g \in Groups,
           NEW c \in Channels, NEW preferred \in BOOLEAN, Attempt(q, g, c, preferred)
    PROVE  /\ past' \in [Requests -> Counters]
           /\ Tallied(past[q], past'[q], g, c, preferred)
           /\ \A u \in Requests : u # q => past'[u] = past[u]
<1> DEFINE p == past[q]
<1>1. p \in Counters
    OBVIOUS
<1>2. PICK n, k, S, b, d :
        /\ n = p.count + 1
        /\ k = IF preferred THEN p.share[g] ELSE p.share[g] + 1
        /\ S = p.seen \union {<<g, Priority[c]>>}
        /\ b = (p.preferred \/ preferred)
        /\ d = (p.disturbed /\ p.share[g] > 0)
    OBVIOUS
<1>3. n \in Nat /\ k \in Nat /\ k = p.share[g] + (IF preferred THEN 0 ELSE 1)
    BY <1>1, <1>2 DEF Counters
<1>4. S \in SUBSET (Groups \X Nat)
    BY <1>1, <1>2, ChannelAssumption DEF Counters
<1>5. b \in BOOLEAN /\ d \in BOOLEAN
    BY <1>2
<1>6. PICK p2 : p2 = [p EXCEPT !.count = n, !.share[g] = k, !.seen = S,
                               !.preferred = b, !.disturbed = d]
    OBVIOUS
<1>7. past' = [past EXCEPT ![q] = p2]
    BY <1>2, <1>6, Zenon DEF Attempt
<1>8. PICK f : f = [p.share EXCEPT ![g] = k]
    OBVIOUS
<1>9. p2 = [p EXCEPT !.count = n, !.share = f, !.seen = S, !.preferred = b, !.disturbed = d]
    BY <1>6, <1>8, Zenon
<1>10. f \in [Groups -> Nat] /\ f[g] = k /\ \A h \in Groups : h # g => f[h] = p.share[h]
    BY <1>1, <1>3, <1>8 DEF Counters
<1>11. /\ p2 \in Counters /\ p2.count = n /\ p2.share = f /\ p2.dry = p.dry /\ p2.seen = S
       /\ p2.preferred = b /\ p2.disturbed = d
    BY <1>1, <1>3, <1>4, <1>5, <1>9, <1>10 DEF Counters
<1>12. Tallied(p, p2, g, c, preferred)
    BY <1>2, <1>3, <1>10, <1>11 DEF Tallied
<1>13. past'[q] = p2
    BY <1>7
<1> QED
    BY <1>7, <1>11, <1>12, <1>13

-----------------------------------------------------------------------------
(* Records of requests.                                                     *)

LEMMA ProductFacts ==
    ASSUME NEW a \in Nat, NEW b \in Nat, NEW k \in Nat, a < b
    PROVE  /\ a * k \in Nat /\ b * k \in Nat
           /\ a * k + k <= b * k /\ (a + 1) * k = a * k + k
OBVIOUS

LEMMA RequestTypes ==
    ASSUME NEW r \in RequestRecord
    PROVE  /\ r.index \in Nat /\ r.index >= 1 /\ r.retry \in Nat /\ r.group \in Nat /\ r.group >= 1
           /\ r.index <= NGroups + 1 /\ r.group <= NGroups
           /\ RetryTimes \in Nat /\ NGroups \in Nat /\ NGroups >= 1
           /\ 1 \in Groups /\ Groups \subseteq Nat
BY ChannelAssumption DEF RequestRecord, Groups

LEMMA CreditType ==
    ASSUME NEW p \in Counters, NEW g \in Groups
    PROVE  /\ p.share[g] \in Nat /\ p.count \in Nat
           /\ Credit(p, g) \in Nat /\ Credit(p, g) >= p.share[g]
<1>1. p.share[g] \in Nat /\ p.count \in Nat
    BY DEF Counters
<1> QED
    BY <1>1 DEF Credit

LEMMA TriedNone ==
    ASSUME listed \subseteq Channels, NEW p, NEW g
    PROVE  Tried(p, g, 0)
<1>1. ASSUME NEW c \in Candidates(g)
      PROVE  ~(Level(Priority[c], g) < 0)
    <2>1. Priority[c] \in Priorities(g)
        BY DEF Priorities
    <2> QED
        BY <2>1, LevelFacts
<1> QED
    BY <1>1 DEF Tried

\* The draw of channel c, by a request that is fit to select, leaves one that is fit to relay.
LEMMA DrawnFit ==
    ASSUME listed \subseteq Channels, NEW r \in RequestRecord, NEW p \in Counters,
           NEW p2 \in Counters, NEW c, NEW r2 \in RequestRecord, NEW leave \in BOOLEAN,
           Fit(r, p), r.pc \in {"first", "select"}, r.index <= NGroups,
           c \in GetRandomSatisfiedChannel(r.index, r.retry), Tallied(p, p2, r.index, c, FALSE),
           leave <=> (r.mode = "cross" /\ r.retry >= RetryTimes),
           r2.pc = "relay", r2.mode = r.mode, r2.channel = c, r2.group = r.index,
           r2.index = IF leave THEN r.index + 1 ELSE r.index,
           r2.retry = IF leave THEN 0 ELSE r.retry,
           r2.reset <=> (leave /\ r.pc = "select")
    PROVE  Fit(r2, p2)
<1> DEFINE K == RetryTimes + 1
<1>0. PICK G, n : G = r.index /\ n = r.retry
    OBVIOUS
<1>1. /\ RetryTimes \in Nat /\ NGroups \in Nat /\ K \in Nat /\ n \in Nat /\ n <= RetryTimes
      /\ G \in Groups /\ G \in Nat /\ G >= 1 /\ G <= NGroups /\ Groups \subseteq Nat
      /\ Selecting(r, p) /\ Within(r, p)
    BY <1>0, RequestTypes DEF Fit, Selecting, Groups
<1>2. /\ c \in Candidates(G)
      /\ \A d \in Candidates(G) : Priority[d] > Priority[c] => Level(Priority[d], G) < n
      /\ \A d \in Candidates(G) : Level(Priority[d], G) < n + 1 =>
                Level(Priority[d], G) < n \/ Priority[d] = Priority[c]
    BY <1>0, <1>1, DrawnFacts
<1>3. c \in Channels
    BY <1>2, CandidateFacts
<1>4. /\ \A g \in Groups : p.share[g] \in Nat /\ p2.share[g] \in Nat
      /\ p.count \in Nat /\ p2.count = p.count + 1 /\ (p2.preferred <=> p.preferred)
      /\ p2.share[G] = p.share[G] + 1
    BY <1>0, <1>1, CreditType DEF Tallied
<1>5. /\ \A g \in Groups : g # G => Credit(p2, g) = Credit(p, g)
      /\ Credit(p2, G) = Credit(p, G) + 1
    BY <1>0, <1>1, <1>4 DEF Tallied, Credit
<1>6. Spent(p2, G, n + 1) /\ Credit(p2, G) = n + 1
    <2>1. Spent(p, G, n) /\ Credit(p, G) = n
        BY <1>0, <1>1 DEF Selecting, Spent
    <2>2. (G - 1) * K \in Int
        BY <1>1
    <2>3. p2.count <= (G - 1) * K + (n + 1)
        BY <1>1, <1>4, <2>1, <2>2 DEF Spent
    <2>4. ASSUME NEW g \in Groups, g > G PROVE Credit(p2, g) = 0
        BY <1>1, <1>5, <2>1, <2>4 DEF Spent
    <2> QED
        BY <1>5, <2>1, <2>3, <2>4 DEF Spent
<1>7. Passed(r2, p2, G)
    <2> SUFFICES ASSUME NEW g \in Groups, g < G
                 PROVE  g \in p2.dry \/ (r.mode = "cross" /\ Credit(p2, g) >= RetryTimes + 1)
        BY DEF Passed
    <2>1. g \in p.dry \/ (r.mode = "cross" /\ Credit(p, g) >= RetryTimes + 1)
        BY <1>0, <1>1 DEF Selecting, Passed
    <2> QED
        BY <1>1, <1>5, <2>1 DEF Tallied
<1>8. p2.count <= G * K /\ G * K <= NGroups * K /\ G * K \in Nat /\ NGroups * K \in Nat
      /\ G * K = (G - 1) * K + K
    <2>1. (G - 1) * K \in Nat /\ G * K = (G - 1) * K + K
        BY <1>1
    <2>2. G * K <= NGroups * K /\ NGroups * K \in Nat
        BY <1>1, ProductFacts
    <2> QED
        BY <1>1, <1>4, <1>6, <2>1, <2>2 DEF Spent
<1>9. ASSUME Settled(p2, G)
      PROVE  Tried(p, G, n)
    <2>1. CASE n = 0
        BY <2>1, TriedNone
    <2>2. CASE n # 0
        <3>1. Credit(p, G) = n
            BY <1>0, <1>1 DEF Selecting, Spent
        <3>2. Credit(p, G) = p.share[G]
            BY <1>1, <1>4, <1>9 DEF Credit, Settled
        <3>3. p.share[G] > 0
            BY <1>1, <2>2, <3>1, <3>2
        <3>4. Settled(p, G)
            BY <1>0, <1>4, <1>9, <3>3 DEF Settled, Tallied
        <3> QED
            BY <1>0, <1>1, <2>2, <3>4 DEF Selecting
    <2> QED
        BY <2>1, <2>2
<1>10. ASSUME Settled(p2, G)
       PROVE  Tried(p2, G, n + 1) /\ TriedAbove(p2, G, Priority[c])
    <2>1. p2.seen = p.seen \union {<<G, Priority[c]>>}
        BY <1>0 DEF Tallied
    <2>2. Tried(p2, G, n + 1)
        BY <1>2, <1>9, <1>10, <2>1 DEF Tried
    <2>3. TriedAbove(p2, G, Priority[c])
        BY <1>2, <1>9, <1>10, <2>1 DEF Tried, TriedAbove
    <2> QED
        BY <2>2, <2>3
<1>11. GoesOn(r2, p2) \/ UsedUp(r2, p2)
    <2>1. CASE ~leave
        <3>1. r2.index = G /\ r2.group = G /\ r2.retry = n /\ ~r2.reset
            BY <1>0, <2>1
        <3> QED
            BY <1>6, <1>10, <3>1 DEF GoesOn
    <2>2. CASE leave
        <3>1. /\ r2.index = G + 1 /\ r2.group = G /\ r2.retry = 0 /\ r2.mode = "cross"
              /\ n = RetryTimes
            BY <1>0, <1>1, <2>2
        <3>2. r2.reset \/ RetryTimes = 0
            BY <1>0, <2>2, <3>1 DEF Fit
        <3>3. Spent(p2, G + 1, 0)
            <4>1. p2.count <= ((G + 1) - 1) * K + 0
                BY <1>1, <1>4, <1>8
            <4>2. ASSUME NEW g \in Groups, g >= G + 1 PROVE Credit(p2, g) = 0
                BY <1>1, <1>6, <4>2 DEF Spent
            <4>3. PICK i : i = G + 1
                OBVIOUS
            <4>4. p2.count <= (i - 1) * (RetryTimes + 1) + 0
                BY <4>1, <4>3
            <4>5. \A g \in Groups : (g > i => Credit(p2, g) = 0) /\ (g = i => Credit(p2, g) = 0)
                BY <1>1, <4>2, <4>3
            <4> QED
                BY <4>3, <4>4, <4>5, Zenon DEF Spent
        <3> QED
            BY <1>1, <1>6, <3>1, <3>2, <3>3 DEF UsedUp
    <2> QED
        BY <2>1, <2>2
<1>12. r2.retry <= RetryTimes
    BY <1>0, <1>1
<1>13. Relaying(r2, p2)
    BY <1>0, <1>3, <1>7, <1>10, <1>11, <1>12 DEF Relaying, AtSelected
<1>14. r2.mode = "single" => r2.index = 1 /\ r2.group = 1
    BY DEF Fit
<1>15. p2.count <= Cap(r2)
    <2>1. CASE r2.mode = "single"
        BY <1>0, <1>1, <1>8, <1>14, <2>1 DEF Cap
    <2>2. CASE r2.mode # "single"
        <3>1. Cap(r2) = NGroups * K
            BY <1>1, <2>2 DEF Cap
        <3> QED
            BY <1>4, <1>8, <3>1
    <2> QED
        BY <2>1, <2>2
<1>16. Within(r2, p2)
    BY <1>1, <1>5, <1>6, <1>15 DEF Within
<1> QED
    BY <1>13, <1>14, <1>16 DEF Fit

\* A group without a channel is passed over.
LEMMA PassedFit ==
    ASSUME listed \subseteq Channels, NEW r \in RequestRecord, NEW p \in Counters,
           NEW p2 \in Counters, NEW r2 \in RequestRecord,
           Fit(r, p), r.pc \in {"first", "select"}, r.index <= NGroups, r.mode # "single",
           p2.count = p.count, p2.share = p.share, p2.preferred = p.preferred,
           p2.dry = p.dry \union {r.index},
           r2.pc = r.pc, r2.mode = r.mode, r2.index = r.index + 1, r2.retry = 0,
           r2.reset = r.reset
    PROVE  Fit(r2, p2)
<1> DEFINE K == RetryTimes + 1
<1>0. PICK G, n : G = r.index /\ n = r.retry
    OBVIOUS
<1>1. /\ RetryTimes \in Nat /\ K \in Nat /\ n \in Nat /\ n <= RetryTimes /\ p.count \in Nat
      /\ G \in Groups /\ G \in Nat /\ G >= 1 /\ Groups \subseteq Nat
      /\ Selecting(r, p) /\ Within(r, p)
    BY <1>0, RequestTypes, CreditType DEF Fit, Selecting, Groups
<1>2. \A g : Credit(p2, g) = Credit(p, g)
    BY DEF Credit
<1>3. Spent(p2, G + 1, 0)
    <2>1. Spent(p, G, n)
        BY <1>0, <1>1 DEF Selecting
    <2>2. G * K = (G - 1) * K + K /\ (G - 1) * K \in Nat
        BY <1>1
    <2>3. p2.count <= ((G + 1) - 1) * K + 0
        BY <1>1, <2>1, <2>2 DEF Spent
    <2>4. ASSUME NEW g \in Groups, g >= G + 1 PROVE Credit(p2, g) = 0
        BY <1>1, <1>2, <2>1, <2>4 DEF Spent
    <2>5. PICK i : i = G + 1
        OBVIOUS
    <2>6. p2.count <= (i - 1) * (RetryTimes + 1) + 0
        BY <2>3, <2>5
    <2>7. \A g \in Groups : (g > i => Credit(p2, g) = 0) /\ (g = i => Credit(p2, g) = 0)
        BY <1>1, <2>4, <2>5
    <2> QED
        BY <2>5, <2>6, <2>7, Zenon DEF Spent
<1>4. Passed(r2, p2, G + 1)
    <2> SUFFICES ASSUME NEW g \in Groups, g < G + 1
                 PROVE  g \in p2.dry \/ (r.mode = "cross" /\ Credit(p2, g) >= RetryTimes + 1)
        BY DEF Passed
    <2>1. g = G \/ g < G
        BY <1>1
    <2> QED
        BY <1>0, <1>1, <1>2, <2>1 DEF Selecting, Passed
<1>5. Selecting(r2, p2)
    BY <1>0, <1>1, <1>3, <1>4 DEF Selecting
<1>6. Within(r2, p2)
    BY <1>1, <1>2 DEF Within, Cap
<1> QED
    BY <1>5, <1>6 DEF Fit

LEMMA FitStays ==
    ASSUME listed' = listed, NEW r, NEW p, Fit(r, p)
    PROVE  Fit(r, p)'
<1>1. \A g : Candidates(g)' = Candidates(g)
    BY DEF Candidates
<1>2. \A x, g : Level(x, g)' = Level(x, g)
    BY <1>1 DEF Level, Above, Priorities
<1>3. \A g, n : Tried(p, g, n) => Tried(p, g, n)'
    BY <1>1, <1>2 DEF Tried
<1>4. \A g, x : TriedAbove(p, g, x) => TriedAbove(p, g, x)'
    BY <1>1 DEF TriedAbove
<1>5. Relaying(r, p) => Relaying(r, p)'
    BY <1>3, <1>4 DEF Relaying, AtPreferred, AtSelected, GoesOn, UsedUp, Spent, Passed, Settled, Credit
<1>6. Selecting(r, p) => Selecting(r, p)'
    BY <1>3 DEF Selecting, Spent, Passed, Settled, Credit
<1> QED
    BY <1>5, <1>6 DEF Fit, Within, Credit, Resting, Cap

LEMMA FitsStay ==
    ASSUME listed' = listed, \A u \in Requests : Fit(req'[u], past'[u])
    PROVE  Fits'
<1> SUFFICES ASSUME NEW u \in Requests
             PROVE  Fit(req[u], past[u])'
    BY DEF Fits
<1>1. PICK r, p : r = req'[u] /\ p = past'[u]
    OBVIOUS
<1>2. Fit(r, p)
    BY <1>1
<1>3. Fit(r, p)'
    BY <1>2, FitStays
<1> QED
    BY <1>1, <1>3

\* The list changes: what was known of the priorities of the group is forgotten.
LEMMA DisturbedFit ==
    ASSUME NEW r, NEW p, Fit(r, p), r.pc \in {"relay", "select"}, NEW p2,
           p2.count = p.count, p2.share = p.share, p2.dry = p.dry, p2.preferred = p.preferred,
           p2.disturbed
    PROVE  Fit(r, p2)'
<1>1. \A g : Credit(p2, g) = Credit(p, g) /\ ~Settled(p2, g)
    BY DEF Credit, Settled
<1>2. \A n : Passed(r, p, n) => Passed(r, p2, n)
    BY <1>1 DEF Passed
<1>3. \A i, n : Spent(p, i, n) => Spent(p2, i, n)
    BY <1>1 DEF Spent
<1>4. Within(r, p2)
    BY <1>1 DEF Fit, Within
<1>5. CASE r.pc = "relay"
    <2>1. Relaying(r, p)
        BY <1>5 DEF Fit
    <2>2. AtPreferred(r, p) => AtPreferred(r, p2)'
        BY DEF AtPreferred
    <2>3. AtSelected(r, p) => AtSelected(r, p2)'
        BY <1>1, <1>2, <1>3 DEF AtSelected, GoesOn, UsedUp
    <2>4. Relaying(r, p2)'
        BY <2>1, <2>2, <2>3 DEF Relaying
    <2> QED
        BY <1>4, <1>5, <2>4 DEF Fit
<1>6. CASE r.pc = "select"
    <2>1. Selecting(r, p2)'
        BY <1>1, <1>2, <1>3, <1>6 DEF Fit, Selecting
    <2> QED
        BY <1>4, <1>6, <2>1 DEF Fit
<1> QED
    BY <1>5, <1>6

\* The list changes during the selection of Distribute: nothing is known of the
\* priorities yet.
LEMMA FirstFit ==
    ASSUME NEW r, NEW p, Fit(r, p), r.pc = "first"
    PROVE  Fit(r, p)'
<1>1. RetryTimes \in Nat /\ r.retry = 0
    BY ChannelAssumption DEF Fit
<1>2. Selecting(r, p)'
    BY <1>1 DEF Fit, Selecting, Spent, Passed, Settled, Credit
<1> QED
    BY <1>2 DEF Fit, Within, Credit, Cap

\* IncreaseRetry with retries left: the request selects again, in the same group or, when
\* that one is used up, from the next one on.
LEMMA RetriedFit ==
    ASSUME listed \subseteq Channels, NEW r \in RequestRecord, NEW p \in Counters,
           Fit(r, p), r.pc = "relay", NEW retry,
           retry = IF r.reset THEN r.retry ELSE r.retry + 1, retry <= RetryTimes,
           NEW r2 \in RequestRecord, r2.pc = "select", r2.mode = r.mode, r2.index = r.index,
           r2.group = r.group, r2.retry = retry, ~r2.reset
    PROVE  Fit(r2, p)
<1> USE RequestTypes
<1>1. Relaying(r, p) /\ Within(r2, p) /\ (r2.mode = "single" => r2.index = 1 /\ r2.group = 1)
    BY DEF Fit, Within, Cap
<1>2. \A g \in Groups : Credit(p, g) \in Nat
    BY CreditType
<1>3. CASE AtPreferred(r, p)
    <2>1. retry = 1 /\ r2.index = 1
        BY <1>3 DEF AtPreferred
    <2>2. Spent(p, 1, 1)
        BY <1>3 DEF AtPreferred, Spent, Credit
    <2>3. Passed(r2, p, 1)
        BY ChannelAssumption DEF Passed, Groups
    <2>4. ~Settled(p, 1)
        BY <1>3 DEF AtPreferred, Settled
    <2>5. Selecting(r2, p)
        BY <2>1, <2>2, <2>3, <2>4 DEF Selecting
    <2> QED
        BY <1>1, <2>5 DEF Fit
<1>4. CASE Passed(r, p, r.group) /\ GoesOn(r, p)
    <2>1. retry = r.retry + 1 /\ r.index = r.group
        BY <1>4 DEF GoesOn
    <2>2. Passed(r2, p, r2.index)
        BY <1>4, <2>1 DEF Passed
    <2>3. Selecting(r2, p)
        BY <1>4, <2>1, <2>2 DEF GoesOn, Selecting
    <2> QED
        BY <1>1, <2>3 DEF Fit
<1>5. CASE Passed(r, p, r.group) /\ UsedUp(r, p)
    <2>1. /\ retry = 0 /\ r.index = r.group + 1 /\ r.mode = "cross"
          /\ Credit(p, r.group) >= RetryTimes + 1 /\ Spent(p, r2.index, 0)
        BY <1>5 DEF UsedUp
    <2>2. Passed(r2, p, r2.index)
        <3> SUFFICES ASSUME NEW g \in Groups, g < r2.index
                     PROVE  g \in p.dry \/ (r2.mode = "cross" /\ Credit(p, g) >= RetryTimes + 1)
            BY DEF Passed
        <3>1. g < r.group \/ g = r.group
            BY <2>1
        <3> QED
            BY <1>5, <2>1, <3>1 DEF Passed
    <2>3. Selecting(r2, p)
        BY <2>1, <2>2 DEF Selecting
    <2> QED
        BY <1>1, <2>3 DEF Fit
<1> QED
    BY <1>1, <1>3, <1>4, <1>5 DEF Relaying, AtSelected

-----------------------------------------------------------------------------
(* Steps of a request.                                                      *)

LEMMA RequestStep ==
    ASSUME IInv, NEW q \in Requests,
           UNCHANGED <<row, cached, listed, sync, writing, events>>,
           waiting' \subseteq Channels \X Status, affinity' \in Channels \union {None},
           req' \in [Requests -> RequestRecord], past' \in [Requests -> Counters],
           \A u \in Requests : u # q => req'[u] = req[u] /\ past'[u] = past[u],
           Fit(req'[q], past'[q])
    PROVE  IInv'
<1>1. \A u \in Requests : Fit(req'[u], past'[u])
    BY DEF IInv, Fits
<1>2. Fits'
    BY <1>1, FitsStay
<1>3. Types'
    BY DEF IInv, Types
<1> QED
    BY <1>2, <1>3 DEF IInv

LEMMA NoPastFacts ==
    /\ NoPast \in Counters /\ NoPast.count = 0 /\ NoPast.preferred = FALSE
    /\ NoPast.disturbed = FALSE
    /\ \A g \in Groups : NoPast.share[g] = 0
BY DEF NoPast, Counters

LEMMA CapFacts ==
    ASSUME NEW r
    PROVE  Cap(r) \in Nat /\ Cap(r) >= RetryTimes + 1 /\ Cap(r) >= 1
<1>1. RetryTimes \in Nat /\ NGroups \in Nat /\ NGroups >= 1
    BY ChannelAssumption
<1>2. (RetryTimes + 1) * NGroups \in Nat /\ (RetryTimes + 1) * NGroups >= RetryTimes + 1
    BY <1>1
<1> QED
    BY <1>1, <1>2 DEF Cap

LEMMA BlankFacts ==
    ASSUME NEW pc \in {"new", "done"}, NEW mode \in Modes, NEW rule \in Rules
    PROVE  Blank(pc, mode, rule) \in RequestRecord /\ Fit(Blank(pc, mode, rule), NoPast)
<1> DEFINE r == Blank(pc, mode, rule)
<1>1. /\ r.pc = pc /\ r.index = 1 /\ r.retry = 0 /\ r.reset = FALSE /\ r.group = 1
    BY DEF Blank
<1>2. r \in RequestRecord
    BY ChannelAssumption DEF Blank, RequestRecord, Groups
<1>3. Within(r, NoPast)
    BY NoPastFacts, CapFacts, ChannelAssumption DEF Within, Credit
<1> HIDE DEF r
<1>4. Fit(r, NoPast)
    BY <1>1, <1>3 DEF Fit, Resting
<1> QED
    BY <1>2, <1>4 DEF r

LEMMA EndFacts ==
    ASSUME IInv, NEW q \in Requests, End(q)
    PROVE  /\ req' \in [Requests -> RequestRecord] /\ past' \in [Requests -> Counters]
           /\ \A u \in Requests : u # q => req'[u] = req[u] /\ past'[u] = past[u]
           /\ Fit(req'[q], past'[q])
<1>1. PICK b : b = Blank("done", "single", "none")
    OBVIOUS
<1>2. b \in RequestRecord /\ Fit(b, NoPast)
    BY <1>1, BlankFacts DEF Modes, Rules
<1>3. req' = [req EXCEPT ![q] = b] /\ past' = [past EXCEPT ![q] = NoPast]
    BY <1>1 DEF End
<1>4. req \in [Requests -> RequestRecord] /\ past \in [Requests -> Counters]
    BY DEF IInv, Types
<1>5. req'[q] = b /\ past'[q] = NoPast
    BY <1>3, <1>4
<1> QED
    BY <1>2, <1>3, <1>4, <1>5, NoPastFacts

LEMMA Now ==
    ASSUME IInv, NEW q \in Requests
    PROVE  /\ req \in [Requests -> RequestRecord] /\ past \in [Requests -> Counters]
           /\ req[q] \in RequestRecord /\ past[q] \in Counters /\ Fit(req[q], past[q])
           /\ listed \subseteq Channels /\ affinity \in Channels \union {None}
           /\ waiting \subseteq Channels \X Status
BY DEF IInv, Types, Fits

LEMMA DistributePreferredStep ==
    ASSUME IInv, NEW q \in Requests, DistributePreferred(q)
    PROVE  IInv'
<1>1. PICK r, p, c, g : r = req[q] /\ p = past[q] /\ c = affinity /\ g = Min(PreferredGroups(q))
    OBVIOUS
<1>2. PICK b \in BOOLEAN : b <=> r.rule = "skip"
    OBVIOUS
<1>3. PICK r2 : r2 = [r EXCEPT !.pc = "relay", !.skip = b, !.channel = c, !.chosen = c, !.group = g]
    OBVIOUS
<1>4. /\ r.pc = "new" /\ AffinityUsable(q) /\ req' = [req EXCEPT ![q] = r2]
      /\ Attempt(q, g, c, TRUE) /\ UNCHANGED <<row, cached, listed, sync, waiting, writing, affinity, events>>
    BY <1>1, <1>2, <1>3 DEF DistributePreferred, cache, updates
<1>5. g \in Groups /\ (r.mode = "single" => g = 1) /\ c \in Channels
    <2>1. PreferredGroups(q) # {} /\ PreferredGroups(q) \subseteq Nat /\ affinity # None
        BY <1>4, ChannelAssumption DEF AffinityUsable, PreferredGroups, Groups
    <2>2. g \in PreferredGroups(q)
        BY <1>1, <2>1, MinFacts
    <2> QED
        BY <1>1, <2>1, <2>2, Now DEF PreferredGroups
<1>6. r \in RequestRecord /\ p \in Counters /\ Fit(r, p)
    BY <1>1, Now
<1>7. Resting(r, p)
    BY <1>4, <1>6 DEF Fit
<1>8. /\ r2 \in RequestRecord /\ r2.pc = "relay" /\ r2.channel = c /\ r2.group = g
      /\ r2.mode = r.mode /\ r2.index = r.index /\ r2.retry = r.retry /\ r2.reset = r.reset
    BY <1>3, <1>5, <1>6 DEF RequestRecord
<1>9. /\ past' \in [Requests -> Counters] /\ Tallied(past[q], past'[q], g, c, TRUE)
      /\ \A u \in Requests : u # q => past'[u] = past[u]
    BY <1>4, <1>5, Now, AttemptFacts
<1>10. PICK p2 : p2 = past'[q]
    OBVIOUS
<1>11. Tallied(NoPast, p2, g, c, TRUE)
    BY <1>1, <1>7, <1>9, <1>10 DEF Resting
<1>12. AtPreferred(r2, p2) /\ p2.count = 1
    BY <1>5, <1>7, <1>8, <1>11, NoPastFacts DEF AtPreferred, Resting, Tallied
<1>13. Within(r2, p2)
    BY <1>12, CapFacts, ChannelAssumption DEF Within, AtPreferred, Credit
<1>14. Fit(r2, p2)
    BY <1>5, <1>7, <1>8, <1>12, <1>13, ChannelAssumption DEF Fit, Relaying, Resting
<1>15. req' \in [Requests -> RequestRecord] /\ req'[q] = r2 /\ \A u \in Requests : u # q => req'[u] = req[u]
    BY <1>4, <1>8, Now
<1> QED
    BY <1>4, <1>9, <1>10, <1>14, <1>15, Now, RequestStep

LEMMA NewSelects ==
    ASSUME NEW r, r.index = 1, r.retry = 0, ~r.reset
    PROVE  Selecting(r, NoPast)
<1>1. RetryTimes \in Nat /\ 1 \in Groups /\ \A g \in Groups : ~(g < 1)
    BY ChannelAssumption DEF Groups
<1>2. Passed(r, NoPast, 1)
    BY <1>1 DEF Passed
<1>3. Spent(NoPast, 1, 0)
    BY <1>1, NoPastFacts DEF Spent, Credit
<1> QED
    BY <1>1, <1>2, <1>3 DEF Selecting

LEMMA DistributeStep ==
    ASSUME IInv, NEW q \in Requests, Distribute(q)
    PROVE  IInv'
<1>1. PICK r, p : r = req[q] /\ p = past[q]
    OBVIOUS
<1>2. PICK b \in BOOLEAN :
        /\ r.pc = "new" /\ affinity' \in {affinity, None}
        /\ req' = [req EXCEPT ![q] = [r EXCEPT !.pc = "first", !.skip = b]]
        /\ UNCHANGED <<row, cached, listed, sync, waiting, writing, past, events>>
    <2>1. PICK keep \in BOOLEAN :
            LET forget == req[q].rule # "none" /\ affinity # None /\ ~keep
            IN /\ affinity' = IF forget THEN None ELSE affinity
               /\ req' = [req EXCEPT ![q] = [@ EXCEPT !.pc = "first", !.skip = (req[q].rule = "skip" /\ ~forget)]]
        BY DEF Distribute
    <2>2. PICK forget \in BOOLEAN : forget <=> (req[q].rule # "none" /\ affinity # None /\ ~keep)
        OBVIOUS
    <2>3. PICK b \in BOOLEAN : b <=> (r.rule = "skip" /\ ~forget)
        OBVIOUS
    <2>4. affinity' \in {affinity, None}
        BY <2>1
    <2>5. req' = [req EXCEPT ![q] = [r EXCEPT !.pc = "first", !.skip = b]]
        BY <1>1, <2>1, <2>2, <2>3
    <2> QED
        BY <1>1, <2>4, <2>5 DEF Distribute, cache, updates
<1>3. PICK r2 : r2 = [r EXCEPT !.pc = "first", !.skip = b]
    OBVIOUS
<1>4. r \in RequestRecord /\ Fit(r, p) /\ Resting(r, p)
    BY <1>1, <1>2, Now DEF Fit
<1>5. /\ r2 \in RequestRecord /\ r2.pc = "first" /\ r2.mode = r.mode /\ r2.index = 1 /\ r2.retry = 0
      /\ ~r2.reset /\ r2.group = r.group /\ p = NoPast
    BY <1>3, <1>4 DEF RequestRecord, Resting
<1>6. Fit(r2, p)
    BY <1>4, <1>5, NewSelects, Now DEF Fit, Within, Cap
<1>7. /\ req' \in [Requests -> RequestRecord] /\ req'[q] = r2 /\ past'[q] = p
      /\ \A u \in Requests : u # q => req'[u] = req[u] /\ past'[u] = past[u]
    BY <1>1, <1>2, <1>3, <1>5, Now
<1> QED
    BY <1>2, <1>6, <1>7, Now, RequestStep

LEMMA DrawStep ==
    ASSUME IInv, NEW q \in Requests, CacheGetRandomSatisfiedChannel(q)
    PROVE  IInv'
<1>1. PICK r, p : r = req[q] /\ p = past[q]
    OBVIOUS
<1>2. PICK leave \in BOOLEAN : leave <=> (r.mode = "cross" /\ r.retry >= RetryTimes)
    OBVIOUS
<1>3. PICK c \in GetRandomSatisfiedChannel(r.index, r.retry) :
        /\ req' = [req EXCEPT ![q] = [r EXCEPT
               !.pc = "relay", !.channel = c, !.group = r.index,
               !.chosen = IF r.pc = "first" THEN c ELSE r.chosen,
               !.index = IF leave THEN r.index + 1 ELSE r.index,
               !.retry = IF leave THEN 0 ELSE r.retry,
               !.reset = leave /\ r.pc = "select"]]
        /\ Attempt(q, r.index, c, FALSE)
    BY <1>1, <1>2 DEF CacheGetRandomSatisfiedChannel
<1>4. /\ r.pc \in {"first", "select"} /\ r.index <= NGroups
      /\ UNCHANGED <<row, cached, listed, sync, waiting, writing, affinity, events>>
    BY <1>1 DEF CacheGetRandomSatisfiedChannel, Drawing, cache, updates
<1>5. r \in RequestRecord /\ p \in Counters /\ Fit(r, p) /\ listed \subseteq Channels
    BY <1>1, Now
<1>6. r.index \in Groups /\ r.retry \in Nat /\ r.retry <= RetryTimes /\ c \in Channels
    <2>1. r.index \in Groups /\ r.retry \in Nat /\ r.retry <= RetryTimes
        BY <1>4, <1>5, RequestTypes DEF Groups, Fit, Selecting
    <2>2. c \in Candidates(r.index)
        BY <1>3, <1>5, <2>1, DrawnFacts
    <2> QED
        BY <1>5, <2>1, <2>2, CandidateFacts
<1>7. PICK d, i, n, b :
        /\ d = IF r.pc = "first" THEN c ELSE r.chosen
        /\ i = IF leave THEN r.index + 1 ELSE r.index
        /\ n = IF leave THEN 0 ELSE r.retry
        /\ b = (leave /\ r.pc = "select")
    OBVIOUS
<1>8. b \in BOOLEAN /\ d \in Channels \union {None} /\ i \in 1..(NGroups + 1) /\ n \in 0..(RetryTimes + 1)
    <2>1. r.chosen \in Channels \union {None}
        BY <1>5 DEF RequestRecord
    <2>2. RetryTimes \in Nat /\ NGroups \in Nat
        BY ChannelAssumption
    <2> QED
        BY <1>6, <1>7, <2>1, <2>2 DEF Groups
<1>9. PICK r2 : r2 = [r EXCEPT !.pc = "relay", !.channel = c, !.group = r.index, !.chosen = d,
                               !.index = i, !.retry = n, !.reset = b]
    OBVIOUS
<1>10. req' = [req EXCEPT ![q] = r2]
    BY <1>3, <1>7, <1>9, Zenon
<1>11. /\ r2 \in RequestRecord /\ r2.pc = "relay" /\ r2.mode = r.mode /\ r2.channel = c
       /\ r2.group = r.index /\ r2.index = i /\ r2.retry = n /\ r2.reset = b
    BY <1>5, <1>6, <1>8, <1>9 DEF RequestRecord
<1>12. /\ past' \in [Requests -> Counters] /\ Tallied(past[q], past'[q], r.index, c, FALSE)
       /\ \A u \in Requests : u # q => past'[u] = past[u]
    BY <1>3, <1>6, Now, AttemptFacts
<1>13. PICK p2 : p2 = past'[q]
    OBVIOUS
<1>14. p2 \in Counters /\ Tallied(p, p2, r.index, c, FALSE)
    BY <1>1, <1>12, <1>13
<1>15. Fit(r2, p2)
    BY <1>2, <1>3, <1>4, <1>5, <1>7, <1>11, <1>14, DrawnFit
<1>16. req' \in [Requests -> RequestRecord] /\ req'[q] = r2 /\ \A u \in Requests : u # q => req'[u] = req[u]
    BY <1>10, <1>11, Now
<1> QED
    BY <1>4, <1>12, <1>13, <1>15, <1>16, Now, RequestStep

LEMMA PassGroupStep ==
    ASSUME IInv, NEW q \in Requests, PassGroup(q)
    PROVE  IInv'
<1>1. PICK r, p : r = req[q] /\ p = past[q]
    OBVIOUS
<1>2. PICK r2, p2, D : /\ r2 = [r EXCEPT !.index = r.index + 1, !.retry = 0]
                       /\ D = p.dry \union {r.index} /\ p2 = [p EXCEPT !.dry = D]
    OBVIOUS
<1>3. /\ r.pc \in {"first", "select"} /\ r.index <= NGroups /\ r.mode # "single"
      /\ UNCHANGED <<row, cached, listed, sync, waiting, writing, affinity, events>>
    BY <1>1 DEF PassGroup, Drawing, cache, updates
<1>4. r \in RequestRecord /\ p \in Counters /\ Fit(r, p) /\ listed \subseteq Channels
      /\ req \in [Requests -> RequestRecord] /\ past \in [Requests -> Counters]
    BY <1>1, Now
<1>5. req' = [req EXCEPT ![q] = r2] /\ past' = [past EXCEPT ![q] = p2]
    BY <1>1, <1>2 DEF PassGroup
<1>6. r.index \in Groups /\ r.index + 1 \in 1..(NGroups + 1) /\ 0 \in 0..(RetryTimes + 1)
    BY <1>3, <1>4, RequestTypes DEF Groups
<1>7. /\ r2 \in RequestRecord /\ r2.pc = r.pc /\ r2.mode = r.mode /\ r2.index = r.index + 1
      /\ r2.retry = 0 /\ r2.reset = r.reset
    BY <1>2, <1>4, <1>6 DEF RequestRecord
<1>8. /\ p2 \in Counters /\ p2.count = p.count /\ p2.share = p.share /\ p2.preferred = p.preferred
      /\ p2.dry = p.dry \union {r.index}
    BY <1>2, <1>4, <1>6 DEF Counters
<1>9. Fit(r2, p2)
    BY <1>3, <1>4, <1>7, <1>8, PassedFit
<1>10. /\ req' \in [Requests -> RequestRecord] /\ past' \in [Requests -> Counters]
       /\ req'[q] = r2 /\ past'[q] = p2
       /\ \A u \in Requests : u # q => req'[u] = req[u] /\ past'[u] = past[u]
    BY <1>4, <1>5, <1>7, <1>8
<1> QED
    BY <1>3, <1>9, <1>10, Now, RequestStep

LEMMA NoChannelStep ==
    ASSUME IInv, NEW q \in Requests, NoChannel(q)
    PROVE  IInv'
<1>1. End(q) /\ UNCHANGED <<row, cached, listed, sync, waiting, writing, affinity, events>>
    BY DEF NoChannel, cache, updates
<1> QED
    BY <1>1, EndFacts, RequestStep, Now

LEMMA RelaySucceedsStep ==
    ASSUME IInv, NEW q \in Requests, RelaySucceeds(q)
    PROVE  IInv'
<1>1. PICK r : r = req[q]
    OBVIOUS
<1>2. /\ End(q) /\ affinity' \in {affinity, r.channel, r.chosen}
      /\ UNCHANGED <<row, cached, listed, sync, waiting, writing, events>>
    BY <1>1 DEF RelaySucceeds, cache, updates
<1>3. r.channel \in Channels \union {None} /\ r.chosen \in Channels \union {None}
    BY <1>1, Now DEF RequestRecord
<1>4. affinity' \in Channels \union {None}
    BY <1>2, <1>3, Now
<1> QED
    BY <1>2, <1>4, EndFacts, RequestStep, Now

LEMMA RelayFailsStep ==
    ASSUME IInv, NEW q \in Requests, NEW error, RelayFails(q, error)
    PROVE  IInv'
<1>1. PICK r, p, retry : r = req[q] /\ p = past[q] /\ retry = IF r.reset THEN r.retry ELSE r.retry + 1
    OBVIOUS
<1>2. /\ r.pc = "relay" /\ waiting' \in {waiting, waiting \union {<<r.channel, "auto">>}}
      /\ IncreaseRetry(q) \/ End(q)
      /\ UNCHANGED <<row, cached, listed, sync, writing, affinity, events>>
    BY <1>1 DEF RelayFails, cache
<1>3. /\ r \in RequestRecord /\ p \in Counters /\ Fit(r, p) /\ r.channel \in Channels
      /\ r.retry \in Nat /\ RetryTimes \in Nat
    BY <1>1, <1>2, Now, RequestTypes DEF Fit, Relaying
<1>4. waiting' \subseteq Channels \X Status /\ affinity' \in Channels \union {None}
    BY <1>2, <1>3, Now DEF Status
<1>5. CASE End(q)
    BY <1>2, <1>4, <1>5, EndFacts, RequestStep, Now
<1>6. CASE ~End(q)
    <2>1. PICK r2 : r2 = [r EXCEPT !.pc = "select", !.retry = retry, !.reset = FALSE, !.channel = None]
        OBVIOUS
    <2>2. retry <= RetryTimes /\ req' = [req EXCEPT ![q] = r2] /\ past' = past
        BY <1>1, <1>2, <1>6, <2>1 DEF IncreaseRetry
    <2>3. retry \in 0..(RetryTimes + 1)
        BY <1>1, <1>3, <2>2
    <2>4. /\ r2 \in RequestRecord /\ r2.pc = "select" /\ r2.mode = r.mode /\ r2.index = r.index
          /\ r2.group = r.group /\ r2.retry = retry /\ r2.reset = FALSE
        BY <1>3, <2>1, <2>3 DEF RequestRecord
    <2>5. Fit(r2, p)
        BY <1>1, <1>2, <1>3, <2>2, <2>4, RetriedFit, Now
    <2>6. /\ req' \in [Requests -> RequestRecord] /\ past' \in [Requests -> Counters]
          /\ req'[q] = r2 /\ past'[q] = p
          /\ \A u \in Requests : u # q => req'[u] = req[u] /\ past'[u] = past[u]
        BY <1>1, <2>2, <2>4, Now
    <2> QED
        BY <1>2, <1>4, <2>5, <2>6, RequestStep
<1> QED
    BY <1>5, <1>6

-----------------------------------------------------------------------------
(* Steps of the cache and of the channels.                                  *)

LEMMA RestingFit ==
    ASSUME NEW r \in RequestRecord, NEW p, Fit(r, p), r.pc \notin {"relay", "select"}
    PROVE  Fit(r, p)'
<1>1. CASE r.pc = "first"
    BY <1>1, FirstFit
<1>2. CASE r.pc # "first"
    BY <1>2 DEF Fit, Resting, Within, Credit, Cap
<1> QED
    BY <1>1, <1>2

LEMMA ListFacts ==
    ASSUME IInv, NEW channels \in SUBSET Channels, List(channels), UNCHANGED req
    PROVE  listed' \subseteq Channels /\ past' \in [Requests -> Counters] /\ Fits'
<1>1. past \in [Requests -> Counters] /\ req \in [Requests -> RequestRecord] /\ listed' = channels
    BY DEF IInv, Types, List
<1>2. CASE channels = listed
    <2>1. past' = past /\ listed' = listed
        BY <1>2 DEF List
    <2>2. \A u \in Requests : Fit(req'[u], past'[u])
        BY <2>1 DEF IInv, Fits
    <2> QED
        BY <1>1, <2>1, <2>2, FitsStay
<1>3. CASE channels # listed
    <2>1. past' = [u \in Requests |-> IF req[u].pc \in {"relay", "select"}
                                      THEN [past[u] EXCEPT !.disturbed = TRUE] ELSE past[u]]
        BY <1>3 DEF List
    <2>2. ASSUME NEW u \in Requests
          PROVE  past'[u] \in Counters /\ Fit(req[u], past[u])'
        <3>1. PICK r, p, p2 : r = req[u] /\ p = past[u] /\ p2 = [past[u] EXCEPT !.disturbed = TRUE]
            OBVIOUS
        <3>2. r = req'[u] /\ r \in RequestRecord /\ p \in Counters /\ Fit(r, p)
            BY <1>1, <3>1 DEF IInv, Fits
        <3>3. CASE r.pc \in {"relay", "select"}
            <4>1. past'[u] = p2
                BY <2>1, <3>1, <3>3
            <4>2. /\ p2 \in Counters /\ p2.count = p.count /\ p2.share = p.share /\ p2.dry = p.dry
                  /\ p2.preferred = p.preferred /\ p2.disturbed = TRUE
                BY <3>1, <3>2 DEF Counters
            <4>3. Fit(r, p2)'
                BY <3>2, <3>3, <4>2, DisturbedFit
            <4> QED
                BY <3>2, <4>1, <4>2, <4>3
        <3>4. CASE r.pc \notin {"relay", "select"}
            <4>1. past'[u] = p
                BY <2>1, <3>1, <3>4
            <4>2. Fit(r, p)'
                BY <3>2, <3>4, RestingFit
            <4> QED
                BY <3>2, <4>1, <4>2
        <3> QED
            BY <3>3, <3>4
    <2>3. past' \in [Requests -> Counters]
        BY <2>1, <2>2
    <2> QED
        BY <1>1, <2>2, <2>3 DEF Fits
<1> QED
    BY <1>2, <1>3

LEMMA UpdateChannelStatusStep ==
    ASSUME IInv, NEW c \in Channels, NEW status \in Status, UpdateChannelStatus(c, status)
    PROVE  IInv'
<1>1. /\ waiting' = waiting \ {<<c, status>>} /\ UNCHANGED <<row, sync, affinity, req, events>>
    BY DEF UpdateChannelStatus
<1>2. /\ cached' \in [Channels -> Entries] /\ (writing' = None \/ writing' \in Channels \X Status)
      /\ listed' \subseteq Channels /\ past' \in [Requests -> Counters] /\ Fits'
    <2>1. CASE cached[c] \in {status, "absent"}
        <3>1. UNCHANGED <<cached, listed, past, writing>>
            BY <2>1 DEF UpdateChannelStatus
        <3>2. \A u \in Requests : Fit(req'[u], past'[u])
            BY <1>1, <3>1 DEF IInv, Fits
        <3>3. Fits'
            BY <3>1, <3>2, FitsStay
        <3> QED
            BY <3>1, <3>3 DEF IInv, Types
    <2>2. CASE cached[c] \notin {status, "absent"}
        <3>1. PICK channels : channels = IF status = "enabled" THEN listed ELSE listed \ {c}
            OBVIOUS
        <3>2. /\ cached' = [cached EXCEPT ![c] = status] /\ writing' = <<c, status>> /\ List(channels)
            BY <2>2, <3>1 DEF UpdateChannelStatus
        <3>3. channels \in SUBSET Channels
            BY <3>1 DEF IInv, Types
        <3>4. cached' \in [Channels -> Entries] /\ writing' \in Channels \X Status
            BY <3>2 DEF IInv, Types, Entries
        <3> QED
            BY <1>1, <3>2, <3>3, <3>4, ListFacts
    <2> QED
        BY <2>1, <2>2
<1>3. Types'
    BY <1>1, <1>2 DEF IInv, Types
<1> QED
    BY <1>2, <1>3 DEF IInv

LEMMA InitChannelCacheStep ==
    ASSUME IInv, NEW s \in Syncers, InitChannelCache(s)
    PROVE  IInv'
<1>1. PICK channels, again : /\ channels = {c \in Channels : sync[s].rows[c] = "enabled"}
                             /\ again = IF s = "loop" THEN Due ELSE Idle
    OBVIOUS
<1>2. /\ sync[s].at = "read" /\ cached' = sync[s].rows /\ List(channels)
      /\ sync' = [sync EXCEPT ![s] = again]
      /\ UNCHANGED <<row, waiting, writing, affinity, req, events>>
    BY <1>1 DEF InitChannelCache, updates
<1>3. cached' \in [Channels -> Entries]
    <2>1. sync[s] \in [at : {"read"}, rows : [Channels -> Entries]]
        BY <1>2 DEF IInv, Types, SyncStates, Idle, Due
    <2> QED
        BY <1>2, <2>1
<1>4. sync' \in [Syncers -> SyncStates]
    <2>1. again \in SyncStates
        BY <1>1 DEF SyncStates
    <2> QED
        BY <1>2, <2>1 DEF IInv, Types
<1>5. listed' \subseteq Channels /\ past' \in [Requests -> Counters] /\ Fits'
    BY <1>1, <1>2, ListFacts
<1>6. Types'
    BY <1>2, <1>3, <1>4, <1>5 DEF IInv, Types
<1> QED
    BY <1>5, <1>6 DEF IInv

\* The steps that touch neither a request nor the cached list.
LEMMA RowStep ==
    ASSUME IInv, UNCHANGED <<cached, listed, affinity, req, past>>,
           row' \in [Channels -> Status], sync' \in [Syncers -> SyncStates],
           waiting' \subseteq Channels \X Status,
           writing' = None \/ writing' \in Channels \X Status, events' \in 0..MaxEvents
    PROVE  IInv'
<1>1. \A u \in Requests : Fit(req'[u], past'[u])
    BY DEF IInv, Fits
<1>2. Fits'
    BY <1>1, FitsStay
<1>3. Types'
    BY DEF IInv, Types
<1> QED
    BY <1>2, <1>3 DEF IInv

LEMMA SaveChannelStatusStep ==
    ASSUME IInv, SaveChannelStatus
    PROVE  IInv'
<1>1. /\ writing' = None /\ UNCHANGED <<cached, listed, sync, waiting, affinity, req, past>>
    BY DEF SaveChannelStatus, cache
<1>2. row' \in [Channels -> Status] /\ events' \in 0..MaxEvents
    <2>1. writing \in Channels \X Status /\ row \in [Channels -> Status] /\ events \in 0..MaxEvents
        BY DEF SaveChannelStatus, IInv, Types
    <2>2. CASE row' = [row EXCEPT ![writing[1]] = writing[2]] /\ UNCHANGED events
        BY <2>1, <2>2
    <2>3. CASE events < MaxEvents /\ events' = events + 1 /\ UNCHANGED row
        BY <2>1, <2>3, ChannelAssumption
    <2> QED
        BY <2>2, <2>3 DEF SaveChannelStatus
<1>3. sync' \in [Syncers -> SyncStates] /\ waiting' \subseteq Channels \X Status
    BY <1>1 DEF IInv, Types
<1> QED
    BY <1>1, <1>2, <1>3, RowStep

LEMMA EnableChannelStep ==
    ASSUME IInv, NEW c \in Channels, EnableChannel(c)
    PROVE  IInv'
<1>1. /\ events < MaxEvents /\ events' = events + 1 /\ waiting' = waiting \union {<<c, "enabled">>}
      /\ UNCHANGED <<row, cached, listed, sync, writing, affinity, req, past>>
    BY DEF EnableChannel, cache
<1>2. events' \in 0..MaxEvents /\ waiting' \subseteq Channels \X Status
    BY <1>1, ChannelAssumption DEF IInv, Types, Status
<1>3. /\ row' \in [Channels -> Status] /\ sync' \in [Syncers -> SyncStates]
      /\ writing' = None \/ writing' \in Channels \X Status
    BY <1>1 DEF IInv, Types
<1> QED
    BY <1>1, <1>2, <1>3, RowStep

LEMMA AdminSetsStep ==
    ASSUME IInv, NEW c \in Channels, NEW status \in Status, AdminSets(c, status)
    PROVE  IInv'
<1>1. /\ events < MaxEvents /\ events' = events + 1 /\ row' = [row EXCEPT ![c] = status]
      /\ sync' = [sync EXCEPT !["admin"] = Due]
      /\ UNCHANGED <<cached, listed, waiting, writing, affinity, req, past>>
    BY DEF AdminSets, updates
<1>2. events' \in 0..MaxEvents /\ row' \in [Channels -> Status]
    BY <1>1, ChannelAssumption DEF IInv, Types
<1>3. sync' \in [Syncers -> SyncStates]
    BY <1>1 DEF IInv, Types, SyncStates
<1>4. waiting' \subseteq Channels \X Status /\ (writing' = None \/ writing' \in Channels \X Status)
    BY <1>1 DEF IInv, Types
<1> QED
    BY <1>1, <1>2, <1>3, <1>4, RowStep

LEMMA ReadChannelsStep ==
    ASSUME IInv, NEW s \in Syncers, ReadChannels(s)
    PROVE  IInv'
<1>1. PICK v : v = [at |-> "read", rows |-> row]
    OBVIOUS
<1>2. /\ sync' = [sync EXCEPT ![s] = v]
      /\ UNCHANGED <<row, cached, listed, waiting, writing, affinity, req, past, events>>
    BY <1>1 DEF ReadChannels, updates
<1>3. v \in SyncStates
    <2>1. row \in [Channels -> Entries]
        BY DEF IInv, Types, Entries
    <2> QED
        BY <1>1, <2>1 DEF SyncStates
<1>4. sync' \in [Syncers -> SyncStates]
    BY <1>2, <1>3 DEF IInv, Types
<1>5. /\ row' \in [Channels -> Status] /\ waiting' \subseteq Channels \X Status
      /\ writing' = None \/ writing' \in Channels \X Status
      /\ events' \in 0..MaxEvents
    BY <1>2 DEF IInv, Types
<1> QED
    BY <1>2, <1>4, <1>5, RowStep

LEMMA ReadChannelsFailsStep ==
    ASSUME IInv, NEW s \in Syncers, ReadChannelsFails(s)
    PROVE  IInv'
<1>1. PICK f, v : f = [c \in Channels |-> "absent"] /\ v = [at |-> "read", rows |-> f]
    OBVIOUS
<1>2. /\ sync' = [sync EXCEPT ![s] = v] /\ events < MaxEvents /\ events' = events + 1
      /\ UNCHANGED <<row, cached, listed, waiting, writing, affinity, req, past>>
    BY <1>1 DEF ReadChannelsFails, updates
<1>3. v \in SyncStates
    <2>1. f \in [Channels -> Entries]
        BY <1>1 DEF Entries
    <2> QED
        BY <1>1, <2>1 DEF SyncStates
<1>4. sync' \in [Syncers -> SyncStates] /\ events' \in 0..MaxEvents
    BY <1>2, <1>3, ChannelAssumption DEF IInv, Types
<1>5. /\ row' \in [Channels -> Status] /\ waiting' \subseteq Channels \X Status
      /\ writing' = None \/ writing' \in Channels \X Status
    BY <1>2 DEF IInv, Types
<1> QED
    BY <1>2, <1>4, <1>5, RowStep

LEMMA StartedType == Started \in [Syncers -> SyncStates]
BY DEF Started, SyncStates

\* A node that starts again has only requests that have not begun and ended ones.
LEMMA RestartStep ==
    ASSUME IInv, Restart, UNCHANGED row, events' \in 0..MaxEvents
    PROVE  IInv'
<1>1. PICK b : b = Blank("done", "single", "none")
    OBVIOUS
<1>2. /\ cached' = row /\ listed' = {c \in Channels : row[c] = "enabled"} /\ sync' = Started
      /\ waiting' = {} /\ writing' = None /\ affinity' \in {affinity, None}
      /\ req' = [q \in Requests |-> IF req[q].pc = "new" THEN req[q] ELSE b]
      /\ past' = [q \in Requests |-> NoPast]
    BY <1>1 DEF Restart
<1>3. b \in RequestRecord /\ Fit(b, NoPast) /\ b.pc = "done"
    BY <1>1, BlankFacts DEF Modes, Rules, Blank
<1>4. listed' \subseteq Channels
    BY <1>2
<1>5. ASSUME NEW u \in Requests
      PROVE  req'[u] \in RequestRecord /\ past'[u] = NoPast /\ Fit(req[u], past[u])'
    <2>1. PICK r : r = req'[u]
        OBVIOUS
    <2>2. past'[u] = NoPast
        BY <1>2
    <2>3. r \in RequestRecord /\ Fit(r, NoPast) /\ r.pc \in {"new", "done"}
        <3>1. CASE req[u].pc = "new"
            <4>1. r = req[u] /\ r \in RequestRecord /\ Fit(r, past[u])
                BY <1>2, <2>1, <3>1, Now
            <4>2. past[u] = NoPast
                BY <3>1, <4>1 DEF Fit, Resting
            <4> QED
                BY <3>1, <4>1, <4>2
        <3>2. CASE req[u].pc # "new"
            BY <1>2, <1>3, <2>1, <3>2
        <3> QED
            BY <3>1, <3>2
    <2>4. PICK p : p = NoPast
        OBVIOUS
    <2>5. Fit(r, p)'
        BY <2>3, <2>4, RestingFit
    <2> QED
        BY <2>1, <2>2, <2>3, <2>4, <2>5
<1>6. req' \in [Requests -> RequestRecord] /\ past' \in [Requests -> Counters]
    BY <1>2, <1>5, NoPastFacts
<1>7. row \in [Channels -> Status] /\ row \in [Channels -> Entries] /\ affinity' \in Channels \union {None}
    BY <1>2 DEF IInv, Types, Entries
<1>8. Types'
    BY <1>2, <1>4, <1>6, <1>7, StartedType DEF Types
<1> QED
    BY <1>5, <1>8 DEF IInv, Fits

LEMMA ReadAbilitiesFailsStep ==
    ASSUME IInv, NEW s \in Syncers, ReadAbilitiesFails(s)
    PROVE  IInv'
<1>1. events' \in 0..MaxEvents /\ UNCHANGED row
    BY ChannelAssumption DEF ReadAbilitiesFails, IInv, Types
<1>2. CASE s = "loop"
    BY <1>1, <1>2, RestartStep DEF ReadAbilitiesFails
<1>3. CASE s # "loop"
    <2>1. /\ sync' = [sync EXCEPT ![s] = Idle]
          /\ UNCHANGED <<cached, listed, waiting, writing, affinity, req, past>>
        BY <1>3 DEF ReadAbilitiesFails, updates
    <2>2. sync' \in [Syncers -> SyncStates]
        BY <2>1 DEF IInv, Types, SyncStates
    <2>3. /\ row' \in [Channels -> Status] /\ waiting' \subseteq Channels \X Status
          /\ writing' = None \/ writing' \in Channels \X Status
        BY <1>1, <2>1 DEF IInv, Types
    <2> QED
        BY <1>1, <2>1, <2>2, <2>3, RowStep
<1> QED
    BY <1>2, <1>3

LEMMA InitInv ==
    ASSUME Init
    PROVE  IInv
<1>1. ASSUME NEW q \in Requests
      PROVE  req[q] \in RequestRecord /\ past[q] = NoPast /\ Fit(req[q], past[q])
    <2>1. PICK m \in Modes, u \in Rules : req[q] = Blank("new", m, u)
        BY DEF Init
    <2>2. past[q] = NoPast
        BY DEF Init
    <2> QED
        BY <2>1, <2>2, BlankFacts
<1>2. req \in [Requests -> RequestRecord]
    BY <1>1 DEF Init
<1>3. past \in [Requests -> Counters]
    BY NoPastFacts DEF Init
<1>4. row \in [Channels -> Status] /\ cached \in [Channels -> Entries] /\ sync \in [Syncers -> SyncStates]
    <2>1. row \in [Channels -> Status] /\ cached \in [Channels -> Entries]
        BY DEF Init, Status, Entries
    <2>2. sync \in [Syncers -> SyncStates]
        BY StartedType DEF Init
    <2> QED
        BY <2>1, <2>2
<1>5. Types
    BY <1>2, <1>3, <1>4, ChannelAssumption DEF Init, Types
<1> QED
    BY <1>1, <1>5 DEF IInv, Fits

LEMMA NextInv ==
    ASSUME IInv, [Next]_vars
    PROVE  IInv'
<1>1. ASSUME NEW q \in Requests, Request(q)
      PROVE  IInv'
    BY <1>1, DistributePreferredStep, DistributeStep, DrawStep, PassGroupStep, NoChannelStep,
       RelaySucceedsStep, RelayFailsStep DEF Request
<1>2. ASSUME NEW c \in Channels, NEW s \in {"enabled", "auto"}, UpdateChannelStatus(c, s)
      PROVE  IInv'
    BY <1>2, UpdateChannelStatusStep DEF Status
<1>3. ASSUME NEW c \in Channels, NEW s \in {"enabled", "manual"}, AdminSets(c, s)
      PROVE  IInv'
    BY <1>3, AdminSetsStep DEF Status
<1>4. CASE UNCHANGED vars
    <2>1. UNCHANGED <<row, cached, listed, sync, waiting, writing, affinity, req, past, events>>
        BY <1>4 DEF vars, cache, updates
    <2>2. /\ row' \in [Channels -> Status] /\ sync' \in [Syncers -> SyncStates]
          /\ waiting' \subseteq Channels \X Status
          /\ writing' = None \/ writing' \in Channels \X Status
          /\ events' \in 0..MaxEvents
        BY <2>1 DEF IInv, Types
    <2> QED
        BY <2>1, <2>2, RowStep
<1> QED
    BY <1>1, <1>2, <1>3, <1>4, EnableChannelStep, SaveChannelStatusStep, ReadChannelsStep,
       ReadChannelsFailsStep, ReadAbilitiesFailsStep, InitChannelCacheStep DEF Next

LEMMA Invariant == Spec => []IInv
BY InitInv, NextInv, PTL DEF Spec

-----------------------------------------------------------------------------
(* The theorems.                                                            *)

\* The rows, the cache, the requests and their counters have their types in every reachable
\* state; the retry counter of a request that goes on stays within RetryTimes although
\* ResetRetryNextTry and SetRetry change it, and the group index at most one behind the last
\* auto group (TypeOK).
THEOREM TypeCorrect == Spec => []TypeOK
<1>1. ASSUME IInv PROVE TypeOK
    <2>1. \A q \in Requests : req[q].pc \in {"first", "select", "relay"} => req[q].retry <= RetryTimes
        BY <1>1 DEF IInv, Fits, Fit, Selecting, Relaying
    <2> QED
        BY <1>1, <2>1 DEF IInv, Types, TypeOK, RequestRecord, SyncStates
<1> QED
    BY <1>1, Invariant, PTL

\* A request selects at most RetryTimes + 1 channels in each of its groups, where the attempt
\* at a session's channel counts for the first group wherever that channel is, and makes no
\* more attempts in all than that allows (AttemptsBounded), for any number of groups: setting
\* the counter back between groups cannot prolong the loop of Relay beyond that, whatever
\* channels come and go.
THEOREM LoopIsBounded == Spec => []AttemptsBounded
<1>1. IInv => AttemptsBounded
    BY DEF IInv, Fits, Fit, Within, Credit, Cap, AttemptsBounded
<1> QED
    BY <1>1, Invariant, PTL

\* No group with a channel is passed over before it had all its attempts, and no priority of
\* a group before the higher ones were tried (NothingSkipped), for any groups and priorities
\* of any number of channels: the one counter that selects the priority, ends the loop and is
\* set back between groups does all three right.
THEOREM NoChannelIsSkipped == Spec => []NothingSkipped
<1>1. ASSUME IInv PROVE NothingSkipped
    <2> SUFFICES ASSUME NEW q \in Requests, req[q].pc = "relay", past[q].share[req[q].group] > 0
                 PROVE  /\ \A g \in Groups : g < req[q].group =>
                             \/ g \in past[q].dry
                             \/ req[q].mode = "cross" /\ Credit(past[q], g) >= RetryTimes + 1
                        /\ ~past[q].disturbed /\ (past[q].preferred => req[q].group # 1) =>
                             \A c \in Candidates(req[q].group) :
                                Priority[c] > Priority[req[q].channel] =>
                                    <<req[q].group, Priority[c]>> \in past[q].seen
        BY DEF NothingSkipped, Credit
    <2>1. PICK r, p : r = req[q] /\ p = past[q]
        OBVIOUS
    <2>2. r \in RequestRecord /\ Relaying(r, p)
        BY <1>1, <2>1, Now DEF Fit
    <2>3. ~AtPreferred(r, p)
        BY <2>1, <2>2 DEF AtPreferred, RequestRecord
    <2>4. AtSelected(r, p)
        BY <2>2, <2>3 DEF Relaying
    <2> QED
        BY <2>1, <2>4 DEF AtSelected, Passed, Settled, TriedAbove
<1> QED
    BY <1>1, Invariant, PTL
===============================================================================
