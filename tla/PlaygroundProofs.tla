--------------------------- MODULE PlaygroundProofs ---------------------------
(***************************************************************************)
(* Proofs about Playground: the types, that a message holds only its own   *)
(* answer and that a finished answer stays as it is, for conversations of  *)
(* any length.                                                             *)
(***************************************************************************)
EXTENDS Playground, SequenceTheorems, WellFoundedInduction, NaturalsInduction, TLAPS

\* Keys are given out once.
Keyed(ms, n) ==
    /\ \A i \in DOMAIN ms : ms[i].key <= n
    /\ \A i, j \in DOMAIN ms : ms[i].key = ms[j].key => i = j

Own(m) == m.text \subseteq (IF m.from = "user" THEN {0} ELSE {0, m.key})

OwnAll(ms) == \A i \in DOMAIN ms : Own(ms[i])

\* m2 is what may become of m: a finished message stays finished and gets no new text.
Tame(m, m2) ==
    /\ m2.key = m.key
    /\ ~Unfinished(m) => ~Unfinished(m2) /\ m2.text \subseteq m.text \cup {0}

\* ms2 are the messages ms, some of them further on.
Follows(ms, ms2) ==
    /\ DOMAIN ms2 = DOMAIN ms
    /\ \A i \in DOMAIN ms : Tame(ms[i], ms2[i]) /\ ms2[i].from = ms[i].from

\* As long as no unguarded button was used while generating: the only stream is the one of
\* sseSourceRef, it is the stream of the last message, which is not finished, and the page
\* knows that it generates; what is queued, and what is saved, only carries on what is shown.
Calm ==
    /\ source # None => isGenerating
    /\ streams \subseteq {source}
    /\ source # None => EndsInAssistant(messages) /\ Last(messages).key = source
    /\ streams # {} => Unfinished(Last(messages)) /\ ~complete
    /\ OwnAll(messages) /\ OwnAll(shown) /\ OwnAll(saved)
    /\ Follows(shown, messages) /\ Follows(shown, saved)

\* The inductive invariant.
IInv ==
    /\ TypeOK
    /\ Keyed(messages, lastKey) /\ Keyed(shown, lastKey) /\ Keyed(saved, lastKey)
    /\ ~overlapped => Calm

-----------------------------------------------------------------------------
(* Messages.                                                                *)

\* Every message of ms2 comes from one of ms, or is new.
Derives(ms, n, ms2) ==
    \A j \in DOMAIN ms2 : ms2[j].key > n \/ \E i \in DOMAIN ms : Tame(ms[i], ms2[j])

LEMMA MessageFacts ==
    ASSUME NEW ms \in Seq(Message)
    PROVE  /\ Len(ms) \in Nat /\ DOMAIN ms = 1..Len(ms)
           /\ \A i \in DOMAIN ms : ms[i] \in Message /\ ms[i].key \in Nat
           /\ ms # <<>> => Len(ms) \in DOMAIN ms /\ Last(ms) = ms[Len(ms)] /\ Last(ms) \in Message
<1>1. Len(ms) \in Nat /\ DOMAIN ms = 1..Len(ms) /\ ms \in [1..Len(ms) -> Message]
    BY LenProperties
<1>2. \A i \in DOMAIN ms : ms[i] \in Message /\ ms[i].key \in Nat
    BY <1>1, PlaygroundAssumption DEF Message, Keys
<1>3. ms # <<>> => Len(ms) \in Nat \ {0}
    BY EmptySeq
<1> QED
    BY <1>1, <1>2, <1>3 DEF Last

\* One message is replaced by one with its key.
LEMMA Replaced ==
    \A ms \in Seq(Message) : \A n : Keyed(ms, n) =>
        \A i \in DOMAIN ms : \A m \in Message : m.key = ms[i].key =>
            LET ms2 == [ms EXCEPT ![i] = m]
            IN  /\ ms2 \in Seq(Message) /\ Keyed(ms2, n)
                /\ DOMAIN ms2 = DOMAIN ms /\ Len(ms2) = Len(ms) /\ ms2[i] = m
                /\ \A j \in DOMAIN ms : j # i => ms2[j] = ms[j]
<1> SUFFICES ASSUME NEW ms \in Seq(Message), NEW n, Keyed(ms, n), NEW i \in DOMAIN ms,
                    NEW m \in Message, m.key = ms[i].key, NEW ms2, ms2 = [ms EXCEPT ![i] = m]
             PROVE  /\ ms2 \in Seq(Message) /\ Keyed(ms2, n)
                    /\ DOMAIN ms2 = DOMAIN ms /\ Len(ms2) = Len(ms) /\ ms2[i] = m
                    /\ \A j \in DOMAIN ms : j # i => ms2[j] = ms[j]
    BY Zenon
<1>1. DOMAIN ms = 1..Len(ms) /\ Len(ms) \in Nat
    BY MessageFacts
<1>2. ms2 \in Seq(Message) /\ Len(ms2) = Len(ms)
      /\ \A j \in DOMAIN ms : ms2[j] = IF j = i THEN m ELSE ms[j]
    BY <1>1, ExceptSeq
<1>3. DOMAIN ms2 = DOMAIN ms
    OBVIOUS
<1>4. Keyed(ms2, n)
    BY <1>2, <1>3 DEF Keyed
<1> QED
    BY <1>2, <1>3, <1>4

\* The messages up to the n-th.
LEMMA Cut ==
    ASSUME NEW ms \in Seq(Message), NEW n, Keyed(ms, n), NEW k \in 0..Len(ms)
    PROVE  LET ms2 == SubSeq(ms, 1, k)
           IN  /\ ms2 \in Seq(Message) /\ Keyed(ms2, n) /\ Len(ms2) = k
               /\ DOMAIN ms2 = 1..k /\ \A j \in 1..k : j \in DOMAIN ms /\ ms2[j] = ms[j]
<1>1. PICK ms2 : ms2 = SubSeq(ms, 1, k)
    OBVIOUS
<1>2. DOMAIN ms = 1..Len(ms) /\ Len(ms) \in Nat /\ \A j \in 1..k : j \in DOMAIN ms /\ ms[j] \in Message
    BY MessageFacts
<1>3. k \in Nat
    BY <1>2
<1>4. /\ ms2 \in Seq(Message) /\ Len(ms2) = IF 1 <= k THEN k - 1 + 1 ELSE 0
      /\ \A j \in 1..(k - 1 + 1) : ms2[j] = ms[1 + j - 1]
    BY <1>1, <1>2, <1>3, SubSeqProperties
<1>5. Len(ms2) = k /\ \A j \in 1..k : ms2[j] = ms[j]
    BY <1>3, <1>4
<1>6. DOMAIN ms2 = 1..k
    BY <1>4, <1>5, MessageFacts
<1>7. Keyed(ms2, n)
    BY <1>2, <1>5, <1>6 DEF Keyed
<1> QED
    BY <1>1, <1>2, <1>4, <1>5, <1>6, <1>7

\* A new message is put at the end.
LEMMA Extended ==
    ASSUME NEW ms \in Seq(Message), NEW n \in Nat, Keyed(ms, n), NEW m \in Message, m.key > n
    PROVE  LET ms2 == Append(ms, m)
           IN  /\ ms2 \in Seq(Message) /\ Keyed(ms2, m.key) /\ ms2 # <<>>
               /\ Last(ms2) = m /\ DOMAIN ms2 = 1..(Len(ms) + 1) /\ Len(ms2) = Len(ms) + 1
               /\ ms2[Len(ms) + 1] = m
               /\ \A j \in 1..Len(ms) : j \in DOMAIN ms /\ ms2[j] = ms[j]
<1>1. PICK ms2 : ms2 = Append(ms, m)
    OBVIOUS
<1>2. /\ ms2 \in Seq(Message) /\ ms2 # <<>> /\ Len(ms2) = Len(ms) + 1 /\ ms2[Len(ms) + 1] = m
      /\ \A j \in 1..Len(ms) : ms2[j] = ms[j]
    BY <1>1, AppendProperties
<1>3. /\ DOMAIN ms = 1..Len(ms) /\ Len(ms) \in Nat /\ m.key \in Nat
      /\ \A i \in DOMAIN ms : ms[i].key \in Nat
    <2>1. m.key \in Nat
        BY PlaygroundAssumption DEF Message, Keys
    <2> QED
        BY <2>1, MessageFacts
<1>4. DOMAIN ms2 = 1..(Len(ms) + 1) /\ Last(ms2) = m
    BY <1>2, MessageFacts
<1>5. Keyed(ms2, m.key)
    <2>1. \A j \in DOMAIN ms2 : j = Len(ms) + 1 \/ j \in DOMAIN ms
        BY <1>3, <1>4
    <2>2. \A j \in DOMAIN ms : ms2[j] = ms[j] /\ ms[j].key <= n
        BY <1>2, <1>3 DEF Keyed
    <2>3. \A j \in DOMAIN ms : ms2[j].key < m.key
        BY <1>3, <2>2
    <2>4. \A j \in DOMAIN ms2 : ms2[j].key <= m.key
        BY <1>2, <1>3, <2>1, <2>3, <2>2
    <2>5. ASSUME NEW i \in DOMAIN ms2, NEW j \in DOMAIN ms2, ms2[i].key = ms2[j].key
          PROVE  i = j
        BY <1>2, <1>3, <2>1, <2>2, <2>3, <2>5 DEF Keyed
    <2> QED
        BY <2>4, <2>5 DEF Keyed
<1> QED
    BY <1>1, <1>2, <1>3, <1>4, <1>5

\* One message is taken out.
LEMMA Removed ==
    ASSUME NEW ms \in Seq(Message), NEW n, Keyed(ms, n), NEW i \in DOMAIN ms
    PROVE  LET ms2 == RemoveAt(ms, i)
           IN  /\ ms2 \in Seq(Message) /\ Keyed(ms2, n)
               /\ \A j \in DOMAIN ms2 : \E k \in DOMAIN ms : ms2[j] = ms[k]
<1> DEFINE a == SubSeq(ms, 1, i - 1)
           b == SubSeq(ms, i + 1, Len(ms))
<1>1. /\ DOMAIN ms = 1..Len(ms) /\ Len(ms) \in Nat /\ i \in Nat /\ i >= 1 /\ i <= Len(ms)
      /\ \A j \in 1..Len(ms) : ms[j] \in Message
    BY MessageFacts
<1>2. /\ a \in Seq(Message) /\ Len(a) = i - 1 /\ \A j \in 1..(i - 1) : a[j] = ms[j]
    <2>1. i - 1 \in 0..Len(ms)
        BY <1>1
    <2> QED
        BY <2>1, Cut
<1>3. /\ b \in Seq(Message) /\ Len(b) = Len(ms) - i /\ \A j \in 1..(Len(ms) - i) : b[j] = ms[i + j]
    <2>1. \A j \in (i + 1)..Len(ms) : ms[j] \in Message
        BY <1>1
    <2>2. /\ b \in Seq(Message) /\ Len(b) = IF i + 1 <= Len(ms) THEN Len(ms) - (i + 1) + 1 ELSE 0
          /\ \A j \in 1..(Len(ms) - (i + 1) + 1) : b[j] = ms[(i + 1) + j - 1]
        BY <1>1, <2>1, SubSeqProperties
    <2> HIDE DEF b
    <2>3. Len(b) = Len(ms) - i
        BY <1>1, <2>2
    <2>4. ASSUME NEW j \in 1..(Len(ms) - i)
          PROVE  b[j] = ms[i + j]
        <3>1. j \in 1..(Len(ms) - (i + 1) + 1) /\ (i + 1) + j - 1 = i + j
            BY <1>1
        <3> QED
            BY <2>2, <3>1
    <2> QED
        BY <2>2, <2>3, <2>4
<1> HIDE DEF a, b
<1>4. PICK ms2 : ms2 = a \o b
    OBVIOUS
<1>5. /\ ms2 \in Seq(Message) /\ Len(ms2) = Len(ms) - 1
      /\ \A j \in 1..(Len(ms) - 1) : ms2[j] = IF j <= i - 1 THEN ms[j] ELSE ms[j + 1]
    <2>1. /\ ms2 \in Seq(Message) /\ Len(ms2) = Len(a) + Len(b)
          /\ \A j \in 1..(Len(a) + Len(b)) : ms2[j] = IF j <= Len(a) THEN a[j] ELSE b[j - Len(a)]
        BY <1>2, <1>3, <1>4, ConcatProperties
    <2>2. Len(a) + Len(b) = Len(ms) - 1
        BY <1>1, <1>2, <1>3
    <2>3. ASSUME NEW j \in 1..(Len(ms) - 1)
          PROVE  ms2[j] = IF j <= i - 1 THEN ms[j] ELSE ms[j + 1]
        <3>1. CASE j <= i - 1
            BY <1>1, <1>2, <2>1, <2>2, <3>1
        <3>2. CASE j > i - 1
            <4>1. j - (i - 1) \in 1..(Len(ms) - i) /\ i + (j - (i - 1)) = j + 1
                BY <1>1, <3>2
            <4>2. b[j - (i - 1)] = ms[j + 1]
                BY <1>3, <4>1
            <4> QED
                BY <1>1, <1>2, <2>1, <2>2, <3>2, <4>2
        <3> QED
            BY <1>1, <3>1, <3>2
    <2> QED
        BY <2>1, <2>2, <2>3
<1>6. DOMAIN ms2 = 1..(Len(ms) - 1)
    BY <1>5, MessageFacts
<1>7. PICK f : f = [j \in 1..(Len(ms) - 1) |-> IF j <= i - 1 THEN j ELSE j + 1]
    OBVIOUS
<1>8. \A j \in DOMAIN ms2 : f[j] \in DOMAIN ms /\ ms2[j] = ms[f[j]]
    BY <1>1, <1>5, <1>6, <1>7
<1>9. \A j, k \in DOMAIN ms2 : f[j] = f[k] => j = k
    BY <1>1, <1>6, <1>7
<1>10. Keyed(ms2, n)
    BY <1>8, <1>9 DEF Keyed
<1>11. RemoveAt(ms, i) = ms2
    BY <1>4 DEF RemoveAt, a, b
<1> QED
    BY <1>5, <1>8, <1>10, <1>11

LEMMA TameSelf ==
    ASSUME NEW m
    PROVE  Tame(m, m)
BY DEF Tame

LEMMA TameTrans ==
    ASSUME NEW m, NEW m2, NEW m3, Tame(m, m2), Tame(m2, m3)
    PROVE  Tame(m, m3)
BY DEF Tame

\* What is shown, carried on, and carried on again.
LEMMA FollowsFacts ==
    ASSUME NEW ms, NEW n, NEW ms2, Follows(ms, ms2)
    PROVE  /\ Derives(ms, n, ms2)
           /\ \A ms3 : Derives(ms2, n, ms3) => Derives(ms, n, ms3)
           /\ \A ms3 : Follows(ms2, ms3) => Follows(ms, ms3)
<1>1. Derives(ms, n, ms2)
    BY DEF Follows, Derives
<1>2. ASSUME NEW ms3, Derives(ms2, n, ms3)
      PROVE  Derives(ms, n, ms3)
    BY <1>2, TameTrans DEF Follows, Derives
<1>3. ASSUME NEW ms3, Follows(ms2, ms3)
      PROVE  Follows(ms, ms3)
    BY <1>3, TameTrans DEF Follows
<1> QED
    BY <1>1, <1>2, <1>3

LEMMA FollowsSelf ==
    ASSUME NEW ms, NEW n
    PROVE  Follows(ms, ms) /\ Derives(ms, n, ms)
BY TameSelf DEF Follows, Derives

LEMMA CompletedFacts ==
    ASSUME NEW m \in Message
    PROVE  LET c == Completed(m)
           IN  /\ c \in Message /\ c.key = m.key /\ c.from = m.from /\ c.text = m.text
               /\ Tame(m, c) /\ ~Unfinished(c)
<1>1. CASE Unfinished(m)
    BY <1>1 DEF Completed, Message, Tame, Unfinished
<1>2. CASE ~Unfinished(m)
    BY <1>2, TameSelf DEF Completed
<1> QED
    BY <1>1, <1>2

LEMMA ErrorFacts ==
    ASSUME NEW m \in Message
    PROVE  LET c == WithError(m)
           IN  /\ c \in Message /\ c.key = m.key /\ c.from = m.from /\ c.text = {0}
               /\ Tame(m, c) /\ Own(c)
<1>1. PICK c : c = WithError(m)
    OBVIOUS
<1>2. {0} \in SUBSET (0..MaxKeys)
    BY PlaygroundAssumption
<1>3. c \in Message /\ c.key = m.key /\ c.from = m.from /\ c.text = {0} /\ c.status = "error"
    BY <1>1, <1>2 DEF WithError, Message
<1>4. Tame(m, c) /\ Own(c)
    BY <1>3 DEF Tame, Own, Unfinished
<1> QED
    BY <1>1, <1>3, <1>4

LEMMA ChunkFacts ==
    ASSUME NEW m \in Message, NEW k \in 1..MaxKeys
    PROVE  LET c == WithChunk(m, k)
           IN  /\ c \in Message /\ c.key = m.key /\ c.from = m.from
               /\ Unfinished(m) => Tame(m, c) /\ Unfinished(c)
               /\ m.from = "assistant" /\ m.key = k /\ Own(m) => Own(c)
<1>1. PICK T : T = m.text \cup {k}
    OBVIOUS
<1>2. T \in SUBSET (0..MaxKeys)
    BY <1>1, PlaygroundAssumption DEF Message
<1>3. CASE m.status = "error"
    BY <1>3, TameSelf DEF WithChunk, Unfinished
<1>4. CASE m.status # "error"
    <2>1. PICK c : c = [m EXCEPT !.status = "streaming", !.text = T]
        OBVIOUS
    <2>2. WithChunk(m, k) = c
        BY <1>1, <1>4, <2>1 DEF WithChunk
    <2>3. c \in Message /\ c.key = m.key /\ c.from = m.from /\ c.text = T /\ c.status = "streaming"
        BY <1>2, <2>1 DEF Message
    <2>4. Unfinished(m) => Tame(m, c) /\ Unfinished(c)
        BY <2>3 DEF Tame, Unfinished
    <2>5. m.from = "assistant" /\ m.key = k /\ Own(m) => Own(c)
        BY <1>1, <2>3 DEF Own
    <2> QED
        BY <2>2, <2>3, <2>4, <2>5
<1> QED
    BY <1>3, <1>4

LEMMA LoadingFacts ==
    ASSUME NEW k \in 1..MaxKeys
    PROVE  /\ createLoadingAssistantMessage(k) \in Message
           /\ createLoadingAssistantMessage(k).key = k
           /\ createLoadingAssistantMessage(k).from = "assistant"
           /\ Unfinished(createLoadingAssistantMessage(k)) /\ Own(createLoadingAssistantMessage(k))
           /\ createUserMessage(k) \in Message /\ createUserMessage(k).key = k
           /\ Own(createUserMessage(k))
<1>1. {0} \in SUBSET (0..MaxKeys) /\ {} \in SUBSET (0..MaxKeys)
    BY PlaygroundAssumption
<1> QED
    BY <1>1 DEF createLoadingAssistantMessage, createUserMessage, Message, Keys, Own, Unfinished

\* What updateLastAssistantMessage does to messages with distinct keys.
LEMMA LastUpdated ==
    ASSUME NEW ms \in Seq(Message), NEW n, Keyed(ms, n), NEW m, NEW ms2,
           EndsInAssistant(ms) => m \in Message /\ m.key = Last(ms).key /\ m.from = Last(ms).from,
           ms2 = updateLastAssistantMessage(ms, m)
    PROVE  /\ ms2 \in Seq(Message) /\ Keyed(ms2, n)
           /\ ~EndsInAssistant(ms) => ms2 = ms
           /\ EndsInAssistant(ms) =>
                /\ EndsInAssistant(ms2) /\ Last(ms2) = m
                /\ DOMAIN ms2 = DOMAIN ms /\ Len(ms) \in DOMAIN ms /\ ms2[Len(ms)] = m
                /\ \A j \in DOMAIN ms : j # Len(ms) => ms2[j] = ms[j]
<1>1. CASE ~EndsInAssistant(ms)
    BY <1>1 DEF updateLastAssistantMessage
<1>2. CASE EndsInAssistant(ms)
    <2>1. ms # <<>> /\ Len(ms) \in DOMAIN ms /\ Last(ms) = ms[Len(ms)] /\ Last(ms).from = "assistant"
        BY <1>2, MessageFacts DEF EndsInAssistant
    <2>2. ms2 = [ms EXCEPT ![Len(ms)] = m]
        BY <1>2 DEF updateLastAssistantMessage
    <2>3. /\ ms2 \in Seq(Message) /\ Keyed(ms2, n)
          /\ DOMAIN ms2 = DOMAIN ms /\ Len(ms2) = Len(ms) /\ ms2[Len(ms)] = m
          /\ \A j \in DOMAIN ms : j # Len(ms) => ms2[j] = ms[j]
        <3>1. PICK i \in DOMAIN ms : i = Len(ms)
            BY <2>1
        <3>2. m \in Message /\ m.key = ms[i].key /\ ms2 = [ms EXCEPT ![i] = m]
            BY <1>2, <2>1, <2>2, <3>1
        <3>3. /\ ms2 \in Seq(Message) /\ Keyed(ms2, n)
              /\ DOMAIN ms2 = DOMAIN ms /\ Len(ms2) = Len(ms) /\ ms2[i] = m
              /\ \A j \in DOMAIN ms : j # i => ms2[j] = ms[j]
            <4>1. LET t == [ms EXCEPT ![i] = m]
                  IN  /\ t \in Seq(Message) /\ Keyed(t, n)
                      /\ DOMAIN t = DOMAIN ms /\ Len(t) = Len(ms) /\ t[i] = m
                      /\ \A j \in DOMAIN ms : j # i => t[j] = ms[j]
                BY <3>2, Replaced, Zenon
            <4> QED
                BY <3>2, <4>1, Zenon
        <3> QED
            BY <3>1, <3>3
    <2>4. ms2 # <<>> /\ Last(ms2) = m
        <3>1. ms2 # <<>>
            BY <2>1, <2>3, EmptySeq, MessageFacts
        <3> QED
            BY <2>3, <3>1, MessageFacts
    <2>5. EndsInAssistant(ms2)
        BY <1>2, <2>1, <2>4 DEF EndsInAssistant
    <2> QED
        BY <1>2, <2>1, <2>3, <2>4, <2>5
<1> QED
    BY <1>1, <1>2

\* An update of the last message keeps what the others are.
LEMMA LastDerives ==
    ASSUME NEW ms \in Seq(Message), NEW n, NEW m, NEW ms2,
           DOMAIN ms2 = DOMAIN ms, Len(ms) \in DOMAIN ms, ms2[Len(ms)] = m,
           \A j \in DOMAIN ms : j # Len(ms) => ms2[j] = ms[j]
    PROVE  /\ Tame(Last(ms), m) => Derives(ms, n, ms2)
           /\ Tame(Last(ms), m) /\ m.from = Last(ms).from => Follows(ms, ms2)
           /\ Own(m) /\ OwnAll(ms) => OwnAll(ms2)
<1>1. Last(ms) = ms[Len(ms)]
    BY DEF Last
<1> QED
    BY <1>1, TameSelf DEF Derives, Follows, OwnAll

-----------------------------------------------------------------------------
(* The actions.                                                             *)

\* What every step is shown to do.
Result == IInv' /\ (~overlapped' => Derives(shown, lastKey, shown'))

LEMMA Now ==
    ASSUME IInv
    PROVE  /\ messages \in Seq(Message) /\ Keyed(messages, lastKey) /\ lastKey \in 0..MaxKeys
           /\ shown \in Seq(Message) /\ Keyed(shown, lastKey)
           /\ saved \in Seq(Message) /\ Keyed(saved, lastKey)
           /\ lastKey \in Nat /\ MaxKeys \in Nat
           /\ streams \subseteq 1..lastKey /\ source \in 0..lastKey
           /\ complete \in BOOLEAN /\ isGenerating \in BOOLEAN /\ dirty \in BOOLEAN
           /\ editing \in 0..lastKey /\ overlapped \in BOOLEAN /\ lost \in BOOLEAN
           /\ cutOff \in 0..lastKey
           /\ \A i \in DOMAIN shown : shown[i] \in Message /\ shown[i].key \in 0..lastKey
<1>1. /\ messages \in Seq(Message) /\ Keyed(messages, lastKey) /\ lastKey \in 0..MaxKeys
      /\ shown \in Seq(Message) /\ Keyed(shown, lastKey)
      /\ saved \in Seq(Message) /\ Keyed(saved, lastKey)
      /\ streams \subseteq 1..lastKey /\ source \in 0..lastKey
      /\ complete \in BOOLEAN /\ isGenerating \in BOOLEAN /\ dirty \in BOOLEAN
      /\ editing \in 0..lastKey /\ overlapped \in BOOLEAN /\ lost \in BOOLEAN
      /\ cutOff \in 0..lastKey
    BY DEF IInv, TypeOK
<1>2. lastKey \in Nat /\ MaxKeys \in Nat
    BY <1>1, PlaygroundAssumption
<1>3. \A i \in DOMAIN shown : shown[i] \in Message /\ shown[i].key \in Nat
    BY <1>1, MessageFacts
<1>4. \A i \in DOMAIN shown : shown[i].key \in 0..lastKey
    BY <1>1, <1>2, <1>3 DEF Keyed
<1> QED
    BY <1>1, <1>2, <1>3, <1>4

\* While nothing is generated there is no stream.
LEMMA IdleFacts ==
    ASSUME IInv, ~overlapped, ~isGenerating
    PROVE  source = None /\ streams = {} /\ OwnAll(shown)
<1>1. source = None /\ streams \subseteq {source} /\ OwnAll(shown)
    BY DEF IInv, Calm
<1>2. 0 \notin streams
    BY Now
<1> QED
    BY <1>1, <1>2 DEF None

\* A stream is open: it is the one of the last message.
LEMMA OpenFacts ==
    ASSUME IInv, ~overlapped, NEW k \in streams
    PROVE  /\ streams = {k} /\ source = k /\ isGenerating /\ ~complete
           /\ EndsInAssistant(messages) /\ Last(messages).key = k /\ Unfinished(Last(messages))
           /\ OwnAll(messages)
<1>1. k # None
    BY Now DEF None
<1>2. Calm
    BY DEF IInv
<1> QED
    BY <1>1, <1>2 DEF Calm

\* A step that ends with a render of ms.
LEMMA RenderedStep ==
    ASSUME IInv, NEW n \in 0..MaxKeys, lastKey <= n, lastKey' = n,
           NEW ms \in Seq(Message), Keyed(ms, n), NEW src \in 0..n, Rendered(ms, src),
           streams' \subseteq 1..n, complete' \in BOOLEAN, editing' \in 0..n,
           overlapped' \in BOOLEAN, lost' \in BOOLEAN, cutOff' \in 0..n,
           ~overlapped' =>
               /\ Derives(shown, lastKey, ms) /\ OwnAll(ms) /\ streams' \subseteq {src}
               /\ src # None => EndsInAssistant(ms) /\ Last(ms).key = src
               /\ streams' # {} => Unfinished(Last(ms)) /\ ~complete'
    PROVE  Result
<1>1. /\ messages' = ms /\ shown' = ms /\ saved' = ms /\ dirty' = FALSE /\ source' = src
      /\ isGenerating' = (src # None)
    BY DEF Rendered
<1>2. TypeOK'
    BY <1>1, Zenon DEF TypeOK
<1>3. Keyed(messages, lastKey)' /\ Keyed(shown, lastKey)' /\ Keyed(saved, lastKey)'
    BY <1>1, Zenon DEF Keyed
<1>4. ASSUME ~overlapped'
      PROVE  Calm'
    <2>1. Follows(ms, ms)
        BY FollowsSelf
    <2>2. Follows(shown, messages)' /\ Follows(shown, saved)'
        BY <1>1, <2>1, Zenon DEF Follows
    <2>3. OwnAll(messages)' /\ OwnAll(shown)' /\ OwnAll(saved)'
        BY <1>1, <1>4, Zenon DEF OwnAll
    <2>4. (source # None => EndsInAssistant(messages) /\ Last(messages).key = source)'
        BY <1>1, <1>4, Zenon DEF EndsInAssistant, Last
    <2>5. (streams # {} => Unfinished(Last(messages)) /\ ~complete)'
        BY <1>1, <1>4, Zenon DEF Unfinished, Last
    <2>6. (source # None => isGenerating)' /\ (streams \subseteq {source})'
        BY <1>1, <1>4, Zenon
    <2> QED
        BY <2>2, <2>3, <2>4, <2>5, <2>6 DEF Calm
<1>5. ~overlapped' => Derives(shown, lastKey, shown')
    BY <1>1, Zenon
<1> QED
    BY <1>2, <1>3, <1>4, <1>5 DEF Result, IInv

\* sendStreamRequest with ms, which ends in the loading message of key k.
LEMMA SendStep ==
    ASSUME IInv, NEW k \in 1..MaxKeys, k > lastKey, lastKey' = k,
           NEW ms \in Seq(Message), Keyed(ms, k), ms # <<>>,
           Last(ms) = createLoadingAssistantMessage(k), sendStreamRequest(ms, k),
           editing' \in 0..k, overlapped' \in BOOLEAN, lost' = lost, cutOff' = cutOff,
           ~overlapped' => ~overlapped /\ ~isGenerating,
           ~overlapped' => OwnAll(ms),
           Derives(shown, lastKey, ms)
    PROVE  Result
<1>1. /\ EndsInAssistant(ms) /\ Last(ms).key = k /\ Unfinished(Last(ms)) /\ Last(ms) \in Message
    BY LoadingFacts DEF EndsInAssistant
<1>2. /\ streams \subseteq 1..k /\ k \in 0..k /\ k # None /\ None \in 0..k /\ k \in 0..MaxKeys
      /\ lastKey <= k /\ lost' \in BOOLEAN /\ cutOff' \in 0..k
    BY Now DEF None
<1>3. ~overlapped' => streams = {}
    BY IdleFacts
<1>4. complete' = FALSE /\ complete' \in BOOLEAN
    BY DEF sendStreamRequest
<1>5. CASE Rendered(ms, k) /\ streams' = streams \cup {k}
    <2>1. streams' \subseteq 1..k
        BY <1>2, <1>5
    <2>2. ~overlapped' => streams' \subseteq {k}
        BY <1>3, <1>5
    <2> QED
        BY <1>1, <1>2, <1>4, <1>5, <2>1, <2>2, RenderedStep
<1>6. CASE /\ Rendered(updateLastAssistantMessage(ms, WithError(Last(ms))), None)
           /\ UNCHANGED streams
    <2>1. PICK m : m = WithError(Last(ms))
        OBVIOUS
    <2>2. m \in Message /\ m.key = k /\ m.from = Last(ms).from /\ Own(m)
        BY <1>1, <2>1, ErrorFacts
    <2>3. PICK ms2 : ms2 = updateLastAssistantMessage(ms, m)
        OBVIOUS
    <2>4. /\ ms2 \in Seq(Message) /\ Keyed(ms2, k)
          /\ DOMAIN ms2 = DOMAIN ms /\ Len(ms) \in DOMAIN ms /\ ms2[Len(ms)] = m
          /\ \A j \in DOMAIN ms : j # Len(ms) => ms2[j] = ms[j]
        BY <1>1, <2>2, <2>3, LastUpdated
    <2>5. Rendered(ms2, None)
        BY <1>6, <2>1, <2>3
    <2>6. Derives(shown, lastKey, ms2)
        BY <2>2, <2>4 DEF Derives
    <2>7. ~overlapped' => OwnAll(ms2)
        BY <2>2, <2>4 DEF OwnAll
    <2>8. /\ streams' \subseteq 1..k /\ complete' \in BOOLEAN
          /\ ~overlapped' => streams' = {}
        BY <1>2, <1>3, <1>4, <1>6
    <2>9. ~overlapped' =>
              /\ Derives(shown, lastKey, ms2) /\ OwnAll(ms2) /\ streams' \subseteq {None}
              /\ None # None => EndsInAssistant(ms2) /\ Last(ms2).key = None
              /\ streams' # {} => Unfinished(Last(ms2)) /\ ~complete'
        BY <2>6, <2>7, <2>8
    <2> QED
        BY <1>2, <2>4, <2>5, <2>8, <2>9, RenderedStep
<1> QED
    BY <1>5, <1>6 DEF sendStreamRequest

\* A new message at the end of messages that come from those of the page.
LEMMA Grown ==
    ASSUME NEW ms \in Seq(Message), NEW N \in Nat, Keyed(ms, N), NEW m \in Message, m.key > N,
           NEW old, NEW n \in Nat, n <= N, Derives(old, n, ms)
    PROVE  /\ Derives(old, n, Append(ms, m))
           /\ Own(m) /\ OwnAll(ms) => OwnAll(Append(ms, m))
<1>1. PICK ms2 : ms2 = Append(ms, m)
    OBVIOUS
<1>2. /\ DOMAIN ms2 = 1..(Len(ms) + 1) /\ ms2[Len(ms) + 1] = m
      /\ \A j \in 1..Len(ms) : j \in DOMAIN ms /\ ms2[j] = ms[j]
    BY <1>1, Extended
<1>3. Len(ms) \in Nat /\ m.key \in Nat
    BY MessageFacts, PlaygroundAssumption DEF Message, Keys
<1>4. \A j \in DOMAIN ms2 : ms2[j] = m \/ (j \in DOMAIN ms /\ ms2[j] = ms[j])
    BY <1>2, <1>3
<1>5. m.key > n
    BY <1>3
<1>6. Derives(old, n, ms2)
    BY <1>4, <1>5 DEF Derives
<1>7. Own(m) /\ OwnAll(ms) => OwnAll(ms2)
    BY <1>4 DEF OwnAll
<1> QED
    BY <1>1, <1>6, <1>7

LEMMA SendMessageStep ==
    ASSUME IInv, handleSendMessage, overlapped' \in BOOLEAN,
           ~overlapped' => ~overlapped /\ ~isGenerating
    PROVE  Result
<1>1. PICK u, a : u = createUserMessage(lastKey + 1) /\ a = createLoadingAssistantMessage(lastKey + 2)
    OBVIOUS
<1>2. /\ lastKey \in Nat /\ lastKey + 1 \in 1..MaxKeys /\ lastKey + 2 \in 1..MaxKeys
      /\ shown \in Seq(Message) /\ Keyed(shown, lastKey) /\ editing \in 0..lastKey
      /\ Derives(shown, lastKey, shown)
    BY Now, FollowsSelf DEF handleSendMessage
<1>3. /\ u \in Message /\ u.key = lastKey + 1 /\ Own(u)
      /\ a \in Message /\ a.key = lastKey + 2 /\ Own(a)
    BY <1>1, <1>2, LoadingFacts
<1>4. PICK t : t = Append(shown, u)
    OBVIOUS
<1>5. /\ t \in Seq(Message) /\ Keyed(t, lastKey + 1) /\ Derives(shown, lastKey, t)
      /\ OwnAll(shown) => OwnAll(t)
    <2>1. t \in Seq(Message) /\ Keyed(t, lastKey + 1)
        BY <1>2, <1>3, <1>4, Extended
    <2> QED
        BY <1>2, <1>3, <1>4, <2>1, Grown
<1>6. PICK ms : ms = Append(t, a)
    OBVIOUS
<1>7. /\ ms \in Seq(Message) /\ Keyed(ms, lastKey + 2) /\ ms # <<>> /\ Last(ms) = a
    BY <1>2, <1>3, <1>5, <1>6, Extended
<1>8. /\ Derives(shown, lastKey, ms)
      /\ OwnAll(t) => OwnAll(ms)
    BY <1>2, <1>3, <1>5, <1>6, Grown
<1>9. shown \o <<u, a>> = ms
    <2>1. t = shown \o <<u>> /\ ms = t \o <<a>>
        BY <1>2, <1>3, <1>4, <1>5, <1>6, AppendIsConcat
    <2>2. PICK s1, s2 : s1 = <<u>> /\ s2 = <<a>>
        OBVIOUS
    <2>3. s1 \in Seq(Message) /\ s2 \in Seq(Message)
        BY <1>3, <2>2
    <2>4. s1 \o s2 = <<u, a>>
        <3>1. Append(s1, a) = s1 \o s2
            BY <1>3, <2>2, <2>3, AppendIsConcat
        <3>2. Append(s1, a) = <<u, a>>
            <4>1. PICK w, v : w = <<u, a>> /\ v = Append(s1, a)
                OBVIOUS
            <4>2. w \in Seq(Message) /\ Len(w) = 2 /\ w[1] = u /\ w[2] = a
                BY <1>3, <4>1
            <4>3. Len(s1) = 1 /\ s1[1] = u
                BY <2>2
            <4>4. v \in Seq(Message) /\ Len(v) = 2 /\ v[1] = u /\ v[2] = a
                <5>1. /\ v \in Seq(Message) /\ Len(v) = Len(s1) + 1 /\ v[Len(s1) + 1] = a
                      /\ \A j \in 1..Len(s1) : v[j] = s1[j]
                    BY <1>3, <2>3, <4>1, AppendProperties
                <5> QED
                    BY <4>3, <5>1
            <4>5. \A j \in 1..2 : w[j] = v[j]
                BY <4>2, <4>4
            <4> QED
                BY <4>1, <4>2, <4>4, <4>5, SeqEqual
        <3> QED
            BY <3>1, <3>2
    <2>5. (shown \o s1) \o s2 = shown \o (s1 \o s2)
        BY <1>2, <2>3, ConcatAssociative
    <2> QED
        BY <2>1, <2>2, <2>4, <2>5
<1>10. /\ lastKey' = lastKey + 2 /\ sendStreamRequest(ms, lastKey + 2) /\ editing' = editing
       /\ lost' = lost /\ cutOff' = cutOff
    BY <1>1, <1>9 DEF handleSendMessage
<1>11. ~overlapped' => OwnAll(ms)
    BY <1>5, <1>8, IdleFacts
<1>12. lastKey + 2 > lastKey /\ editing' \in 0..(lastKey + 2)
    BY <1>2, <1>10
<1>13. PICK k : k = lastKey + 2
    OBVIOUS
<1> QED
    BY <1>1, <1>2, <1>7, <1>8, <1>10, <1>11, <1>12, <1>13, SendStep

LEMMA SubmitStep == IInv /\ (handleSubmit \/ handleSuggestionClick) => Result
<1> SUFFICES ASSUME IInv, handleSubmit \/ handleSuggestionClick PROVE Result
    OBVIOUS
<1>1. overlapped \in BOOLEAN /\ isGenerating \in BOOLEAN
    BY Now
<1>2. handleSendMessage /\ overlapped' \in BOOLEAN /\ (~overlapped' => ~overlapped /\ ~isGenerating)
    BY <1>1 DEF handleSubmit, handleSuggestionClick
<1> QED
    BY <1>2, SendMessageStep

\* The first shown, and a new answer.
LEMMA AnswerStep ==
    ASSUME IInv, NEW t \in Seq(Message), Keyed(t, lastKey), Derives(shown, lastKey, t),
           OwnAll(shown) => OwnAll(t),
           lastKey < MaxKeys, lastKey' = lastKey + 1,
           sendStreamRequest(Append(t, createLoadingAssistantMessage(lastKey + 1)), lastKey + 1),
           editing' \in 0..lastKey, overlapped' \in BOOLEAN, lost' = lost, cutOff' = cutOff,
           ~overlapped' => ~overlapped /\ ~isGenerating
    PROVE  Result
<1>1. PICK a : a = createLoadingAssistantMessage(lastKey + 1)
    OBVIOUS
<1>2. lastKey \in Nat /\ lastKey + 1 \in 1..MaxKeys /\ lastKey + 1 > lastKey
      /\ editing' \in 0..(lastKey + 1)
    BY Now
<1>3. a \in Message /\ a.key = lastKey + 1 /\ Own(a)
    BY <1>1, <1>2, LoadingFacts
<1>4. PICK ms : ms = Append(t, a)
    OBVIOUS
<1>5. ms \in Seq(Message) /\ Keyed(ms, lastKey + 1) /\ ms # <<>> /\ Last(ms) = a
    BY <1>2, <1>3, <1>4, Extended
<1>6. /\ Derives(shown, lastKey, ms)
      /\ OwnAll(t) => OwnAll(ms)
    BY <1>2, <1>3, <1>4, Grown
<1>7. ~overlapped' => OwnAll(ms)
    BY <1>6, IdleFacts
<1>8. sendStreamRequest(ms, lastKey + 1)
    BY <1>1, <1>4
<1> QED
    BY <1>1, <1>2, <1>5, <1>6, <1>7, <1>8, SendStep

LEMMA RegenerateStep ==
    ASSUME IInv, NEW i \in DOMAIN shown, handleRegenerateMessage(i)
    PROVE  Result
<1>1. /\ shown \in Seq(Message) /\ Keyed(shown, lastKey) /\ lastKey \in Nat
      /\ editing \in 0..lastKey /\ overlapped \in BOOLEAN
    BY Now
<1>2. i - 1 \in 0..Len(shown)
    BY <1>1, MessageFacts
<1>3. PICK t : t = SubSeq(shown, 1, i - 1)
    OBVIOUS
<1>4. /\ t \in Seq(Message) /\ Keyed(t, lastKey) /\ DOMAIN t = 1..(i - 1)
      /\ \A j \in 1..(i - 1) : j \in DOMAIN shown /\ t[j] = shown[j]
    BY <1>1, <1>2, <1>3, Cut
<1>5. Derives(shown, lastKey, t)
    BY <1>4, TameSelf DEF Derives
<1>6. /\ lastKey < MaxKeys /\ lastKey' = lastKey + 1 /\ ~isGenerating
      /\ sendStreamRequest(Append(t, createLoadingAssistantMessage(lastKey + 1)), lastKey + 1)
      /\ editing' = editing /\ overlapped' = overlapped /\ lost' = lost /\ cutOff' = cutOff
    BY <1>3 DEF handleRegenerateMessage, history
<1>7. OwnAll(shown) => OwnAll(t)
    BY <1>4 DEF OwnAll
<1>8. editing' \in 0..lastKey /\ overlapped' \in BOOLEAN
    BY <1>1, <1>6
<1> QED
    BY <1>4, <1>5, <1>6, <1>7, <1>8, AnswerStep

\* A render that gives out no key and starts no stream.
LEMMA SameKeys ==
    ASSUME IInv, lastKey' = lastKey, overlapped' = overlapped, lost' \in BOOLEAN, cutOff' = cutOff,
           NEW ms \in Seq(Message), Keyed(ms, lastKey), NEW src \in {source, None},
           Rendered(ms, src), streams' \subseteq streams, complete' \in BOOLEAN,
           editing' \in 0..lastKey,
           ~overlapped =>
               /\ Derives(shown, lastKey, ms) /\ OwnAll(ms) /\ streams' \subseteq {src}
               /\ src # None => EndsInAssistant(ms) /\ Last(ms).key = src
               /\ streams' # {} => Unfinished(Last(ms)) /\ ~complete'
    PROVE  Result
<1>1. /\ lastKey \in 0..MaxKeys /\ lastKey <= lastKey /\ src \in 0..lastKey
      /\ streams' \subseteq 1..lastKey /\ overlapped' \in BOOLEAN /\ cutOff' \in 0..lastKey
    BY Now DEF None
<1>2. PICK n \in 0..MaxKeys : n = lastKey
    BY <1>1
<1> QED
    BY <1>1, <1>2, RenderedStep

LEMMA DeleteStep ==
    ASSUME IInv, NEW i \in DOMAIN shown, handleDeleteMessage(i)
    PROVE  Result
<1>1. PICK ms2 : ms2 = RemoveAt(shown, i)
    OBVIOUS
<1>2. /\ ms2 \in Seq(Message) /\ Keyed(ms2, lastKey)
      /\ \A j \in DOMAIN ms2 : \E k \in DOMAIN shown : ms2[j] = shown[k]
    BY <1>1, Now, Removed
<1>3. /\ Rendered(ms2, source) /\ ~isGenerating
      /\ lastKey' = lastKey /\ streams' = streams /\ complete' = complete
      /\ editing' = editing /\ overlapped' = overlapped /\ lost' = lost /\ cutOff' = cutOff
    BY <1>1 DEF handleDeleteMessage, history
<1>4. ASSUME ~overlapped
      PROVE  /\ source = None /\ streams' = {} /\ OwnAll(ms2) /\ Derives(shown, lastKey, ms2)
    <2>1. source = None /\ streams = {} /\ OwnAll(shown)
        BY <1>3, <1>4, IdleFacts
    <2>2. OwnAll(ms2)
        BY <1>2, <2>1 DEF OwnAll
    <2> QED
        BY <1>2, <1>3, <2>1, <2>2, TameSelf DEF Derives
<1> QED
    BY <1>2, <1>3, <1>4, Now, SameKeys

\* The queued updates are rendered, by themselves or because the editor is opened or closed.
LEMMA RenderStep ==
    ASSUME IInv, Render \/ handleEditOpenChange \/ \E i \in DOMAIN shown : handleEditMessage(i)
    PROVE  Result
<1>1. /\ Rendered(messages, source) /\ lastKey' = lastKey /\ streams' = streams
      /\ complete' = complete /\ overlapped' = overlapped /\ lost' = lost /\ cutOff' = cutOff
    BY DEF Render, handleEditMessage, handleEditOpenChange, history
<1>2. editing' \in 0..lastKey
    BY Now DEF Render, handleEditMessage, handleEditOpenChange, None
<1>3. ASSUME ~overlapped
      PROVE  /\ Derives(shown, lastKey, messages) /\ OwnAll(messages) /\ streams \subseteq {source}
             /\ source # None => EndsInAssistant(messages) /\ Last(messages).key = source
             /\ streams # {} => Unfinished(Last(messages)) /\ ~complete
    <2>1. Calm
        BY <1>3 DEF IInv
    <2> QED
        BY <2>1, FollowsFacts DEF Calm
<1>4. PICK ms, src : ms = messages /\ src = source
    OBVIOUS
<1>5. Rendered(ms, src)
    BY <1>1, <1>4
<1> QED
    BY <1>1, <1>2, <1>3, <1>4, <1>5, Now, SameKeys

LEMMA EditedFacts ==
    ASSUME IInv, NEW i \in DOMAIN shown, NEW ms2, ms2 = Edited(i)
    PROVE  /\ ms2 \in Seq(Message) /\ Keyed(ms2, lastKey)
           /\ DOMAIN ms2 = DOMAIN shown /\ Len(ms2) = Len(shown)
           /\ \A j \in DOMAIN shown :
                 /\ Tame(shown[j], ms2[j]) /\ (Own(shown[j]) => Own(ms2[j]))
                 /\ ms2[j].key = shown[j].key /\ ms2[j].from = shown[j].from
                 /\ Unfinished(ms2[j]) <=> Unfinished(shown[j])
<1>1. PICK old : old = shown[i]
    OBVIOUS
<1>2. PICK m : m = [old EXCEPT !.text = {0}]
    OBVIOUS
<1>3. shown \in Seq(Message) /\ Keyed(shown, lastKey) /\ old \in Message
    BY <1>1, Now
<1>4. /\ m \in Message /\ m.key = old.key /\ m.from = old.from /\ m.text = {0}
      /\ m.status = old.status
    <2>1. {0} \in SUBSET (0..MaxKeys)
        BY PlaygroundAssumption
    <2> QED
        BY <1>2, <1>3, <2>1 DEF Message
<1>5. Tame(old, m) /\ Own(m) /\ (Unfinished(m) <=> Unfinished(old))
    BY <1>4 DEF Tame, Own, Unfinished
<1>6. ms2 = [shown EXCEPT ![i] = m]
    BY <1>1, <1>2, Zenon DEF Edited
<1>7. LET t == [shown EXCEPT ![i] = m]
      IN  /\ t \in Seq(Message) /\ Keyed(t, lastKey)
          /\ DOMAIN t = DOMAIN shown /\ Len(t) = Len(shown) /\ t[i] = m
          /\ \A j \in DOMAIN shown : j # i => t[j] = shown[j]
    BY <1>1, <1>3, <1>4, Replaced, Zenon
<1>8. /\ ms2 \in Seq(Message) /\ Keyed(ms2, lastKey)
      /\ DOMAIN ms2 = DOMAIN shown /\ Len(ms2) = Len(shown) /\ ms2[i] = m
      /\ \A j \in DOMAIN shown : j # i => ms2[j] = shown[j]
    BY <1>6, <1>7, Zenon
<1>9. ASSUME NEW j \in DOMAIN shown
      PROVE  /\ Tame(shown[j], ms2[j]) /\ (Own(shown[j]) => Own(ms2[j]))
             /\ ms2[j].key = shown[j].key /\ ms2[j].from = shown[j].from
             /\ Unfinished(ms2[j]) <=> Unfinished(shown[j])
    <2>1. CASE j = i
        BY <1>1, <1>4, <1>5, <1>8, <2>1
    <2>2. CASE j # i
        BY <1>8, <2>2, TameSelf
    <2> QED
        BY <2>1, <2>2
<1> QED
    BY <1>8, <1>9

LEMMA SaveEditStep ==
    ASSUME IInv, NEW i \in DOMAIN shown, SaveEdit(i)
    PROVE  Result
<1>1. PICK ms2 : ms2 = Edited(i)
    OBVIOUS
<1>2. /\ ms2 \in Seq(Message) /\ Keyed(ms2, lastKey)
      /\ DOMAIN ms2 = DOMAIN shown /\ Len(ms2) = Len(shown)
      /\ \A j \in DOMAIN shown :
            /\ Tame(shown[j], ms2[j]) /\ (Own(shown[j]) => Own(ms2[j]))
            /\ ms2[j].key = shown[j].key /\ ms2[j].from = shown[j].from
            /\ Unfinished(ms2[j]) <=> Unfinished(shown[j])
    BY <1>1, EditedFacts
<1>3. /\ Rendered(ms2, source) /\ editing' = None /\ lost' = (lost \/ (dirty /\ source = None))
      /\ lastKey' = lastKey /\ streams' = streams /\ complete' = complete
      /\ overlapped' = overlapped /\ cutOff' = cutOff
    BY <1>1 DEF SaveEdit
<1>4. ASSUME ~overlapped
      PROVE  /\ Derives(shown, lastKey, ms2) /\ OwnAll(ms2) /\ streams \subseteq {source}
             /\ source # None => EndsInAssistant(ms2) /\ Last(ms2).key = source
             /\ streams # {} => Unfinished(Last(ms2)) /\ ~complete
    <2>1. Calm
        BY <1>4 DEF IInv
    <2>2. /\ DOMAIN messages = DOMAIN shown
          /\ \A j \in DOMAIN shown : /\ Tame(shown[j], messages[j])
                                     /\ messages[j].from = shown[j].from
        BY <2>1 DEF Calm, Follows
    <2>3. PICK l : l = Len(shown)
        OBVIOUS
    <2>4. /\ l \in DOMAIN shown /\ Last(ms2) = ms2[l] /\ ms2 # <<>>
          /\ Last(messages) = messages[l]
        <3>1. i \in 1..Len(shown) /\ Len(shown) \in Nat /\ DOMAIN shown = 1..Len(shown)
            BY Now, MessageFacts
        <3>2. DOMAIN messages = 1..Len(messages) /\ Len(messages) \in Nat
            BY Now, MessageFacts
        <3>3. Len(messages) = Len(shown)
            BY <2>2, <3>1, <3>2
        <3>4. messages # <<>> /\ ms2 # <<>>
            BY <1>2, <3>1, <3>3, EmptySeq
        <3> QED
            BY <1>2, <2>3, <3>1, <3>3, <3>4, Now, MessageFacts
    <2>5. /\ Last(ms2).key = Last(messages).key /\ Last(ms2).from = Last(messages).from
          /\ Unfinished(Last(messages)) => Unfinished(Last(ms2))
        BY <1>2, <2>2, <2>4 DEF Tame
    <2>6. OwnAll(ms2)
        BY <1>2, <2>1 DEF Calm, OwnAll
    <2>7. EndsInAssistant(messages) => EndsInAssistant(ms2)
        BY <2>4, <2>5 DEF EndsInAssistant
    <2>8. Derives(shown, lastKey, ms2)
        BY <1>2 DEF Derives
    <2> QED
        BY <2>1, <2>5, <2>6, <2>7, <2>8 DEF Calm
<1>5. complete' \in BOOLEAN /\ lost' \in BOOLEAN /\ editing' \in 0..lastKey
    BY <1>3, Now DEF None
<1>6. PICK src : src = source
    OBVIOUS
<1>7. Rendered(ms2, src)
    BY <1>3, <1>6
<1> QED
    BY <1>2, <1>3, <1>4, <1>5, <1>6, <1>7, SameKeys

LEMMA SaveEditAndSubmitStep ==
    ASSUME IInv, NEW i \in DOMAIN shown, SaveEditAndSubmit(i)
    PROVE  Result
<1>1. PICK ms2 : ms2 = Edited(i)
    OBVIOUS
<1>2. /\ ms2 \in Seq(Message) /\ Keyed(ms2, lastKey)
      /\ DOMAIN ms2 = DOMAIN shown /\ Len(ms2) = Len(shown)
      /\ \A j \in DOMAIN shown :
            Tame(shown[j], ms2[j]) /\ (Own(shown[j]) => Own(ms2[j]))
    BY <1>1, EditedFacts
<1>3. i \in 0..Len(ms2)
    BY <1>2, Now, MessageFacts
<1>4. PICK t : t = SubSeq(ms2, 1, i)
    OBVIOUS
<1>5. /\ t \in Seq(Message) /\ Keyed(t, lastKey) /\ DOMAIN t = 1..i
      /\ \A j \in 1..i : j \in DOMAIN ms2 /\ t[j] = ms2[j]
    BY <1>2, <1>3, <1>4, Cut
<1>6. Derives(shown, lastKey, t)
    BY <1>2, <1>5 DEF Derives
<1>7. OwnAll(shown) => OwnAll(t)
    BY <1>2, <1>5 DEF OwnAll
<1>8. /\ lastKey < MaxKeys /\ lastKey' = lastKey + 1
      /\ sendStreamRequest(Append(t, createLoadingAssistantMessage(lastKey + 1)), lastKey + 1)
      /\ editing' = None /\ overlapped' = (overlapped \/ isGenerating)
      /\ lost' = lost /\ cutOff' = cutOff
    BY <1>1, <1>4 DEF SaveEditAndSubmit
<1>9. /\ editing' \in 0..lastKey /\ overlapped' \in BOOLEAN
      /\ ~overlapped' => ~overlapped /\ ~isGenerating
    BY <1>8, Now DEF None
<1> QED
    BY <1>5, <1>6, <1>7, <1>8, <1>9, AnswerStep

\* What an update of the last message to m does.
LEMMA UpdatedFacts ==
    ASSUME IInv, NEW m, NEW ms2, ms2 = updateLastAssistantMessage(messages, m),
           EndsInAssistant(messages) =>
               m \in Message /\ m.key = Last(messages).key /\ m.from = Last(messages).from,
           ~overlapped /\ EndsInAssistant(messages) => Tame(Last(messages), m) /\ Own(m)
    PROVE  /\ ms2 \in Seq(Message) /\ Keyed(ms2, lastKey)
           /\ EndsInAssistant(messages) => EndsInAssistant(ms2) /\ Last(ms2) = m
           /\ ~overlapped => OwnAll(ms2) /\ Follows(shown, ms2)
<1>1. messages \in Seq(Message) /\ Keyed(messages, lastKey)
    BY Now
<1>2. /\ ms2 \in Seq(Message) /\ Keyed(ms2, lastKey)
      /\ ~EndsInAssistant(messages) => ms2 = messages
      /\ EndsInAssistant(messages) =>
           /\ EndsInAssistant(ms2) /\ Last(ms2) = m
           /\ DOMAIN ms2 = DOMAIN messages /\ Len(messages) \in DOMAIN messages
           /\ ms2[Len(messages)] = m
           /\ \A j \in DOMAIN messages : j # Len(messages) => ms2[j] = messages[j]
    BY <1>1, LastUpdated
<1>3. ASSUME ~overlapped
      PROVE  OwnAll(ms2) /\ Follows(shown, ms2)
    <2>1. OwnAll(messages) /\ Follows(shown, messages)
        BY <1>3 DEF IInv, Calm
    <2>2. CASE ~EndsInAssistant(messages)
        BY <1>2, <2>1, <2>2
    <2>3. CASE EndsInAssistant(messages)
        <3>1. OwnAll(ms2) /\ Follows(messages, ms2)
            BY <1>1, <1>2, <1>3, <2>1, <2>3, LastDerives
        <3> QED
            BY <2>1, <3>1, FollowsFacts
    <2> QED
        BY <2>2, <2>3
<1> QED
    BY <1>2, <1>3

\* An event of a stream that updates the last message, sseSourceRef being src.
LEMMA UpdateStep ==
    ASSUME IInv, NEW m, NEW src \in {source, None}, UpdateLast(m, src),
           EndsInAssistant(messages) =>
               m \in Message /\ m.key = Last(messages).key /\ m.from = Last(messages).from,
           lastKey' = lastKey, history' = history, editing' = editing,
           streams' \subseteq streams, complete' \in BOOLEAN,
           ~overlapped => /\ EndsInAssistant(messages) /\ Tame(Last(messages), m) /\ Own(m)
                          /\ streams' \subseteq {src}
                          /\ streams' # {} => Unfinished(m) /\ ~complete'
    PROVE  Result
<1>1. PICK ms2 : ms2 = updateLastAssistantMessage(messages, m)
    OBVIOUS
<1>2. /\ ms2 \in Seq(Message) /\ Keyed(ms2, lastKey)
      /\ EndsInAssistant(messages) => EndsInAssistant(ms2) /\ Last(ms2) = m
      /\ ~overlapped => OwnAll(ms2) /\ Follows(shown, ms2)
    BY <1>1, UpdatedFacts
<1>3. /\ messages' = ms2 /\ source' = src /\ saved' \in {saved, ms2} /\ shown' = shown
      /\ isGenerating' = isGenerating /\ dirty' = (dirty \/ EndsInAssistant(messages))
      /\ overlapped' = overlapped /\ lost' = lost /\ cutOff' = cutOff
    BY <1>1 DEF UpdateLast, history
<1>4. dirty' \in BOOLEAN
    BY <1>3
<1>5. /\ streams' \subseteq 1..lastKey /\ source' \in 0..lastKey /\ saved' \in Seq(Message)
      /\ Keyed(saved', lastKey)
    BY <1>2, <1>3, Now DEF None
<1>6. TypeOK'
    BY <1>2, <1>3, <1>4, <1>5, Now DEF TypeOK
<1>7. Keyed(messages, lastKey)' /\ Keyed(shown, lastKey)' /\ Keyed(saved, lastKey)'
    <2>1. Keyed(shown, lastKey)
        BY Now
    <2> QED
        BY <1>2, <1>3, <1>5, <2>1, Zenon DEF Keyed
<1>8. ASSUME ~overlapped
      PROVE  Calm'
    <2>1. Calm
        BY <1>8 DEF IInv
    <2>2. src # None => m.key = src /\ isGenerating
        BY <1>8, <2>1 DEF Calm
    <2>3. OwnAll(saved') /\ Follows(shown, saved')
        BY <1>2, <1>3, <1>8, <2>1 DEF Calm
    <2>4. OwnAll(messages)' /\ OwnAll(shown)' /\ OwnAll(saved)'
        <3>1. OwnAll(ms2) /\ OwnAll(shown)
            BY <1>2, <1>8, <2>1 DEF Calm
        <3> QED
            BY <1>3, <2>3, <3>1, Zenon DEF OwnAll
    <2>5. Follows(shown, messages)' /\ Follows(shown, saved)'
        <3>1. Follows(shown, ms2)
            BY <1>2, <1>8
        <3> QED
            BY <1>3, <2>3, <3>1, Zenon DEF Follows
    <2>6. EndsInAssistant(ms2) /\ Last(ms2) = m
        BY <1>2, <1>8
    <2>7. (source # None => EndsInAssistant(messages) /\ Last(messages).key = source)'
        BY <1>3, <2>2, <2>6 DEF EndsInAssistant
    <2>8. (streams # {} => Unfinished(Last(messages)) /\ ~complete)'
        BY <1>3, <1>8, <2>6 DEF Unfinished
    <2>9. (source # None => isGenerating)' /\ (streams \subseteq {source})'
        BY <1>3, <1>8, <2>2
    <2> QED
        BY <2>4, <2>5, <2>7, <2>8, <2>9 DEF Calm
<1>9. Derives(shown, lastKey, shown')
    BY <1>3, FollowsSelf
<1> QED
    BY <1>3, <1>6, <1>7, <1>8, <1>9 DEF Result, IInv

\* The last message, when it is an assistant's.
LEMMA LastFacts ==
    ASSUME IInv, EndsInAssistant(messages)
    PROVE  /\ Last(messages) \in Message /\ Last(messages).from = "assistant"
           /\ OwnAll(messages) => Own(Last(messages))
<1>1. messages # <<>> /\ Last(messages).from = "assistant"
    BY DEF EndsInAssistant
<1>2. /\ Len(messages) \in DOMAIN messages /\ Last(messages) = messages[Len(messages)]
      /\ Last(messages) \in Message
    BY <1>1, Now, MessageFacts
<1> QED
    BY <1>1, <1>2 DEF OwnAll

LEMMA StopStep == IInv /\ stopGeneration => Result
<1> SUFFICES ASSUME IInv, stopGeneration PROVE Result
    OBVIOUS
<1>1. PICK m, ms2 : m = Completed(Last(messages)) /\ ms2 = updateLastAssistantMessage(messages, m)
    OBVIOUS
<1>2. EndsInAssistant(messages) =>
          /\ m \in Message /\ m.key = Last(messages).key /\ m.from = Last(messages).from
          /\ Tame(Last(messages), m) /\ m.text = Last(messages).text
    BY <1>1, LastFacts, CompletedFacts
<1>3. /\ isGenerating /\ streams' = streams \ {source} /\ Rendered(ms2, None)
      /\ lastKey' = lastKey /\ overlapped' = overlapped /\ editing' = editing
      /\ complete' = complete /\ lost' = lost /\ cutOff' = cutOff
    BY <1>1 DEF stopGeneration, history
<1>4. ~overlapped /\ EndsInAssistant(messages) => Own(m)
    <2>1. ~overlapped /\ EndsInAssistant(messages) => Own(Last(messages))
        BY LastFacts DEF IInv, Calm
    <2> QED
        BY <1>2, <2>1 DEF Own
<1>5. /\ ms2 \in Seq(Message) /\ Keyed(ms2, lastKey)
      /\ ~overlapped => OwnAll(ms2) /\ Follows(shown, ms2)
    BY <1>1, <1>2, <1>4, UpdatedFacts
<1>6. ~overlapped => streams' = {} /\ Derives(shown, lastKey, ms2)
    BY <1>3, <1>5, FollowsFacts DEF IInv, Calm
<1> QED
    BY <1>3, <1>5, <1>6, Now, SameKeys

\* An event that changes nothing on the page.
LEMMA StillStep ==
    ASSUME IInv, UNCHANGED <<messages, shown, saved, dirty, source, isGenerating>>,
           lastKey' = lastKey, complete' = complete, editing' = editing,
           overlapped' = overlapped, lost' = lost, cutOff' \in 0..lastKey,
           streams' \subseteq streams
    PROVE  Result
<1>1. /\ messages' = messages /\ shown' = shown /\ saved' = saved /\ dirty' = dirty
      /\ source' = source /\ isGenerating' = isGenerating
    OBVIOUS
<1>2. streams' \subseteq 1..lastKey
    BY Now
<1>3. TypeOK'
    BY <1>1, <1>2, Now DEF TypeOK
<1>4. Keyed(messages, lastKey)' /\ Keyed(shown, lastKey)' /\ Keyed(saved, lastKey)'
    BY <1>1 DEF IInv, Keyed
<1>5. ~overlapped => Calm'
    BY <1>1 DEF IInv, Calm, OwnAll, Follows
<1>6. Derives(shown, lastKey, shown')
    BY <1>1, FollowsSelf
<1> QED
    BY <1>3, <1>4, <1>5, <1>6 DEF Result, IInv

LEMMA ChunkStep ==
    ASSUME IInv, NEW k \in streams, Chunk(k)
    PROVE  Result
<1>1. PICK m : m = WithChunk(Last(messages), k)
    OBVIOUS
<1>2. k \in 1..MaxKeys
    BY Now
<1>3. EndsInAssistant(messages) =>
          /\ m \in Message /\ m.key = Last(messages).key /\ m.from = Last(messages).from
          /\ Unfinished(Last(messages)) => Tame(Last(messages), m) /\ Unfinished(m)
          /\ Last(messages).key = k /\ Own(Last(messages)) => Own(m)
    BY <1>1, <1>2, LastFacts, ChunkFacts
<1>4. /\ UpdateLast(m, source) /\ streams' = streams
      /\ lastKey' = lastKey /\ history' = history /\ editing' = editing /\ complete' = complete
    BY <1>1 DEF Chunk
<1>5. ASSUME ~overlapped
      PROVE  /\ EndsInAssistant(messages) /\ Tame(Last(messages), m) /\ Own(m) /\ Unfinished(m)
             /\ streams' \subseteq {source} /\ ~complete'
    BY <1>3, <1>4, <1>5, OpenFacts, LastFacts
<1>6. complete' \in BOOLEAN
    BY <1>4, Now
<1> QED
    BY <1>3, <1>4, <1>5, <1>6, UpdateStep

LEMMA DoneStep ==
    ASSUME IInv, NEW k \in streams, Done(k)
    PROVE  Result
<1>1. PICK m : m = Completed(Last(messages))
    OBVIOUS
<1>2. EndsInAssistant(messages) =>
          /\ m \in Message /\ m.key = Last(messages).key /\ m.from = Last(messages).from
          /\ Tame(Last(messages), m) /\ m.text = Last(messages).text
    BY <1>1, LastFacts, CompletedFacts
<1>3. /\ streams' = streams \ {k} /\ UpdateLast(m, None) /\ complete' = TRUE
      /\ lastKey' = lastKey /\ history' = history /\ editing' = editing
    BY <1>1 DEF Done
<1>4. ASSUME ~overlapped
      PROVE  EndsInAssistant(messages) /\ Own(m) /\ streams' = {}
    <2>1. EndsInAssistant(messages) /\ streams = {k} /\ Own(Last(messages))
        BY <1>4, OpenFacts, LastFacts
    <2> QED
        BY <1>2, <1>3, <2>1 DEF Own
<1>5. streams' \subseteq streams /\ complete' \in BOOLEAN
    BY <1>3
<1> QED
    BY <1>2, <1>3, <1>4, <1>5, UpdateStep

\* An error of stream k, reported or not.
LEMMA ErrorStep ==
    ASSUME IInv, NEW k \in streams, StreamFails(k) \/ BadChunk(k)
    PROVE  Result
<1>1. /\ streams' \subseteq streams /\ (~complete => streams' = streams \ {k}) /\ handleError(k)
      /\ lastKey' = lastKey /\ history' = history /\ editing' = editing /\ complete' = complete
    BY DEF StreamFails, BadChunk
<1>2. complete \in BOOLEAN /\ isGenerating \in BOOLEAN /\ editing \in 0..lastKey
    BY Now
<1>3. CASE complete
    <2>1. UNCHANGED <<messages, shown, saved, dirty, source, isGenerating>>
        BY <1>1, <1>3 DEF handleError
    <2>2. cutOff' \in 0..lastKey /\ overlapped' = overlapped /\ lost' = lost
        BY <1>1, Now DEF history
    <2> QED
        BY <1>1, <2>1, <2>2, StillStep
<1>4. CASE ~complete
    <2>1. PICK m : m = WithError(Last(messages))
        OBVIOUS
    <2>2. UpdateLast(m, None)
        BY <1>1, <1>4, <2>1 DEF handleError
    <2>3. EndsInAssistant(messages) =>
              /\ m \in Message /\ m.key = Last(messages).key /\ m.from = Last(messages).from
              /\ Tame(Last(messages), m) /\ Own(m)
        BY <2>1, LastFacts, ErrorFacts
    <2>4. ~overlapped => EndsInAssistant(messages) /\ streams' = {}
        BY <1>1, <1>4, OpenFacts
    <2> QED
        BY <1>1, <1>2, <2>2, <2>3, <2>4, UpdateStep
<1> QED
    BY <1>3, <1>4

LEMMA ClosedEarlyStep ==
    ASSUME IInv, NEW k \in streams, ClosedEarly(k)
    PROVE  Result
<1>1. /\ UNCHANGED <<messages, shown, saved, dirty, source, isGenerating>>
      /\ lastKey' = lastKey /\ complete' = complete /\ editing' = editing
      /\ overlapped' = overlapped /\ lost' = lost /\ streams' \subseteq streams
      /\ cutOff' = IF k = source THEN k ELSE cutOff
    BY DEF ClosedEarly
<1>2. cutOff' \in 0..lastKey
    BY <1>1, Now
<1> QED
    BY <1>1, <1>2, StillStep

\* What sanitizeMessagesOnLoad does.
LEMMA MaxFacts ==
    ASSUME NEW n \in Nat, NEW S, S \subseteq 1..n, S # {}
    PROVE  Max(S) \in S
<1> DEFINE T == {n - s : s \in S}
           R == OpToRel(<, Nat)
<1>1. IsWellFoundedOn(R, Nat)
    BY NatLessThanWellFounded, Zenon
<1>2. \A x, y \in Nat : x < y => <<x, y>> \in R
    BY DEF OpToRel
<1>3. T \subseteq Nat /\ T # {}
    <2>1. \A s \in S : n - s \in T
        OBVIOUS
    <2>2. \A s \in S : n - s \in Nat
        <3>1. \A s \in 1..n : n - s \in Nat
            OBVIOUS
        <3> QED
            BY <3>1
    <2>3. \A x \in T : \E s \in S : x = n - s
        OBVIOUS
    <2> QED
        BY <2>1, <2>2, <2>3
<1> HIDE DEF R
<1>4. PICK x \in T : \A y \in T : ~(<<y, x>> \in R)
    BY <1>1, <1>3, WFMin
<1>5. PICK s \in S : x = n - s
    OBVIOUS
<1>6. ASSUME NEW y \in S PROVE s >= y
    <2>1. n - y \in T /\ n - y \in Nat /\ x \in Nat
        BY <1>3
    <2>2. ~(n - y < x)
        BY <1>2, <1>4, <2>1, Zenon
    <2> QED
        BY <1>5, <2>1, <2>2
<1>7. \E z \in S : \A y \in S : z >= y
    BY <1>6
<1> QED
    BY <1>7, Zenon DEF Max

LEMMA SanitizedFacts ==
    ASSUME NEW ms \in Seq(Message), NEW n, Keyed(ms, n), NEW ms2, ms2 = sanitizeMessagesOnLoad(ms)
    PROVE  /\ ms2 \in Seq(Message) /\ Keyed(ms2, n) /\ Derives(ms, n, ms2)
           /\ OwnAll(ms) => OwnAll(ms2)
<1>1. PICK stuck : stuck = {i \in DOMAIN ms : ms[i].from = "assistant" /\ Unfinished(ms[i])}
    OBVIOUS
<1>2. CASE stuck = {}
    <2>1. ms2 = ms
        BY <1>1, <1>2 DEF sanitizeMessagesOnLoad
    <2> QED
        BY <2>1, TameSelf DEF Derives
<1>3. CASE stuck # {}
    <2>1. DOMAIN ms = 1..Len(ms) /\ Len(ms) \in Nat
        BY MessageFacts
    <2>2. PICK i : i = Max(stuck)
        OBVIOUS
    <2>3. i \in DOMAIN ms
        <3>1. stuck \subseteq 1..Len(ms)
            BY <1>1, <2>1
        <3>2. Max(stuck) \in stuck
            BY <1>3, <2>1, <3>1, MaxFacts
        <3> QED
            BY <1>1, <2>2, <3>2
    <2>4. PICK old : old = ms[i]
        OBVIOUS
    <2>5. old \in Message
        BY <2>3, <2>4, MessageFacts
    <2>6. PICK m : m = IF old.text # {} THEN Completed(old) ELSE WithError(old)
        OBVIOUS
    <2>7. /\ m \in Message /\ m.key = old.key /\ Tame(old, m) /\ (Own(old) => Own(m))
        <3>1. CASE old.text # {}
            BY <2>5, <2>6, <3>1, CompletedFacts DEF Own
        <3>2. CASE old.text = {}
            BY <2>5, <2>6, <3>2, ErrorFacts
        <3> QED
            BY <3>1, <3>2
    <2>8. ms2 = [ms EXCEPT ![i] = m]
        BY <1>1, <1>3, <2>2, <2>4, <2>6, Zenon DEF sanitizeMessagesOnLoad
    <2>9. LET t == [ms EXCEPT ![i] = m]
          IN  /\ t \in Seq(Message) /\ Keyed(t, n)
              /\ DOMAIN t = DOMAIN ms /\ Len(t) = Len(ms) /\ t[i] = m
              /\ \A j \in DOMAIN ms : j # i => t[j] = ms[j]
        BY <2>3, <2>4, <2>7, Replaced, Zenon
    <2>10. /\ ms2 \in Seq(Message) /\ Keyed(ms2, n) /\ DOMAIN ms2 = DOMAIN ms /\ ms2[i] = m
           /\ \A j \in DOMAIN ms : j # i => ms2[j] = ms[j]
        BY <2>8, <2>9, Zenon
    <2>11. \A j \in DOMAIN ms : Tame(ms[j], ms2[j]) /\ (Own(ms[j]) => Own(ms2[j]))
        BY <2>4, <2>7, <2>10, TameSelf
    <2> QED
        BY <2>10, <2>11 DEF Derives, OwnAll
<1> QED
    BY <1>2, <1>3

LEMMA ReloadStep == IInv /\ Reload => Result
<1> SUFFICES ASSUME IInv, Reload PROVE Result
    OBVIOUS
<1>1. PICK ms2 : ms2 = sanitizeMessagesOnLoad(saved)
    OBVIOUS
<1>2. /\ ms2 \in Seq(Message) /\ Keyed(ms2, lastKey) /\ Derives(saved, lastKey, ms2)
      /\ OwnAll(saved) => OwnAll(ms2)
    BY <1>1, Now, SanitizedFacts
<1>3. /\ Rendered(ms2, None) /\ streams' = {} /\ complete' = FALSE /\ editing' = None
      /\ lastKey' = lastKey /\ overlapped' = overlapped /\ lost' = lost /\ cutOff' = cutOff
    BY <1>1 DEF Reload, history
<1>4. ~overlapped => OwnAll(ms2) /\ Derives(shown, lastKey, ms2)
    <2>1. ~overlapped => OwnAll(saved) /\ Follows(shown, saved)
        BY DEF IInv, Calm
    <2> QED
        BY <1>2, <2>1, FollowsFacts
<1>5. editing' \in 0..lastKey /\ streams' \subseteq streams
    BY <1>3, Now DEF None
<1> QED
    BY <1>2, <1>3, <1>4, <1>5, Now, SameKeys

-----------------------------------------------------------------------------
(* The theorems.                                                            *)

LEMMA InitInv == Init => IInv
<1> SUFFICES ASSUME Init PROVE IInv
    OBVIOUS
<1>1. messages = <<>> /\ shown = <<>> /\ saved = <<>> /\ DOMAIN <<>> = {}
    BY DEF Init
<1>2. TypeOK
    <2>1. <<>> \in Seq(Message)
        OBVIOUS
    <2>2. 0 \in 0..MaxKeys /\ None \in 0..0
        BY PlaygroundAssumption DEF None
    <2> QED
        BY <1>1, <2>1, <2>2 DEF Init, TypeOK
<1>3. Keyed(messages, lastKey) /\ Keyed(shown, lastKey) /\ Keyed(saved, lastKey)
    BY <1>1 DEF Keyed
<1>4. Calm
    BY <1>1 DEF Init, Calm, OwnAll, Follows
<1> QED
    BY <1>2, <1>3, <1>4 DEF IInv

LEMMA NextInv == IInv /\ Next => Result
<1> SUFFICES ASSUME IInv, Next PROVE Result
    OBVIOUS
<1>1. CASE handleSubmit \/ handleSuggestionClick
    BY <1>1, SubmitStep
<1>2. CASE Render \/ handleEditOpenChange \/ \E i \in DOMAIN shown : handleEditMessage(i)
    BY <1>2, RenderStep
<1>3. CASE stopGeneration
    BY <1>3, StopStep
<1>4. CASE Reload
    BY <1>4, ReloadStep
<1>5. CASE \E i \in DOMAIN shown : handleRegenerateMessage(i)
    BY <1>5, RegenerateStep
<1>6. CASE \E i \in DOMAIN shown : handleDeleteMessage(i)
    BY <1>6, DeleteStep
<1>7. CASE \E i \in DOMAIN shown : SaveEdit(i)
    BY <1>7, SaveEditStep
<1>8. CASE \E i \in DOMAIN shown : SaveEditAndSubmit(i)
    BY <1>8, SaveEditAndSubmitStep
<1>9. CASE Connection
    <2>1. PICK k \in streams : Chunk(k) \/ Done(k) \/ StreamFails(k) \/ BadChunk(k) \/ ClosedEarly(k)
        BY <1>9 DEF Connection
    <2> QED
        BY <2>1, ChunkStep, DoneStep, ErrorStep, ClosedEarlyStep
<1> QED
    BY <1>1, <1>2, <1>3, <1>4, <1>5, <1>6, <1>7, <1>8, <1>9, Zenon DEF Next, Page

LEMMA StutterInv == IInv /\ UNCHANGED vars => IInv'
<1> SUFFICES ASSUME IInv, UNCHANGED vars PROVE IInv'
    OBVIOUS
<1>1. /\ UNCHANGED <<messages, shown, saved, dirty, source, isGenerating>>
      /\ lastKey' = lastKey /\ streams' = streams /\ complete' = complete /\ editing' = editing
      /\ overlapped' = overlapped /\ lost' = lost /\ cutOff' = cutOff
    BY DEF vars, history
<1> QED
    BY <1>1, Now, StillStep DEF Result

LEMMA Invariance == Spec => []IInv
<1>1. IInv /\ [Next]_vars => IInv'
    BY NextInv, StutterInv DEF Result
<1> QED
    BY InitInv, <1>1, PTL DEF Spec

\* The messages, the connections and the refs of the page have their types, however long
\* the conversation.
THEOREM TypeCorrect == Spec => []TypeOK
<1>1. IInv => TypeOK
    BY DEF IInv
<1> QED
    BY Invariance, <1>1, PTL

\* Without an overlap, a message of the page holds only text of the stream that was
\* started for it.
THEOREM AnswersAreOwn == Spec => []OwnAnswer
<1>1. IInv => OwnAnswer
    BY DEF IInv, Calm, Own, OwnAll, OwnAnswer
<1> QED
    BY Invariance, <1>1, PTL

\* Without an overlap, no step of the page or of a connection takes up an answer that was
\* completed, stopped or failed, or adds to it.
THEOREM FinishedAnswersStay == Spec => FinishedStays
<1> DEFINE Stays == ~overlapped' => \A i \in DOMAIN shown, j \in DOMAIN shown' :
                (shown[i].key = shown'[j].key /\ ~Unfinished(shown[i])) =>
                   /\ ~Unfinished(shown'[j])
                   /\ shown'[j].text \subseteq shown[i].text \cup {0}
<1>1. ASSUME IInv, Next PROVE Stays
    <2>1. SUFFICES ASSUME ~overlapped', NEW i \in DOMAIN shown, NEW j \in DOMAIN shown',
                          shown[i].key = shown'[j].key, ~Unfinished(shown[i])
                   PROVE  /\ ~Unfinished(shown'[j])
                          /\ shown'[j].text \subseteq shown[i].text \cup {0}
        OBVIOUS
    <2>2. Derives(shown, lastKey, shown')
        BY <1>1, <2>1, NextInv DEF Result
    <2>3. ~(shown'[j].key > lastKey)
        BY <1>1, <2>1, Now
    <2>4. PICK l \in DOMAIN shown : Tame(shown[l], shown'[j])
        BY <2>2, <2>3 DEF Derives
    <2>5. l = i
        BY <1>1, <2>1, <2>4 DEF Tame, IInv, Keyed
    <2> QED
        BY <2>1, <2>4, <2>5 DEF Tame
<1>2. IInv /\ [Next]_vars => [Stays]_vars
    BY <1>1
<1> QED
    BY Invariance, <1>2, PTL DEF Spec, FinishedStays
===============================================================================
