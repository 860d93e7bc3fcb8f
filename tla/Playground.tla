----------------------------- MODULE Playground -----------------------------
(***************************************************************************)
(* The chat playground of the web front-end: the page with its buttons     *)
(* (chat-playground.tsx and its components), useChatHandler, the stream of *)
(* useStreamRequest and the messages kept in localStorage.                 *)
(*                                                                         *)
(* An answer is streamed into "the last assistant message", whichever it   *)
(* is when the event arrives; the two refs of useStreamRequest belong to   *)
(* no stream in particular.  That this puts an answer where it was asked   *)
(* for rests on the page starting no stream while one is open, and the     *)
(* page guards most of its buttons, but not all, with isGenerating.        *)
(*                                                                         *)
(* A message has a key; a stream has the key of the message it was started *)
(* for.  A text is the set of its authors: the streams that wrote into it, *)
(* and 0 for what was typed or produced on the page.                       *)
(*                                                                         *)
(* A stream event queues an update of the messages, which React renders in *)
(* a later task; a click is rendered before the next task, together with   *)
(* whatever is queued.  The buttons work with the messages, and with       *)
(* isGenerating, of the last render.  saveMessages runs inside the update. *)
(* config.stream is true: no control of the page changes it.               *)
(***************************************************************************)
EXTENDS Naturals, Sequences, SequencesExt

CONSTANT MaxKeys  \* bound: messages created

ASSUME PlaygroundAssumption == MaxKeys \in Nat

VARIABLES messages,     \* with the queued updates
          shown,        \* messages, as of the last render
          saved,        \* the copy in localStorage
          dirty,        \* an update is queued
          lastKey,      \* keys given out so far
          streams,      \* open SSE connections
          source,       \* sseSourceRef
          complete,     \* isStreamCompleteRef
          isGenerating, \* source # None, as of the last render
          editing,      \* editingMessageKey
          overlapped,   \* history: was an unguarded button used while generating
          lost,         \* history: was an edit saved over the end of an answer, not yet rendered
          cutOff        \* history: the last stream that ended without [DONE], as sseSourceRef

history == <<overlapped, lost, cutOff>>
vars == <<messages, shown, saved, dirty, lastKey, streams, source, complete, isGenerating,
          editing, history>>

None == 0
Keys == 1..MaxKeys
Unfinished(m) == m.status \in {"loading", "streaming"}

createUserMessage(k) == [key |-> k, from |-> "user", status |-> "none", text |-> {0}]

\* Mutant: a status the page does not know.
PendingAssistantMessage(k) == [key |-> k, from |-> "assistant", status |-> "pending", text |-> {}]

createLoadingAssistantMessage(k) == [key |-> k, from |-> "assistant", status |-> "loading", text |-> {}]

Init ==
    /\ messages = <<>> /\ shown = <<>> /\ saved = <<>>
    /\ dirty = FALSE
    /\ lastKey = 0
    /\ streams = {}
    /\ source = None
    /\ complete = FALSE
    /\ isGenerating = FALSE
    /\ editing = None
    /\ overlapped = FALSE /\ lost = FALSE /\ cutOff = None

-----------------------------------------------------------------------------
(* Updates of the last message.                                             *)

EndsInAssistant(ms) == ms # <<>> /\ Last(ms).from = "assistant"

\* updated is what the updater makes of the last message.
updateLastAssistantMessage(ms, updated) ==
    IF EndsInAssistant(ms) THEN [ms EXCEPT ![Len(ms)] = updated] ELSE ms

WithChunk(m, k) ==
    IF m.status = "error" THEN m
    ELSE [m EXCEPT !.status = "streaming", !.text = @ \cup {k}]

WithError(m) == [m EXCEPT !.status = "error", !.text = {0}]

Completed(m) == IF Unfinished(m) THEN [m EXCEPT !.status = "complete"] ELSE m

sanitizeMessagesOnLoad(ms) ==
    LET stuck == {i \in DOMAIN ms : ms[i].from = "assistant" /\ Unfinished(ms[i])}
    IN IF stuck = {} THEN ms
       ELSE [ms EXCEPT ![Max(stuck)] = IF @.text # {} THEN Completed(@) ELSE WithError(@)]

\* An event of a stream: setMessages with an updater, sseSourceRef being src when the
\* event is over.  The updater runs, and saves, at once if nothing is queued and React
\* cares to, else in the render; nothing is queued if it returned the array it was given.
UpdateLast(updated, src) ==
    /\ messages' = updateLastAssistantMessage(messages, updated)
    /\ saved' \in IF dirty THEN {saved} ELSE {saved, messages'}
    /\ dirty' = (dirty \/ EndsInAssistant(messages))
    /\ source' = src
    /\ UNCHANGED <<shown, isGenerating>>

\* The page is rendered with ms and reads sseSourceRef, which is src.
Rendered(ms, src) ==
    /\ messages' = ms /\ shown' = ms /\ saved' = ms
    /\ dirty' = FALSE
    /\ source' = src
    /\ isGenerating' = (src # None)

Render ==
    /\ dirty
    /\ Rendered(messages, source)
    /\ UNCHANGED <<lastKey, streams, complete, editing, history>>

-----------------------------------------------------------------------------
(* sendStreamRequest: k is the loading message that ends ms.                *)

sendStreamRequest(ms, k) ==
    /\ complete' = FALSE
    /\ \/ Rendered(ms, k) /\ streams' = streams \cup {k}
       \/ \* source.stream() throws
          Rendered(updateLastAssistantMessage(ms, WithError(Last(ms))), None) /\ UNCHANGED streams

handleSendMessage ==
    /\ lastKey + 2 <= MaxKeys
    /\ lastKey' = lastKey + 2
    /\ sendStreamRequest(shown \o <<createUserMessage(lastKey + 1),
                                    createLoadingAssistantMessage(lastKey + 2)>>, lastKey + 2)
    /\ UNCHANGED <<editing, lost, cutOff>>

\* The submit button is replaced by Stop while isGenerating.
handleSubmit == ~isGenerating /\ handleSendMessage /\ UNCHANGED overlapped

\* The suggestions below the input are always enabled.
handleSuggestionClick == handleSendMessage /\ overlapped' = (overlapped \/ isGenerating)

\* Mutant: the new answer begins with the text of the old one.
RegenerateKeepsText(i) ==
    /\ ~isGenerating
    /\ shown[i].from = "assistant" /\ ~Unfinished(shown[i])
    /\ lastKey < MaxKeys
    /\ lastKey' = lastKey + 1
    /\ sendStreamRequest(Append(SubSeq(shown, 1, i - 1),
                                [createLoadingAssistantMessage(lastKey + 1) EXCEPT !.text = shown[i].text]),
                         lastKey + 1)
    /\ UNCHANGED <<editing, history>>

handleRegenerateMessage(i) ==
    /\ ~isGenerating
    /\ shown[i].from = "assistant" /\ ~Unfinished(shown[i])
    /\ lastKey < MaxKeys
    /\ lastKey' = lastKey + 1
    /\ sendStreamRequest(Append(SubSeq(shown, 1, i - 1), createLoadingAssistantMessage(lastKey + 1)),
                         lastKey + 1)
    /\ UNCHANGED <<editing, history>>

handleDeleteMessage(i) ==
    /\ ~isGenerating
    /\ Rendered(RemoveAt(shown, i), source)
    /\ UNCHANGED <<lastKey, streams, complete, editing, history>>

handleEditMessage(i) ==
    /\ ~isGenerating /\ shown[i].text # {}
    /\ editing' = shown[i].key
    /\ Rendered(messages, source)
    /\ UNCHANGED <<lastKey, streams, complete, history>>

handleEditOpenChange ==
    /\ editing # None
    /\ editing' = None
    /\ Rendered(messages, source)
    /\ UNCHANGED <<lastKey, streams, complete, history>>

Edited(i) == [shown EXCEPT ![i].text = {0}]

\* applyEdit(content, false), or of an assistant message.  The array replaces the queued
\* updates: when they hold the end of an answer, that is lost.
SaveEdit(i) ==
    /\ shown[i].key = editing
    /\ Rendered(Edited(i), source)
    /\ editing' = None
    /\ lost' = (lost \/ (dirty /\ source = None))
    /\ UNCHANGED <<lastKey, streams, complete, overlapped, cutOff>>

\* applyEdit(content, true): the editor stays open, and enabled, while generating.
SaveEditAndSubmit(i) ==
    /\ overlapped' = (overlapped \/ isGenerating)
    /\ shown[i].key = editing /\ shown[i].from = "user"
    /\ lastKey < MaxKeys
    /\ lastKey' = lastKey + 1
    /\ editing' = None
    /\ sendStreamRequest(Append(SubSeq(Edited(i), 1, i), createLoadingAssistantMessage(lastKey + 1)),
                         lastKey + 1)
    /\ UNCHANGED <<lost, cutOff>>

\* The messages end in an answer whenever the Stop button is there, so the updater
\* makes a new array and the page is rendered.
stopGeneration ==
    /\ isGenerating
    /\ streams' = streams \ {source}
    /\ Rendered(updateLastAssistantMessage(messages, Completed(Last(messages))), None)
    /\ UNCHANGED <<lastKey, complete, editing, history>>

-----------------------------------------------------------------------------
(* Events of the connection of stream k.                                    *)

Chunk(k) ==
    /\ k \in streams
    /\ UpdateLast(WithChunk(Last(messages), k), source)
    /\ UNCHANGED <<lastKey, streams, complete, editing, history>>

\* Mutants: [DONE] completes the message, and the connection is not closed, or
\* is closed and stays registered.
DoneWithoutClose(k) ==
    /\ k \in streams
    /\ complete' = TRUE
    /\ UpdateLast(Completed(Last(messages)), source)
    /\ UNCHANGED <<lastKey, streams, editing, history>>

DoneKeepsSource(k) ==
    /\ k \in streams
    /\ streams' = streams \ {k}
    /\ complete' = TRUE
    /\ UpdateLast(Completed(Last(messages)), source)
    /\ UNCHANGED <<lastKey, editing, history>>

\* [DONE]
Done(k) ==
    /\ k \in streams
    /\ complete' = TRUE
    /\ streams' = streams \ {k}
    /\ UpdateLast(Completed(Last(messages)), None)
    /\ UNCHANGED <<lastKey, editing, history>>

\* handleError: an error is reported only while no stream has completed.
handleError(k) ==
    IF complete THEN UNCHANGED <<messages, shown, saved, dirty, source, isGenerating>>
    ELSE UpdateLast(WithError(Last(messages)), None)

\* The error event: the request failed or the connection broke.
StreamFails(k) ==
    /\ k \in streams
    /\ streams' = streams \ {k}
    /\ handleError(k)
    /\ UNCHANGED <<lastKey, complete, editing, history>>

\* A chunk that does not parse.
BadChunk(k) ==
    /\ k \in streams
    /\ streams' = IF complete THEN streams ELSE streams \ {k}
    /\ handleError(k)
    /\ UNCHANGED <<lastKey, complete, editing, history>>

\* External: the response ends without [DONE]; no listener hears of it.
ClosedEarly(k) ==
    /\ k \in streams
    /\ streams' = streams \ {k}
    /\ cutOff' = IF k = source THEN k ELSE cutOff
    /\ UNCHANGED <<messages, shown, saved, dirty, lastKey, source, complete, isGenerating, editing,
                   overlapped, lost>>

\* The page is loaded again: loadMessages, which saves what it mends.
Reload ==
    /\ Rendered(sanitizeMessagesOnLoad(saved), None)
    /\ streams' = {}
    /\ complete' = FALSE
    /\ editing' = None
    /\ UNCHANGED <<lastKey, history>>

Page == \/ handleSubmit \/ handleSuggestionClick \/ handleEditOpenChange \/ stopGeneration \/ Reload
        \/ \E i \in DOMAIN shown : \/ handleRegenerateMessage(i) \/ handleDeleteMessage(i)
                                   \/ handleEditMessage(i) \/ SaveEdit(i) \/ SaveEditAndSubmit(i)

Connection == \E k \in streams : Chunk(k) \/ Done(k) \/ StreamFails(k) \/ BadChunk(k) \/ ClosedEarly(k)

Next == Page \/ Connection \/ Render

Spec == Init /\ [][Next]_vars

\* React renders what is queued; the server ends every response it begins.
Fairness ==
    /\ WF_vars(Render)
    /\ \A k \in Keys : WF_vars(Done(k) \/ StreamFails(k))

FairSpec == Spec /\ Fairness

-----------------------------------------------------------------------------
(* Properties.                                                              *)

Message == [key : Keys, from : {"user", "assistant"},
            status : {"none", "loading", "streaming", "complete", "error"}, text : SUBSET (0..MaxKeys)]

\* Messages, streams and refs have their types; a message has a status that the page
\* knows how to draw.
TypeOK ==
    /\ messages \in Seq(Message) /\ shown \in Seq(Message) /\ saved \in Seq(Message)
    /\ dirty \in BOOLEAN
    /\ lastKey \in 0..MaxKeys
    /\ streams \subseteq 1..lastKey
    /\ source \in 0..lastKey
    /\ complete \in BOOLEAN /\ isGenerating \in BOOLEAN
    /\ editing \in 0..lastKey
    /\ overlapped \in BOOLEAN /\ lost \in BOOLEAN /\ cutOff \in 0..lastKey

\* A message on the page holds only text of the stream that was started for it: no chunk
\* of an earlier answer, stopped or replaced, ends up in a later message.  (Not so
\* once a suggestion or Save & Submit was pressed while an answer was streaming.)
OwnAnswer ==
    ~overlapped => \A i \in DOMAIN shown :
        shown[i].text \subseteq (IF shown[i].from = "user" THEN {0} ELSE {0, shown[i].key})

\* An answer shown as completed, stopped or failed stays so, and gets no more text, over
\* late events, queued updates, edits and reloads: its connection does not outlive it
\* unnoticed, and the saved copy is not behind it.  (With the same exception.)
FinishedStays ==
    [][~overlapped' => \A i \in DOMAIN shown, j \in DOMAIN shown' :
         (shown[i].key = shown'[j].key /\ ~Unfinished(shown[i])) =>
            /\ ~Unfinished(shown'[j])
            /\ shown'[j].text \subseteq shown[i].text \cup {0}]_vars

\* Generation ends, the page takes input again and shows no loader, unless the response
\* ended without [DONE]; then the loader stays until the user presses Stop.  Two streams
\* that share the refs, or an edit saved over a completion that is not rendered yet,
\* may leave a loader, but input is taken all the same.
GenerationEnds ==
    isGenerating ~> \/ /\ ~isGenerating
                       /\ overlapped \/ lost \/ \A i \in DOMAIN shown : ~Unfinished(shown[i])
                    \/ source # None /\ source = cutOff

=============================================================================
