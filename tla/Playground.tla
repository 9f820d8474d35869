----------------------------- MODULE Playground -----------------------------
(***************************************************************************)
(* The chat of the playground page (features/playground): its list of      *)
(* messages, the event stream that fills in the last of them, the list the *)
(* page rendered last, which is the one its buttons work on, and the copy  *)
(* in the local storage.                                                   *)
(*                                                                         *)
(* The page is one thread.  A button is handled, and the page rendered     *)
(* again, in one step.  The event source hands over the events of one      *)
(* network read one after the other (`batch'), whatever their handlers do, *)
(* and what they change is rendered some time later (Render).              *)
(*                                                                         *)
(* What a message says is abstracted to where its text comes from: the     *)
(* requests whose chunks were added to it, the user, or an error.  The     *)
(* parts inside <think> tags, which the code moves between the content and *)
(* the reasoning, are not told apart.  config.stream is TRUE, its default, *)
(* for which the page has no control.                                      *)
(***************************************************************************)
EXTENDS Naturals, Sequences

CONSTANTS
    MaxRequests, \* bound on the chat requests that are sent
    Careful      \* the user leaves alone, while an answer is generated, the
                 \* controls that the page forgets to disable

ASSUME MaxRequestsAssumption == MaxRequests \in Nat \ {0}

ASSUME CarefulAssumption == Careful \in BOOLEAN

Request == 1 .. MaxRequests

NoRequest == 0

(* Where text comes from, when it is not from the chunks of a request.     *)
Typed == MaxRequests + 1
Failed == MaxRequests + 2

(* nanoid() gives every message its own key: here the request a message    *)
(* was made for and its role.                                              *)
Key == [role : {"user", "assistant"}, request : Request]

NoKey == [role |-> "none", request |-> NoRequest]

Status == {"none", "loading", "streaming", "complete", "error"}

Origins == SUBSET (Request \cup {Typed, Failed})

Message == [key : Key, status : Status, content : Origins, reasoning : Origins]

VARIABLES
    messages,  \* the list, with every update that is queued applied
    rendered,  \* the list as last rendered
    generating,\* isGenerating as last rendered
    ref,       \* sseSourceRef
    complete,  \* isStreamCompleteRef
    source,    \* the event source of each request
    batch,     \* the request whose events are being handed over
    editing,   \* editingMessageKey
    stored     \* the list in the local storage

vars == <<messages, rendered, generating, ref, complete, source, batch,
          editing, stored>>

-----------------------------------------------------------------------------
(* Messages.                                                               *)

createUserMessage(r) ==
    [key |-> [role |-> "user", request |-> r], status |-> "none",
     content |-> {Typed}, reasoning |-> {}]

createLoadingAssistantMessage(r) ==
    [key |-> [role |-> "assistant", request |-> r], status |-> "loading",
     content |-> {}, reasoning |-> {}]

IsAssistant(m) == m.key.role = "assistant"

Unfinished(m) == m.status \in {"loading", "streaming"}

LastIsAssistant(list) == list # <<>> /\ IsAssistant(list[Len(list)])

(* The list with m in the place of the message at i.                       *)
With(list, i, m) == [list EXCEPT ![i] = m]

updateLastAssistantMessage(list, m) ==
    IF LastIsAssistant(list) THEN With(list, Len(list), m) ELSE list

(* Mutant: a failed message is given a status that no part of the page     *)
(* knows.                                                                  *)
ErrorWithUnknownStatus(list) ==
    updateLastAssistantMessage(list,
        [list[Len(list)] EXCEPT !.status = "failed", !.content = {Failed}])

updateAssistantMessageWithError(list) ==
    updateLastAssistantMessage(list,
        [list[Len(list)] EXCEPT !.status = "error", !.content = {Failed}])

(* processStreamingContent, and the same for the reasoning.                *)
WithChunk(m, r, type) ==
    IF type = "reasoning"
    THEN [m EXCEPT !.status = "streaming", !.reasoning = @ \cup {r}]
    ELSE [m EXCEPT !.status = "streaming", !.content = @ \cup {r}]

(* Mutant: a chunk is added to a failed message too.                       *)
UpdateFailedToo(list, r, type) ==
    LET last == list[Len(list)]
    IN  updateLastAssistantMessage(list, WithChunk(last, r, type))

(* handleStreamUpdate: the chunk goes to the last message, whosever it is. *)
handleStreamUpdate(list, r, type) ==
    LET last == list[Len(list)]
    IN  updateLastAssistantMessage(list,
            IF last.status = "error" THEN last ELSE WithChunk(last, r, type))

(* Mutant: only a message without a chunk is completed.                    *)
CompleteLoadingOnly(list) ==
    LET last == list[Len(list)]
    IN  updateLastAssistantMessage(list,
            IF last.status # "loading" THEN last
            ELSE [last EXCEPT !.status = "complete"])

(* handleStreamComplete; with finalizeMessage, which only moves text.      *)
handleStreamComplete(list) ==
    LET last == list[Len(list)]
    IN  updateLastAssistantMessage(list,
            IF last.status \in {"complete", "error"} THEN last
            ELSE [last EXCEPT !.status = "complete"])

(* What stopGeneration does to the list.                                   *)
finalizeLast(list) ==
    LET last == list[Len(list)]
    IN  updateLastAssistantMessage(list,
            IF Unfinished(last) THEN [last EXCEPT !.status = "complete"]
            ELSE last)

(* Mutant: a message that already holds text is loaded as it is.           *)
SanitizeEmptyOnly(list) ==
    LET stuck == {i \in 1 .. Len(list) : list[i].status = "loading"}
    IN  [i \in 1 .. Len(list) |->
            IF i \in stuck THEN [list[i] EXCEPT !.status = "error", !.content = {Failed}]
            ELSE list[i]]

(* sanitizeMessagesOnLoad: the last unfinished message, and that one only, *)
(* is ended.                                                               *)
sanitizeMessagesOnLoad(list) ==
    LET stuck == {i \in 1 .. Len(list) :
                    IsAssistant(list[i]) /\ Unfinished(list[i])}
        target == CHOOSE i \in stuck : \A j \in stuck : j <= i
        m == list[target]
    IN  IF stuck = {} THEN list
        ELSE With(list, target,
                IF m.content # {} \/ m.reasoning # {}
                THEN [m EXCEPT !.status = "complete"]
                ELSE [m EXCEPT !.status = "error", !.content = {Failed}])

-----------------------------------------------------------------------------
Init ==
    /\ messages = <<>>
    /\ rendered = <<>>
    /\ generating = FALSE
    /\ ref = NoRequest
    /\ complete = FALSE
    /\ source = [r \in Request |-> "new"]
    /\ batch = NoRequest
    /\ editing = NoKey
    /\ stored = <<>>

(* React, when it renders the page: the queued updates are applied, and    *)
(* isStreaming is read from the reference.                                 *)
RenderWith(list, current) ==
    /\ rendered' = list
    /\ generating' = (current # NoRequest)

(* updateMessages saves in the updater; saveMessages swallows its errors.  *)
saveMessages(list) == stored' \in {list, stored}

(* The next request.                                                       *)
Fresh(r) ==
    /\ r \in Request
    /\ source[r] = "new"
    /\ \A q \in Request : q < r => source[q] # "new"

(* sendStreamRequest, with the updateMessages(list) of its caller.  When   *)
(* source.stream() throws, the message fails at once.                      *)
sendChat(list, r) ==
    /\ complete' = FALSE
    /\ \/ /\ source' = [source EXCEPT ![r] = "open"]
          /\ ref' = r
          /\ messages' = list
       \/ /\ source' = [source EXCEPT ![r] = "closed"]
          /\ ref' = NoRequest
          /\ messages' = updateAssistantMessageWithError(list)
    /\ saveMessages(messages')
    /\ RenderWith(messages', ref')

(* A control of the page is used between two batches of events.            *)
Button == batch = NoRequest

(* guardAction, and `disabled' of the input.                               *)
Guarded == Button /\ ~generating

(* The buttons of a message, which the form replaces while it is edited.   *)
MessageActions(i) ==
    /\ Guarded
    /\ i \in DOMAIN rendered
    /\ rendered[i].key # editing

(* A control that is not disabled while an answer is generated.            *)
Unguarded == Button /\ (Careful => ~generating)

-----------------------------------------------------------------------------
(* What the user does.  The handlers start from the rendered list.         *)

SendTo(r) ==
    /\ Fresh(r)
    /\ sendChat(rendered \o <<createUserMessage(r), createLoadingAssistantMessage(r)>>, r)
    /\ UNCHANGED <<batch, editing>>

(* handleSubmit of the input.                                              *)
handleSendMessage(r) == Guarded /\ SendTo(r)

(* handleSuggestionClick does not look at `disabled'.                      *)
handleSuggestionClick(r) == Unguarded /\ SendTo(r)

handleRegenerateMessage(i, r) ==
    /\ MessageActions(i)
    /\ Fresh(r)
    /\ IsAssistant(rendered[i])
    /\ ~Unfinished(rendered[i])
    /\ sendChat(Append(SubSeq(rendered, 1, i - 1), createLoadingAssistantMessage(r)), r)
    /\ UNCHANGED <<batch, editing>>

Without(list, i) == SubSeq(list, 1, i - 1) \o SubSeq(list, i + 1, Len(list))

handleDeleteMessage(i) ==
    /\ MessageActions(i)
    /\ messages' = Without(rendered, i)
    /\ saveMessages(messages')
    /\ RenderWith(messages', ref)
    /\ UNCHANGED <<ref, complete, source, batch, editing>>

handleEditMessage(i) ==
    /\ MessageActions(i)
    /\ rendered[i].content # {}
    /\ editing' = rendered[i].key
    /\ RenderWith(messages, ref)
    /\ UNCHANGED <<messages, ref, complete, source, batch, stored>>

handleEditOpenChange ==
    /\ Button
    /\ editing # NoKey
    /\ editing' = NoKey
    /\ RenderWith(messages, ref)
    /\ UNCHANGED <<messages, ref, complete, source, batch, stored>>

(* The list with the new text in the message at i.                         *)
Edited(list, i) == With(list, i, [list[i] EXCEPT !.content = {Typed}])

(* applyEdit with submit = FALSE: Save.                                    *)
applyEdit(i) ==
    /\ Unguarded
    /\ i \in DOMAIN rendered
    /\ rendered[i].key = editing
    /\ editing' = NoKey
    /\ messages' = Edited(rendered, i)
    /\ saveMessages(messages')
    /\ RenderWith(messages', ref)
    /\ UNCHANGED <<ref, complete, source, batch>>

(* applyEdit with submit = TRUE: Save & Submit, for the user's messages.   *)
submitEdit(i, r) ==
    /\ Unguarded
    /\ Fresh(r)
    /\ i \in DOMAIN rendered
    /\ rendered[i].key = editing
    /\ ~IsAssistant(rendered[i])
    /\ editing' = NoKey
    /\ sendChat(Append(SubSeq(Edited(rendered, i), 1, i), createLoadingAssistantMessage(r)), r)
    /\ UNCHANGED batch

(* Mutant: the reference is cleared and the source left open.              *)
StopWithoutClose ==
    /\ Button
    /\ generating
    /\ ref' = NoRequest
    /\ messages' = finalizeLast(messages)
    /\ saveMessages(messages')
    /\ RenderWith(messages', ref')
    /\ UNCHANGED <<complete, source, batch, editing>>

(* stopGeneration.  A list that is left as it is renders nothing.          *)
stopGeneration ==
    /\ Button
    /\ generating
    /\ source' = [r \in Request |-> IF r = ref THEN "closed" ELSE source[r]]
    /\ ref' = NoRequest
    /\ messages' = finalizeLast(messages)
    /\ saveMessages(messages')
    /\ IF LastIsAssistant(messages) THEN RenderWith(messages', ref')
       ELSE UNCHANGED <<rendered, generating>>
    /\ UNCHANGED <<complete, batch, editing>>

(* The page is loaded anew.                                                *)
loadMessages ==
    /\ Button
    /\ messages' = sanitizeMessagesOnLoad(stored)
    /\ saveMessages(messages')
    /\ ref' = NoRequest
    /\ complete' = FALSE
    /\ source' = [r \in Request |-> IF source[r] = "new" THEN "new" ELSE "closed"]
    /\ RenderWith(messages', ref')
    /\ editing' = NoKey
    /\ UNCHANGED batch

-----------------------------------------------------------------------------
(* What the event source does.                                             *)

(* An event of r: the first of a network read, or the next of the read     *)
(* that is being handed over.                                              *)
Event(r) ==
    \/ batch = r
    \/ batch = NoRequest /\ source[r] = "open"

closeSource(r) ==
    /\ source' = [source EXCEPT ![r] = "closed"]
    /\ ref' = NoRequest

handleError(r) ==
    IF complete THEN UNCHANGED <<messages, source, ref>>
    ELSE /\ messages' = updateAssistantMessageWithError(messages)
         /\ closeSource(r)

Chunk(r, type) ==
    /\ Event(r)
    /\ messages' = handleStreamUpdate(messages, r, type)
    /\ batch' = r
    /\ UNCHANGED <<rendered, generating, ref, complete, source, editing, stored>>

(* A chunk that is not JSON.                                               *)
ParseError(r) ==
    /\ Event(r)
    /\ handleError(r)
    /\ batch' = r
    /\ UNCHANGED <<rendered, generating, complete, editing, stored>>

(* An `error' event within the stream; the listener ignores it once the    *)
(* source is closed.                                                       *)
ErrorEvent(r) ==
    /\ Event(r)
    /\ source[r] # "closed"
    /\ handleError(r)
    /\ batch' = r
    /\ UNCHANGED <<rendered, generating, complete, editing, stored>>

(* [DONE], the last event of a stream.                                     *)
Done(r) ==
    /\ Event(r)
    /\ complete' = TRUE
    /\ closeSource(r)
    /\ messages' = handleStreamComplete(messages)
    /\ batch' = NoRequest
    /\ UNCHANGED <<rendered, generating, editing, stored>>

(* The request fails: an HTTP status other than 200, or a lost connection. *)
Failure(r) ==
    /\ batch = NoRequest
    /\ source[r] = "open"
    /\ handleError(r)
    /\ UNCHANGED <<rendered, generating, complete, batch, editing, stored>>

(* The connection ends with status 200 and no [DONE]: no listener acts.    *)
SilentEnd(r) ==
    /\ batch = NoRequest
    /\ source[r] = "open"
    /\ source' = [source EXCEPT ![r] = "silent"]
    /\ UNCHANGED <<messages, rendered, generating, ref, complete, batch, editing, stored>>

EndBatch ==
    /\ batch # NoRequest
    /\ batch' = NoRequest
    /\ UNCHANGED <<messages, rendered, generating, ref, complete, source, editing, stored>>

Render ==
    /\ batch = NoRequest
    /\ <<rendered, generating>> # <<messages, ref # NoRequest>>
    /\ RenderWith(messages, ref)
    /\ saveMessages(messages)
    /\ UNCHANGED <<messages, ref, complete, source, batch, editing>>

StreamEnds == \E r \in Request : Done(r) \/ Failure(r) \/ SilentEnd(r)

Next ==
    \/ \E r \in Request :
        \/ handleSendMessage(r)
        \/ handleSuggestionClick(r)
        \/ \E i \in DOMAIN rendered : handleRegenerateMessage(i, r)
        \/ \E i \in DOMAIN rendered : submitEdit(i, r)
        \/ \E type \in {"content", "reasoning"} : Chunk(r, type)
        \/ ParseError(r)
        \/ ErrorEvent(r)
    \/ \E i \in DOMAIN rendered :
        handleDeleteMessage(i) \/ handleEditMessage(i) \/ applyEdit(i)
    \/ handleEditOpenChange
    \/ stopGeneration
    \/ loadMessages
    \/ StreamEnds
    \/ EndBatch
    \/ Render

Spec == Init /\ [][Next]_vars

(* The server ends every stream it answers with (or the connection does),  *)
(* and React renders what was changed.  Nothing is assumed of the user.    *)
FairSpec == Spec /\ WF_vars(StreamEnds) /\ WF_vars(EndBatch) /\ WF_vars(Render)

-----------------------------------------------------------------------------
(* The types of the variables of the playground's hooks.                   *)
TypeOK ==
    /\ messages \in Seq(Message)
    /\ rendered \in Seq(Message)
    /\ generating \in BOOLEAN
    /\ ref \in Request \cup {NoRequest}
    /\ complete \in BOOLEAN
    /\ source \in [Request -> {"new", "open", "silent", "closed"}]
    /\ batch \in Request \cup {NoRequest}
    /\ editing \in Key \cup {NoKey}
    /\ stored \in Seq(Message)

(* The chunks in m are those of its request.                               *)
Own(m) ==
    /\ m.content \cap Request \subseteq {m.key.request}
    /\ m.reasoning \cap Request \subseteq {m.key.request}

(* updateLastAssistantMessage adds a chunk to whatever message is the last *)
(* one.  All the same, for a user who is Careful, an answer holds the      *)
(* chunks of its own request only, on the page and in the storage: what    *)
(* arrives after a Stop, an error or a reload finds no message of a later  *)
(* request.  A suggestion clicked during an answer breaks it: the new      *)
(* stream takes the ref, the old one is not closed, and both write to the  *)
(* last message.                                                           *)
OwnAnswer ==
    \A list \in {messages, rendered, stored} : \A i \in DOMAIN list : Own(list[i])

(* The page shows the Stop button (isGenerating) exactly while it shows a  *)
(* message that is loading or streaming: a spinner can always be stopped,  *)
(* after a reload too, and there is nothing to stop where there is none    *)
(* (for a user who is Careful).                                            *)
StopMatchesSpinner ==
    generating <=> \E i \in DOMAIN rendered : Unfinished(rendered[i])

(* A message that has failed stays failed: neither the chunks and the      *)
(* [DONE] that follow the error in the same network read, nor a Stop, turn *)
(* it into an answer.  It goes only when it is deleted or generated anew,  *)
(* or when an older copy is loaded from the storage (for a user who is     *)
(* Careful).                                                               *)
FailedStaysFailed ==
    [][~loadMessages =>
         \A i \in DOMAIN messages, j \in DOMAIN messages' :
           /\ messages[i].status = "error"
           /\ messages'[j].key = messages[i].key
           => messages'[j].status = "error"]_vars

(* Every answer that is awaited ends, unless the server closed its stream  *)
(* without a [DONE]: nothing but Stop, or a reload, ends that one.         *)
AnswerEnds ==
    \A r \in Request :
        (\E i \in DOMAIN messages : messages[i].key.request = r /\ Unfinished(messages[i]))
        ~> (\/ source[r] = "silent"
            \/ ~\E i \in DOMAIN messages :
                  messages[i].key.request = r /\ Unfinished(messages[i]))

-----------------------------------------------------------------------------
(* The inductive invariant behind OwnAnswer and StopMatchesSpinner.        *)

(* Only the last message of a list is ever unfinished.                     *)
ListOK(list) ==
    /\ list \in Seq(Message)
    /\ \A i \in 1 .. Len(list) :
        /\ Own(list[i])
        /\ Unfinished(list[i]) => i = Len(list) /\ IsAssistant(list[i])

Finished(list) == \A i \in 1 .. Len(list) : ~Unfinished(list[i])

(* The list ends with the message of r.                                    *)
EndsWith(list, r) ==
    /\ list # <<>>
    /\ list[Len(list)].key.role = "assistant"
    /\ list[Len(list)].key.request = r

Awaits(list, r) == EndsWith(list, r) /\ Unfinished(list[Len(list)])

HasFailed(list, r) == EndsWith(list, r) /\ list[Len(list)].status = "error"

(* The reference is the one source that can deliver, and its message the   *)
(* one that is unfinished.                                                 *)
RefInv ==
    /\ ref = NoRequest => Finished(messages)
    /\ ref # NoRequest => Awaits(messages, ref) /\ ~complete
    /\ \A r \in Request : source[r] \in {"open", "silent"} => ref = r

(* A source that was closed by an error may still hand over the rest of a  *)
(* network read, and finds its own failed message.                         *)
BatchInv ==
    batch # NoRequest =>
        /\ generating
        /\ ref = batch \/ (ref = NoRequest /\ HasFailed(messages, batch))

(* A page that is rendered as idle is up to date.                          *)
RenderedInv ==
    /\ generating => \E r \in Request : Awaits(rendered, r)
    /\ ~generating => ref = NoRequest /\ rendered = messages

ChatInv ==
    /\ TypeOK
    /\ ListOK(messages) /\ ListOK(rendered) /\ ListOK(stored)
    /\ RefInv
    /\ BatchInv
    /\ RenderedInv

=============================================================================
