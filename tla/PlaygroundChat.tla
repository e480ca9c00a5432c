--------------------------- MODULE PlaygroundChat ---------------------------
(***************************************************************************)
(* The chat of the playground page, web/default/src/features/playground:   *)
(* the list of messages (use-playground-state.ts), the requests that fill  *)
(* its last message (use-chat-handler.ts, use-stream-request.ts), the      *)
(* user's actions on it (index.tsx, message-actions.tsx) and its copy in   *)
(* localStorage (lib/storage.ts), from which a reload starts.              *)
(*                                                                         *)
(* Three things make it hard.  Every answer is written to the LAST message *)
(* of the list, whichever request it belongs to.  All streams share one    *)
(* sseSourceRef and one isStreamCompleteRef.  And the handlers of the page *)
(* see the list and isGenerating as of the last rendering, which comes     *)
(* some time after an event of a stream has changed them.                  *)
(*                                                                         *)
(* The text of a message is abstracted to the set of its sources: requests,*)
(* errors and edits.  A page is left only by a reload.                     *)
(***************************************************************************)
EXTENDS Naturals, Sequences, FiniteSets

CONSTANTS
  Requests,    \* chat requests, in the order of use
  NoRequest,   \* no request
  NoKey,       \* no message
  ErrorText,   \* the text of an error, where there is no answer
  EditText,    \* what the user has put in place of a text
  MaxReloads   \* bound: how often the page is reloaded

ASSUME PlaygroundAssumption ==
  /\ {NoRequest, ErrorText, EditText} \cap Requests = {}
  /\ Requests \subseteq Nat
  /\ MaxReloads \in Nat

VARIABLES
  messages,    \* the list
  saved,       \* its copy in localStorage
  view,        \* what was rendered last: the list and isGenerating
  editing,     \* editingMessageKey
  stream,      \* config.stream
  used,        \* requests made
  open,        \* requests whose answer has not ended
  ref,         \* sseSourceRef.current
  complete,    \* isStreamCompleteRef.current
  raced,       \* the page was changed by a handler that does not wait for the
               \* generation under way or for its rendering (history)
  silent,      \* an answer ended without a last event or a choice (history)
  sent,        \* a payload held a message that was being generated (history)
  reloads

requests == <<stream, used, open, ref, complete>>
page == <<messages, saved, view, editing>>
vars == <<page, requests, raced, silent, sent, reloads>>

Statuses == {"loading", "streaming", "complete", "error"}
Sources == Requests \cup {ErrorText, EditText}
Messages ==
  [key : Requests \X {"user"}, status : {"none"}, text : SUBSET Sources]
    \cup [key : Requests \X {"assistant"}, status : Statuses, text : SUBSET Sources]

IsUser(m) == m.key[2] = "user"
Generating(m) == m.status \in {"loading", "streaming"}

createUserMessage(r) == [key |-> <<r, "user">>, status |-> "none", text |-> {r}]
createLoadingAssistantMessage(r) ==
  [key |-> <<r, "assistant">>, status |-> "loading", text |-> {}]

Init ==
  /\ messages = <<>> /\ saved = <<>>
  /\ view = [messages |-> <<>>, isGenerating |-> FALSE]
  /\ editing = <<NoKey, "user">>
  /\ stream \in BOOLEAN
  /\ used = {} /\ open = {}
  /\ ref = NoRequest /\ complete = FALSE
  /\ raced = FALSE /\ silent = FALSE /\ sent = FALSE
  /\ reloads = MaxReloads

(* updateMessages: the list is saved with every update. *)
updateMessages(new) == messages' = new /\ saved' = new

(* An update by an event of a request: it is not rendered yet. *)
Behind == UNCHANGED <<view, editing, reloads>>

(* An update by a handler of the page is rendered at once. *)
Rendered == view' = [messages |-> messages', isGenerating |-> ref' # NoRequest]

-----------------------------------------------------------------------------
(* lib/message-utils.ts *)

IsLastAssistant_Mutant(ms) == ms # <<>>
IsLastAssistant(ms) == ms # <<>> /\ ~IsUser(ms[Len(ms)])

(* updated is what the updater makes of the last message. *)
LastMessage == messages[Len(messages)]
updateLastAssistantMessage(ms, updated) ==
  IF IsLastAssistant(ms) THEN [ms EXCEPT ![Len(ms)] = updated] ELSE ms

finalizeMessage(m) == [m EXCEPT !.status = "complete"]

WithError(m) == [m EXCEPT !.status = "error", !.text = {ErrorText}]

(* Only the last of the messages that were being generated. *)
Stuck(ms) == {i \in 1..Len(ms) : Generating(ms[i])}
sanitizeMessagesOnLoad_Mutant(ms) ==
  [i \in 1..Len(ms) |-> IF i = Len(ms) /\ ms[i].status = "streaming"
                          THEN finalizeMessage(ms[i]) ELSE ms[i]]
sanitizeMessagesOnLoad(ms) ==
  [i \in 1..Len(ms) |->
     IF i \in Stuck(ms) /\ \A j \in Stuck(ms) : j <= i
       THEN IF ms[i].text # {} THEN finalizeMessage(ms[i]) ELSE WithError(ms[i])
       ELSE ms[i]]

-----------------------------------------------------------------------------
(* Requests *)

(* buildChatCompletionPayload *)
isValidMessage_Mutant(m) == TRUE
isValidMessage(m) == IsUser(m) \/ m.text # {}
Payload(ms) == {ms[i] : i \in {j \in 1..Len(ms) : isValidMessage(ms[j])}}

(* sendChat: the new list is shown with the request's placeholder at its    *)
(* end, and the request is made.                                            *)
SendChat(r, new) ==
  /\ r \notin used
  /\ \A q \in Requests \ used : r <= q
  /\ updateMessages(new)
  /\ used' = used \cup {r}
  /\ open' = open \cup {r}
  /\ IF stream THEN ref' = r /\ complete' = FALSE
               ELSE UNCHANGED <<ref, complete>>
  /\ sent' = (sent \/ \E m \in Payload(new) : Generating(m))
  /\ Rendered
  /\ UNCHANGED <<stream, silent, reloads>>

(* handleStreamUpdate *)
Chunked(r, m) == IF m.status = "error" THEN m
                 ELSE [m EXCEPT !.status = "streaming", !.text = @ \cup {r}]
Chunk(r) ==
  /\ stream /\ r \in open
  /\ updateMessages(updateLastAssistantMessage(messages, Chunked(r, LastMessage)))
  /\ Behind
  /\ UNCHANGED <<requests, raced, silent, sent>>

(* [DONE]: the shared refs are set, then handleStreamComplete. *)
Completed(m) == IF m.status \in {"complete", "error"} THEN m ELSE finalizeMessage(m)
StreamDone_Mutant(r) ==
  /\ stream /\ r \in open
  /\ open' = open \ {r}
  /\ ref' = NoRequest
  /\ complete' = TRUE
  /\ Behind
  /\ UNCHANGED <<messages, saved, stream, used, raced, silent, sent>>

StreamDone(r) ==
  /\ stream /\ r \in open
  /\ open' = open \ {r}
  /\ ref' = NoRequest
  /\ complete' = TRUE
  /\ updateMessages(updateLastAssistantMessage(messages, Completed(LastMessage)))
  /\ Behind
  /\ UNCHANGED <<stream, used, raced, silent, sent>>

(* The listeners for errors: handleError does nothing once a stream, be it  *)
(* another one, has been completed.                                         *)
StreamError(r) ==
  /\ stream /\ r \in open
  /\ open' = open \ {r}
  /\ IF complete
       THEN UNCHANGED <<messages, saved, ref>>
       ELSE /\ updateMessages(updateLastAssistantMessage(messages, WithError(LastMessage)))
            /\ ref' = NoRequest
  /\ Behind
  /\ UNCHANGED <<stream, used, complete, raced, silent, sent>>

(* The response ends with status 200 and without [DONE]: no listener acts.  *)
StreamEndsSilently(r) ==
  /\ stream /\ r \in open
  /\ open' = open \ {r}
  /\ silent' = TRUE
  /\ Behind
  /\ UNCHANGED <<messages, saved, stream, used, ref, complete, raced, sent>>

(* sendNonStreamingChat *)
Answered(r, m) == [m EXCEPT !.status = "complete", !.text = {r}]
Respond(r) ==
  /\ ~stream /\ r \in open
  /\ open' = open \ {r}
  /\ \/ /\ updateMessages(updateLastAssistantMessage(messages, Answered(r, LastMessage)))
        /\ UNCHANGED silent
     \/ /\ updateMessages(updateLastAssistantMessage(messages, WithError(LastMessage)))
        /\ UNCHANGED silent
     \/ /\ silent' = TRUE                              \* no choice in the response
        /\ UNCHANGED <<messages, saved>>
  /\ Behind
  /\ UNCHANGED <<stream, used, ref, complete, raced, sent>>

Render ==
  /\ view # [messages |-> messages, isGenerating |-> ref # NoRequest]
  /\ view' = [messages |-> messages, isGenerating |-> ref # NoRequest]
  /\ UNCHANGED <<messages, saved, editing, requests, raced, silent, sent, reloads>>

-----------------------------------------------------------------------------
(* The page *)

(* A generation is under way, or its end has not been rendered. *)
Busy == open # {} \/ view.messages # messages

(* The button for sending and the actions of a message are disabled while   *)
(* isGenerating, which a request that does not stream never sets.           *)
Guard_Mutant == raced' = (raced \/ (~stream /\ Busy))
Guard == /\ ~view.isGenerating
         /\ raced' = (raced \/ (~stream /\ Busy))
Unguarded == raced' = (raced \/ Busy)

Exchange(r) == <<createUserMessage(r), createLoadingAssistantMessage(r)>>

(* handleSendMessage *)
Send(r) ==
  /\ Guard
  /\ SendChat(r, view.messages \o Exchange(r))
  /\ UNCHANGED editing

(* handleSuggestionClick calls handleSendMessage whatever is under way. *)
Suggest(r) ==
  /\ Unguarded
  /\ SendChat(r, view.messages \o Exchange(r))
  /\ UNCHANGED editing

(* The messages under which the actions are shown. *)
HasActions(i) == i \in 1..Len(view.messages) /\ view.messages[i].text # {}

handleRegenerateMessage(r, i) ==
  /\ Guard
  /\ HasActions(i) /\ ~IsUser(view.messages[i]) /\ ~Generating(view.messages[i])
  /\ SendChat(r, Append(SubSeq(view.messages, 1, i - 1), createLoadingAssistantMessage(r)))
  /\ UNCHANGED editing

(* A handler of the page that makes no request. *)
Local == UNCHANGED <<requests, silent, sent, reloads>>

(* filter: the messages at the positions kept, in their order. *)
InOrder(kept) == CHOOSE f \in [1..Cardinality(kept) -> kept] :
                   \A i, j \in 1..Cardinality(kept) : i < j => f[i] < f[j]
Filtered(ms, kept) == [n \in 1..Cardinality(kept) |-> ms[InOrder(kept)[n]]]

handleDeleteMessage(i) ==
  /\ Guard
  /\ HasActions(i)
  /\ updateMessages(Filtered(view.messages, {j \in 1..Len(view.messages) :
                                 view.messages[j].key # view.messages[i].key}))
  /\ UNCHANGED editing
  /\ Local
  /\ Rendered

handleEditMessage(i) ==
  /\ ~view.isGenerating
  /\ HasActions(i)
  /\ editing' = view.messages[i].key
  /\ UNCHANGED <<messages, saved, view, raced>>
  /\ Local

handleEditOpenChange ==
  /\ editing[1] # NoKey
  /\ editing' = <<NoKey, "user">>
  /\ UNCHANGED <<messages, saved, view, raced>>
  /\ Local

(* applyEdit: the editor stays open while an answer is being generated. *)
Edited(ms) == [i \in 1..Len(ms) |-> IF ms[i].key = editing
                                      THEN [ms[i] EXCEPT !.text = {EditText}] ELSE ms[i]]
SaveEdit(i) ==
  /\ HasActions(i) /\ view.messages[i].key = editing
  /\ Unguarded
  /\ updateMessages(Edited(view.messages))
  /\ editing' = <<NoKey, "user">>
  /\ Local
  /\ Rendered

SaveEditAndSubmit(r, i) ==
  /\ HasActions(i) /\ view.messages[i].key = editing
  /\ IsUser(view.messages[i])
  /\ Unguarded
  /\ SendChat(r, Append(SubSeq(Edited(view.messages), 1, i),
                        createLoadingAssistantMessage(r)))
  /\ editing' = <<NoKey, "user">>

(* stopGeneration closes the source the ref holds, if any. *)
Stopped(m) == IF Generating(m) THEN finalizeMessage(m) ELSE m
stopGeneration_Mutant ==
  /\ view.isGenerating
  /\ open' = open \ {ref}
  /\ updateMessages(updateLastAssistantMessage(messages, Stopped(LastMessage)))
  /\ UNCHANGED ref
  /\ Rendered
  /\ UNCHANGED <<editing, stream, used, complete, raced, silent, sent, reloads>>

stopGeneration ==
  /\ view.isGenerating
  /\ open' = open \ {ref}
  /\ ref' = NoRequest
  /\ updateMessages(updateLastAssistantMessage(messages, Stopped(LastMessage)))
  /\ Rendered
  /\ UNCHANGED <<editing, stream, used, complete, raced, silent, sent, reloads>>

(* A reload of the page ends all requests; loadMessages saves what it has   *)
(* sanitized.                                                               *)
Reload ==
  /\ reloads > 0
  /\ reloads' = reloads - 1
  /\ updateMessages(sanitizeMessagesOnLoad(saved))
  /\ open' = {}
  /\ ref' = NoRequest
  /\ complete' = FALSE
  /\ editing' = <<NoKey, "user">>
  /\ Rendered
  /\ UNCHANGED <<stream, used, raced, silent, sent>>

-----------------------------------------------------------------------------
(* The server ends every response it has begun. *)
Ends(r) == StreamDone(r) \/ StreamError(r) \/ StreamEndsSilently(r) \/ Respond(r)

Index == 1..(2 * Cardinality(Requests))

User ==
  \/ \E r \in Requests : Send(r) \/ Suggest(r)
  \/ \E r \in Requests, i \in Index :
       handleRegenerateMessage(r, i) \/ SaveEditAndSubmit(r, i)
  \/ \E i \in Index : handleDeleteMessage(i) \/ handleEditMessage(i) \/ SaveEdit(i)
  \/ handleEditOpenChange \/ stopGeneration \/ Reload

(* Nothing is under way, and the user may leave it at that. *)
Idle == open = {} /\ UNCHANGED vars

Next == User \/ Render \/ Idle \/ \E r \in Requests : Chunk(r) \/ Ends(r)

Spec == Init /\ [][Next]_vars
FairSpec == Spec /\ WF_vars(Render) /\ \A r \in Requests : WF_vars(Ends(r))

-----------------------------------------------------------------------------
(* Properties *)

TypeOK ==
  /\ messages \in Seq(Messages) /\ saved \in Seq(Messages)
  /\ view.messages \in Seq(Messages) /\ view.isGenerating \in BOOLEAN
  /\ editing \in (Requests \cup {NoKey}) \X {"user", "assistant"}
  /\ used \subseteq Requests /\ open \subseteq used
  /\ ref \in Requests \cup {NoRequest}
  /\ {stream, complete, raced, silent, sent} \subseteq BOOLEAN
  /\ reloads \in Nat

(* An answer holds only what its own request has sent, through stops,       *)
(* regenerations, deletions, edits and reloads, as long as the handlers     *)
(* that do not check isGenerating (handleSuggestionClick, applyEdit) were   *)
(* not used during a generation or before its end was rendered.             *)
AnswersAreOwn ==
  raced \/ \A i \in 1..Len(messages) :
             ~IsUser(messages[i]) =>
               messages[i].text \subseteq {messages[i].key[1], ErrorText, EditText}

(* A message shown as being generated has a request that will end it, with  *)
(* the same exceptions and that of a response without its last event        *)
(* (use-stream-request.ts, sendNonStreamingChat).                           *)
NoneAbandoned ==
  raced \/ silent \/ \A i \in Stuck(messages) : messages[i].key[1] \in open

(* No request is sent a message that is still being generated, its own      *)
(* placeholder in particular, with the same exceptions (isValidMessage,     *)
(* which looks at the text alone).                                          *)
NoUnfinishedSent == raced \/ silent \/ ~sent

(* The ref that isGenerating is computed from holds the open stream: the    *)
(* page does not let the user act as if nothing were under way              *)
(* (use-stream-request.ts).                                                 *)
RefIsOpenStream ==
  raced \/ silent \/ (stream => open = {ref} \ {NoRequest})

(* A reload leaves one message less shown as being generated, hence none    *)
(* unless two generations had overlapped (sanitizeMessagesOnLoad).          *)
ReloadHelps ==
  [][reloads' < reloads =>
       \/ Stuck(messages') = {}
       \/ Cardinality(Stuck(messages')) < Cardinality(Stuck(messages))
            /\ (raced \/ silent)]_vars

(* Every generation that is shown ends, with the same exceptions            *)
(* (handleStreamComplete, handleStreamError).                               *)
GenerationEnds ==
  (Stuck(messages) # {}) ~> (Stuck(messages) = {} \/ raced \/ silent)

(* What is said of sanitizeMessagesOnLoad: it converts stuck messages to a  *)
(* stable state.                                                            *)
ReloadLeavesNoneStuck == [][reloads' < reloads => Stuck(messages') = {}]_vars

=============================================================================
