------------------------ MODULE PlaygroundChatProofs ------------------------
(***************************************************************************)
(* Proofs about PlaygroundChat, for any number of requests and reloads.    *)
(*                                                                         *)
(* What the properties say of the list depends on what the shared refs and *)
(* the last rendering say of the requests, and the other way round: a      *)
(* handler that checks isGenerating is harmless only because a rendering   *)
(* with isGenerating FALSE is never behind, and this holds because the ref *)
(* is that of the one open stream.  PInv puts the two together.            *)
(***************************************************************************)
EXTENDS PlaygroundChat, SumTheorems, SequenceTheorems

(* What is true of the refs while the page was changed in turn: only the    *)
(* stream of the ref is open and none was completed since it was opened,    *)
(* and a rendering without a generation is up to date.                     *)
StreamRefs ==
  stream =>
    /\ open \subseteq {ref}
    /\ open # {} => ~complete
    /\ ref # NoRequest => silent \/ ref \in open
    /\ ~view.isGenerating => ref = NoRequest /\ view.messages = messages

(* An open request fills the last message. *)
Filling == \A r \in open : messages # <<>> /\ LastMessage.key = <<r, "assistant">>

Own(m) == ~IsUser(m) => m.text \subseteq {m.key[1], ErrorText, EditText}

(* Only the last message is being generated, by a request that is open. *)
Unfinished == \A i \in Stuck(messages) : i = Len(messages) /\ messages[i].key[1] \in open

InTurn == /\ StreamRefs
          /\ Filling
          /\ \A i \in 1..Len(messages) : Own(messages[i])
          /\ silent \/ (Unfinished /\ ~sent)

PInv == /\ TypeOK
        /\ saved = messages
        /\ ~stream => ref = NoRequest /\ ~view.isGenerating
        /\ raced \/ InTurn

-----------------------------------------------------------------------------
(* Messages *)

(* The constants are distinct. *)
LEMMA Distinct ==
  /\ NoRequest \notin Requests /\ ErrorText \notin Requests /\ EditText \notin Requests
  /\ Requests \subseteq Nat /\ MaxReloads \in Nat
  BY PlaygroundAssumption DEF PlaygroundAssumption

(* What a message is. *)
LEMMA MessageFacts ==
  ASSUME NEW m \in Messages
  PROVE  /\ m.key \in Requests \X {"user", "assistant"}
         /\ m.key[1] \in Requests
         /\ m.text \in SUBSET Sources
         /\ IsUser(m) => ~Generating(m)
         /\ ~IsUser(m) => m.key = <<m.key[1], "assistant">> /\ m.status \in Statuses
  BY DEF Messages, IsUser, Generating, Statuses

(* A user message and a placeholder. *)
LEMMA NewMessages ==
  ASSUME NEW r \in Requests
  PROVE  /\ createUserMessage(r) \in Messages /\ IsUser(createUserMessage(r))
         /\ ~Generating(createUserMessage(r))
         /\ createLoadingAssistantMessage(r) \in Messages
         /\ ~IsUser(createLoadingAssistantMessage(r))
         /\ createLoadingAssistantMessage(r).key = <<r, "assistant">>
         /\ createLoadingAssistantMessage(r).text = {}
  BY DEF createUserMessage, createLoadingAssistantMessage, Messages, Statuses, Sources,
         IsUser, Generating

(* A message that an event of a request may leave in place of an answer. *)
Answer(n, m) == n \in Messages /\ n.key = m.key /\ (Own(m) => Own(n))

(* What the updaters make of an answer. *)
LEMMA Updaters ==
  ASSUME NEW m \in Messages, ~IsUser(m)
  PROVE  /\ Answer(Completed(m), m) /\ ~Generating(Completed(m))
         /\ Answer(WithError(m), m) /\ ~Generating(WithError(m))
         /\ Answer(Stopped(m), m) /\ ~Generating(Stopped(m))
         /\ Answer(finalizeMessage(m), m) /\ ~Generating(finalizeMessage(m))
  <1>1. {ErrorText} \in SUBSET Sources /\ "complete" \in Statuses /\ "error" \in Statuses
    BY DEF Sources, Statuses
  <1>2. finalizeMessage(m) \in Messages /\ finalizeMessage(m).key = m.key
        /\ finalizeMessage(m).text = m.text /\ finalizeMessage(m).status = "complete"
    BY <1>1 DEF finalizeMessage, Messages, IsUser
  <1>3. WithError(m) \in Messages /\ WithError(m).key = m.key
        /\ WithError(m).text = {ErrorText} /\ WithError(m).status = "error"
    BY <1>1 DEF WithError, Messages, IsUser
  <1>4. Answer(finalizeMessage(m), m) /\ ~Generating(finalizeMessage(m))
    BY <1>2 DEF Answer, Own, IsUser, Generating
  <1>5. Answer(WithError(m), m) /\ ~Generating(WithError(m))
    BY <1>3 DEF Answer, Own, IsUser, Generating
  <1>6. Answer(m, m)
    BY DEF Answer
  <1>7. m.status \in Statuses
    BY MessageFacts
  <1> QED BY <1>4, <1>5, <1>6, <1>7 DEF Completed, Stopped, Generating, Statuses

(* What a chunk or an answer of the message's own request makes of it. *)
LEMMA OwnUpdaters ==
  ASSUME NEW m \in Messages, ~IsUser(m), NEW r \in Requests
  PROVE  /\ Chunked(r, m) \in Messages /\ Chunked(r, m).key = m.key
         /\ Answered(r, m) \in Messages /\ Answered(r, m).key = m.key
         /\ ~Generating(Answered(r, m))
         /\ m.key[1] = r => Answer(Chunked(r, m), m) /\ Answer(Answered(r, m), m)
  <1>1. {r} \in SUBSET Sources /\ m.text \cup {r} \in SUBSET Sources
        /\ "complete" \in Statuses /\ "streaming" \in Statuses
    BY MessageFacts DEF Sources, Statuses
  <1>2. Answered(r, m) \in Messages /\ Answered(r, m).key = m.key
        /\ Answered(r, m).text = {r} /\ Answered(r, m).status = "complete"
    BY <1>1 DEF Answered, Messages, IsUser
  <1>3. CASE m.status = "error"
    <2>1. Chunked(r, m) = m
      BY <1>3 DEF Chunked
    <2> QED BY <1>2, <2>1 DEF Answer, Own, IsUser, Generating
  <1>4. CASE m.status # "error"
    <2>1. Chunked(r, m) = [m EXCEPT !.status = "streaming", !.text = m.text \cup {r}]
      BY <1>4 DEF Chunked, Messages
    <2>2. Chunked(r, m) \in Messages /\ Chunked(r, m).key = m.key
          /\ Chunked(r, m).text = m.text \cup {r}
      BY <1>1, <2>1 DEF Messages, IsUser
    <2> QED BY <1>2, <2>2 DEF Answer, Own, IsUser, Generating
  <1> QED BY <1>3, <1>4

-----------------------------------------------------------------------------
(* Lists *)

(* An update of the last answer leaves the rest of the list alone. *)
LEMMA LastUpdated ==
  ASSUME NEW ms \in Seq(Messages), NEW u,
         IsLastAssistant(ms) => u \in Messages
  PROVE  /\ updateLastAssistantMessage(ms, u) \in Seq(Messages)
         /\ Len(updateLastAssistantMessage(ms, u)) = Len(ms)
         /\ \A i \in 1..Len(ms) : updateLastAssistantMessage(ms, u)[i] =
              IF i = Len(ms) /\ IsLastAssistant(ms) THEN u ELSE ms[i]
  <1>1. CASE IsLastAssistant(ms)
    <2>1. Len(ms) \in 1..Len(ms)
      BY <1>1 DEF IsLastAssistant
    <2> QED BY <1>1, <2>1, ExceptSeq DEF updateLastAssistantMessage
  <1>2. CASE ~IsLastAssistant(ms)
    BY <1>2 DEF updateLastAssistantMessage
  <1> QED BY <1>1, <1>2

(* A finite set of integers can be put in order. *)
LEMMA OrderExists ==
  ASSUME NEW S, IsFiniteSet(S), S \subseteq Int
  PROVE  \E f \in [1..Cardinality(S) -> S] :
           \A i, j \in 1..Cardinality(S) : i < j => f[i] < f[j]
  <1> DEFINE Ordered(T) == \E f \in [1..Cardinality(T) -> T] :
                             \A i, j \in 1..Cardinality(T) : i < j => f[i] < f[j]
             Q == {T \in SUBSET S : ~Ordered(T)}
  <1>1. SUFFICES ASSUME Q # {} PROVE FALSE
    OBVIOUS
  <1>2. PICK T \in Q : \A U \in Q : U \subseteq T => U = T
    <2>1. Q \subseteq SUBSET S
      OBVIOUS
    <2> HIDE DEF Q
    <2> QED BY ONLY IsFiniteSet(S), <1>1, <2>1, Least
  <1>3. T \in SUBSET S /\ ~Ordered(T) /\ IsFiniteSet(T)
    BY FS_Subset
  <1>4. T # {}
    <2> SUFFICES ASSUME T = {} PROVE FALSE
      OBVIOUS
    <2>1. Cardinality(T) = 0 /\ 1..0 = {}
      BY FS_EmptySet
    <2>2. [i \in {} |-> i] \in [1..Cardinality(T) -> T]
      BY <2>1
    <2> QED BY <1>3, <2>1, <2>2
  <1>5. PICK m \in T : \A x \in T : x <= m
    BY <1>3, <1>4, MaxIsGreatest
  <1> DEFINE U == T \ {m}
             c == Cardinality(T)
  <1>6. c \in Nat /\ Cardinality(U) = c - 1 /\ Cardinality(U) \in Nat
    BY <1>3, FS_RemoveElement, FS_CardinalityType
  <1>7. Ordered(U)
    <2>1. U \in SUBSET S /\ U \subseteq T /\ U # T
      BY <1>3, <1>5
    <2>2. U \notin Q
      BY ONLY <1>2, <2>1
    <2> QED BY <2>1, <2>2
  <1>8. PICK f \in [1..(c - 1) -> U] : \A i, j \in 1..(c - 1) : i < j => f[i] < f[j]
    BY <1>6, <1>7
  <1> DEFINE g == [i \in 1..c |-> IF i = c THEN m ELSE f[i]]
  <1> HIDE DEF Q, Ordered, U
  <1>9. \A i \in 1..c : i = c \/ (i \in 1..(c - 1) /\ f[i] \in U)
    BY <1>6, <1>8
  <1>10. g \in [1..c -> T]
    BY <1>9 DEF U
  <1>11. ASSUME NEW i \in 1..c, NEW j \in 1..c, i < j PROVE g[i] < g[j]
    <2>1. i # c /\ i \in 1..(c - 1) /\ f[i] \in U /\ g[i] = f[i]
      BY <1>6, <1>9, <1>11
    <2>2. CASE j = c
      <3>1. g[j] = m /\ f[i] # m /\ f[i] <= m /\ f[i] \in Int /\ m \in Int
        BY <1>3, <1>5, <2>1, <2>2 DEF U
      <3> QED BY <2>1, <3>1
    <2>3. CASE j # c
      <3>1. j \in 1..(c - 1) /\ g[j] = f[j]
        BY <1>9, <2>3
      <3> QED BY <1>8, <1>11, <2>1, <3>1
    <2> QED BY <2>2, <2>3
  <1> QED BY <1>3, <1>10, <1>11 DEF Ordered

(* A filtered list holds messages of the list. *)
LEMMA FilteredFacts ==
  ASSUME NEW ms \in Seq(Messages), NEW kept, kept \subseteq 1..Len(ms)
  PROVE  /\ Filtered(ms, kept) \in Seq(Messages)
         /\ \A n \in 1..Len(Filtered(ms, kept)) :
              \E i \in 1..Len(ms) : Filtered(ms, kept)[n] = ms[i]
  <1>1. IsFiniteSet(kept) /\ kept \subseteq Int /\ Cardinality(kept) \in Nat
    <2>1. IsFiniteSet(1..Len(ms))
      BY FS_Interval
    <2>2. IsFiniteSet(kept)
      BY <2>1, FS_Subset
    <2> QED BY <2>2, FS_CardinalityType
  <1>2. InOrder(kept) \in [1..Cardinality(kept) -> kept]
    BY <1>1, OrderExists DEF InOrder
  <1>3. \A n \in 1..Cardinality(kept) :
          InOrder(kept)[n] \in 1..Len(ms) /\ ms[InOrder(kept)[n]] \in Messages
    <2>1. ASSUME NEW n \in 1..Cardinality(kept)
          PROVE  InOrder(kept)[n] \in 1..Len(ms) /\ ms[InOrder(kept)[n]] \in Messages
      <3>1. InOrder(kept)[n] \in 1..Len(ms)
        BY <1>2
      <3> QED BY <3>1, ElementOfSeq
    <2> QED BY <2>1
  <1>4. Filtered(ms, kept) \in [1..Cardinality(kept) -> Messages]
    BY <1>3 DEF Filtered
  <1>5. Filtered(ms, kept) \in Seq(Messages) /\ Len(Filtered(ms, kept)) = Cardinality(kept)
    BY <1>1, <1>4
  <1> QED BY <1>3, <1>5 DEF Filtered

(* An edit replaces texts only. *)
LEMMA EditedFacts ==
  ASSUME NEW ms \in Seq(Messages)
  PROVE  /\ Edited(ms) \in Seq(Messages) /\ Len(Edited(ms)) = Len(ms)
         /\ \A i \in 1..Len(ms) : /\ Edited(ms)[i].key = ms[i].key
                                  /\ Edited(ms)[i].status = ms[i].status
                                  /\ Edited(ms)[i].text \in {ms[i].text, {EditText}}
  <1>1. {EditText} \in SUBSET Sources
    BY DEF Sources
  <1>2. \A i \in 1..Len(ms) :
          /\ ms[i] \in Messages
          /\ [ms[i] EXCEPT !.text = {EditText}] \in Messages
          /\ [ms[i] EXCEPT !.text = {EditText}].key = ms[i].key
          /\ [ms[i] EXCEPT !.text = {EditText}].status = ms[i].status
          /\ [ms[i] EXCEPT !.text = {EditText}].text = {EditText}
    <2>1. ASSUME NEW m \in Messages
          PROVE  /\ [m EXCEPT !.text = {EditText}] \in Messages
                 /\ [m EXCEPT !.text = {EditText}].key = m.key
                 /\ [m EXCEPT !.text = {EditText}].status = m.status
                 /\ [m EXCEPT !.text = {EditText}].text = {EditText}
      BY <1>1 DEF Messages
    <2> QED BY <2>1
  <1>3. Len(ms) \in Nat /\ Edited(ms) \in [1..Len(ms) -> Messages]
    BY <1>2 DEF Edited
  <1>4. Edited(ms) \in Seq(Messages) /\ Len(Edited(ms)) = Len(ms)
    BY <1>3
  <1> QED BY <1>2, <1>4 DEF Edited

(* sanitizeMessagesOnLoad ends the last of the messages being generated. *)
LEMMA SanitizedFacts ==
  ASSUME NEW ms \in Seq(Messages)
  PROVE  /\ sanitizeMessagesOnLoad(ms) \in Seq(Messages)
         /\ Len(sanitizeMessagesOnLoad(ms)) = Len(ms)
         /\ \A i \in 1..Len(ms) :
              LET new == sanitizeMessagesOnLoad(ms)[i]
              IN IF i \in Stuck(ms) /\ \A j \in Stuck(ms) : j <= i
                   THEN Answer(new, ms[i]) /\ ~Generating(new) ELSE new = ms[i]
  <1> DEFINE last(i) == i \in Stuck(ms) /\ \A j \in Stuck(ms) : j <= i
             new(i) == IF ms[i].text # {} THEN finalizeMessage(ms[i]) ELSE WithError(ms[i])
  <1>1. ASSUME NEW i \in 1..Len(ms), last(i)
        PROVE  Answer(new(i), ms[i]) /\ ~Generating(new(i))
    <2>1. ms[i] \in Messages /\ Generating(ms[i])
      BY <1>1 DEF Stuck
    <2>2. ~IsUser(ms[i])
      BY <2>1, MessageFacts
    <2> QED BY <2>1, <2>2, Updaters
  <1>2. sanitizeMessagesOnLoad(ms) = [i \in 1..Len(ms) |-> IF last(i) THEN new(i) ELSE ms[i]]
    BY DEF sanitizeMessagesOnLoad
  <1> HIDE DEF last, new
  <1>3. \A i \in 1..Len(ms) : (last(i) => new(i) \in Messages) /\ ms[i] \in Messages
    BY <1>1 DEF Answer
  <1>4. Len(ms) \in Nat /\ sanitizeMessagesOnLoad(ms) \in [1..Len(ms) -> Messages]
    BY <1>2, <1>3
  <1>5. sanitizeMessagesOnLoad(ms) \in Seq(Messages) /\ Len(sanitizeMessagesOnLoad(ms)) = Len(ms)
    BY <1>4
  <1>6. \A i \in 1..Len(ms) :
          IF last(i) THEN Answer(sanitizeMessagesOnLoad(ms)[i], ms[i])
                          /\ ~Generating(sanitizeMessagesOnLoad(ms)[i])
                     ELSE sanitizeMessagesOnLoad(ms)[i] = ms[i]
    BY <1>1, <1>2
  <1> QED BY <1>5, <1>6 DEF last

-----------------------------------------------------------------------------
(* Events of a request *)

(* In turn, the last message is the answer of the request that is open. *)
LEMMA LastIsOpen ==
  ASSUME PInv, ~raced, NEW r \in open
  PROVE  /\ open = {r} /\ r \in Requests
         /\ IsLastAssistant(messages) /\ LastMessage \in Messages
         /\ LastMessage.key[1] = r
         /\ stream => ref = r /\ ~complete /\ view.isGenerating
  <1>1. InTurn /\ TypeOK /\ open \subseteq Requests /\ r \in Requests
    BY DEF PInv, TypeOK
  <1>2. messages # <<>> /\ LastMessage.key = <<r, "assistant">>
    BY <1>1 DEF InTurn, Filling
  <1>3. LastMessage \in Messages
    BY <1>1, <1>2 DEF TypeOK, LastMessage
  <1>4. \A q \in open : q = r
    BY <1>1, <1>2 DEF InTurn, Filling
  <1>5. stream => ref = r /\ ~complete /\ view.isGenerating
    BY <1>1, Distinct DEF InTurn, StreamRefs
  <1>6. IsLastAssistant(messages)
    BY <1>2 DEF IsLastAssistant, IsUser, LastMessage
  <1> QED BY <1>1, <1>2, <1>3, <1>4, <1>5, <1>6

(* What an update of the last answer does to the list. *)
LEMMA UpdateKeeps ==
  ASSUME PInv, NEW u, IsLastAssistant(messages) => u \in Messages /\ u.key = LastMessage.key,
         updateMessages(updateLastAssistantMessage(messages, u))
  PROVE  /\ messages' \in Seq(Messages) /\ saved' = messages' /\ Len(messages') = Len(messages)
         /\ IsLastAssistant(messages) => messages' # <<>> /\ LastMessage' = u
         /\ \A i \in 1..Len(messages') :
              messages'[i] = IF i = Len(messages) /\ IsLastAssistant(messages) THEN u ELSE messages[i]
  <1>1. messages \in Seq(Messages)
    BY DEF PInv, TypeOK
  <1>2. messages' = updateLastAssistantMessage(messages, u) /\ saved' = messages'
    BY DEF updateMessages
  <1>3. /\ messages' \in Seq(Messages) /\ Len(messages') = Len(messages)
        /\ \A i \in 1..Len(messages) :
             messages'[i] = IF i = Len(messages) /\ IsLastAssistant(messages) THEN u ELSE messages[i]
    BY <1>1, <1>2, LastUpdated
  <1>4. IsLastAssistant(messages) => Len(messages) \in 1..Len(messages) /\ messages # <<>>
    BY <1>1 DEF IsLastAssistant
  <1> QED BY <1>1, <1>2, <1>3, <1>4 DEF LastMessage

(* In turn, an update by the request that is open keeps the list in order. *)
LEMMA OwnUpdateKeeps ==
  ASSUME PInv, ~raced, NEW r \in open, NEW u, Answer(u, LastMessage),
         updateMessages(updateLastAssistantMessage(messages, u))
  PROVE  /\ messages' # <<>> /\ LastMessage'.key = <<r, "assistant">>
         /\ \A i \in 1..Len(messages') : Own(messages'[i])
         /\ ~silent => \A i \in Stuck(messages') :
                         i = Len(messages') /\ messages'[i].key[1] = r /\ Generating(u)
  <1>1. InTurn /\ messages \in Seq(Messages)
    BY DEF PInv, TypeOK
  <1>2. /\ IsLastAssistant(messages) /\ LastMessage \in Messages /\ open = {r}
        /\ LastMessage.key = <<r, "assistant">> /\ u.key = <<r, "assistant">>
    BY <1>1, LastIsOpen DEF InTurn, Filling, Answer
  <1>3. /\ Len(messages') = Len(messages) /\ messages' # <<>> /\ LastMessage' = u
        /\ \A i \in 1..Len(messages') :
             messages'[i] = IF i = Len(messages) THEN u ELSE messages[i]
    BY <1>2, UpdateKeeps DEF Answer
  <1>4. Own(u)
    <2>1. Len(messages) \in 1..Len(messages)
      BY <1>1, <1>2 DEF IsLastAssistant
    <2>2. Own(LastMessage)
      BY <1>1, <2>1 DEF InTurn, LastMessage
    <2> QED BY <2>2 DEF Answer
  <1>5. \A i \in 1..Len(messages') : Own(messages'[i])
    BY <1>1, <1>3, <1>4 DEF InTurn
  <1>6. ASSUME ~silent, NEW i \in Stuck(messages')
        PROVE  i = Len(messages') /\ messages'[i].key[1] = r /\ Generating(u)
    <2>1. i \in 1..Len(messages') /\ Generating(messages'[i])
      BY DEF Stuck
    <2>2. Unfinished
      BY <1>1, <1>6 DEF InTurn
    <2>3. CASE i = Len(messages)
      BY <1>2, <1>3, <2>1, <2>3
    <2>4. CASE i # Len(messages)
      <3>1. i \in Stuck(messages)
        BY <1>3, <2>1, <2>4 DEF Stuck
      <3> QED BY <2>2, <2>4, <3>1 DEF Unfinished
    <2> QED BY <2>3, <2>4
  <1> QED BY <1>2, <1>3, <1>5, <1>6

(* A chunk is written into its own answer. *)
LEMMA ChunkKeeps == ASSUME PInv, NEW r \in Requests, Chunk(r) PROVE PInv'
  <1>a. /\ r \in open /\ stream /\ TypeOK
        /\ updateMessages(updateLastAssistantMessage(messages, Chunked(r, LastMessage)))
        /\ UNCHANGED <<view, editing, reloads, stream, used, open, ref, complete, raced, silent, sent>>
    BY DEF Chunk, Behind, PInv, requests
  <1>1. IsLastAssistant(messages) => LastMessage \in Messages /\ ~IsUser(LastMessage)
    BY <1>a DEF TypeOK, IsLastAssistant, LastMessage
  <1>2. messages' \in Seq(Messages) /\ saved' = messages'
    BY <1>a, <1>1, UpdateKeeps, OwnUpdaters
  <1>3. TypeOK'
    BY <1>a, <1>2 DEF TypeOK
  <1>4. ASSUME ~raced PROVE InTurn'
    <2>1. /\ open = {r} /\ stream /\ IsLastAssistant(messages) /\ LastMessage.key[1] = r
          /\ ref = r /\ view.isGenerating
      BY <1>a, <1>4, LastIsOpen
    <2>2. Answer(Chunked(r, LastMessage), LastMessage)
      BY <1>1, <2>1, OwnUpdaters
    <2>3. /\ messages' # <<>> /\ LastMessage'.key = <<r, "assistant">>
          /\ \A i \in 1..Len(messages') : Own(messages'[i])
          /\ ~silent => \A i \in Stuck(messages') :
                          i = Len(messages') /\ messages'[i].key[1] = r
      BY <1>a, <1>4, <2>2, OwnUpdateKeeps
    <2>4. StreamRefs'
      BY <1>a, <1>4, <2>1 DEF PInv, InTurn, StreamRefs
    <2>5. Filling'
      BY <1>a, <2>1, <2>3 DEF Filling
    <2>6. (silent \/ (Unfinished /\ ~sent))'
      BY <1>a, <1>4, <2>1, <2>3 DEF Unfinished, PInv, InTurn
    <2> QED BY <2>3, <2>4, <2>5, <2>6 DEF InTurn
  <1> QED BY <1>a, <1>2, <1>3, <1>4 DEF PInv

(* In turn, a request that ends leaves nothing being generated. *)
LEMMA EndKeeps ==
  ASSUME PInv, NEW r \in open, NEW u,
         IsLastAssistant(messages) => u \in Messages /\ u.key = LastMessage.key,
         IsLastAssistant(messages) /\ LastMessage.key[1] = r =>
           Answer(u, LastMessage) /\ ~Generating(u),
         updateMessages(updateLastAssistantMessage(messages, u)),
         open' = open \ {r}, ref' = NoRequest,
         UNCHANGED <<view, editing, reloads, stream, used, raced, silent, sent>>,
         complete' \in BOOLEAN
  PROVE  PInv'
  <1>1. TypeOK /\ messages' \in Seq(Messages) /\ saved' = messages'
    BY UpdateKeeps DEF PInv
  <1>2. TypeOK'
    BY <1>1 DEF TypeOK
  <1>3. ASSUME ~raced PROVE InTurn'
    <2>1. /\ open' = {} /\ Answer(u, LastMessage) /\ ~Generating(u)
          /\ stream => view.isGenerating
      BY <1>3, LastIsOpen
    <2>2. /\ \A i \in 1..Len(messages') : Own(messages'[i])
          /\ ~silent => Stuck(messages') = {}
      BY <1>3, <2>1, OwnUpdateKeeps
    <2>3. StreamRefs' /\ Filling'
      BY <2>1 DEF StreamRefs, Filling
    <2>4. (silent \/ (Unfinished /\ ~sent))'
      BY <1>3, <2>2 DEF Unfinished, PInv, InTurn
    <2> QED BY <2>2, <2>3, <2>4 DEF InTurn
  <1> QED BY <1>1, <1>2, <1>3 DEF PInv

(* In turn, a response without its last event leaves the list as it is. *)
LEMMA SilentKeeps ==
  ASSUME PInv, NEW r \in open, open' = open \ {r}, silent' = TRUE,
         UNCHANGED <<messages, saved, view, editing, reloads, stream, used, ref, complete, raced, sent>>
  PROVE  PInv'
  <1>1. TypeOK'
    BY DEF PInv, TypeOK
  <1>2. ASSUME ~raced PROVE InTurn'
    <2>1. InTurn /\ open' = {} /\ (stream => view.isGenerating)
      BY <1>2, LastIsOpen DEF PInv
    <2>2. StreamRefs' /\ Filling'
      BY <2>1 DEF StreamRefs, Filling
    <2> QED BY <2>1, <2>2 DEF InTurn
  <1> QED BY <1>1, <1>2 DEF PInv

(* A response that ends, in whatever way. *)
LEMMA EndsKeeps == ASSUME PInv, NEW r \in Requests, Ends(r) PROVE PInv'
  <1>a. TypeOK /\ (~stream => ref = NoRequest) /\ TRUE \in BOOLEAN /\ complete \in BOOLEAN
    BY DEF PInv, TypeOK
  <1>b. IsLastAssistant(messages) => LastMessage \in Messages /\ ~IsUser(LastMessage)
    BY <1>a DEF TypeOK, IsLastAssistant, LastMessage
  <1>1. CASE StreamDone(r)
    <2>1. /\ r \in open /\ open' = open \ {r} /\ ref' = NoRequest /\ complete' \in BOOLEAN
          /\ updateMessages(updateLastAssistantMessage(messages, Completed(LastMessage)))
          /\ UNCHANGED <<view, editing, reloads, stream, used, raced, silent, sent>>
      BY <1>1 DEF StreamDone, Behind
    <2>2. IsLastAssistant(messages) => Answer(Completed(LastMessage), LastMessage)
                                       /\ ~Generating(Completed(LastMessage))
      BY <1>b, Updaters
    <2> QED BY <2>1, <2>2, EndKeeps DEF Answer
  <1>2. CASE StreamError(r)
    <2>1. r \in open /\ stream /\ open' = open \ {r}
          /\ UNCHANGED <<view, editing, reloads, stream, used, complete, raced, silent, sent>>
      BY <1>2 DEF StreamError, Behind
    <2>2. CASE complete
      <3>1. raced
        BY <2>1, <2>2, LastIsOpen
      <3>2. UNCHANGED <<messages, saved, ref>>
        BY <1>2, <2>2 DEF StreamError
      <3>3. TypeOK'
        BY <1>a, <2>1, <3>2 DEF TypeOK
      <3> QED BY <2>1, <3>1, <3>2, <3>3 DEF PInv
    <2>3. CASE ~complete
      <3>1. /\ updateMessages(updateLastAssistantMessage(messages, WithError(LastMessage)))
            /\ ref' = NoRequest /\ complete' \in BOOLEAN
        BY <1>a, <1>2, <2>1, <2>3 DEF StreamError
      <3>2. IsLastAssistant(messages) => Answer(WithError(LastMessage), LastMessage)
                                         /\ ~Generating(WithError(LastMessage))
        BY <1>b, Updaters
      <3> QED BY <2>1, <3>1, <3>2, EndKeeps DEF Answer
    <2> QED BY <2>2, <2>3
  <1>3. CASE StreamEndsSilently(r)
    BY <1>3, SilentKeeps DEF StreamEndsSilently, Behind
  <1>4. CASE Respond(r)
    <2>1. /\ r \in open /\ ~stream /\ open' = open \ {r} /\ ref' = NoRequest
          /\ complete' \in BOOLEAN
          /\ UNCHANGED <<view, editing, reloads, stream, used, complete, ref, raced, sent>>
      BY <1>a, <1>4 DEF Respond, Behind
    <2>2. IsLastAssistant(messages) =>
            /\ Answered(r, LastMessage) \in Messages /\ Answered(r, LastMessage).key = LastMessage.key
            /\ ~Generating(Answered(r, LastMessage))
            /\ LastMessage.key[1] = r => Answer(Answered(r, LastMessage), LastMessage)
      BY <1>b, OwnUpdaters
    <2>3. IsLastAssistant(messages) => Answer(WithError(LastMessage), LastMessage)
                                       /\ ~Generating(WithError(LastMessage))
      BY <1>b, Updaters
    <2>4. CASE /\ updateMessages(updateLastAssistantMessage(messages, Answered(r, LastMessage)))
               /\ UNCHANGED silent
      BY <2>1, <2>2, <2>4, EndKeeps
    <2>5. CASE /\ updateMessages(updateLastAssistantMessage(messages, WithError(LastMessage)))
               /\ UNCHANGED silent
      BY <2>1, <2>3, <2>5, EndKeeps DEF Answer
    <2>6. CASE silent' = TRUE /\ UNCHANGED <<messages, saved>>
      BY <2>1, <2>6, SilentKeeps
    <2> QED BY <1>4, <2>4, <2>5, <2>6 DEF Respond
  <1> QED BY <1>1, <1>2, <1>3, <1>4 DEF Ends

(* A rendering brings the view up to date. *)
LEMMA RenderKeeps == ASSUME PInv, Render PROVE PInv'
  <1>1. /\ view' = [messages |-> messages, isGenerating |-> ref # NoRequest]
        /\ UNCHANGED <<messages, saved, editing, stream, used, open, ref, complete, raced, silent, sent, reloads>>
    BY DEF Render, requests
  <1>2. view'.messages = messages /\ view'.isGenerating = (ref # NoRequest)
    BY <1>1
  <1>3. TypeOK'
    BY <1>1, <1>2 DEF PInv, TypeOK
  <1>4. ASSUME InTurn PROVE InTurn'
    <2>1. StreamRefs'
      BY <1>1, <1>2, <1>4 DEF InTurn, StreamRefs
    <2>2. LastMessage' = LastMessage /\ Filling' /\ Unfinished'  = Unfinished
      BY <1>1, <1>4 DEF InTurn, Filling, Unfinished, LastMessage
    <2> QED BY <1>1, <1>4, <2>1, <2>2 DEF InTurn
  <1> QED BY <1>1, <1>2, <1>3, <1>4 DEF PInv

-----------------------------------------------------------------------------
(* The handlers of the page *)

(* A handler that leaves the page in turn sees the list as it is, no        *)
(* request is open, and nothing is being generated.                        *)
LEMMA Quiet ==
  ASSUME PInv, Guard \/ Unguarded
  PROVE  /\ raced => raced'
         /\ raced' \in BOOLEAN
         /\ ~raced' => /\ ~raced /\ InTurn /\ open = {} /\ view.messages = messages
                       /\ \A i \in 1..Len(messages) :
                            Own(messages[i]) /\ (~silent => ~Generating(messages[i]))
  <1>1. TypeOK /\ (raced \/ InTurn)
    BY DEF PInv
  <1>2. (raced => raced') /\ raced' \in BOOLEAN
    BY <1>1 DEF Guard, Unguarded
  <1>3. ASSUME ~raced' PROVE ~raced /\ InTurn /\ open = {} /\ view.messages = messages
    <2>1. ~raced /\ InTurn
      BY <1>1, <1>2, <1>3
    <2>2. CASE ~Busy
      BY <2>1, <2>2 DEF Busy
    <2>3. CASE Busy
      <3>1. Guard /\ stream /\ ~view.isGenerating
        BY <1>3, <2>3 DEF Guard, Unguarded
      <3>2. ref = NoRequest /\ open \subseteq {ref} /\ view.messages = messages
        BY <2>1, <3>1 DEF InTurn, StreamRefs
      <3>3. open = {}
        BY <1>1, <3>2, Distinct DEF TypeOK
      <3> QED BY <2>1, <3>2, <3>3
    <2> QED BY <2>2, <2>3
  <1>4. ASSUME ~raced', NEW i \in 1..Len(messages)
        PROVE  Own(messages[i]) /\ (~silent => ~Generating(messages[i]))
    BY <1>3, <1>4 DEF InTurn, Unfinished, Stuck
  <1> QED BY <1>2, <1>3, <1>4

(* What a handler may put into the list when it leaves the page in turn. *)
Settled(m) == Own(m) /\ (~silent => ~Generating(m))

(* A request is sent with a list of settled messages and its placeholder. *)
LEMMA SendKeeps ==
  ASSUME PInv, NEW r \in Requests, NEW base \in Seq(Messages),
         SendChat(r, Append(base, createLoadingAssistantMessage(r))),
         Guard \/ Unguarded,
         editing' \in (Requests \cup {NoKey}) \X {"user", "assistant"},
         ~raced' => \A i \in 1..Len(base) : Settled(base[i])
  PROVE  PInv'
  <1> DEFINE p == createLoadingAssistantMessage(r)
             new == Append(base, p)
  <1>1. /\ messages' = new /\ saved' = new /\ used' = used \cup {r} /\ open' = open \cup {r}
        /\ UNCHANGED <<stream, silent, reloads>>
        /\ view' = [messages |-> new, isGenerating |-> ref' # NoRequest]
        /\ IF stream THEN ref' = r /\ complete' = FALSE ELSE UNCHANGED <<ref, complete>>
        /\ sent' = (sent \/ \E m \in Payload(new) : Generating(m))
    BY DEF SendChat, updateMessages, Rendered
  <1>2. /\ p \in Messages /\ ~IsUser(p) /\ p.key = <<r, "assistant">> /\ p.text = {}
    BY NewMessages
  <1> HIDE DEF p
  <1>3. /\ new \in Seq(Messages) /\ Len(new) = Len(base) + 1 /\ new[Len(new)] = p
        /\ Len(base) \in Nat
        /\ \A i \in 1..Len(new) : i = Len(new) \/ (i \in 1..Len(base) /\ new[i] = base[i])
    BY <1>2
  <1> HIDE DEF new
  <1>4. view'.messages = new /\ view'.isGenerating = (ref' # NoRequest)
    BY <1>1
  <1>5. TypeOK'
    <2>1. sent' \in BOOLEAN /\ raced' \in BOOLEAN
      BY <1>1, Quiet DEF PInv, TypeOK
    <2> QED BY <1>1, <1>3, <1>4, <2>1 DEF PInv, TypeOK
  <1>6. ~stream => ref' = NoRequest /\ ~view'.isGenerating
    BY <1>1, <1>4 DEF PInv
  <1>7. ASSUME ~raced' PROVE InTurn'
    <2>1. ~raced /\ InTurn /\ open = {}
      BY <1>7, Quiet
    <2>2. \A i \in 1..Len(new) : Own(new[i])
      BY <1>2, <1>3, <1>7 DEF Settled, Own
    <2>3. StreamRefs'
      BY <1>1, <1>4, <2>1, Distinct DEF StreamRefs
    <2>4. Filling'
      BY <1>1, <1>2, <1>3, <2>1 DEF Filling, LastMessage
    <2>5. ASSUME ~silent PROVE Unfinished' /\ ~sent'
      <3>1. \A i \in Stuck(new) : i = Len(new)
        BY <1>3, <1>7, <2>5 DEF Stuck, Settled
      <3>2. Unfinished'
        BY <1>1, <1>2, <1>3, <3>1 DEF Unfinished
      <3>3. ~isValidMessage(p)
        BY <1>2 DEF isValidMessage
      <3>4. ASSUME NEW m \in Payload(new) PROVE ~Generating(m)
        <4>1. PICK i \in 1..Len(new) : m = new[i] /\ isValidMessage(new[i])
          BY DEF Payload
        <4>2. i # Len(new)
          BY <1>3, <3>3, <4>1
        <4> QED BY <3>1, <4>1, <4>2 DEF Stuck
      <3> QED BY <1>1, <2>1, <2>5, <3>2, <3>4 DEF InTurn
    <2> QED BY <1>1, <2>2, <2>3, <2>4, <2>5 DEF InTurn
  <1> QED BY <1>1, <1>5, <1>6, <1>7 DEF PInv

(* A handler that makes no request leaves a list of settled messages. *)
LEMMA LocalKeeps ==
  ASSUME PInv, NEW new \in Seq(Messages), updateMessages(new), Local, Rendered,
         Guard \/ Unguarded,
         editing' \in (Requests \cup {NoKey}) \X {"user", "assistant"},
         ~raced' => \A i \in 1..Len(new) : Settled(new[i])
  PROVE  PInv'
  <1>1. /\ messages' = new /\ saved' = new
        /\ UNCHANGED <<stream, used, open, ref, complete, silent, sent, reloads>>
        /\ view' = [messages |-> new, isGenerating |-> ref # NoRequest]
    BY DEF updateMessages, Local, requests, Rendered
  <1>2. view'.messages = new /\ view'.isGenerating = (ref # NoRequest) /\ raced' \in BOOLEAN
    BY <1>1, Quiet
  <1>3. TypeOK'
    BY <1>1, <1>2 DEF PInv, TypeOK
  <1>4. ASSUME ~raced' PROVE InTurn'
    <2>1. ~raced /\ InTurn /\ open = {}
      BY <1>4, Quiet
    <2>2. StreamRefs' /\ Filling'
      BY <1>1, <1>2, <2>1 DEF StreamRefs, Filling, InTurn
    <2>3. \A i \in 1..Len(new) : Own(new[i])
      BY <1>4 DEF Settled
    <2>4. ~silent => Unfinished' /\ ~sent'
      BY <1>1, <1>4, <2>1 DEF Settled, Unfinished, Stuck, InTurn
    <2> QED BY <1>1, <2>2, <2>3, <2>4 DEF InTurn
  <1> QED BY <1>1, <1>2, <1>3, <1>4 DEF PInv

(* In turn, the messages a handler sees are settled, and so are their       *)
(* edited forms.                                                           *)
LEMMA SeenSettled ==
  ASSUME PInv, Guard \/ Unguarded, ~raced'
  PROVE  /\ \A i \in 1..Len(view.messages) : Settled(view.messages[i])
         /\ \A i \in 1..Len(Edited(view.messages)) : Settled(Edited(view.messages)[i])
  <1>1. \A i \in 1..Len(view.messages) : Settled(view.messages[i])
    BY Quiet DEF Settled
  <1>2. view.messages \in Seq(Messages)
    BY DEF PInv, TypeOK
  <1>3. ASSUME NEW i \in 1..Len(Edited(view.messages)) PROVE Settled(Edited(view.messages)[i])
    <2>1. /\ i \in 1..Len(view.messages)
          /\ Edited(view.messages)[i].key = view.messages[i].key
          /\ Edited(view.messages)[i].status = view.messages[i].status
          /\ Edited(view.messages)[i].text \in {view.messages[i].text, {EditText}}
      BY <1>2, EditedFacts
    <2> QED BY <1>1, <2>1 DEF Settled, Own, IsUser, Generating
  <1> QED BY <1>1, <1>3

(* The messages sent and regenerated. *)
LEMMA SendsKeep ==
  ASSUME PInv, NEW r \in Requests, NEW i \in Int,
         Send(r) \/ Suggest(r) \/ handleRegenerateMessage(r, i) \/ SaveEditAndSubmit(r, i)
  PROVE  PInv'
  <1>a. /\ view.messages \in Seq(Messages)
        /\ editing \in (Requests \cup {NoKey}) \X {"user", "assistant"}
    BY DEF PInv, TypeOK
  <1> DEFINE p == createLoadingAssistantMessage(r)
             u == createUserMessage(r)
  <1>1. CASE Send(r) \/ Suggest(r)
    <2> DEFINE base == Append(view.messages, u)
    <2>1. u \in Messages /\ p \in Messages /\ IsUser(u) /\ ~Generating(u)
      BY NewMessages
    <2> HIDE DEF u, p
    <2>2. base \in Seq(Messages) /\ view.messages \o <<u, p>> = Append(base, p)
      BY <1>a, <2>1
    <2>3. SendChat(r, Append(base, p)) /\ (Guard \/ Unguarded) /\ editing' = editing
      BY <1>1, <2>2 DEF Send, Suggest, Exchange, u, p
    <2>4. ASSUME ~raced', NEW j \in 1..Len(base) PROVE Settled(base[j])
      <3>1. CASE j \in 1..Len(view.messages)
        BY <1>a, <2>3, <2>4, <3>1, SeenSettled
      <3>2. CASE j \notin 1..Len(view.messages)
        <4>1. base[j] = u
          BY <1>a, <3>2
        <4> QED BY <2>1, <4>1 DEF Settled, Own
      <3> QED BY <3>1, <3>2
    <2> HIDE DEF base
    <2> QED BY <1>a, <2>2, <2>3, <2>4, SendKeeps DEF p
  <1>2. CASE handleRegenerateMessage(r, i)
    <2> DEFINE base == SubSeq(view.messages, 1, i - 1)
    <2>1. /\ SendChat(r, Append(base, p)) /\ Guard /\ editing' = editing
          /\ i \in 1..Len(view.messages)
      BY <1>2 DEF handleRegenerateMessage, HasActions
    <2>2. /\ base \in Seq(Messages)
          /\ \A j \in 1..Len(base) : j \in 1..Len(view.messages) /\ base[j] = view.messages[j]
      BY <1>a, <2>1
    <2>3. ~raced' => \A j \in 1..Len(base) : Settled(base[j])
      BY <2>1, <2>2, SeenSettled
    <2> HIDE DEF base, p
    <2> QED BY <1>a, <2>1, <2>2, <2>3, SendKeeps DEF p
  <1>3. CASE SaveEditAndSubmit(r, i)
    <2> DEFINE ed == Edited(view.messages)
               base == SubSeq(ed, 1, i)
    <2>1. ed \in Seq(Messages) /\ Len(ed) = Len(view.messages)
      BY <1>a, EditedFacts
    <2>2. /\ SendChat(r, Append(base, p)) /\ Unguarded
          /\ editing' \in (Requests \cup {NoKey}) \X {"user", "assistant"}
          /\ i \in 1..Len(ed)
      BY <1>3, <2>1 DEF SaveEditAndSubmit, HasActions
    <2> HIDE DEF ed
    <2>3. /\ base \in Seq(Messages)
          /\ \A j \in 1..Len(base) : j \in 1..Len(ed) /\ base[j] = ed[j]
      BY <2>1, <2>2
    <2>4. ~raced' => \A j \in 1..Len(base) : Settled(base[j])
      BY <2>2, <2>3, SeenSettled DEF ed
    <2> HIDE DEF base, p
    <2> QED BY <2>2, <2>3, <2>4, SendKeeps DEF p
  <1> QED BY <1>1, <1>2, <1>3

(* The editor is opened and closed. *)
LEMMA EditorKeeps ==
  ASSUME PInv, (\E i \in Index : handleEditMessage(i)) \/ handleEditOpenChange
  PROVE  PInv'
  <1>1. UNCHANGED <<messages, saved, view, raced, stream, used, open, ref, complete, silent, sent, reloads>>
    BY DEF handleEditMessage, handleEditOpenChange, Local, requests
  <1>2. editing' \in (Requests \cup {NoKey}) \X {"user", "assistant"}
    <2>1. CASE handleEditOpenChange
      BY <2>1 DEF handleEditOpenChange
    <2>2. ASSUME NEW i \in Index, handleEditMessage(i)
          PROVE  editing' \in Requests \X {"user", "assistant"}
      <3>1. i \in 1..Len(view.messages) /\ editing' = view.messages[i].key
        BY <2>2 DEF handleEditMessage, HasActions
      <3>2. view.messages[i] \in Messages
        BY <3>1 DEF PInv, TypeOK
      <3> QED BY <3>1, <3>2, MessageFacts
    <2> QED BY <2>1, <2>2
  <1>3. TypeOK'
    BY <1>1, <1>2 DEF PInv, TypeOK
  <1>4. InTurn => InTurn'
    BY <1>1 DEF InTurn, StreamRefs, Filling, Unfinished, LastMessage
  <1> QED BY <1>1, <1>3, <1>4 DEF PInv

(* A message is deleted or edited. *)
LEMMA ChangesKeep ==
  ASSUME PInv, NEW i \in Index, handleDeleteMessage(i) \/ SaveEdit(i)
  PROVE  PInv'
  <1>a. /\ view.messages \in Seq(Messages)
        /\ editing \in (Requests \cup {NoKey}) \X {"user", "assistant"}
    BY DEF PInv, TypeOK
  <1>1. CASE handleDeleteMessage(i)
    <2> DEFINE kept == {j \in 1..Len(view.messages) :
                          view.messages[j].key # view.messages[i].key}
               new == Filtered(view.messages, kept)
    <2>1. Guard /\ updateMessages(new) /\ editing' = editing /\ Local /\ Rendered
      BY <1>1 DEF handleDeleteMessage
    <2>2. kept \subseteq 1..Len(view.messages)
      OBVIOUS
    <2> HIDE DEF kept
    <2>3. /\ new \in Seq(Messages)
          /\ \A n \in 1..Len(new) : \E j \in 1..Len(view.messages) : new[n] = view.messages[j]
      BY <1>a, <2>2, FilteredFacts
    <2> HIDE DEF new
    <2>4. ~raced' => \A n \in 1..Len(new) : Settled(new[n])
      BY <2>1, <2>3, SeenSettled
    <2> QED BY <1>a, <2>1, <2>3, <2>4, LocalKeeps
  <1>2. CASE SaveEdit(i)
    <2>1. /\ Unguarded /\ updateMessages(Edited(view.messages)) /\ Local /\ Rendered
          /\ editing' \in (Requests \cup {NoKey}) \X {"user", "assistant"}
      BY <1>2 DEF SaveEdit
    <2>2. Edited(view.messages) \in Seq(Messages)
      BY <1>a, EditedFacts
    <2>3. ~raced' => \A n \in 1..Len(Edited(view.messages)) : Settled(Edited(view.messages)[n])
      BY <2>1, SeenSettled
    <2> QED BY <2>1, <2>2, <2>3, LocalKeeps
  <1> QED BY <1>1, <1>2

(* A stop closes the stream of the ref, the only one that can be open. *)
LEMMA StopKeeps == ASSUME PInv, stopGeneration PROVE PInv'
  <1>a. /\ view.isGenerating /\ open' = open \ {ref} /\ ref' = NoRequest
        /\ updateMessages(updateLastAssistantMessage(messages, Stopped(LastMessage)))
        /\ view' = [messages |-> messages', isGenerating |-> FALSE]
        /\ UNCHANGED <<editing, stream, used, complete, raced, silent, sent, reloads>>
    BY DEF stopGeneration, Rendered
  <1>b. TypeOK /\ stream /\ messages \in Seq(Messages)
    BY <1>a DEF PInv, TypeOK
  <1>1. IsLastAssistant(messages) => LastMessage \in Messages /\ ~IsUser(LastMessage)
    BY <1>b DEF IsLastAssistant, LastMessage
  <1>2. IsLastAssistant(messages) =>
          Answer(Stopped(LastMessage), LastMessage) /\ ~Generating(Stopped(LastMessage))
    BY <1>1, Updaters
  <1>3. /\ messages' \in Seq(Messages) /\ saved' = messages' /\ Len(messages') = Len(messages)
        /\ \A i \in 1..Len(messages') : messages'[i] =
             IF i = Len(messages) /\ IsLastAssistant(messages) THEN Stopped(LastMessage) ELSE messages[i]
    BY <1>a, <1>2, UpdateKeeps DEF Answer
  <1>4. view'.messages = messages' /\ view'.isGenerating = FALSE
    BY <1>a
  <1>5. TypeOK'
    BY <1>a, <1>b, <1>3, <1>4 DEF TypeOK
  <1>6. ASSUME ~raced PROVE InTurn'
    <2>1. InTurn /\ open' = {}
      BY <1>a, <1>b, <1>6 DEF PInv, InTurn, StreamRefs
    <2>2. StreamRefs' /\ Filling'
      BY <1>a, <1>4, <2>1 DEF StreamRefs, Filling
    <2>3. \A i \in 1..Len(messages') : Own(messages'[i])
      BY <1>2, <1>3, <2>1 DEF InTurn, Answer, LastMessage
    <2>4. ASSUME ~silent PROVE Unfinished' /\ ~sent'
      <3>1. Unfinished /\ ~sent
        BY <2>1, <2>4 DEF InTurn
      <3>2. ASSUME NEW i \in 1..Len(messages') PROVE ~Generating(messages'[i])
        <4>1. CASE i = Len(messages) /\ IsLastAssistant(messages)
          BY <1>2, <1>3, <4>1
        <4>2. CASE i = Len(messages) /\ ~IsLastAssistant(messages)
          <5>1. messages'[i] = messages[i] /\ messages[i] \in Messages /\ IsUser(messages[i])
            BY <1>b, <1>3, <4>2 DEF IsLastAssistant
          <5> QED BY <5>1, MessageFacts
        <4>3. CASE i # Len(messages)
          <5>1. messages'[i] = messages[i] /\ i \notin Stuck(messages) /\ i \in 1..Len(messages)
            BY <1>3, <3>1, <4>3 DEF Unfinished
          <5> QED BY <5>1 DEF Stuck
        <4> QED BY <4>1, <4>2, <4>3
      <3> QED BY <1>a, <3>1, <3>2 DEF Unfinished, Stuck
    <2> QED BY <1>a, <2>2, <2>3, <2>4 DEF InTurn
  <1> QED BY <1>a, <1>b, <1>3, <1>5, <1>6 DEF PInv

(* What a reload leaves being generated. *)
LEMMA ReloadStuck ==
  ASSUME PInv, Reload
  PROVE  /\ messages' \in Seq(Messages) /\ Len(messages') = Len(messages) /\ saved' = messages'
         /\ Stuck(messages') = {i \in Stuck(messages) : ~ \A j \in Stuck(messages) : j <= i}
         /\ \A i \in 1..Len(messages) : Own(messages[i]) => Own(messages'[i])
  <1>1. messages \in Seq(Messages) /\ messages' = sanitizeMessagesOnLoad(messages) /\ saved' = messages'
    BY DEF PInv, TypeOK, Reload, updateMessages
  <1>2. /\ messages' \in Seq(Messages) /\ Len(messages') = Len(messages)
        /\ \A i \in 1..Len(messages) :
             IF i \in Stuck(messages) /\ \A j \in Stuck(messages) : j <= i
               THEN Answer(messages'[i], messages[i]) /\ ~Generating(messages'[i])
               ELSE messages'[i] = messages[i]
    BY <1>1, SanitizedFacts
  <1>3. Stuck(messages) \subseteq 1..Len(messages) /\ Stuck(messages') \subseteq 1..Len(messages)
    BY <1>2 DEF Stuck
  <1>4. ASSUME NEW i \in 1..Len(messages)
        PROVE  i \in Stuck(messages') <=>
                 i \in Stuck(messages) /\ ~ \A j \in Stuck(messages) : j <= i
    <2>1. i \in Stuck(messages') <=> Generating(messages'[i])
      BY <1>2 DEF Stuck
    <2>2. i \in Stuck(messages) <=> Generating(messages[i])
      BY DEF Stuck
    <2> QED BY <1>2, <2>1, <2>2
  <1>5. \A i \in 1..Len(messages) : Own(messages[i]) => Own(messages'[i])
    BY <1>2 DEF Answer
  <1> QED BY <1>1, <1>2, <1>3, <1>4, <1>5

(* A reload ends all requests. *)
LEMMA ReloadKeeps == ASSUME PInv, Reload PROVE PInv'
  <1>a. /\ open' = {} /\ ref' = NoRequest /\ complete' = FALSE /\ editing' = <<NoKey, "user">>
        /\ reloads' = reloads - 1 /\ reloads > 0
        /\ view' = [messages |-> messages', isGenerating |-> FALSE]
        /\ UNCHANGED <<stream, used, raced, silent, sent>>
    BY DEF Reload, Rendered
  <1>1. view'.messages = messages' /\ view'.isGenerating = FALSE
    BY <1>a
  <1>2. /\ messages' \in Seq(Messages) /\ Len(messages') = Len(messages) /\ saved' = messages'
    BY ReloadStuck
  <1>3. TypeOK'
    <2>1. {stream, complete, raced, silent, sent}' \subseteq BOOLEAN
      <3>1. {stream, raced, silent, sent} \subseteq BOOLEAN
        BY DEF PInv, TypeOK
      <3> QED BY <1>a, <3>1
    <2>2. reloads' \in Nat /\ used \subseteq Requests
      BY <1>a DEF PInv, TypeOK
    <2>3. ref' \in Requests \cup {NoRequest} /\ view'.isGenerating \in BOOLEAN
          /\ editing' \in (Requests \cup {NoKey}) \X {"user", "assistant"}
      BY <1>a, <1>1
    <2> QED BY <1>a, <1>1, <1>2, <2>1, <2>2, <2>3 DEF TypeOK
  <1>4. ASSUME InTurn PROVE InTurn'
    <2>1. StreamRefs' /\ Filling'
      BY <1>a, <1>1 DEF StreamRefs, Filling
    <2>2. \A i \in 1..Len(messages') : Own(messages'[i])
      BY <1>2, <1>4, ReloadStuck DEF InTurn
    <2>3. ~silent => Stuck(messages') = {}
      <3>1. messages \in Seq(Messages)
        BY DEF PInv, TypeOK
      <3> QED BY <1>4, <3>1, ReloadStuck DEF InTurn, Unfinished
    <2>4. ~silent => Unfinished' /\ ~sent'
      BY <1>a, <1>4, <2>3 DEF Unfinished, InTurn
    <2> QED BY <1>a, <2>1, <2>2, <2>4 DEF InTurn
  <1> QED BY <1>a, <1>1, <1>2, <1>3, <1>4 DEF PInv

-----------------------------------------------------------------------------
(* The theorems *)

(* The empty page. *)
LEMMA InitPage == Init => PInv
  <1> SUFFICES ASSUME Init PROVE PInv
    OBVIOUS
  <1>1. view.messages = <<>> /\ view.isGenerating = FALSE /\ messages = <<>> /\ saved = <<>>
    BY DEF Init
  <1>2. TypeOK
    <2>1. {stream, complete, raced, silent, sent} \subseteq BOOLEAN
      BY DEF Init
    <2>2. reloads \in Nat /\ used \subseteq Requests /\ open \subseteq used
          /\ ref \in Requests \cup {NoRequest}
          /\ editing \in (Requests \cup {NoKey}) \X {"user", "assistant"}
      BY Distinct DEF Init
    <2>3. messages \in Seq(Messages) /\ saved \in Seq(Messages)
          /\ view.messages \in Seq(Messages) /\ view.isGenerating \in BOOLEAN
      BY <1>1, EmptySeq
    <2> QED BY <2>1, <2>2, <2>3 DEF TypeOK
  <1>3. InTurn
    BY <1>1 DEF Init, InTurn, StreamRefs, Filling, Unfinished, Stuck
  <1> QED BY <1>1, <1>2, <1>3 DEF PInv, Init

(* Every step keeps the invariant. *)
LEMMA NextPage == PInv /\ [Next]_vars => PInv'
  <1> SUFFICES ASSUME PInv, [Next]_vars PROVE PInv'
    OBVIOUS
  <1>1. CASE UNCHANGED vars
    <2>1. UNCHANGED <<messages, saved, view, editing, stream, used, open, ref, complete,
                      raced, silent, sent, reloads>>
      BY <1>1 DEF vars, page, requests
    <2>2. TypeOK' /\ (InTurn => InTurn')
      BY <2>1 DEF PInv, TypeOK, InTurn, StreamRefs, Filling, Unfinished, LastMessage
    <2> QED BY <2>1, <2>2 DEF PInv
  <1>2. ASSUME NEW r \in Requests, Chunk(r) \/ Ends(r) PROVE PInv'
    BY <1>2, ChunkKeeps, EndsKeeps
  <1>3. CASE User
    <2>1. ASSUME NEW r \in Requests, Send(r) \/ Suggest(r) PROVE PInv'
      <3>1. 0 \in Int
        OBVIOUS
      <3> QED BY <2>1, <3>1, SendsKeep
    <2>2. ASSUME NEW r \in Requests, NEW i \in Index,
                 handleRegenerateMessage(r, i) \/ SaveEditAndSubmit(r, i)
          PROVE  PInv'
      <3>1. i \in Int
        BY DEF Index
      <3> QED BY <2>2, <3>1, SendsKeep
    <2>3. ASSUME NEW i \in Index, handleDeleteMessage(i) \/ SaveEdit(i) PROVE PInv'
      BY <2>3, ChangesKeep
    <2> QED BY <1>3, <2>1, <2>2, <2>3, EditorKeeps, StopKeeps, ReloadKeeps DEF User
  <1> QED BY <1>1, <1>2, <1>3, RenderKeeps DEF Next, Idle

(* The invariant holds. *)
LEMMA PageHolds == Spec => []PInv
  BY InitPage, NextPage, PTL DEF Spec

(* The page's state keeps its types, the open requests are among those that *)
(* were made, and the ref holds one of them or nothing.                    *)
THEOREM PlaygroundTypeCorrect == Spec => []TypeOK
  <1>1. PInv => TypeOK
    BY DEF PInv
  <1> QED BY <1>1, PageHolds, PTL

(* For any number of requests: an answer holds only what its own request has *)
(* sent, unless an unguarded handler ran during a generation                *)
(* (updateLastAssistantMessage, handleSuggestionClick, applyEdit).          *)
THEOREM OwnAnswersTheorem == Spec => []AnswersAreOwn
  <1>1. PInv => AnswersAreOwn
    BY DEF PInv, InTurn, Own, AnswersAreOwn
  <1> QED BY <1>1, PageHolds, PTL

(* A message shown as being generated has a request that will end it        *)
(* (handleStreamComplete, handleStreamError, sendNonStreamingChat).         *)
THEOREM NoneAbandonedTheorem == Spec => []NoneAbandoned
  <1>1. PInv => NoneAbandoned
    BY DEF PInv, InTurn, Unfinished, NoneAbandoned
  <1> QED BY <1>1, PageHolds, PTL

(* No payload holds a message that is still being generated                 *)
(* (buildChatCompletionPayload).                                            *)
THEOREM NoUnfinishedSentTheorem == Spec => []NoUnfinishedSent
  <1>1. PInv => NoUnfinishedSent
    BY DEF PInv, InTurn, NoUnfinishedSent
  <1> QED BY <1>1, PageHolds, PTL

(* The ref that isGenerating is computed from holds the one open stream     *)
(* (use-stream-request.ts).                                                 *)
THEOREM RefTheorem == Spec => []RefIsOpenStream
  <1>1. PInv => RefIsOpenStream
    <2> SUFFICES ASSUME PInv, ~raced, ~silent, stream PROVE open = {ref} \ {NoRequest}
      BY DEF RefIsOpenStream
    <2>1. open \subseteq {ref} /\ (ref # NoRequest => ref \in open) /\ NoRequest \notin open
      BY Distinct DEF PInv, InTurn, StreamRefs, TypeOK
    <2> QED BY <2>1
  <1> QED BY <1>1, PageHolds, PTL

(* A reload leaves one message less shown as being generated, and none if   *)
(* generations did not overlap (sanitizeMessagesOnLoad).                    *)
THEOREM ReloadTheorem == Spec => ReloadHelps
  <1> DEFINE A == reloads' < reloads =>
                    \/ Stuck(messages') = {}
                    \/ Cardinality(Stuck(messages')) < Cardinality(Stuck(messages))
                         /\ (raced \/ silent)
  <1>1. PInv /\ [Next]_vars => [A]_vars
    <2> SUFFICES ASSUME PInv, Next, reloads' < reloads,
                        Stuck(messages') # {}
                 PROVE  Cardinality(Stuck(messages')) < Cardinality(Stuck(messages))
                        /\ (raced \/ silent)
      OBVIOUS
    <2> DEFINE S == Stuck(messages)
    <2>1. messages \in Seq(Messages) /\ reloads \in Nat
      BY DEF PInv, TypeOK
    <2>2. Reload
      <3>1. reloads' # reloads
        BY <2>1
      <3> QED BY <3>1 DEF Next, User, Render, Idle, vars, Chunk, Ends, StreamDone, StreamError,
             StreamEndsSilently, Respond, Behind, Send, Suggest, handleRegenerateMessage,
             SaveEditAndSubmit, SendChat, handleDeleteMessage, handleEditMessage, SaveEdit,
             handleEditOpenChange, Local, stopGeneration
    <2>3. Stuck(messages') = {i \in S : ~ \A j \in S : j <= i}
      BY <2>2, ReloadStuck
    <2>4. S \subseteq Int /\ S # {} /\ IsFiniteSet(S)
      <3>1. S \subseteq 1..Len(messages) /\ IsFiniteSet(1..Len(messages))
        BY <2>1, FS_Interval DEF Stuck
      <3>2. IsFiniteSet(S)
        BY <3>1, FS_Subset
      <3> QED BY <2>1, <2>3, <3>1, <3>2
    <2> HIDE DEF S
    <2>5. PICK m \in S : \A x \in S : x <= m
      BY <2>4, MaxIsGreatest
    <2>6. Stuck(messages') = S \ {m}
      <3>1. \A i \in S : (\A j \in S : j <= i) <=> i = m
        BY <2>4, <2>5
      <3> QED BY <2>3, <3>1
    <2>7. Cardinality(S \ {m}) < Cardinality(S)
      <3>1. Cardinality(S) \in Nat
        BY <2>4, FS_CardinalityType
      <3>2. Cardinality(S \ {m}) = Cardinality(S) - 1
        BY <2>4, <2>5, FS_RemoveElement
      <3> QED BY <3>1, <3>2
    <2>8. raced \/ silent
      <3> SUFFICES ASSUME ~raced, ~silent PROVE FALSE
        OBVIOUS
      <3>1. \A i \in S : i = Len(messages)
        BY DEF PInv, InTurn, Unfinished, S
      <3> QED BY <2>5, <2>6, <3>1
    <2> QED BY <2>6, <2>7, <2>8 DEF S
  <1> QED BY <1>1, PageHolds, PTL DEF Spec, ReloadHelps

=============================================================================
