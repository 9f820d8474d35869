-------------------------- MODULE PlaygroundProofs --------------------------
(***************************************************************************)
(* Proofs about the playground: the types, and, for a user who is Careful, *)
(* that an answer holds the chunks of its own request only, that the Stop  *)
(* button is shown exactly while a message is unfinished, and that a       *)
(* failed answer stays failed.                                             *)
(***************************************************************************)
EXTENDS Playground, SequenceTheorems, TLAPS

-----------------------------------------------------------------------------
(* Messages.                                                               *)

(* The fields of a message (Message of types.ts).                          *)
LEMMA MessageFields ==
    ASSUME NEW m \in Message
    PROVE  /\ m.key \in Key
           /\ m.status \in Status
           /\ m.content \in Origins
           /\ m.reasoning \in Origins
BY DEF Message

(* The messages that createUserMessage and createLoadingAssistantMessage   *)
(* make.                                                                   *)
LEMMA NewMessages ==
    ASSUME NEW r \in Request
    PROVE  /\ createUserMessage(r) \in Message
           /\ Own(createUserMessage(r))
           /\ ~Unfinished(createUserMessage(r))
           /\ createLoadingAssistantMessage(r) \in Message
           /\ Own(createLoadingAssistantMessage(r))
           /\ Unfinished(createLoadingAssistantMessage(r))
           /\ createLoadingAssistantMessage(r).key.role = "assistant"
           /\ createLoadingAssistantMessage(r).key.request = r
<1>1. createUserMessage(r) \in Message
    BY MaxRequestsAssumption
       DEF createUserMessage, Message, Key, Status, Origins, Typed
<1>2. Own(createUserMessage(r))
    BY MaxRequestsAssumption DEF createUserMessage, Own, Typed, Request
<1>3. ~Unfinished(createUserMessage(r))
    BY DEF createUserMessage, Unfinished
<1>4. createLoadingAssistantMessage(r) \in Message
    BY DEF createLoadingAssistantMessage, Message, Key, Status, Origins
<1>5. /\ Own(createLoadingAssistantMessage(r))
      /\ Unfinished(createLoadingAssistantMessage(r))
      /\ createLoadingAssistantMessage(r).key.role = "assistant"
      /\ createLoadingAssistantMessage(r).key.request = r
    BY DEF createLoadingAssistantMessage, Own, Unfinished
<1> QED BY <1>1, <1>2, <1>3, <1>4, <1>5

(* A message that fails, as updateAssistantMessageWithError makes it.      *)
LEMMA FailedMessage ==
    ASSUME NEW m \in Message, Own(m),
           NEW f, f = [m EXCEPT !.status = "error", !.content = {Failed}]
    PROVE  /\ f \in Message
           /\ Own(f)
           /\ f.status = "error"
           /\ f.key = m.key
           /\ ~Unfinished(f)
           /\ IsAssistant(f) <=> IsAssistant(m)
<1>1. /\ f.status = "error" /\ f.content = {Failed}
      /\ f.key = m.key /\ f.reasoning = m.reasoning
      /\ f \in Message
    BY MessageFields DEF Message, Status, Origins
<1>2. Failed \notin Request
    BY MaxRequestsAssumption DEF Failed, Request
<1>3. Own(f)
    BY <1>1, <1>2 DEF Own
<1> QED BY <1>1, <1>3 DEF Unfinished, IsAssistant

(* A message whose status alone is changed.                                *)
LEMMA StatusChanged ==
    ASSUME NEW m \in Message, Own(m), NEW st \in Status,
           NEW f, f = [m EXCEPT !.status = st]
    PROVE  /\ f \in Message
           /\ Own(f)
           /\ f.status = st
           /\ f.key = m.key
           /\ IsAssistant(f) <=> IsAssistant(m)
<1>1. /\ f.status = st /\ f.content = m.content
      /\ f.key = m.key /\ f.reasoning = m.reasoning
      /\ f \in Message
    BY MessageFields DEF Message
<1> QED BY <1>1 DEF Own, IsAssistant

(* A message of r that receives a chunk of r.                              *)
LEMMA ChunkAdded ==
    ASSUME NEW r \in Request, NEW m \in Message, Own(m), m.key.request = r,
           NEW type, NEW f, f = WithChunk(m, r, type)
    PROVE  /\ f \in Message
           /\ Own(f)
           /\ Unfinished(f)
           /\ f.key = m.key
<1>1. /\ f.status = "streaming" /\ f.key = m.key
      /\ f.content = m.content \/ f.content = m.content \cup {r}
      /\ f.reasoning = m.reasoning \/ f.reasoning = m.reasoning \cup {r}
    BY MessageFields DEF Message, WithChunk
<1>2. f.content \in Origins /\ f.reasoning \in Origins
    BY <1>1, MessageFields DEF Origins
<1>3. f \in Message
  <2>1. CASE f = [m EXCEPT !.status = "streaming", !.reasoning = @ \cup {r}]
    BY <2>1, <1>1, <1>2, MessageFields DEF Message, Status
  <2>2. CASE f = [m EXCEPT !.status = "streaming", !.content = @ \cup {r}]
    BY <2>2, <1>1, <1>2, MessageFields DEF Message, Status
  <2> QED BY <2>1, <2>2 DEF WithChunk
<1> QED BY <1>1, <1>3 DEF Own, Unfinished

(* A message whose text the user replaces.                                 *)
LEMMA TextReplaced ==
    ASSUME NEW m \in Message, Own(m),
           NEW f, f = [m EXCEPT !.content = {Typed}]
    PROVE  /\ f \in Message
           /\ Own(f)
           /\ f.status = m.status
           /\ f.key = m.key
<1>1. /\ f.status = m.status /\ f.content = {Typed}
      /\ f.key = m.key /\ f.reasoning = m.reasoning
      /\ f \in Message
    BY MessageFields DEF Message, Origins
<1>2. Typed \notin Request
    BY MaxRequestsAssumption DEF Typed, Request
<1> QED BY <1>1, <1>2 DEF Own

-----------------------------------------------------------------------------
(* Lists.                                                                  *)

(* A list as ListOK describes it, element by element.                      *)
LEMMA ListElements ==
    ASSUME NEW list, ListOK(list)
    PROVE  /\ list \in Seq(Message)
           /\ Len(list) \in Nat
           /\ DOMAIN list = 1 .. Len(list)
           /\ list # <<>> => Len(list) \in 1 .. Len(list)
           /\ \A i \in 1 .. Len(list) :
                /\ list[i] \in Message
                /\ Own(list[i])
                /\ Unfinished(list[i]) => i = Len(list) /\ IsAssistant(list[i])
BY DEF ListOK

(* The empty list, with which the page starts.                             *)
LEMMA EmptyList == ListOK(<<>>) /\ Finished(<<>>)
BY DEF ListOK, Finished

(* handleSendMessage: two messages are added to a list without a spinner.  *)
LEMMA SentList ==
    ASSUME NEW list, ListOK(list), Finished(list), NEW r \in Request,
           NEW new,
           new = list \o <<createUserMessage(r), createLoadingAssistantMessage(r)>>
    PROVE  ListOK(new) /\ Awaits(new, r)
<1> DEFINE u == createUserMessage(r)
           a == createLoadingAssistantMessage(r)
<1>1. /\ u \in Message /\ Own(u) /\ ~Unfinished(u)
      /\ a \in Message /\ Own(a) /\ Unfinished(a)
      /\ a.key.role = "assistant" /\ a.key.request = r
    BY NewMessages
<1>2. new = list \o <<u, a>>
    OBVIOUS
<1> HIDE DEF u, a
<1>3. /\ list \in Seq(Message)
      /\ \A i \in 1 .. Len(list) : list[i] \in Message /\ Own(list[i])
    BY ListElements
<1>4. /\ new \in Seq(Message)
      /\ Len(new) = Len(list) + 2
      /\ \A i \in 1 .. Len(list) : new[i] = list[i]
      /\ new[Len(list) + 1] = u
      /\ new[Len(list) + 2] = a
    BY <1>1, <1>2, <1>3
<1>5. ASSUME NEW i \in 1 .. Len(new)
      PROVE  Own(new[i]) /\ (Unfinished(new[i]) => i = Len(new) /\ IsAssistant(new[i]))
  <2>1. CASE i \in 1 .. Len(list)
    BY <2>1, <1>3, <1>4 DEF Finished
  <2>2. CASE i = Len(list) + 1
    BY <2>2, <1>1, <1>4
  <2>3. CASE i = Len(list) + 2
    BY <2>3, <1>1, <1>4 DEF IsAssistant
  <2> QED BY <2>1, <2>2, <2>3, <1>3, <1>4
<1>6. new # <<>>
    BY <1>3, <1>4
<1> QED BY <1>1, <1>3, <1>4, <1>5, <1>6 DEF ListOK, Awaits, EndsWith

(* A loading message after the first n messages, when those are finished.  *)
LEMMA AnswerAdded ==
    ASSUME NEW list, ListOK(list), NEW n \in Nat, n <= Len(list),
           \A i \in 1 .. n : ~Unfinished(list[i]),
           NEW r \in Request,
           NEW new,
           new = Append(SubSeq(list, 1, n), createLoadingAssistantMessage(r))
    PROVE  ListOK(new) /\ Awaits(new, r)
<1> DEFINE a == createLoadingAssistantMessage(r)
           head == SubSeq(list, 1, n)
<1>1. /\ a \in Message /\ Own(a) /\ Unfinished(a)
      /\ a.key.role = "assistant" /\ a.key.request = r
    BY NewMessages
<1>2. new = Append(head, a)
    OBVIOUS
<1> HIDE DEF a
<1>3. /\ list \in Seq(Message)
      /\ \A i \in 1 .. Len(list) : list[i] \in Message /\ Own(list[i])
    BY ListElements
<1>4. /\ head \in Seq(Message)
      /\ Len(head) = n
      /\ \A i \in 1 .. n : head[i] = list[i]
    BY <1>3
<1> HIDE DEF head
<1>5. /\ new \in Seq(Message)
      /\ Len(new) = n + 1
      /\ \A i \in 1 .. n : new[i] = list[i]
      /\ new[n + 1] = a
    BY <1>1, <1>2, <1>4
<1>6. ASSUME NEW i \in 1 .. Len(new)
      PROVE  Own(new[i]) /\ (Unfinished(new[i]) => i = Len(new) /\ IsAssistant(new[i]))
  <2>1. CASE i \in 1 .. n
    BY <2>1, <1>3, <1>5
  <2>2. CASE i = n + 1
    BY <2>2, <1>1, <1>5 DEF IsAssistant
  <2> QED BY <2>1, <2>2, <1>5
<1>7. new # <<>>
  <2>1. new = <<>> => Len(new) = 0
    OBVIOUS
  <2>2. n + 1 # 0
    OBVIOUS
  <2> QED BY <2>1, <2>2, <1>5
<1> QED BY <1>1, <1>5, <1>6, <1>7 DEF ListOK, Awaits, EndsWith

(* A list without its message at i, element by element.                    *)
LEMMA WithoutElements ==
    ASSUME NEW list \in Seq(Message), NEW i \in 1 .. Len(list)
    PROVE  /\ Without(list, i) \in Seq(Message)
           /\ Len(Without(list, i)) = Len(list) - 1 /\ Len(list) \in Nat
           /\ \A j \in 1 .. Len(Without(list, i)) :
                Without(list, i)[j] = list[IF j < i THEN j ELSE j + 1]
<1> DEFINE head == SubSeq(list, 1, i - 1)
           tail == SubSeq(list, i + 1, Len(list))
           new == Without(list, i)
<1>2. /\ head \in Seq(Message)
      /\ Len(head) = i - 1
      /\ \A j \in 1 .. i - 1 : head[j] = list[j]
    OBVIOUS
<1>3. /\ tail \in Seq(Message)
      /\ Len(tail) = Len(list) - i
      /\ \A j \in 1 .. Len(list) - i : tail[j] = list[i + j]
    OBVIOUS
<1>4. new = head \o tail
    BY DEF Without
<1> HIDE DEF head, tail, new
<1>5. new \in Seq(Message) /\ Len(new) = Len(list) - 1 /\ Len(list) \in Nat
  <2>1. new \in Seq(Message) /\ Len(new) = Len(head) + Len(tail)
    BY ONLY <1>2, <1>3, <1>4, ConcatProperties
  <2>2. Len(list) \in Nat /\ (i - 1) + (Len(list) - i) = Len(list) - 1
    OBVIOUS
  <2> QED BY <2>1, <2>2, <1>2, <1>3
<1>6. ASSUME NEW j \in 1 .. Len(new), j < i
      PROVE  new[j] = list[j]
  <2>1. j \in 1 .. Len(head)
    BY <1>2, <1>5, <1>6
  <2>2. new[j] = head[j]
    BY <2>1, <1>2, <1>3, <1>4
  <2> QED BY <2>1, <2>2, <1>2
<1>7. ASSUME NEW j \in 1 .. Len(new), ~(j < i)
      PROVE  new[j] = list[j + 1]
  <2>1. new[j] = tail[j - (i - 1)]
    BY <1>2, <1>3, <1>4, <1>5, <1>7
  <2>2. j - (i - 1) \in 1 .. Len(list) - i
    BY <1>5, <1>7
  <2>3. tail[j - (i - 1)] = list[i + (j - (i - 1))]
    BY <2>2, <1>3
  <2>4. i + (j - (i - 1)) = j + 1
    BY <1>5
  <2> QED BY <2>1, <2>3, <2>4
<1>8. \A j \in 1 .. Len(new) : new[j] = list[IF j < i THEN j ELSE j + 1]
    BY <1>6, <1>7
<1> QED BY <1>5, <1>8 DEF new

(* handleDeleteMessage on a list without a spinner.                        *)
LEMMA DeletedList ==
    ASSUME NEW list, ListOK(list), Finished(list), NEW i \in 1 .. Len(list),
           NEW new, new = Without(list, i)
    PROVE  ListOK(new) /\ Finished(new)
<1>1. /\ list \in Seq(Message)
      /\ \A j \in 1 .. Len(list) : list[j] \in Message /\ Own(list[j])
    BY ListElements
<1>2. /\ new \in Seq(Message)
      /\ Len(new) = Len(list) - 1
      /\ \A j \in 1 .. Len(new) : new[j] = list[IF j < i THEN j ELSE j + 1]
    BY <1>1, WithoutElements
<1>3. ASSUME NEW j \in 1 .. Len(new)
      PROVE  Own(new[j]) /\ ~Unfinished(new[j])
  <2>1. (IF j < i THEN j ELSE j + 1) \in 1 .. Len(list)
    BY <1>1, <1>2
  <2> QED BY <2>1, <1>1, <1>2 DEF Finished
<1> QED BY <1>2, <1>3 DEF ListOK, Finished

(* A list in which one message is replaced by another with its key.        *)
LEMMA ReplacedOne ==
    ASSUME NEW list, ListOK(list), NEW i \in 1 .. Len(list),
           NEW m \in Message, Own(m), m.key = list[i].key,
           Unfinished(m) => Unfinished(list[i]),
           NEW new, new = With(list, i, m)
    PROVE  /\ ListOK(new)
           /\ Len(new) = Len(list)
           /\ new # <<>>
           /\ new[i] = m
           /\ \A j \in 1 .. Len(list) : j # i => new[j] = list[j]
           /\ ~Unfinished(m) /\ i = Len(list) => Finished(new)
           /\ Finished(list) => Finished(new)
<1>1. /\ list \in Seq(Message)
      /\ \A j \in 1 .. Len(list) :
            /\ list[j] \in Message /\ Own(list[j])
            /\ Unfinished(list[j]) => j = Len(list) /\ IsAssistant(list[j])
    BY ListElements
<1>2. /\ new \in Seq(Message)
      /\ Len(new) = Len(list)
      /\ new[i] = m
      /\ \A j \in 1 .. Len(list) : j # i => new[j] = list[j]
    BY <1>1 DEF With
<1>3. new # <<>>
    BY <1>1, <1>2
<1>4. ListOK(new)
    BY <1>1, <1>2 DEF ListOK, IsAssistant
<1>5. ~Unfinished(m) /\ i = Len(list) => Finished(new)
    BY <1>1, <1>2 DEF Finished
<1>6. Finished(list) => Finished(new)
    BY <1>1, <1>2 DEF Finished
<1> QED BY <1>2, <1>3, <1>4, <1>5, <1>6

(* The last message of a list.                                             *)
LEMMA LastMessage ==
    ASSUME NEW list, ListOK(list), LastIsAssistant(list)
    PROVE  /\ Len(list) \in 1 .. Len(list)
           /\ list[Len(list)] \in Message
           /\ Own(list[Len(list)])
BY ListElements DEF LastIsAssistant

(* updateAssistantMessageWithError ends the last message.                  *)
LEMMA ErrorList ==
    ASSUME NEW list, ListOK(list), NEW r \in Request, EndsWith(list, r),
           NEW new, new = updateAssistantMessageWithError(list)
    PROVE  ListOK(new) /\ Finished(new) /\ HasFailed(new, r)
<1> DEFINE last == list[Len(list)]
           m == [last EXCEPT !.status = "error", !.content = {Failed}]
<1>1. LastIsAssistant(list)
    BY DEF LastIsAssistant, EndsWith, IsAssistant
<1>2. Len(list) \in 1 .. Len(list) /\ last \in Message /\ Own(last)
    BY <1>1, LastMessage
<1>3. m \in Message /\ Own(m) /\ m.status = "error" /\ m.key = last.key /\ ~Unfinished(m)
    BY <1>2, FailedMessage
<1>4. new = With(list, Len(list), m)
    BY <1>1 DEF updateAssistantMessageWithError, updateLastAssistantMessage
<1>5. last.key.role = "assistant" /\ last.key.request = r
    BY DEF EndsWith
<1> HIDE DEF m
<1>6. m.key = list[Len(list)].key
    BY <1>3
<1> HIDE DEF last
<1>7. /\ ListOK(new) /\ Len(new) = Len(list) /\ new # <<>>
      /\ new[Len(list)] = m /\ Finished(new)
    BY <1>2, <1>3, <1>4, <1>6, ReplacedOne
<1> QED BY <1>3, <1>5, <1>7 DEF HasFailed, EndsWith

(* handleStreamUpdate with a chunk of r, when the last message is that of  *)
(* r and unfinished.                                                       *)
LEMMA ChunkList ==
    ASSUME NEW list, ListOK(list), NEW r \in Request, Awaits(list, r),
           NEW type, NEW new, new = handleStreamUpdate(list, r, type)
    PROVE  ListOK(new) /\ Awaits(new, r)
<1> DEFINE last == list[Len(list)]
           m == WithChunk(last, r, type)
<1>1. LastIsAssistant(list)
    BY DEF LastIsAssistant, Awaits, EndsWith, IsAssistant
<1>2. Len(list) \in 1 .. Len(list) /\ last \in Message /\ Own(last)
    BY <1>1, LastMessage
<1>3. /\ last.key.role = "assistant" /\ last.key.request = r
      /\ Unfinished(last) /\ last.status # "error"
    BY DEF Awaits, EndsWith, Unfinished
<1>4. new = With(list, Len(list), m)
    BY <1>1, <1>3 DEF handleStreamUpdate, updateLastAssistantMessage
<1> HIDE DEF last
<1>6. m \in Message /\ Own(m) /\ Unfinished(m) /\ m.key = last.key
    BY <1>2, <1>3, ChunkAdded
<1> HIDE DEF m
<1>7. m.key = list[Len(list)].key /\ Unfinished(list[Len(list)])
    BY <1>3, <1>6 DEF last
<1>8. ListOK(new) /\ Len(new) = Len(list) /\ new # <<>> /\ new[Len(list)] = m
    BY <1>2, <1>4, <1>6, <1>7, ReplacedOne
<1> QED BY <1>3, <1>6, <1>8 DEF Awaits, EndsWith

(* A failed message is left as it is by the chunks and the [DONE] that     *)
(* follow.                                                                 *)
LEMMA FailedList ==
    ASSUME NEW list, ListOK(list), NEW r, HasFailed(list, r), NEW q, NEW type
    PROVE  /\ handleStreamUpdate(list, q, type) = list
           /\ handleStreamComplete(list) = list
<1>1. LastIsAssistant(list) /\ list[Len(list)].status = "error"
    BY DEF HasFailed, EndsWith, LastIsAssistant, IsAssistant
<1>2. Len(list) \in 1 .. Len(list) /\ list \in Seq(Message)
    BY <1>1, LastMessage, ListElements
<1>3. With(list, Len(list), list[Len(list)]) = list
    BY <1>2 DEF With
<1> QED BY <1>1, <1>3 DEF handleStreamUpdate, handleStreamComplete,
                          updateLastAssistantMessage

(* handleStreamComplete ends the message that is awaited.                  *)
LEMMA CompleteList ==
    ASSUME NEW list, ListOK(list), NEW r \in Request, Awaits(list, r),
           NEW new, new = handleStreamComplete(list)
    PROVE  ListOK(new) /\ Finished(new)
<1> DEFINE last == list[Len(list)]
           m == [last EXCEPT !.status = "complete"]
<1>1. LastIsAssistant(list)
    BY DEF LastIsAssistant, Awaits, EndsWith, IsAssistant
<1>2. Len(list) \in 1 .. Len(list) /\ last \in Message /\ Own(last)
    BY <1>1, LastMessage
<1>3. last.status \notin {"complete", "error"}
    BY DEF Awaits, Unfinished
<1>4. new = With(list, Len(list), m)
    BY <1>1, <1>3 DEF handleStreamComplete, updateLastAssistantMessage
<1>5. m \in Message /\ Own(m) /\ m.status = "complete" /\ m.key = last.key
    BY <1>2, StatusChanged DEF Status
<1>6. ~Unfinished(m)
    BY <1>5 DEF Unfinished
<1> HIDE DEF m
<1>7. m.key = list[Len(list)].key
    BY <1>5
<1> HIDE DEF last
<1> QED BY <1>2, <1>4, <1>5, <1>6, <1>7, ReplacedOne

(* stopGeneration leaves no spinner.                                       *)
LEMMA StoppedList ==
    ASSUME NEW list, ListOK(list), NEW new, new = finalizeLast(list)
    PROVE  ListOK(new) /\ Finished(new)
<1> DEFINE last == list[Len(list)]
           m == [last EXCEPT !.status = "complete"]
<1>0. /\ list \in Seq(Message)
      /\ \A j \in 1 .. Len(list) :
            Unfinished(list[j]) => j = Len(list) /\ IsAssistant(list[j])
    BY ListElements
<1>1. CASE ~LastIsAssistant(list)
  <2>1. new = list
    BY <1>1 DEF finalizeLast, updateLastAssistantMessage
  <2>2. Finished(list)
    <3>1. SUFFICES ASSUME NEW i \in 1 .. Len(list), Unfinished(list[i])
                   PROVE  FALSE
        BY DEF Finished
    <3>2. i = Len(list) /\ IsAssistant(list[i])
        BY <3>1, <1>0
    <3>3. list # <<>>
        BY <3>1, <1>0
    <3> QED BY <3>2, <3>3, <1>1 DEF LastIsAssistant
  <2> QED BY <2>1, <2>2
<1>2. CASE LastIsAssistant(list) /\ ~Unfinished(last)
  <2>1. Len(list) \in 1 .. Len(list)
    BY <1>2, LastMessage
  <2>2. new = With(list, Len(list), list[Len(list)])
    BY <1>2 DEF finalizeLast, updateLastAssistantMessage
  <2>3. new = list
    BY <2>1, <2>2, <1>0 DEF With
  <2>4. Finished(list)
    BY <1>2, <1>0 DEF Finished
  <2> QED BY <2>3, <2>4
<1>3. CASE LastIsAssistant(list) /\ Unfinished(last)
  <2>1. Len(list) \in 1 .. Len(list) /\ last \in Message /\ Own(last)
    BY <1>3, LastMessage
  <2>2. new = With(list, Len(list), m)
    BY <1>3 DEF finalizeLast, updateLastAssistantMessage
  <2>3. m \in Message /\ Own(m) /\ m.status = "complete" /\ m.key = last.key
    BY <2>1, StatusChanged DEF Status
  <2>4. ~Unfinished(m)
    BY <2>3 DEF Unfinished
  <2> HIDE DEF m
  <2>5. m.key = list[Len(list)].key
    BY <2>3
  <2> HIDE DEF last
  <2> QED BY <2>1, <2>2, <2>3, <2>4, <2>5, ReplacedOne
<1> QED BY <1>1, <1>2, <1>3

(* An edit on a list without a spinner.                                    *)
LEMMA EditedList ==
    ASSUME NEW list, ListOK(list), Finished(list), NEW i \in 1 .. Len(list),
           NEW new, new = Edited(list, i)
    PROVE  ListOK(new) /\ Finished(new) /\ Len(new) = Len(list)
<1> DEFINE old == list[i]
           m == [old EXCEPT !.content = {Typed}]
<1>1. old \in Message /\ Own(old) /\ list \in Seq(Message)
    BY ListElements
<1>2. m \in Message /\ Own(m) /\ m.status = old.status /\ m.key = old.key
    BY <1>1, TextReplaced
<1>3. new = With(list, i, m)
    BY DEF Edited
<1> HIDE DEF m
<1>4. m.key = list[i].key /\ (Unfinished(m) => Unfinished(list[i]))
    BY <1>2 DEF Unfinished
<1> HIDE DEF old
<1> QED BY <1>2, <1>3, <1>4, ReplacedOne

(* sanitizeMessagesOnLoad leaves no spinner in a list whose only spinner   *)
(* is its last message.                                                    *)
LEMMA SanitizedList ==
    ASSUME NEW list, ListOK(list), NEW new, new = sanitizeMessagesOnLoad(list)
    PROVE  ListOK(new) /\ Finished(new)
<1> DEFINE stuck == {i \in 1 .. Len(list) : IsAssistant(list[i]) /\ Unfinished(list[i])}
           target == CHOOSE i \in stuck : \A j \in stuck : j <= i
           old == list[target]
           m == IF old.content # {} \/ old.reasoning # {}
                THEN [old EXCEPT !.status = "complete"]
                ELSE [old EXCEPT !.status = "error", !.content = {Failed}]
<1>0. /\ list \in Seq(Message)
      /\ \A j \in 1 .. Len(list) :
            Unfinished(list[j]) => j = Len(list) /\ IsAssistant(list[j])
    BY ListElements
<1>1. CASE stuck = {}
  <2>1. new = list
    BY <1>1 DEF sanitizeMessagesOnLoad
  <2>2. Finished(list)
    BY <1>0, <1>1 DEF Finished
  <2> QED BY <2>1, <2>2
<1>2. CASE stuck # {}
  <2>1. \A i \in stuck : i \in 1 .. Len(list) /\ i = Len(list)
    BY <1>0
  <2>2. \E i \in stuck : \A j \in stuck : j <= i
    <3>1. PICK i \in stuck : TRUE
        BY <1>2
    <3>2. i = Len(list) /\ i \in 1 .. Len(list)
        BY <3>1, <2>1
    <3>3. Len(list) <= Len(list)
        BY <1>0
    <3>4. \A j \in stuck : j <= i
        BY <2>1, <3>2, <3>3
    <3> QED BY <3>1, <3>4
  <2>3. target \in stuck
    BY <2>2
  <2>4. target = Len(list) /\ target \in 1 .. Len(list) /\ Unfinished(list[target])
    BY <2>3, <2>1
  <2>5. new = With(list, target, m)
    BY <1>2 DEF sanitizeMessagesOnLoad
  <2>6. old \in Message /\ Own(old)
    BY <2>4, ListElements
  <2> HIDE DEF target, stuck
  <2>7. m \in Message /\ Own(m) /\ m.key = old.key /\ ~Unfinished(m)
    <3>1. CASE old.content # {} \/ old.reasoning # {}
      <4>1. m = [old EXCEPT !.status = "complete"]
        BY <3>1
      <4> HIDE DEF m, old
      <4>2. /\ m \in Message /\ Own(m) /\ m.key = old.key /\ m.status = "complete"
        BY <4>1, <2>6, StatusChanged DEF Status
      <4> QED BY <4>2 DEF Unfinished
    <3>2. CASE ~(old.content # {} \/ old.reasoning # {})
      <4>1. m = [old EXCEPT !.status = "error", !.content = {Failed}]
        BY <3>2
      <4> HIDE DEF m, old
      <4> QED BY <4>1, <2>6, FailedMessage
    <3> QED BY <3>1, <3>2
  <2> HIDE DEF m
  <2>8. m.key = list[target].key
    BY <2>7
  <2> HIDE DEF old
  <2> QED BY <2>4, <2>5, <2>7, <2>8, ReplacedOne
<1> QED BY <1>1, <1>2

-----------------------------------------------------------------------------
(* The inductive invariant.                                                *)

(* A message that is awaited ends its list, and the list is not finished.  *)
LEMMA AwaitsFacts ==
    ASSUME NEW list, ListOK(list), NEW r, Awaits(list, r)
    PROVE  EndsWith(list, r) /\ ~Finished(list)
BY ListElements DEF Awaits, EndsWith, Finished

(* saveMessages stores the new list, or fails and leaves the old one.      *)
LEMMA SavedList ==
    ASSUME ChatInv, NEW list, ListOK(list), saveMessages(list)
    PROVE  ListOK(stored')
BY DEF ChatInv, saveMessages

(* ChatInv after a step, from the parts that the step can disturb.         *)
LEMMA InvFromParts ==
    ASSUME ListOK(messages'), ListOK(rendered'), ListOK(stored'),
           generating' \in BOOLEAN, ref' \in Request \cup {NoRequest},
           complete' \in BOOLEAN,
           source' \in [Request -> {"new", "open", "silent", "closed"}],
           batch' \in Request \cup {NoRequest}, editing' \in Key \cup {NoKey},
           RefInv', BatchInv', RenderedInv'
    PROVE  ChatInv'
BY DEF ChatInv, TypeOK, ListOK

(* sendChat, from a page that is rendered as idle.                         *)
LEMMA SendKeepsInv ==
    ASSUME ChatInv, ~generating, batch = NoRequest, NEW r, Fresh(r),
           NEW list, ListOK(list), Awaits(list, r), sendChat(list, r),
           batch' = batch, editing' \in Key \cup {NoKey}
    PROVE  ChatInv'
<1>1. /\ r \in Request /\ r # NoRequest
      /\ source \in [Request -> {"new", "open", "silent", "closed"}]
      /\ complete' = FALSE
      /\ ref = NoRequest
    BY DEF ChatInv, TypeOK, RenderedInv, Fresh, Request, NoRequest, sendChat
<1>2. \A q \in Request : source[q] \notin {"open", "silent"}
  <2>1. \A q \in Request : q # NoRequest
    BY DEF Request, NoRequest
  <2> QED BY <1>1, <2>1 DEF ChatInv, RefInv
<1>3. /\ saveMessages(messages')
      /\ rendered' = messages'
      /\ generating' = (ref' # NoRequest)
    BY DEF sendChat, RenderWith
<1>4. CASE /\ source' = [source EXCEPT ![r] = "open"]
           /\ ref' = r
           /\ messages' = list
  <2>1. ListOK(messages') /\ ListOK(rendered') /\ ListOK(stored')
    BY <1>3, <1>4, SavedList
  <2>2. source' \in [Request -> {"new", "open", "silent", "closed"}]
    BY <1>1, <1>4
  <2>3. RefInv'
    BY <1>1, <1>2, <1>4 DEF RefInv
  <2>4. BatchInv'
    BY DEF BatchInv
  <2>5. RenderedInv'
    BY <1>1, <1>3, <1>4 DEF RenderedInv
  <2>6. generating' \in BOOLEAN /\ ref' \in Request \cup {NoRequest}
    BY <1>1, <1>3, <1>4
  <2>7. complete' \in BOOLEAN /\ batch' \in Request \cup {NoRequest}
    BY <1>1
  <2> QED BY <2>1, <2>2, <2>3, <2>4, <2>5, <2>6, <2>7, InvFromParts
<1>5. CASE /\ source' = [source EXCEPT ![r] = "closed"]
           /\ ref' = NoRequest
           /\ messages' = updateAssistantMessageWithError(list)
  <2>1. ListOK(messages') /\ Finished(messages')
    BY <1>1, <1>5, AwaitsFacts, ErrorList
  <2>2. ListOK(rendered') /\ ListOK(stored')
    BY <2>1, <1>3, SavedList
  <2>3. source' \in [Request -> {"new", "open", "silent", "closed"}]
    BY <1>1, <1>5
  <2>4. RefInv'
    BY <1>1, <1>2, <1>5, <2>1 DEF RefInv
  <2>5. BatchInv'
    BY DEF BatchInv
  <2>6. RenderedInv'
    BY <1>1, <1>3, <1>5 DEF RenderedInv
  <2>7. generating' \in BOOLEAN /\ ref' \in Request \cup {NoRequest}
    BY <1>1, <1>3, <1>5
  <2>8. complete' \in BOOLEAN /\ batch' \in Request \cup {NoRequest}
    BY <1>1
  <2> QED BY <2>1, <2>2, <2>3, <2>4, <2>5, <2>6, <2>7, <2>8, InvFromParts
<1> QED BY <1>4, <1>5 DEF sendChat

(* What an idle page knows of its list.                                    *)
LEMMA IdlePage ==
    ASSUME ChatInv, ~generating
    PROVE  /\ rendered = messages /\ ref = NoRequest
           /\ ListOK(rendered) /\ Finished(rendered)
           /\ DOMAIN rendered = 1 .. Len(rendered)
           /\ Len(rendered) \in Nat
<1>1. rendered = messages /\ ref = NoRequest /\ ListOK(rendered)
    BY DEF ChatInv, RenderedInv
<1>2. Finished(rendered)
    BY <1>1 DEF ChatInv, RefInv
<1> QED BY <1>1, <1>2, ListElements

(* handleSendMessage and handleSuggestionClick.                            *)
LEMMA SendToKeepsInv ==
    ASSUME ChatInv, ~generating, batch = NoRequest, NEW r \in Request, SendTo(r)
    PROVE  ChatInv'
<1> DEFINE list == rendered \o <<createUserMessage(r), createLoadingAssistantMessage(r)>>
<1>1. ListOK(list) /\ Awaits(list, r)
    BY IdlePage, SentList
<1>2. sendChat(list, r) /\ Fresh(r) /\ batch' = batch /\ editing' = editing
    BY DEF SendTo
<1>3. editing' \in Key \cup {NoKey}
    BY <1>2 DEF ChatInv, TypeOK
<1> HIDE DEF list
<1> QED BY <1>1, <1>2, <1>3, SendKeepsInv

LEMMA RegenerateKeepsInv ==
    ASSUME ChatInv, NEW r \in Request, NEW i, handleRegenerateMessage(i, r)
    PROVE  ChatInv'
<1> DEFINE list == Append(SubSeq(rendered, 1, i - 1), createLoadingAssistantMessage(r))
<1>1. ~generating /\ batch = NoRequest /\ i \in DOMAIN rendered
    BY DEF handleRegenerateMessage, MessageActions, Guarded, Button
<1>2. /\ ListOK(rendered) /\ Finished(rendered)
      /\ i \in 1 .. Len(rendered) /\ Len(rendered) \in Nat
    BY <1>1, IdlePage
<1>3. /\ i - 1 \in Nat /\ i - 1 <= Len(rendered)
      /\ \A j \in 1 .. i - 1 : j \in 1 .. Len(rendered)
    BY <1>2
<1>4. \A j \in 1 .. i - 1 : ~Unfinished(rendered[j])
    BY <1>2, <1>3 DEF Finished
<1>5. ListOK(list) /\ Awaits(list, r)
    BY <1>2, <1>3, <1>4, AnswerAdded
<1>6. sendChat(list, r) /\ Fresh(r) /\ batch' = batch /\ editing' = editing
    BY DEF handleRegenerateMessage
<1>7. editing' \in Key \cup {NoKey}
    BY <1>6 DEF ChatInv, TypeOK
<1> HIDE DEF list
<1> QED BY <1>1, <1>5, <1>6, <1>7, SendKeepsInv

(* A list without a spinner is put in the place of the one on an idle page.*)
LEMMA ReplaceKeepsInv ==
    ASSUME ChatInv, ~generating, batch = NoRequest,
           ListOK(messages'), Finished(messages'), saveMessages(messages'),
           RenderWith(messages', ref),
           ref' = ref, complete' = complete, source' = source, batch' = batch,
           editing' \in Key \cup {NoKey}
    PROVE  ChatInv'
<1>1. ref = NoRequest /\ rendered' = messages' /\ generating' = FALSE
    BY IdlePage DEF RenderWith
<1>2. ListOK(rendered') /\ ListOK(stored')
    BY <1>1, SavedList
<1>3. RefInv' /\ BatchInv' /\ RenderedInv'
    BY <1>1 DEF ChatInv, RefInv, BatchInv, RenderedInv
<1>4. /\ generating' \in BOOLEAN /\ ref' \in Request \cup {NoRequest}
      /\ complete' \in BOOLEAN /\ batch' \in Request \cup {NoRequest}
      /\ source' \in [Request -> {"new", "open", "silent", "closed"}]
    BY <1>1 DEF ChatInv, TypeOK
<1> QED BY <1>2, <1>3, <1>4, InvFromParts

LEMMA DeleteKeepsInv ==
    ASSUME ChatInv, NEW i, handleDeleteMessage(i)
    PROVE  ChatInv'
<1>1. ~generating /\ batch = NoRequest /\ i \in DOMAIN rendered
    BY DEF handleDeleteMessage, MessageActions, Guarded, Button
<1>2. ListOK(rendered) /\ Finished(rendered) /\ i \in 1 .. Len(rendered)
    BY <1>1, IdlePage
<1>3. /\ messages' = Without(rendered, i) /\ saveMessages(messages')
      /\ RenderWith(messages', ref) /\ ref' = ref /\ complete' = complete
      /\ source' = source /\ batch' = batch /\ editing' = editing
    BY DEF handleDeleteMessage
<1>4. ListOK(messages') /\ Finished(messages')
    BY <1>2, <1>3, DeletedList
<1>5. editing' \in Key \cup {NoKey}
    BY <1>3 DEF ChatInv, TypeOK
<1> QED BY <1>1, <1>3, <1>4, <1>5, ReplaceKeepsInv

LEMMA EditKeepsInv ==
    ASSUME ChatInv, Careful, NEW i, applyEdit(i)
    PROVE  ChatInv'
<1>1. ~generating /\ batch = NoRequest /\ i \in DOMAIN rendered
    BY DEF applyEdit, Unguarded, Button
<1>2. ListOK(rendered) /\ Finished(rendered) /\ i \in 1 .. Len(rendered)
    BY <1>1, IdlePage
<1>3. /\ messages' = Edited(rendered, i) /\ saveMessages(messages')
      /\ RenderWith(messages', ref) /\ ref' = ref /\ complete' = complete
      /\ source' = source /\ batch' = batch /\ editing' = NoKey
    BY DEF applyEdit
<1>4. ListOK(messages') /\ Finished(messages')
    BY <1>2, <1>3, EditedList
<1> QED BY <1>1, <1>3, <1>4, ReplaceKeepsInv

LEMMA SubmitKeepsInv ==
    ASSUME ChatInv, Careful, NEW r \in Request, NEW i, submitEdit(i, r)
    PROVE  ChatInv'
<1> DEFINE edited == Edited(rendered, i)
           list == Append(SubSeq(edited, 1, i), createLoadingAssistantMessage(r))
<1>1. ~generating /\ batch = NoRequest /\ i \in DOMAIN rendered
    BY DEF submitEdit, Unguarded, Button
<1>2. /\ ListOK(rendered) /\ Finished(rendered)
      /\ i \in 1 .. Len(rendered) /\ Len(rendered) \in Nat
    BY <1>1, IdlePage
<1>3. ListOK(edited) /\ Finished(edited) /\ Len(edited) = Len(rendered)
    BY <1>2, EditedList
<1>4. sendChat(list, r) /\ Fresh(r) /\ batch' = batch /\ editing' = NoKey
    BY DEF submitEdit
<1> HIDE DEF edited
<1>5. /\ i \in Nat /\ i <= Len(edited)
      /\ \A j \in 1 .. i : j \in 1 .. Len(edited)
    BY <1>2, <1>3
<1>6. \A j \in 1 .. i : ~Unfinished(edited[j])
    BY <1>3, <1>5 DEF Finished
<1>7. ListOK(list) /\ Awaits(list, r)
    BY <1>3, <1>5, <1>6, AnswerAdded
<1> HIDE DEF list
<1> QED BY <1>1, <1>4, <1>7, SendKeepsInv

(* Opening and closing the form of an edit.                                *)
LEMMA EditFormKeepsInv ==
    ASSUME ChatInv, handleEditOpenChange \/ \E i \in DOMAIN rendered : handleEditMessage(i)
    PROVE  ChatInv'
<1>1. /\ batch = NoRequest
      /\ RenderWith(messages, ref)
      /\ UNCHANGED <<messages, ref, complete, source, batch, stored>>
    BY DEF handleEditOpenChange, handleEditMessage, MessageActions, Guarded, Button
<1>2. editing' \in Key \cup {NoKey}
  <2>1. CASE handleEditOpenChange
    BY <2>1 DEF handleEditOpenChange
  <2>2. ASSUME NEW i \in DOMAIN rendered, handleEditMessage(i)
        PROVE  editing' \in Key \cup {NoKey}
    <3>1. rendered[i] \in Message
        BY ListElements DEF ChatInv
    <3> QED BY <2>2, <3>1, MessageFields DEF handleEditMessage
  <2> QED BY <2>1, <2>2
<1>3. rendered' = messages /\ generating' = (ref # NoRequest)
    BY <1>1 DEF RenderWith
<1>4. ListOK(messages') /\ ListOK(rendered') /\ ListOK(stored')
    BY <1>1, <1>3 DEF ChatInv
<1>5. RefInv'
    BY <1>1 DEF ChatInv, RefInv
<1>6. BatchInv'
    BY <1>1 DEF BatchInv
<1>7. RenderedInv'
    BY <1>1, <1>3 DEF ChatInv, RefInv, RenderedInv, TypeOK
<1>8. /\ generating' \in BOOLEAN /\ ref' \in Request \cup {NoRequest}
      /\ complete' \in BOOLEAN /\ batch' \in Request \cup {NoRequest}
      /\ source' \in [Request -> {"new", "open", "silent", "closed"}]
    BY <1>1, <1>3 DEF ChatInv, TypeOK
<1> QED BY <1>2, <1>4, <1>5, <1>6, <1>7, <1>8, InvFromParts

LEMMA StopKeepsInv ==
    ASSUME ChatInv, stopGeneration
    PROVE  ChatInv'
<1>1. /\ batch = NoRequest /\ generating
      /\ source' = [r \in Request |-> IF r = ref THEN "closed" ELSE source[r]]
      /\ ref' = NoRequest
      /\ messages' = finalizeLast(messages)
      /\ saveMessages(messages')
      /\ complete' = complete /\ batch' = batch /\ editing' = editing
    BY DEF stopGeneration, Button
<1>2. ListOK(messages') /\ Finished(messages')
    BY <1>1, StoppedList DEF ChatInv
<1>3. ListOK(stored')
    BY <1>1, <1>2, SavedList
<1>4. RefInv'
    BY <1>1, <1>2 DEF ChatInv, RefInv, TypeOK
<1>5. BatchInv'
    BY <1>1 DEF BatchInv
<1>6. ListOK(rendered') /\ RenderedInv' /\ generating' \in BOOLEAN
  <2>1. CASE LastIsAssistant(messages)
    <3>1. rendered' = messages' /\ generating' = FALSE
        BY <2>1, <1>1 DEF stopGeneration, RenderWith
    <3> QED BY <3>1, <1>1, <1>2 DEF RenderedInv
  <2>2. CASE ~LastIsAssistant(messages)
    <3>1. rendered' = rendered /\ generating' = generating
        BY <2>2 DEF stopGeneration
    <3> QED BY <3>1, <1>1 DEF ChatInv, RenderedInv, TypeOK
  <2> QED BY <2>1, <2>2
<1>7. /\ ref' \in Request \cup {NoRequest}
      /\ complete' \in BOOLEAN /\ batch' \in Request \cup {NoRequest}
      /\ source' \in [Request -> {"new", "open", "silent", "closed"}]
      /\ editing' \in Key \cup {NoKey}
    BY <1>1 DEF ChatInv, TypeOK
<1> QED BY <1>2, <1>3, <1>4, <1>5, <1>6, <1>7, InvFromParts

LEMMA LoadKeepsInv ==
    ASSUME ChatInv, loadMessages
    PROVE  ChatInv'
<1>1. /\ batch = NoRequest
      /\ messages' = sanitizeMessagesOnLoad(stored)
      /\ saveMessages(messages')
      /\ ref' = NoRequest
      /\ complete' = FALSE
      /\ source' = [r \in Request |-> IF source[r] = "new" THEN "new" ELSE "closed"]
      /\ rendered' = messages' /\ generating' = FALSE
      /\ editing' = NoKey /\ batch' = batch
    BY DEF loadMessages, Button, RenderWith
<1>2. ListOK(messages') /\ Finished(messages')
    BY <1>1, SanitizedList DEF ChatInv
<1>3. ListOK(rendered') /\ ListOK(stored')
    BY <1>1, <1>2, SavedList
<1>4. RefInv'
    BY <1>1, <1>2 DEF RefInv
<1>5. BatchInv' /\ RenderedInv'
    BY <1>1 DEF BatchInv, RenderedInv
<1>6. /\ generating' \in BOOLEAN /\ ref' \in Request \cup {NoRequest}
      /\ complete' \in BOOLEAN /\ batch' \in Request \cup {NoRequest}
      /\ source' \in [Request -> {"new", "open", "silent", "closed"}]
      /\ editing' \in Key \cup {NoKey}
    BY <1>1
<1> QED BY <1>2, <1>3, <1>4, <1>5, <1>6, InvFromParts

-----------------------------------------------------------------------------
(* The events of a source.                                                 *)

(* An event of r finds the message of r at the end of the list: awaited,   *)
(* or, when an error closed the source earlier in the batch, failed.       *)
LEMMA EventFinds ==
    ASSUME ChatInv, NEW r \in Request, Event(r)
    PROVE  /\ r # NoRequest
           /\ generating
           /\ \/ ref = r /\ Awaits(messages, r) /\ ~complete
              \/ ref = NoRequest /\ HasFailed(messages, r)
           /\ EndsWith(messages, r)
           /\ \A q \in Request : q # r => source[q] \notin {"open", "silent"}
<1>1. r # NoRequest
    BY DEF Request, NoRequest
<1>2. /\ generating
      /\ ref = r \/ (ref = NoRequest /\ HasFailed(messages, r))
  <2>1. CASE batch = r
    BY <2>1, <1>1 DEF ChatInv, BatchInv
  <2>2. CASE source[r] = "open"
    BY <2>2, <1>1 DEF ChatInv, RefInv, RenderedInv
  <2> QED BY <2>1, <2>2 DEF Event
<1>3. ref = r => Awaits(messages, r) /\ ~complete
    BY <1>1 DEF ChatInv, RefInv
<1>4. EndsWith(messages, r)
    BY <1>2, <1>3 DEF HasFailed, Awaits
<1>5. \A q \in Request : q # NoRequest
    BY DEF Request, NoRequest
<1>6. \A q \in Request : q # r => source[q] \notin {"open", "silent"}
    BY <1>2, <1>5 DEF ChatInv, RefInv
<1> QED BY <1>1, <1>2, <1>3, <1>4, <1>6

LEMMA ChunkKeepsInv ==
    ASSUME ChatInv, NEW r \in Request, NEW type, Chunk(r, type)
    PROVE  ChatInv'
<1>1. /\ Event(r)
      /\ messages' = handleStreamUpdate(messages, r, type)
      /\ batch' = r
      /\ UNCHANGED <<rendered, generating, ref, complete, source, editing, stored>>
    BY DEF Chunk
<1>2. /\ r # NoRequest /\ generating
      /\ \/ ref = r /\ Awaits(messages, r) /\ ~complete
         \/ ref = NoRequest /\ HasFailed(messages, r)
    BY <1>1, EventFinds
<1>3. ListOK(messages)
    BY DEF ChatInv
<1>4. CASE ref = r /\ Awaits(messages, r)
  <2>1. ListOK(messages') /\ Awaits(messages', r)
    BY <1>1, <1>3, <1>4, ChunkList
  <2>2. RefInv'
    BY <2>1, <1>1, <1>2, <1>4 DEF ChatInv, RefInv
  <2>3. BatchInv' /\ RenderedInv'
    BY <1>1, <1>2, <1>4 DEF ChatInv, BatchInv, RenderedInv
  <2> QED BY <2>1, <2>2, <2>3, <1>1, InvFromParts DEF ChatInv, TypeOK
<1>5. CASE ref = NoRequest /\ HasFailed(messages, r)
  <2>1. messages' = messages
    BY <1>1, <1>3, <1>5, FailedList
  <2>2. RefInv'
    BY <2>1, <1>1 DEF ChatInv, RefInv
  <2>3. BatchInv' /\ RenderedInv'
    BY <2>1, <1>1, <1>2, <1>5 DEF ChatInv, BatchInv, RenderedInv
  <2> QED BY <2>1, <2>2, <2>3, <1>1, <1>3, InvFromParts DEF ChatInv, TypeOK
<1> QED BY <1>2, <1>4, <1>5

(* What handleError leaves behind.                                         *)
LEMMA ErrorKeepsInv ==
    ASSUME ChatInv, NEW r \in Request, Event(r), handleError(r),
           batch' \in {r, NoRequest},
           UNCHANGED <<rendered, generating, complete, editing, stored>>
    PROVE  ChatInv'
<1>1. /\ r # NoRequest /\ generating /\ EndsWith(messages, r)
      /\ \/ ref = r /\ Awaits(messages, r) /\ ~complete
         \/ ref = NoRequest /\ HasFailed(messages, r)
      /\ \A q \in Request : q # r => source[q] \notin {"open", "silent"}
    BY EventFinds
<1>2. ListOK(messages) /\ source \in [Request -> {"new", "open", "silent", "closed"}]
    BY DEF ChatInv, TypeOK
<1>3. CASE complete
  <2>1. messages' = messages /\ source' = source /\ ref' = ref
    BY <1>3 DEF handleError
  <2>2. ref = NoRequest /\ HasFailed(messages, r)
    BY <1>1, <1>3
  <2>3. RefInv'
    BY <2>1 DEF ChatInv, RefInv
  <2>4. BatchInv' /\ RenderedInv'
    BY <2>1, <2>2, <1>1 DEF ChatInv, BatchInv, RenderedInv
  <2> QED BY <2>1, <2>3, <2>4, InvFromParts DEF ChatInv, TypeOK
<1>4. CASE ~complete
  <2>1. /\ messages' = updateAssistantMessageWithError(messages)
        /\ source' = [source EXCEPT ![r] = "closed"]
        /\ ref' = NoRequest
    BY <1>4 DEF handleError, closeSource
  <2>2. ListOK(messages') /\ Finished(messages') /\ HasFailed(messages', r)
    BY <1>1, <1>2, <2>1, ErrorList
  <2>3. source' \in [Request -> {"new", "open", "silent", "closed"}]
    BY <1>2, <2>1
  <2>4. RefInv'
    BY <2>1, <2>2, <1>1, <1>2 DEF RefInv
  <2>5. BatchInv'
    BY <2>1, <2>2, <1>1 DEF BatchInv
  <2>6. RenderedInv'
    BY <1>1 DEF ChatInv, RenderedInv
  <2> QED BY <2>1, <2>2, <2>3, <2>4, <2>5, <2>6, InvFromParts DEF ChatInv, TypeOK
<1> QED BY <1>3, <1>4

LEMMA DoneKeepsInv ==
    ASSUME ChatInv, NEW r \in Request, Done(r)
    PROVE  ChatInv'
<1>1. /\ Event(r)
      /\ complete' = TRUE
      /\ source' = [source EXCEPT ![r] = "closed"]
      /\ ref' = NoRequest
      /\ messages' = handleStreamComplete(messages)
      /\ batch' = NoRequest
      /\ UNCHANGED <<rendered, generating, editing, stored>>
    BY DEF Done, closeSource
<1>2. /\ generating
      /\ \/ ref = r /\ Awaits(messages, r) /\ ~complete
         \/ ref = NoRequest /\ HasFailed(messages, r)
      /\ \A q \in Request : q # r => source[q] \notin {"open", "silent"}
    BY <1>1, EventFinds
<1>3. ListOK(messages) /\ source \in [Request -> {"new", "open", "silent", "closed"}]
    BY DEF ChatInv, TypeOK
<1>4. ListOK(messages') /\ Finished(messages')
  <2>1. CASE ref = r /\ Awaits(messages, r)
    BY <2>1, <1>1, <1>3, CompleteList
  <2>2. CASE ref = NoRequest /\ HasFailed(messages, r)
    <3>1. messages' = messages
        BY <2>2, <1>1, <1>3, FailedList
    <3> QED BY <3>1, <2>2, <1>3 DEF ChatInv, RefInv
  <2> QED BY <1>2, <2>1, <2>2
<1>5. source' \in [Request -> {"new", "open", "silent", "closed"}]
    BY <1>1, <1>3
<1>6. RefInv'
    BY <1>1, <1>2, <1>3, <1>4 DEF RefInv
<1>7. BatchInv' /\ RenderedInv'
    BY <1>1, <1>2 DEF ChatInv, BatchInv, RenderedInv
<1> QED BY <1>1, <1>4, <1>5, <1>6, <1>7, InvFromParts DEF ChatInv, TypeOK

LEMMA SilentKeepsInv ==
    ASSUME ChatInv, NEW r \in Request, SilentEnd(r)
    PROVE  ChatInv'
<1>1. /\ source[r] = "open"
      /\ source' = [source EXCEPT ![r] = "silent"]
      /\ UNCHANGED <<messages, rendered, generating, ref, complete, batch, editing, stored>>
    BY DEF SilentEnd
<1>2. source' \in [Request -> {"new", "open", "silent", "closed"}]
    BY <1>1 DEF ChatInv, TypeOK
<1>3. RefInv'
    BY <1>1 DEF ChatInv, RefInv, TypeOK
<1>4. BatchInv' /\ RenderedInv'
    BY <1>1 DEF ChatInv, BatchInv, RenderedInv
<1> QED BY <1>1, <1>2, <1>3, <1>4, InvFromParts DEF ChatInv, TypeOK

LEMMA RenderKeepsInv ==
    ASSUME ChatInv, Render
    PROVE  ChatInv'
<1>1. /\ batch = NoRequest
      /\ rendered' = messages /\ generating' = (ref # NoRequest)
      /\ saveMessages(messages)
      /\ UNCHANGED <<messages, ref, complete, source, batch, editing>>
    BY DEF Render, RenderWith
<1>2. ListOK(messages') /\ ListOK(rendered') /\ ListOK(stored')
    BY <1>1, SavedList DEF ChatInv
<1>3. RefInv' /\ BatchInv'
    BY <1>1 DEF ChatInv, RefInv, BatchInv
<1>4. RenderedInv'
    BY <1>1 DEF ChatInv, RefInv, RenderedInv, TypeOK
<1> QED BY <1>1, <1>2, <1>3, <1>4, InvFromParts DEF ChatInv, TypeOK

(* Every step of the page keeps the invariant, if the user is careful.     *)
LEMMA NextKeepsInv ==
    ASSUME Careful, ChatInv, [Next]_vars
    PROVE  ChatInv'
<1>1. ASSUME NEW r \in Request, handleSendMessage(r) \/ handleSuggestionClick(r)
      PROVE  ChatInv'
  <2>1. ~generating /\ batch = NoRequest /\ SendTo(r)
    BY <1>1 DEF handleSendMessage, handleSuggestionClick, Guarded, Unguarded, Button
  <2> QED BY <2>1, SendToKeepsInv
<1>2. ASSUME NEW r \in Request, NEW i \in DOMAIN rendered,
             handleRegenerateMessage(i, r) \/ submitEdit(i, r)
      PROVE  ChatInv'
    BY <1>2, RegenerateKeepsInv, SubmitKeepsInv
<1>3. ASSUME NEW r \in Request, NEW type \in {"content", "reasoning"}, Chunk(r, type)
      PROVE  ChatInv'
    BY <1>3, ChunkKeepsInv
<1>4. ASSUME NEW r \in Request, ParseError(r) \/ ErrorEvent(r) \/ Failure(r)
      PROVE  ChatInv'
  <2>1. /\ Event(r) /\ handleError(r) /\ batch' \in {r, NoRequest}
        /\ UNCHANGED <<rendered, generating, complete, editing, stored>>
    BY <1>4 DEF ParseError, ErrorEvent, Failure, Event
  <2> QED BY <2>1, ErrorKeepsInv
<1>5. ASSUME NEW i \in DOMAIN rendered,
             handleDeleteMessage(i) \/ handleEditMessage(i) \/ applyEdit(i)
      PROVE  ChatInv'
    BY <1>5, DeleteKeepsInv, EditFormKeepsInv, EditKeepsInv
<1>6. CASE handleEditOpenChange \/ stopGeneration \/ loadMessages \/ Render
    BY <1>6, EditFormKeepsInv, StopKeepsInv, LoadKeepsInv, RenderKeepsInv
<1>7. ASSUME NEW r \in Request, Done(r) \/ SilentEnd(r)
      PROVE  ChatInv'
    BY <1>7, DoneKeepsInv, SilentKeepsInv
<1>8. CASE EndBatch
  <2>1. /\ batch' = NoRequest
        /\ UNCHANGED <<messages, rendered, generating, ref, complete, source, editing, stored>>
    BY <1>8 DEF EndBatch
  <2>2. RefInv' /\ BatchInv' /\ RenderedInv'
    BY <2>1 DEF ChatInv, RefInv, BatchInv, RenderedInv
  <2> QED BY <2>1, <2>2, InvFromParts DEF ChatInv, TypeOK
<1>9. CASE UNCHANGED vars
  <2>1. UNCHANGED <<messages, rendered, generating, ref, complete, source, batch,
                    editing, stored>>
    BY <1>9 DEF vars
  <2>2. RefInv' /\ BatchInv' /\ RenderedInv'
    BY <2>1 DEF ChatInv, RefInv, BatchInv, RenderedInv
  <2> QED BY <2>1, <2>2, InvFromParts DEF ChatInv, TypeOK
<1> QED BY <1>1, <1>2, <1>3, <1>4, <1>5, <1>6, <1>7, <1>8, <1>9 DEF Next, StreamEnds

(* The page starts with an empty list and no source.                       *)
LEMMA InitHasInv == Init => ChatInv
<1> SUFFICES ASSUME Init PROVE ChatInv
    OBVIOUS
<1>1. TypeOK
  <2>1. <<>> \in Seq(Message)
    BY EmptyList DEF ListOK
  <2>2. source \in [Request -> {"new", "open", "silent", "closed"}]
    BY DEF Init
  <2> QED BY <2>1, <2>2 DEF Init, TypeOK
<1>2. ListOK(messages) /\ ListOK(rendered) /\ ListOK(stored) /\ Finished(messages)
    BY EmptyList DEF Init
<1>3. RefInv /\ BatchInv /\ RenderedInv
    BY <1>2 DEF Init, RefInv, BatchInv, RenderedInv
<1> QED BY <1>1, <1>2, <1>3 DEF ChatInv

(* What the invariant says to a user of the page.                          *)
LEMMA InvGivesProperties ==
    ASSUME ChatInv
    PROVE  TypeOK /\ OwnAnswer /\ StopMatchesSpinner
<1>1. OwnAnswer
  <2> SUFFICES ASSUME NEW list \in {messages, rendered, stored}, NEW i \in DOMAIN list
               PROVE  Own(list[i])
    BY DEF OwnAnswer
  <2>1. ListOK(list)
    BY DEF ChatInv
  <2> QED BY <2>1, ListElements
<1>2. StopMatchesSpinner
  <2>1. CASE generating
    <3>1. PICK r \in Request : Awaits(rendered, r)
        BY <2>1 DEF ChatInv, RenderedInv
    <3>2. ~Finished(rendered) /\ ListOK(rendered)
        BY <3>1, AwaitsFacts DEF ChatInv
    <3>3. \E i \in DOMAIN rendered : Unfinished(rendered[i])
        BY <3>2, ListElements DEF Finished
    <3> QED BY <2>1, <3>3 DEF StopMatchesSpinner
  <2>2. CASE ~generating
    BY <2>2, IdlePage DEF Finished, StopMatchesSpinner
  <2>3. generating \in BOOLEAN
    BY DEF ChatInv, TypeOK
  <2> QED BY <2>1, <2>2, <2>3
<1> QED BY <1>1, <1>2 DEF ChatInv

(* The hooks of the playground keep their types, whatever requests,        *)
(* events and failures come, for a user who is careful.                    *)
THEOREM PlaygroundTypeCorrect ==
    ASSUME Careful
    PROVE  Spec => []TypeOK
<1>1. ChatInv /\ [Next]_vars => ChatInv'
    BY NextKeepsInv
<1>2. ChatInv => TypeOK
    BY InvGivesProperties
<1> QED BY <1>1, <1>2, InitHasInv, PTL DEF Spec

(* updateLastAssistantMessage never puts a chunk into the answer to        *)
(* another request, for any number of requests of a user who is careful.   *)
THEOREM AnswersStayApart ==
    ASSUME Careful
    PROVE  Spec => []OwnAnswer
<1>1. ChatInv /\ [Next]_vars => ChatInv'
    BY NextKeepsInv
<1>2. ChatInv => OwnAnswer
    BY InvGivesProperties
<1> QED BY <1>1, <1>2, InitHasInv, PTL DEF Spec

(* isGenerating, as rendered, and the spinners on the page always agree,   *)
(* for any number of requests of a user who is careful.                    *)
THEOREM SpinnerCanBeStopped ==
    ASSUME Careful
    PROVE  Spec => []StopMatchesSpinner
<1>1. ChatInv /\ [Next]_vars => ChatInv'
    BY NextKeepsInv
<1>2. ChatInv => StopMatchesSpinner
    BY InvGivesProperties
<1> QED BY <1>1, <1>2, InitHasInv, PTL DEF Spec

-----------------------------------------------------------------------------
(* Failed answers.                                                         *)

(* The keys of nanoid: no two messages of a list share one, and those of a *)
(* request that has not been sent are in no list.  src is the event source *)
(* of every request.                                                       *)
Distinct(list) ==
    \A i, j \in 1 .. Len(list) : list[i].key = list[j].key => i = j

KeysOK(list, src) ==
    /\ Distinct(list)
    /\ \A i \in 1 .. Len(list) : src[list[i].key.request] # "new"

KeyInv ==
    KeysOK(messages, source) /\ KeysOK(rendered, source) /\ KeysOK(stored, source)

(* The message n is m, changed by anything that leaves a failure alone.    *)
Keeps(m, n) == n.key = m.key /\ (m.status = "error" => n.status = "error")

(* Every message of new was made for a request in fresh or is one of list. *)
Follows(list, new, fresh) ==
    /\ Distinct(new)
    /\ \A j \in 1 .. Len(new) :
        \/ new[j].key.request \in fresh
        \/ \E i \in 1 .. Len(list) : Keeps(list[i], new[j])

(* A list that is left as it is.                                           *)
LEMMA SameFollows ==
    ASSUME NEW list, Distinct(list)
    PROVE  Follows(list, list, {})
BY DEF Follows, Keeps

(* A list that follows one in which nothing was made anew.                 *)
LEMMA FollowsChain ==
    ASSUME NEW list, NEW mid, NEW new, NEW fresh,
           Follows(list, mid, fresh), Follows(mid, new, {})
    PROVE  Follows(list, new, fresh)
<1> SUFFICES ASSUME NEW j \in 1 .. Len(new)
             PROVE  \/ new[j].key.request \in fresh
                    \/ \E i \in 1 .. Len(list) : Keeps(list[i], new[j])
    BY DEF Follows
<1>1. PICK k \in 1 .. Len(mid) : Keeps(mid[k], new[j])
    BY DEF Follows
<1>2. CASE mid[k].key.request \in fresh
    BY <1>1, <1>2 DEF Keeps
<1>3. CASE \E i \in 1 .. Len(list) : Keeps(list[i], mid[k])
    BY <1>1, <1>3 DEF Keeps
<1> QED BY <1>2, <1>3 DEF Follows

(* A list that follows one that was only changed.                          *)
LEMMA FollowsAfter ==
    ASSUME NEW list, NEW mid, NEW new, NEW fresh,
           Follows(list, mid, {}), Follows(mid, new, fresh)
    PROVE  Follows(list, new, fresh)
<1> SUFFICES ASSUME NEW j \in 1 .. Len(new), new[j].key.request \notin fresh
             PROVE  \E i \in 1 .. Len(list) : Keeps(list[i], new[j])
    BY DEF Follows
<1>1. PICK k \in 1 .. Len(mid) : Keeps(mid[k], new[j])
    BY DEF Follows
<1>2. PICK i \in 1 .. Len(list) : Keeps(list[i], mid[k])
    BY DEF Follows
<1> QED BY <1>1, <1>2 DEF Keeps

(* A failure stays in a list that follows, if new messages have new keys.  *)
LEMMA FollowsKeepsFailure ==
    ASSUME NEW list, NEW new, NEW fresh, Distinct(list), Follows(list, new, fresh),
           \A i \in 1 .. Len(list) : list[i].key.request \notin fresh,
           NEW i \in 1 .. Len(list), list[i].status = "error",
           NEW j \in 1 .. Len(new), new[j].key = list[i].key
    PROVE  new[j].status = "error"
<1>1. PICK k \in 1 .. Len(list) : Keeps(list[k], new[j])
    BY DEF Follows
<1>2. k = i
    BY <1>1 DEF Keeps, Distinct
<1> QED BY <1>1, <1>2 DEF Keeps

(* The keys of a list that follows.                                        *)
LEMMA FollowsKeepsKeys ==
    ASSUME NEW list, ListOK(list), NEW new, NEW fresh,
           NEW src, NEW later, KeysOK(list, src), Follows(list, new, fresh),
           \A q \in Request : src[q] # "new" => later[q] # "new",
           \A q \in fresh : later[q] # "new"
    PROVE  KeysOK(new, later)
<1>1. ASSUME NEW j \in 1 .. Len(new)
      PROVE  later[new[j].key.request] # "new"
  <2>1. CASE new[j].key.request \in fresh
    BY <2>1
  <2>2. CASE \E i \in 1 .. Len(list) : Keeps(list[i], new[j])
    <3>1. PICK i \in 1 .. Len(list) : Keeps(list[i], new[j])
        BY <2>2
    <3>2. list[i].key \in Key
        BY ListElements, MessageFields
    <3>3. list[i].key.request \in Request
        BY <3>2 DEF Key
    <3>4. src[list[i].key.request] # "new"
        BY DEF KeysOK
    <3> QED BY <3>1, <3>3, <3>4 DEF Keeps
  <2> QED BY <2>1, <2>2 DEF Follows
<1>2. Distinct(new)
    BY DEF Follows
<1> QED BY <1>1, <1>2 DEF KeysOK

(* One message is replaced.                                                *)
LEMMA WithFollows ==
    ASSUME NEW list \in Seq(Message), Distinct(list), NEW i \in 1 .. Len(list),
           NEW m, Keeps(list[i], m)
    PROVE  Follows(list, With(list, i, m), {})
<1> DEFINE new == With(list, i, m)
<1>1. /\ Len(new) = Len(list) /\ Len(list) \in Nat
      /\ new[i] = m
      /\ \A j \in 1 .. Len(list) : j # i => new[j] = list[j]
    BY DEF With
<1> HIDE DEF new
<1>2. \A j \in 1 .. Len(list) : Keeps(list[j], new[j])
    BY <1>1 DEF Keeps
<1>3. \A j \in 1 .. Len(list) : new[j].key = list[j].key
    BY <1>2 DEF Keeps
<1>4. Distinct(new)
    BY <1>1, <1>3 DEF Distinct
<1>5. Follows(list, new, {})
    BY <1>1, <1>2, <1>4 DEF Follows
<1> QED BY <1>5 DEF new

(* updateLastAssistantMessage.                                             *)
LEMMA LastFollows ==
    ASSUME NEW list \in Seq(Message), Distinct(list), NEW m,
           LastIsAssistant(list) => Keeps(list[Len(list)], m)
    PROVE  Follows(list, updateLastAssistantMessage(list, m), {})
<1>1. CASE LastIsAssistant(list)
  <2>1. Len(list) \in 1 .. Len(list)
    BY <1>1 DEF LastIsAssistant
  <2> QED BY <1>1, <2>1, WithFollows DEF updateLastAssistantMessage
<1>2. CASE ~LastIsAssistant(list)
    BY <1>2, SameFollows DEF updateLastAssistantMessage
<1> QED BY <1>1, <1>2

(* What the handlers make of a message.                                    *)
LEMMA MessageKeeps ==
    ASSUME NEW m \in Message
    PROVE  /\ Keeps(m, [m EXCEPT !.status = "error", !.content = {Failed}])
           /\ m.status # "error" => Keeps(m, [m EXCEPT !.status = "complete"])
           /\ m.status # "error" => \A r, type : Keeps(m, WithChunk(m, r, type))
           /\ Keeps(m, [m EXCEPT !.content = {Typed}])
BY DEF Message, Keeps, WithChunk

(* Errors, chunks, [DONE] and Stop, whatever is the last message.          *)
LEMMA EventsFollow ==
    ASSUME NEW list \in Seq(Message), Distinct(list)
    PROVE  /\ Follows(list, updateAssistantMessageWithError(list), {})
           /\ \A r, type : Follows(list, handleStreamUpdate(list, r, type), {})
           /\ Follows(list, handleStreamComplete(list), {})
           /\ Follows(list, finalizeLast(list), {})
<1> DEFINE last == list[Len(list)]
<1>1. LastIsAssistant(list) => last \in Message
    BY DEF LastIsAssistant
<1>2. Keeps(last, last)
    BY DEF Keeps
<1>3. Unfinished(last) => last.status # "error"
    BY DEF Unfinished
<1>4. Follows(list, updateAssistantMessageWithError(list), {})
  <2>1. LastIsAssistant(list) =>
            Keeps(last, [last EXCEPT !.status = "error", !.content = {Failed}])
    BY <1>1, MessageKeeps
  <2> QED BY <2>1, LastFollows DEF updateAssistantMessageWithError
<1>5. ASSUME NEW r, NEW type PROVE Follows(list, handleStreamUpdate(list, r, type), {})
  <2> DEFINE m == IF last.status = "error" THEN last ELSE WithChunk(last, r, type)
  <2>1. LastIsAssistant(list) => Keeps(last, m)
    BY <1>1, <1>2, MessageKeeps
  <2> HIDE DEF m
  <2>2. Follows(list, updateLastAssistantMessage(list, m), {})
    BY <2>1, LastFollows
  <2> QED BY <2>2 DEF m, handleStreamUpdate
<1>6. Follows(list, handleStreamComplete(list), {})
  <2> DEFINE m == IF last.status \in {"complete", "error"} THEN last
                  ELSE [last EXCEPT !.status = "complete"]
  <2>1. LastIsAssistant(list) => Keeps(last, m)
    BY <1>1, <1>2, MessageKeeps
  <2> HIDE DEF m
  <2>2. Follows(list, updateLastAssistantMessage(list, m), {})
    BY <2>1, LastFollows
  <2> QED BY <2>2 DEF m, handleStreamComplete
<1>7. Follows(list, finalizeLast(list), {})
  <2> DEFINE m == IF Unfinished(last) THEN [last EXCEPT !.status = "complete"] ELSE last
  <2>1. LastIsAssistant(list) => Keeps(last, m)
    BY <1>1, <1>2, <1>3, MessageKeeps
  <2> HIDE DEF m
  <2>2. Follows(list, updateLastAssistantMessage(list, m), {})
    BY <2>1, LastFollows
  <2> QED BY <2>2 DEF m, finalizeLast
<1> QED BY <1>4, <1>5, <1>6, <1>7

(* The keys of the messages of a request that is about to be sent.         *)
LEMMA NewKeys ==
    ASSUME NEW r \in Request
    PROVE  /\ createUserMessage(r).key.request = r
           /\ createLoadingAssistantMessage(r).key.request = r
           /\ createUserMessage(r).key # createLoadingAssistantMessage(r).key
BY DEF createUserMessage, createLoadingAssistantMessage

(* handleSendMessage.                                                      *)
LEMMA SentFollows ==
    ASSUME NEW list \in Seq(Message), Distinct(list), NEW r \in Request,
           \A i \in 1 .. Len(list) : list[i].key.request # r
    PROVE  Follows(list,
                   list \o <<createUserMessage(r), createLoadingAssistantMessage(r)>>, {r})
<1> DEFINE u == createUserMessage(r)
           a == createLoadingAssistantMessage(r)
           new == list \o <<u, a>>
<1>1. u.key.request = r /\ a.key.request = r /\ u.key # a.key
    BY NewKeys
<1> HIDE DEF u, a
<1>2. /\ Len(list) \in Nat
      /\ Len(new) = Len(list) + 2
      /\ \A i \in 1 .. Len(list) : new[i] = list[i]
      /\ new[Len(list) + 1] = u
      /\ new[Len(list) + 2] = a
    OBVIOUS
<1> HIDE DEF new
<1>3. \A j \in 1 .. Len(new) :
        \/ j \in 1 .. Len(list)
        \/ j = Len(list) + 1
        \/ j = Len(list) + 2
    BY <1>2
<1>4. \A j \in 1 .. Len(new) :
        \/ j \in 1 .. Len(list) /\ new[j] = list[j]
        \/ j = Len(list) + 1 /\ new[j] = u
        \/ j = Len(list) + 2 /\ new[j] = a
    BY <1>2, <1>3
<1>5. Distinct(new)
    BY <1>1, <1>4 DEF Distinct
<1>6. Follows(list, new, {r})
    BY <1>1, <1>4, <1>5 DEF Follows, Keeps
<1> QED BY <1>6 DEF new, u, a

(* handleRegenerateMessage and Save & Submit.                              *)
LEMMA AnswerFollows ==
    ASSUME NEW list \in Seq(Message), Distinct(list), NEW r \in Request,
           \A i \in 1 .. Len(list) : list[i].key.request # r,
           NEW n \in Nat, n <= Len(list)
    PROVE  Follows(list,
                   Append(SubSeq(list, 1, n), createLoadingAssistantMessage(r)), {r})
<1> DEFINE a == createLoadingAssistantMessage(r)
           head == SubSeq(list, 1, n)
           new == Append(head, a)
<1>1. a.key.request = r
    BY NewKeys
<1>2. /\ head \in Seq(Message)
      /\ Len(head) = n
      /\ \A i \in 1 .. n : head[i] = list[i]
    OBVIOUS
<1> HIDE DEF a, head
<1>3. /\ Len(new) = n + 1
      /\ \A i \in 1 .. n : new[i] = list[i]
      /\ new[n + 1] = a
    BY <1>2
<1> HIDE DEF new
<1>4. \A j \in 1 .. n : j \in 1 .. Len(list)
    OBVIOUS
<1>5. \A j \in 1 .. Len(new) :
        \/ j \in 1 .. Len(list) /\ new[j] = list[j]
        \/ j = n + 1 /\ new[j] = a
    BY <1>3, <1>4
<1>6. Distinct(new)
    BY <1>1, <1>5 DEF Distinct
<1>7. Follows(list, new, {r})
    BY <1>1, <1>5, <1>6 DEF Follows, Keeps
<1> QED BY <1>7 DEF new, head, a

(* handleDeleteMessage.                                                    *)
LEMMA DeletedFollows ==
    ASSUME NEW list \in Seq(Message), Distinct(list), NEW i \in 1 .. Len(list)
    PROVE  Follows(list, Without(list, i), {})
<1> DEFINE new == Without(list, i)
           At(j) == IF j < i THEN j ELSE j + 1
<1>1. /\ Len(new) = Len(list) - 1 /\ Len(list) \in Nat
      /\ \A j \in 1 .. Len(new) : new[j] = list[At(j)]
    BY WithoutElements
<1> HIDE DEF new
<1>2. \A j \in 1 .. Len(new) : At(j) \in 1 .. Len(list)
    BY <1>1
<1>3. \A j, k \in 1 .. Len(new) : At(j) = At(k) => j = k
    BY <1>1
<1> HIDE DEF At
<1>4. Distinct(new)
    BY <1>1, <1>2, <1>3 DEF Distinct
<1>5. Follows(list, new, {})
    BY <1>1, <1>2, <1>4 DEF Follows, Keeps
<1> QED BY <1>5 DEF new

(* applyEdit.                                                              *)
LEMMA EditedFollows ==
    ASSUME NEW list \in Seq(Message), Distinct(list), NEW i \in 1 .. Len(list)
    PROVE  Follows(list, Edited(list, i), {})
<1>1. list[i] \in Message
    OBVIOUS
<1>2. Keeps(list[i], [list[i] EXCEPT !.content = {Typed}])
    BY <1>1, MessageKeeps
<1> QED BY <1>2, WithFollows DEF Edited

(* sanitizeMessagesOnLoad, on a list that it can choose a message of.      *)
LEMMA SanitizedFollows ==
    ASSUME NEW list, ListOK(list), Distinct(list)
    PROVE  Follows(list, sanitizeMessagesOnLoad(list), {})
<1> DEFINE stuck == {i \in 1 .. Len(list) : IsAssistant(list[i]) /\ Unfinished(list[i])}
           target == CHOOSE i \in stuck : \A j \in stuck : j <= i
           old == list[target]
           m == IF old.content # {} \/ old.reasoning # {}
                THEN [old EXCEPT !.status = "complete"]
                ELSE [old EXCEPT !.status = "error", !.content = {Failed}]
<1>1. CASE stuck = {}
    BY <1>1, SameFollows DEF sanitizeMessagesOnLoad
<1>2. CASE stuck # {}
  <2>1. target \in stuck
    <3>1. /\ Len(list) \in Nat
          /\ \A i \in stuck : i \in 1 .. Len(list) /\ i = Len(list)
        BY ListElements
    <3>2. \E i \in stuck : \A j \in stuck : j <= i
        BY <3>1, <1>2
    <3> QED BY <3>2
  <2>2. target \in 1 .. Len(list) /\ Unfinished(old)
    BY <2>1
  <2>3. sanitizeMessagesOnLoad(list) = With(list, target, m)
    BY <1>2 DEF sanitizeMessagesOnLoad
  <2> HIDE DEF stuck, target
  <2>4. old \in Message /\ old.status # "error" /\ list \in Seq(Message)
    BY <2>2, ListElements DEF Unfinished
  <2>5. Keeps(old, m)
    BY <2>4, MessageKeeps
  <2> HIDE DEF m
  <2>6. Keeps(list[target], m)
    BY <2>5
  <2> QED BY <2>2, <2>3, <2>4, <2>6, WithFollows
<1> QED BY <1>1, <1>2

(* What a step other than a reload does to the lists: the new one follows  *)
(* the old one, messages are made for a request that was not sent before,  *)
(* and the page and the storage show one of the lists there are.           *)
Step(fresh) ==
    /\ Follows(messages, messages', fresh)
    /\ fresh \subseteq Request
    /\ \A q \in fresh : source[q] = "new" /\ source'[q] # "new"
    /\ \A q \in Request : source[q] # "new" => source'[q] # "new"
    /\ rendered' \in {rendered, messages, messages'}
    /\ stored' \in {stored, messages, messages'}

LEMMA SourcesAge ==
    ASSUME TypeOK, NEW r \in Request, NEW st \in {"open", "silent", "closed"},
           source' = [source EXCEPT ![r] = st]
    PROVE  /\ source'[r] # "new"
           /\ \A q \in Request : source[q] # "new" => source'[q] # "new"
BY DEF TypeOK

(* sendChat with a list that was made from the one on an idle page.        *)
LEMMA SendSteps ==
    ASSUME ChatInv, KeyInv, NEW r \in Request, Fresh(r), NEW list \in Seq(Message),
           Follows(messages, list, {r}), sendChat(list, r)
    PROVE  Step({r})
<1>1. Follows(messages, messages', {r})
  <2>1. Distinct(list)
    BY DEF Follows
  <2>2. Follows(list, updateAssistantMessageWithError(list), {})
    BY <2>1, EventsFollow
  <2>3. Follows(messages, updateAssistantMessageWithError(list), {r})
    BY <2>2, FollowsChain
  <2> QED BY <2>3 DEF sendChat
<1>2. \/ source' = [source EXCEPT ![r] = "open"]
      \/ source' = [source EXCEPT ![r] = "closed"]
    BY DEF sendChat
<1>3. TypeOK
    BY DEF ChatInv
<1>4. /\ source'[r] # "new"
      /\ \A q \in Request : source[q] # "new" => source'[q] # "new"
    BY <1>2, <1>3, SourcesAge
<1>5. rendered' = messages' /\ stored' \in {stored, messages'} /\ source[r] = "new"
    BY DEF sendChat, RenderWith, saveMessages, Fresh
<1> QED BY <1>1, <1>4, <1>5 DEF Step

(* The list of an idle page, and the keys it does not hold yet.            *)
LEMMA IdleKeys ==
    ASSUME ChatInv, KeyInv, ~generating
    PROVE  /\ rendered = messages /\ rendered \in Seq(Message) /\ Distinct(rendered)
           /\ DOMAIN rendered = 1 .. Len(rendered) /\ Len(rendered) \in Nat
           /\ \A r : Fresh(r) => \A i \in 1 .. Len(rendered) : rendered[i].key.request # r
<1>1. rendered = messages /\ ListOK(rendered)
    BY IdlePage
<1>2. rendered \in Seq(Message) /\ DOMAIN rendered = 1 .. Len(rendered) /\ Len(rendered) \in Nat
    BY <1>1, ListElements
<1> QED BY <1>1, <1>2 DEF KeyInv, KeysOK, Fresh

LEMMA SendToSteps ==
    ASSUME ChatInv, KeyInv, ~generating, NEW r \in Request, SendTo(r)
    PROVE  Step({r})
<1> DEFINE list == rendered \o <<createUserMessage(r), createLoadingAssistantMessage(r)>>
<1>1. Fresh(r) /\ sendChat(list, r)
    BY DEF SendTo
<1>2. Follows(messages, list, {r})
    BY <1>1, IdleKeys, SentFollows
<1>3. list \in Seq(Message)
    BY IdleKeys, NewMessages
<1> HIDE DEF list
<1> QED BY <1>1, <1>2, <1>3, SendSteps

LEMMA RegenerateSteps ==
    ASSUME ChatInv, KeyInv, NEW r \in Request, NEW i, handleRegenerateMessage(i, r)
    PROVE  Step({r})
<1> DEFINE list == Append(SubSeq(rendered, 1, i - 1), createLoadingAssistantMessage(r))
<1>1. /\ ~generating /\ i \in DOMAIN rendered
      /\ Fresh(r) /\ sendChat(list, r)
    BY DEF handleRegenerateMessage, MessageActions, Guarded
<1>2. /\ rendered \in Seq(Message) /\ Len(rendered) \in Nat /\ i \in 1 .. Len(rendered)
      /\ rendered = messages /\ Distinct(rendered)
      /\ \A j \in 1 .. Len(rendered) : rendered[j].key.request # r
    BY <1>1, IdleKeys
<1>3. i - 1 \in Nat /\ i - 1 <= Len(rendered)
    BY <1>2
<1>4. Follows(messages, list, {r})
    BY <1>2, <1>3, AnswerFollows
<1>5. list \in Seq(Message)
    BY <1>2, <1>3, NewMessages
<1> HIDE DEF list
<1> QED BY <1>1, <1>4, <1>5, SendSteps

LEMMA SubmitSteps ==
    ASSUME Careful, ChatInv, KeyInv, NEW r \in Request, NEW i, submitEdit(i, r)
    PROVE  Step({r})
<1> DEFINE edited == Edited(rendered, i)
           list == Append(SubSeq(edited, 1, i), createLoadingAssistantMessage(r))
<1>1. /\ ~generating /\ i \in DOMAIN rendered
      /\ Fresh(r) /\ sendChat(list, r)
    BY DEF submitEdit, Unguarded
<1>2. /\ rendered \in Seq(Message) /\ Len(rendered) \in Nat /\ i \in 1 .. Len(rendered)
      /\ rendered = messages /\ Distinct(rendered)
      /\ \A j \in 1 .. Len(rendered) : rendered[j].key.request # r
    BY <1>1, IdleKeys
<1>3. Follows(rendered, edited, {})
    BY <1>2, EditedFollows
<1>4. edited \in Seq(Message) /\ Len(edited) = Len(rendered)
  <2>1. ListOK(rendered) /\ Finished(rendered)
    BY <1>1, IdlePage
  <2> QED BY <2>1, <1>2, EditedList DEF ListOK
<1> HIDE DEF edited
<1>5. Distinct(edited) /\ \A j \in 1 .. Len(edited) : edited[j].key.request # r
  <2>1. \A j \in 1 .. Len(edited) : \E k \in 1 .. Len(rendered) : Keeps(rendered[k], edited[j])
    BY <1>3 DEF Follows
  <2> QED BY <2>1, <1>2, <1>3 DEF Follows, Keeps
<1>6. i \in Nat /\ i <= Len(edited)
    BY <1>2, <1>4
<1>7. Follows(edited, list, {r})
    BY <1>4, <1>5, <1>6, AnswerFollows
<1>8. list \in Seq(Message)
    BY <1>4, <1>6, NewMessages
<1> HIDE DEF list
<1>9. Follows(messages, list, {r})
    BY <1>2, <1>3, <1>7, FollowsAfter
<1> QED BY <1>1, <1>8, <1>9, SendSteps

(* The buttons that send nothing, on an idle page.                         *)
LEMMA ReplaceSteps ==
    ASSUME Careful, ChatInv, KeyInv, NEW i \in DOMAIN rendered,
           handleDeleteMessage(i) \/ applyEdit(i)
    PROVE  Step({})
<1>1. /\ ~generating
      /\ messages' = Without(rendered, i) \/ messages' = Edited(rendered, i)
      /\ rendered' = messages' /\ stored' \in {stored, messages'} /\ source' = source
    BY DEF handleDeleteMessage, applyEdit, MessageActions, Guarded, Unguarded,
           RenderWith, saveMessages
<1>2. /\ rendered = messages /\ rendered \in Seq(Message) /\ Distinct(rendered)
      /\ i \in 1 .. Len(rendered)
    BY <1>1, IdleKeys
<1>3. Follows(rendered, messages', {})
    BY <1>1, <1>2, DeletedFollows, EditedFollows
<1> QED BY <1>1, <1>2, <1>3 DEF Step

(* Stop, and the events of a source.                                       *)
LEMMA EventSteps ==
    ASSUME ChatInv, KeyInv, NEW r \in Request,
           \/ stopGeneration
           \/ \E type \in {"content", "reasoning"} : Chunk(r, type)
           \/ ParseError(r) \/ ErrorEvent(r) \/ Failure(r) \/ Done(r)
    PROVE  Step({})
<1>1. messages \in Seq(Message) /\ Distinct(messages) /\ TypeOK
    BY DEF ChatInv, TypeOK, KeyInv, KeysOK
<1>2. Follows(messages, messages, {})
    BY <1>1, SameFollows
<1>3. CASE stopGeneration
  <2>1. /\ source' = [q \in Request |-> IF q = ref THEN "closed" ELSE source[q]]
        /\ messages' = finalizeLast(messages)
        /\ rendered' \in {rendered, messages'} /\ stored' \in {stored, messages'}
    BY <1>3 DEF stopGeneration, RenderWith, saveMessages
  <2>2. Follows(messages, messages', {})
    BY <2>1, <1>1, EventsFollow
  <2> QED BY <2>1, <2>2 DEF Step
<1>4. CASE \E type \in {"content", "reasoning"} : Chunk(r, type)
  <2>1. PICK type \in {"content", "reasoning"} : Chunk(r, type)
    BY <1>4
  <2>2. /\ messages' = handleStreamUpdate(messages, r, type)
        /\ UNCHANGED <<rendered, source, stored>>
    BY <2>1 DEF Chunk
  <2>3. Follows(messages, messages', {})
    BY <2>2, <1>1, EventsFollow
  <2> QED BY <2>2, <2>3 DEF Step
<1>5. CASE ParseError(r) \/ ErrorEvent(r) \/ Failure(r)
  <2>1. handleError(r) /\ UNCHANGED <<rendered, stored>>
    BY <1>5 DEF ParseError, ErrorEvent, Failure
  <2>2. CASE complete
    BY <2>1, <2>2, <1>2 DEF handleError, Step
  <2>3. CASE ~complete
    <3>1. /\ messages' = updateAssistantMessageWithError(messages)
          /\ source' = [source EXCEPT ![r] = "closed"]
        BY <2>1, <2>3 DEF handleError, closeSource
    <3>2. Follows(messages, messages', {})
        BY <3>1, <1>1, EventsFollow
    <3>3. \A q \in Request : source[q] # "new" => source'[q] # "new"
        BY <3>1, <1>1, SourcesAge
    <3> QED BY <3>2, <3>3, <2>1 DEF Step
  <2> QED BY <2>2, <2>3
<1>6. CASE Done(r)
  <2>1. /\ messages' = handleStreamComplete(messages)
        /\ source' = [source EXCEPT ![r] = "closed"]
        /\ UNCHANGED <<rendered, stored>>
    BY <1>6 DEF Done, closeSource
  <2>2. Follows(messages, messages', {})
    BY <2>1, <1>1, EventsFollow
  <2>3. \A q \in Request : source[q] # "new" => source'[q] # "new"
    BY <2>1, <1>1, SourcesAge
  <2> QED BY <2>1, <2>2, <2>3 DEF Step
<1> QED BY <1>3, <1>4, <1>5, <1>6

(* Steps that leave the list as it is.                                     *)
LEMMA QuietSteps ==
    ASSUME ChatInv, KeyInv,
           \/ \E i \in DOMAIN rendered : handleEditMessage(i)
           \/ handleEditOpenChange \/ EndBatch \/ Render \/ UNCHANGED vars
           \/ \E r \in Request : SilentEnd(r)
    PROVE  Step({})
<1>1. Follows(messages, messages, {}) /\ TypeOK
    BY SameFollows DEF ChatInv, KeyInv, KeysOK
<1>2. messages' = messages
    BY DEF handleEditMessage, handleEditOpenChange, EndBatch, Render, vars, SilentEnd
<1>3. rendered' \in {rendered, messages} /\ stored' \in {stored, messages}
    BY DEF handleEditMessage, handleEditOpenChange, EndBatch, Render, vars, SilentEnd,
           RenderWith, saveMessages
<1>4. \A q \in Request : source[q] # "new" => source'[q] # "new"
  <2>1. CASE source' = source
    BY <2>1
  <2>2. CASE \E r \in Request : SilentEnd(r)
    BY <2>2, <1>1, SourcesAge DEF SilentEnd
  <2> QED BY <2>1, <2>2
        DEF handleEditMessage, handleEditOpenChange, EndBatch, Render, vars
<1> QED BY <1>1, <1>2, <1>3, <1>4 DEF Step

(* Every step that is not a reload.                                        *)
LEMMA NextSteps ==
    ASSUME Careful, ChatInv, KeyInv, [Next]_vars, ~loadMessages
    PROVE  \E fresh \in SUBSET Request : Step(fresh)
<1>1. ASSUME NEW r \in Request, handleSendMessage(r) \/ handleSuggestionClick(r)
      PROVE  Step({r})
  <2>1. ~generating /\ SendTo(r)
    BY <1>1 DEF handleSendMessage, handleSuggestionClick, Guarded, Unguarded
  <2> QED BY <2>1, SendToSteps
<1>2. ASSUME NEW r \in Request, NEW i \in DOMAIN rendered,
             handleRegenerateMessage(i, r) \/ submitEdit(i, r)
      PROVE  Step({r})
    BY <1>2, RegenerateSteps, SubmitSteps
<1>3. ASSUME NEW r \in Request,
             \/ \E type \in {"content", "reasoning"} : Chunk(r, type)
             \/ ParseError(r) \/ ErrorEvent(r) \/ Failure(r) \/ Done(r)
      PROVE  Step({})
    BY <1>3, EventSteps
<1>4. CASE stopGeneration
  <2>1. 1 \in Request
    BY MaxRequestsAssumption DEF Request
  <2> QED BY <1>4, <2>1, EventSteps
<1>5. ASSUME NEW i \in DOMAIN rendered, handleDeleteMessage(i) \/ applyEdit(i)
      PROVE  Step({})
    BY <1>5, ReplaceSteps
<1>6. CASE \/ \E i \in DOMAIN rendered : handleEditMessage(i)
           \/ handleEditOpenChange \/ EndBatch \/ Render \/ UNCHANGED vars
           \/ \E r \in Request : SilentEnd(r)
    BY <1>6, QuietSteps
<1> HIDE DEF Step
<1> QED BY <1>1, <1>2, <1>3, <1>4, <1>5, <1>6 DEF Next, StreamEnds

(* Every list keeps its keys.                                              *)
LEMMA NextKeepsKeys ==
    ASSUME Careful, ChatInv, KeyInv, [Next]_vars
    PROVE  KeyInv'
<1>1. /\ ListOK(messages) /\ ListOK(rendered) /\ ListOK(stored)
      /\ KeysOK(messages, source) /\ KeysOK(rendered, source) /\ KeysOK(stored, source)
    BY DEF ChatInv, KeyInv
<1>2. CASE loadMessages
  <2>1. /\ messages' = sanitizeMessagesOnLoad(stored)
        /\ rendered' = messages' /\ stored' \in {stored, messages'}
        /\ source' = [r \in Request |-> IF source[r] = "new" THEN "new" ELSE "closed"]
    BY <1>2 DEF loadMessages, RenderWith, saveMessages
  <2>2. Follows(stored, messages', {}) /\ Follows(stored, stored, {})
    BY <2>1, <1>1, SanitizedFollows, SameFollows DEF KeysOK
  <2>3. \A q \in Request : source[q] # "new" => source'[q] # "new"
    BY <2>1
  <2>4. KeysOK(messages', source') /\ KeysOK(stored, source')
    BY <2>2, <2>3, <1>1, FollowsKeepsKeys
  <2> QED BY <2>1, <2>4 DEF KeyInv
<1>3. CASE ~loadMessages
  <2>1. PICK fresh \in SUBSET Request : Step(fresh)
    BY <1>3, NextSteps
  <2>2. /\ Follows(messages, messages', fresh)
        /\ \A q \in fresh : source'[q] # "new"
        /\ \A q \in Request : source[q] # "new" => source'[q] # "new"
        /\ rendered' \in {rendered, messages, messages'}
        /\ stored' \in {stored, messages, messages'}
    BY <2>1 DEF Step
  <2>3. KeysOK(messages', source')
    BY <2>2, <1>1, FollowsKeepsKeys
  <2>4. Follows(messages, messages, {}) /\ Follows(rendered, rendered, {})
        /\ Follows(stored, stored, {})
    BY <1>1, SameFollows DEF KeysOK
  <2>5. KeysOK(messages, source') /\ KeysOK(rendered, source') /\ KeysOK(stored, source')
    BY <2>2, <2>4, <1>1, FollowsKeepsKeys
  <2> QED BY <2>2, <2>3, <2>5 DEF KeyInv
<1> QED BY <1>2, <1>3

(* No chunk, [DONE], Stop, edit or new request turns a failed answer into  *)
(* another one, for any number of requests of a user who is careful.       *)
THEOREM FailuresStay ==
    ASSUME Careful
    PROVE  Spec => FailedStaysFailed
<1>1. Init => ChatInv /\ KeyInv
  <2>1. Init => KeyInv
    BY DEF Init, KeyInv, KeysOK, Distinct
  <2> QED BY <2>1, InitHasInv
<1>2. ChatInv /\ KeyInv /\ [Next]_vars => (ChatInv /\ KeyInv)'
    BY NextKeepsInv, NextKeepsKeys
<1>3. ChatInv /\ KeyInv /\ [Next]_vars =>
        [~loadMessages =>
           \A i \in DOMAIN messages, j \in DOMAIN messages' :
             /\ messages[i].status = "error"
             /\ messages'[j].key = messages[i].key
             => messages'[j].status = "error"]_vars
  <2> SUFFICES ASSUME ChatInv, KeyInv, [Next]_vars, ~loadMessages,
                      NEW i \in DOMAIN messages, NEW j \in DOMAIN messages',
                      messages[i].status = "error",
                      messages'[j].key = messages[i].key
               PROVE  messages'[j].status = "error"
    OBVIOUS
  <2>1. PICK fresh \in SUBSET Request : Step(fresh)
    BY NextSteps
  <2>2. /\ Follows(messages, messages', fresh)
        /\ \A q \in fresh : source[q] = "new"
    BY <2>1 DEF Step
  <2>3. Distinct(messages) /\ \A k \in 1 .. Len(messages) : source[messages[k].key.request] # "new"
    BY DEF KeyInv, KeysOK
  <2>4. \A k \in 1 .. Len(messages) : messages[k].key.request \notin fresh
    BY <2>2, <2>3
  <2>5. i \in 1 .. Len(messages)
    BY ListElements DEF ChatInv
  <2>6. j \in 1 .. Len(messages')
    <3>1. ChatInv'
        BY NextKeepsInv
    <3>2. ListOK(messages')
        BY <3>1 DEF ChatInv
    <3> QED BY <3>2, ListElements
  <2> QED BY <2>2, <2>3, <2>4, <2>5, <2>6, FollowsKeepsFailure
<1>4. Spec => [](ChatInv /\ KeyInv)
    BY <1>1, <1>2, PTL DEF Spec
<1> QED BY <1>3, <1>4, PTL DEF Spec, FailedStaysFailed

=============================================================================
