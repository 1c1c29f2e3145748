-------------------------- MODULE PlaygroundProofs --------------------------
(***************************************************************************)
(* Proofs about Playground, for any number of requests, clicks and chunks, *)
(* any tokens and any storage limit: the inductive invariant, the safety   *)
(* properties it implies, and that a finished answer is final.             *)
(***************************************************************************)
EXTENDS Playground, TLAPS

-----------------------------------------------------------------------------
(* Messages.                                                               *)

Word == Range(Token) \cup {"edited", "failed", "prompt"}

\* A message, field by field, and the ones the code derives from it.
LEMMA MessageFields ==
  ASSUME NEW m \in Message
  PROVE  /\ m.key \in Key /\ m.from \in {"user", "assistant"}
         /\ m.status \in {"none", "loading", "streaming", "complete", "error"}
         /\ m.text \in [Channel -> Seq(Word)] /\ m.req \in 0..MaxRequests
         /\ m.key \in Nat /\ m.req \in Nat
<1>1. /\ m.key \in Key /\ m.from \in {"user", "assistant"}
      /\ m.status \in {"none", "loading", "streaming", "complete", "error"}
      /\ m.text \in [Channel -> Seq(Word)] /\ m.req \in 0..MaxRequests
  BY DEF Message, Word
<1>2. Key \subseteq Nat /\ 0..MaxRequests \subseteq Nat
  BY PlaygroundAssumption DEF Key
<1>q. QED
  BY <1>1, <1>2

\* The same message with another status and text.
Revised(m, status, text) == [m EXCEPT !.status = status, !.text = text]

\* A message with another status and another text.
LEMMA RevisedFields ==
  ASSUME NEW m \in Message,
         NEW status \in {"none", "loading", "streaming", "complete", "error"},
         NEW text \in [Channel -> Seq(Word)]
  PROVE  LET n == Revised(m, status, text) IN
         /\ n \in Message /\ n.key = m.key /\ n.from = m.from /\ n.req = m.req
         /\ n.status = status /\ n.text = text
  BY DEF Revised, Message, Word

\* The channels of a text.
LEMMA ChannelTexts ==
  ASSUME NEW S, NEW t \in [Channel -> Seq(S)], NEW c \in Channel, NEW x \in Seq(S)
  PROVE  /\ t[c] \in Seq(S)
         /\ [t EXCEPT ![c] = x] \in [Channel -> Seq(S)]
         /\ [t EXCEPT ![c] = x][c] = x
         /\ \A d \in Channel \ {c} : [t EXCEPT ![c] = x][d] = t[d]
  BY Zenon

\* The text of a message that waits.
LEMMA EmptyText ==
  /\ \A S : NoText \in [Channel -> Seq(S)]
  /\ \A c \in Channel : NoText[c] = <<>>
  BY DEF NoText

\* What a chunk adds.
LEMMA AppendableType ==
  ASSUME NEW a \in Seq(Word), NEW b \in Seq(Range(Token))
  PROVE  /\ getAppendableChunk(a, b) \in Seq(Range(Token))
         /\ a \o getAppendableChunk(a, b) \in Seq(Word)
<1>1. SubSeq(b, Len(a) + 1, Len(b)) \in Seq(Range(Token))
  OBVIOUS
<1>2. getAppendableChunk(a, b) \in Seq(Range(Token))
  BY <1>1 DEF getAppendableChunk
<1>3. getAppendableChunk(a, b) \in Seq(Word)
  BY <1>2 DEF Word
<1>q. QED
  BY <1>2, <1>3

\* A chunk is appended to one channel of a message that did not fail.
LEMMA ApplyChunkFields ==
  ASSUME NEW m \in Message, NEW c \in Channel, NEW chunk \in Seq(Range(Token))
  PROVE  LET n == ApplyChunk(m, c, chunk) IN
         /\ n \in Message /\ n.key = m.key /\ n.from = m.from /\ n.req = m.req
         /\ n.status = IF chunk = <<>> \/ m.status = "error" THEN m.status
                       ELSE "streaming"
         /\ n.text[c] = IF chunk = <<>> \/ m.status = "error" THEN m.text[c]
                        ELSE m.text[c] \o getAppendableChunk(m.text[c], chunk)
         /\ \A d \in Channel \ {c} : n.text[d] = m.text[d]
<1>1. CASE chunk = <<>> \/ m.status = "error"
  BY <1>1 DEF ApplyChunk
<1>2. CASE ~(chunk = <<>> \/ m.status = "error")
  <2> DEFINE x == m.text[c] \o getAppendableChunk(m.text[c], chunk)
             t == [m.text EXCEPT ![c] = x]
  <2>1. m.text \in [Channel -> Seq(Word)]
    BY MessageFields
  <2>2. x \in Seq(Word)
    BY <2>1, AppendableType
  <2>3. /\ t \in [Channel -> Seq(Word)] /\ t[c] = x
        /\ \A d \in Channel \ {c} : t[d] = m.text[d]
    BY <2>1, <2>2, ChannelTexts
  <2>4. ApplyChunk(m, c, chunk) = [m EXCEPT !.status = "streaming", !.text[c] = x]
    BY <1>2 DEF ApplyChunk
  <2>5. [m EXCEPT !.status = "streaming", !.text[c] = x] = Revised(m, "streaming", t)
    BY DEF Revised, Message
  <2> HIDE DEF t
  <2> DEFINE n == ApplyChunk(m, c, chunk)
  <2>a. n = Revised(m, "streaming", t)
    BY <2>4, <2>5
  <2> HIDE DEF n, x
  <2>6. /\ n \in Message /\ n.key = m.key /\ n.from = m.from /\ n.req = m.req
        /\ n.status = "streaming" /\ n.text = t
    BY <2>3, <2>a, RevisedFields
  <2>7. n.text[c] = x /\ \A d \in Channel \ {c} : n.text[d] = m.text[d]
    BY <2>3, <2>6
  <2>8. /\ n.status = IF chunk = <<>> \/ m.status = "error" THEN m.status
                       ELSE "streaming"
        /\ n.text[c] = IF chunk = <<>> \/ m.status = "error" THEN m.text[c] ELSE x
    BY <1>2, <2>6, <2>7
  <2>q. QED
    BY <2>6, <2>7, <2>8 DEF n, x
<1>q. QED
  BY <1>1, <1>2

\* A prefix, element by element.
LEMMA PrefixElements ==
  ASSUME NEW S, NEW a \in Seq(S), NEW b \in Seq(S)
  PROVE  IsPrefix(a, b) <=> Len(a) <= Len(b) /\ \A i \in 1..Len(a) : a[i] = b[i]
<1>1. CASE Len(a) <= Len(b)
  <2>1. /\ SubSeq(a, 1, Len(a)) = [i \in 1..Len(a) |-> a[i]]
        /\ SubSeq(b, 1, Len(a)) = [i \in 1..Len(a) |-> b[i]]
    BY <1>1
  <2>q. QED
    BY <1>1, <2>1 DEF IsPrefix
<1>2. CASE ~(Len(a) <= Len(b))
  BY <1>2 DEF IsPrefix
<1>q. QED
  BY <1>1, <1>2

\* A text and what goes on from it.
LEMMA PrefixRest ==
  ASSUME NEW S, NEW a \in Seq(S), NEW b \in Seq(S), IsPrefix(a, b)
  PROVE  a \o SubSeq(b, Len(a) + 1, Len(b)) = b
<1>1. Len(a) <= Len(b) /\ \A i \in 1..Len(a) : a[i] = b[i]
  BY PrefixElements
<1> DEFINE rest == SubSeq(b, Len(a) + 1, Len(b))
<1>2. /\ rest \in Seq(S) /\ Len(rest) = Len(b) - Len(a)
      /\ \A i \in 1..Len(rest) : rest[i] = b[Len(a) + i]
  BY <1>1
<1> HIDE DEF rest
<1>3. a \o rest \in Seq(S) /\ Len(a \o rest) = Len(b)
  BY <1>1, <1>2
<1>4. \A i \in 1..Len(b) : (a \o rest)[i] = b[i]
  BY SMTT(30), <1>1, <1>2
<1>q. QED
  BY <1>3, <1>4 DEF rest

\* A text that grows keeps its prefixes.
LEMMA PrefixGrows ==
  ASSUME NEW S, NEW a \in Seq(S), NEW b \in Seq(S), NEW x \in S
  PROVE  /\ IsPrefix(a, b) => IsPrefix(a, Append(b, x))
         /\ IsPrefix(b, Append(b, x))
         /\ IsPrefix(a, <<>>) => a = <<>>
<1> DEFINE y == Append(b, x)
<1>1. /\ y \in Seq(S) /\ Len(y) = Len(b) + 1
      /\ \A i \in 1..Len(b) : y[i] = b[i]
  OBVIOUS
<1> HIDE DEF y
<1>2. IsPrefix(a, b) => IsPrefix(a, y)
  <2>1. IsPrefix(a, b) => Len(a) <= Len(b) /\ \A i \in 1..Len(a) : a[i] = b[i]
    BY PrefixElements
  <2>2. Len(a) <= Len(b) => \A i \in 1..Len(a) : i \in 1..Len(b)
    OBVIOUS
  <2>3. IsPrefix(a, b) => Len(a) <= Len(y) /\ \A i \in 1..Len(a) : a[i] = y[i]
    BY <1>1, <2>1, <2>2
  <2>q. QED
    BY <1>1, <2>3, PrefixElements
<1>3. IsPrefix(b, y)
  <2>1. Len(b) <= Len(y) /\ \A i \in 1..Len(b) : b[i] = y[i]
    BY <1>1
  <2>q. QED
    BY <1>1, <2>1, PrefixElements
<1>4. IsPrefix(a, <<>>) => a = <<>>
  BY DEF IsPrefix
<1>q. QED
  BY <1>2, <1>3, <1>4 DEF y

\* What a chunk adds is nothing for no chunk, all of it unless it repeats the
\* text, and what goes on from the text if it does.
LEMMA AppendableCases ==
  ASSUME NEW a \in Seq(Word), NEW b \in Seq(Range(Token))
  PROVE  /\ b = <<>> => a \o getAppendableChunk(a, b) = a
         /\ ~Repeats(a, b) => a \o getAppendableChunk(a, b) = a \o b
         /\ IsPrefix(a, b) => a \o getAppendableChunk(a, b) = b
<1>0. b \in Seq(Word)
  BY DEF Word
<1>1. ~Repeats(a, b) => getAppendableChunk(a, b) = b
  BY DEF getAppendableChunk
<1>2. Repeats(a, <<>>) => FALSE
  BY DEF Repeats, IsPrefix
<1>3. a \o <<>> = a
  OBVIOUS
<1>4. ASSUME IsPrefix(a, b)
      PROVE  a \o getAppendableChunk(a, b) = b
  <2>1. CASE a = <<>>
    BY <2>1, <1>1, <1>0 DEF Repeats
  <2>2. CASE a # <<>>
    <3>1. getAppendableChunk(a, b) = SubSeq(b, Len(a) + 1, Len(b))
      BY <2>2, <1>4 DEF getAppendableChunk, Repeats
    <3>q. QED
      BY <3>1, <1>0, <1>4, PrefixRest
  <2>q. QED
    BY <2>1, <2>2
<1>q. QED
  BY <1>1, <1>2, <1>3, <1>4

\* A text with the chunks that wait for the flush timer.
Joined(text, pending) ==
    [c \in Channel |-> text[c] \o getAppendableChunk(text[c], pending[c])]

\* The chunks that wait join a text; none of them leave it as it is.
LEMMA JoinedType ==
  ASSUME NEW t \in [Channel -> Seq(Word)], NEW p \in [Channel -> Seq(Range(Token))]
  PROVE  Joined(t, p) \in [Channel -> Seq(Word)] /\ Joined(t, NoText) = t
<1>1. \A c \in Channel : t[c] \o getAppendableChunk(t[c], p[c]) \in Seq(Word)
  BY AppendableType
<1>2. \A c \in Channel : t[c] \o getAppendableChunk(t[c], NoText[c]) = t[c]
  <2> TAKE c \in Channel
  <2>1. NoText[c] = <<>> /\ <<>> \in Seq(Range(Token)) /\ t[c] \in Seq(Word)
    BY EmptyText
  <2>q. QED
    BY <2>1, AppendableCases
<1>3. Joined(t, NoText) = [c \in Channel |-> t[c]]
  BY <1>2 DEF Joined
<1>q. QED
  BY <1>1, <1>3 DEF Joined

\* A flush appends to both channels of a message that did not fail.
LEMMA ApplyFields ==
  ASSUME NEW m \in Message, NEW p \in [Channel -> Seq(Range(Token))]
  PROVE  LET n == applyStreamingChunk(m, p) IN
         /\ n \in Message /\ n.key = m.key /\ n.from = m.from /\ n.req = m.req
         /\ n.status = IF p = NoText \/ m.status = "error" THEN m.status
                       ELSE "streaming"
         /\ n.text = IF m.status = "error" THEN m.text ELSE Joined(m.text, p)
<1> DEFINE r == ApplyChunk(m, "reasoning", p["reasoning"])
           n == ApplyChunk(r, "content", p["content"])
<1>0. /\ p["reasoning"] \in Seq(Range(Token)) /\ p["content"] \in Seq(Range(Token))
      /\ "reasoning" \in Channel /\ "content" \in Channel
      /\ \A c \in Channel : c = "reasoning" \/ c = "content"
  BY DEF Channel
<1>1. /\ r \in Message /\ r.key = m.key /\ r.from = m.from /\ r.req = m.req
      /\ r.status = IF p["reasoning"] = <<>> \/ m.status = "error" THEN m.status
                    ELSE "streaming"
      /\ r.text["reasoning"]
           = IF p["reasoning"] = <<>> \/ m.status = "error" THEN m.text["reasoning"]
             ELSE m.text["reasoning"] \o getAppendableChunk(m.text["reasoning"], p["reasoning"])
      /\ r.text["content"] = m.text["content"]
  BY <1>0, ApplyChunkFields
<1> HIDE DEF r
<1>2. /\ n \in Message /\ n.key = r.key /\ n.from = r.from /\ n.req = r.req
      /\ n.status = IF p["content"] = <<>> \/ r.status = "error" THEN r.status
                    ELSE "streaming"
      /\ n.text["content"]
           = IF p["content"] = <<>> \/ r.status = "error" THEN r.text["content"]
             ELSE r.text["content"] \o getAppendableChunk(r.text["content"], p["content"])
      /\ n.text["reasoning"] = r.text["reasoning"]
  BY <1>0, <1>1, ApplyChunkFields
<1> HIDE DEF n
<1>3. n.text \in [Channel -> Seq(Word)] /\ m.text \in [Channel -> Seq(Word)]
  BY <1>2, MessageFields
<1>4. r.status = "error" <=> m.status = "error"
  BY <1>1
<1>5. p = NoText <=> p["reasoning"] = <<>> /\ p["content"] = <<>>
  BY <1>0 DEF NoText
<1>6. n.status = IF p = NoText \/ m.status = "error" THEN m.status ELSE "streaming"
  BY <1>1, <1>2, <1>4, <1>5
<1>7. CASE m.status = "error"
  <2>1. \A c \in Channel : n.text[c] = m.text[c]
    BY <1>7, <1>0, <1>1, <1>2, <1>4
  <2>2. n.text = m.text
    BY <2>1, <1>3
  <2>q. QED
    BY <2>2, <1>1, <1>2, <1>6, <1>7 DEF applyStreamingChunk, n, r
<1>8. CASE m.status # "error"
  <2>0. \A c \in Channel : p[c] = <<>> => m.text[c] \o getAppendableChunk(m.text[c], p[c]) = m.text[c]
    BY <1>3, AppendableCases
  <2>1. \A c \in Channel : n.text[c] = m.text[c] \o getAppendableChunk(m.text[c], p[c])
    BY <1>8, <1>0, <1>1, <1>2, <1>4, <2>0
  <2>2. n.text = Joined(m.text, p)
    BY <2>1, <1>3 DEF Joined
  <2>q. QED
    BY <2>2, <1>1, <1>2, <1>6, <1>8 DEF applyStreamingChunk, n, r
<1>q. QED
  BY <1>7, <1>8

-----------------------------------------------------------------------------
(* Conversations.                                                          *)

\* Conversation with the next key and the next request as parameters.
Conv(msgs, K, R) ==
    \A i \in DOMAIN msgs :
        /\ msgs[i].key < K /\ msgs[i].req < R
        /\ \A j \in DOMAIN msgs : msgs[i].key = msgs[j].key => i = j
        /\ isAssistantMessagePending(msgs[i]) => i = Len(msgs)
        /\ msgs[i].from = "user" <=> msgs[i].status = "none"
        /\ msgs[i].from = "user" => msgs[i].req = 0

\* The conversation with another last message, if the last one is an answer.
SetLast(msgs, m) ==
    IF EndsWithAssistant(msgs) THEN [msgs EXCEPT ![Len(msgs)] = m] ELSE msgs

\* The element of a conversation at a place.
LEMMA Elements ==
  ASSUME NEW S, NEW msgs \in Seq(S)
  PROVE  /\ Len(msgs) \in Nat /\ DOMAIN msgs = 1..Len(msgs)
         /\ \A i \in DOMAIN msgs : i \in Nat /\ msgs[i] \in S
         /\ msgs # <<>> => Len(msgs) \in DOMAIN msgs /\ Last(msgs) \in S
         /\ msgs # <<>> => Len(msgs) >= 1
  BY DEF Last

\* What replacing the last message does.
LEMMA SetLastFields ==
  ASSUME NEW msgs \in Seq(Message), NEW m \in Message
  PROVE  LET n == SetLast(msgs, m) IN
         /\ n \in Seq(Message) /\ Len(n) = Len(msgs) /\ DOMAIN n = DOMAIN msgs
         /\ \A i \in DOMAIN msgs : i # Len(msgs) => n[i] = msgs[i]
         /\ EndsWithAssistant(msgs) =>
              /\ Len(msgs) \in DOMAIN msgs /\ n[Len(msgs)] = m /\ Last(n) = m /\ n # <<>>
              /\ Last(msgs) \in Message /\ Last(msgs).from = "assistant"
         /\ ~EndsWithAssistant(msgs) => n = msgs
<1>1. CASE ~EndsWithAssistant(msgs)
  BY <1>1 DEF SetLast
<1>2. CASE EndsWithAssistant(msgs)
  <2>0. /\ msgs # <<>> /\ Last(msgs) \in Message /\ Last(msgs).from = "assistant"
        /\ Len(msgs) \in DOMAIN msgs /\ Len(msgs) \in Nat /\ DOMAIN msgs = 1..Len(msgs)
    BY <1>2, Elements DEF EndsWithAssistant
  <2> DEFINE n == [msgs EXCEPT ![Len(msgs)] = m]
  <2>1. /\ n \in Seq(Message) /\ Len(n) = Len(msgs) /\ DOMAIN n = DOMAIN msgs
        /\ \A i \in DOMAIN msgs : i # Len(msgs) => n[i] = msgs[i]
        /\ n[Len(msgs)] = m
    BY <2>0
  <2>2. n # <<>> /\ Last(n) = m
    BY <2>0, <2>1 DEF Last
  <2>3. SetLast(msgs, m) = n
    BY <1>2 DEF SetLast
  <2> HIDE DEF n
  <2>q. QED
    BY <1>2, <2>0, <2>1, <2>2, <2>3
<1>q. QED
  BY <1>1, <1>2

\* Replacing it twice is replacing it by the second, and by itself nothing.
LEMMA SetLastTwice ==
  ASSUME NEW msgs \in Seq(Message), NEW m \in Message, NEW n \in Message,
         m.from = "assistant"
  PROVE  /\ SetLast(SetLast(msgs, m), n) = SetLast(msgs, n)
         /\ EndsWithAssistant(SetLast(msgs, m)) <=> EndsWithAssistant(msgs)
         /\ EndsWithAssistant(msgs) => Last(SetLast(msgs, m)) = m
         /\ SetLast(msgs, Last(msgs)) = msgs
<1> DEFINE s == SetLast(msgs, m)
<1>1. /\ s \in Seq(Message) /\ Len(s) = Len(msgs) /\ DOMAIN s = DOMAIN msgs
      /\ EndsWithAssistant(msgs) => s # <<>> /\ Last(s) = m
      /\ ~EndsWithAssistant(msgs) => s = msgs
      /\ \A i \in DOMAIN msgs : i # Len(msgs) => s[i] = msgs[i]
  BY SetLastFields
<1>2. EndsWithAssistant(s) <=> EndsWithAssistant(msgs)
  <2> HIDE DEF s
  <2>q. QED
    BY <1>1 DEF EndsWithAssistant
<1>3. SetLast(s, n) = SetLast(msgs, n)
  <2>1. CASE ~EndsWithAssistant(msgs)
    BY <2>1, <1>1
  <2>2. CASE EndsWithAssistant(msgs)
    <3>1. s = [msgs EXCEPT ![Len(msgs)] = m] /\ Len(msgs) \in DOMAIN msgs
      BY <2>2, SetLastFields DEF SetLast
    <3>2. SetLast(s, n) = [s EXCEPT ![Len(msgs)] = n]
      BY <2>2, <1>1, <1>2 DEF SetLast
    <3>3. SetLast(msgs, n) = [msgs EXCEPT ![Len(msgs)] = n]
      BY <2>2 DEF SetLast
    <3> HIDE DEF s
    <3>q. QED
      BY <3>1, <3>2, <3>3
  <2>q. QED
    BY <2>1, <2>2
<1>4. SetLast(msgs, Last(msgs)) = msgs
  BY DEF SetLast, Last
<1>q. QED
  BY <1>1, <1>2, <1>3, <1>4

\* It keeps a conversation one, whatever the status of the new message is,
\* and what was the last message is the only one that was pending.
LEMMA SetLastConv ==
  ASSUME NEW msgs \in Seq(Message), NEW m \in Message, NEW K, NEW R, Conv(msgs, K, R),
         EndsWithAssistant(msgs) =>
            m.key = Last(msgs).key /\ m.from = "assistant" /\ m.status # "none"
            /\ (m.req = Last(msgs).req \/ (m.req = 0 /\ 0 < R))
  PROVE  Conv(SetLast(msgs, m), K, R)
<1>1. CASE ~EndsWithAssistant(msgs)
  BY <1>1 DEF SetLast
<1>2. CASE EndsWithAssistant(msgs)
  <2> DEFINE n == SetLast(msgs, m)
             L == Len(msgs)
  <2>1. /\ Len(n) = L /\ DOMAIN n = DOMAIN msgs
        /\ \A i \in DOMAIN msgs : i # L => n[i] = msgs[i]
        /\ L \in DOMAIN msgs /\ n[L] = m
    BY <1>2, SetLastFields
  <2>2. m.key = msgs[L].key /\ m.from = "assistant" /\ m.status # "none"
        /\ (m.req = msgs[L].req \/ (m.req = 0 /\ 0 < R)) /\ msgs[L].from = "assistant"
    BY <1>2 DEF Last, EndsWithAssistant
  <2> HIDE DEF n, L
  <2>3. \A i \in DOMAIN msgs : n[i].key = msgs[i].key /\ n[i].from = msgs[i].from
    BY <2>1, <2>2
  <2>4. \A i \in DOMAIN msgs :
          /\ msgs[i].key < K /\ msgs[i].req < R
          /\ \A j \in DOMAIN msgs : msgs[i].key = msgs[j].key => i = j
          /\ isAssistantMessagePending(msgs[i]) => i = L
          /\ msgs[i].from = "user" <=> msgs[i].status = "none"
          /\ msgs[i].from = "user" => msgs[i].req = 0
    BY DEF Conv, L
  <2>5. \A i \in DOMAIN n :
          /\ n[i].key < K /\ n[i].req < R
          /\ \A j \in DOMAIN n : n[i].key = n[j].key => i = j
          /\ isAssistantMessagePending(n[i]) => i = Len(n)
          /\ n[i].from = "user" <=> n[i].status = "none"
          /\ n[i].from = "user" => n[i].req = 0
    BY <2>1, <2>2, <2>3, <2>4
  <2>q. QED
    BY <2>5 DEF Conv, n
<1>q. QED
  BY <1>1, <1>2

-----------------------------------------------------------------------------
(* The functions of the hooks, field by field.                             *)

\* The component, field by field.
LEMMA ComponentFields ==
  ASSUME NEW u \in Component
  PROVE  /\ u.messages \in Seq(Message) /\ u.editing \in {0} \cup Key
         /\ u.isStreaming \in BOOLEAN /\ u.isRequesting \in BOOLEAN
         /\ u.isStreamComplete \in BOOLEAN
         /\ u.sseSource \in 0..MaxRequests /\ u.requestId \in 0..MaxRequests
         /\ u.abortController \in 0..MaxRequests
         /\ u.pending \in [Channel -> Seq(Range(Token))]
         /\ u.flushTimer \in BOOLEAN /\ u.saveTimer \in BOOLEAN
  BY DEF Component

\* The fields two components have in common outside of those listed.
SameHooks(v, u) ==
    /\ v.editing = u.editing /\ v.requestId = u.requestId
    /\ v.isStreamComplete = u.isStreamComplete

\* The last message with the chunks that wait for the flush timer.
Flushed(u) == applyStreamingChunk(Last(u.messages), u.pending)

\* What a flush makes of the last answer.
LEMMA FlushedFields ==
  ASSUME NEW u \in Component, EndsWithAssistant(u.messages)
  PROVE  LET l == Last(u.messages)
             n == Flushed(u) IN
         /\ l \in Message /\ n \in Message
         /\ n.key = l.key /\ n.from = "assistant" /\ n.req = l.req
         /\ n.status = IF u.pending = NoText \/ l.status = "error" THEN l.status
                       ELSE "streaming"
         /\ n.text = IF l.status = "error" THEN l.text ELSE Joined(l.text, u.pending)
<1>1. u.messages \in Seq(Message) /\ u.pending \in [Channel -> Seq(Range(Token))]
  BY ComponentFields
<1>2. Last(u.messages) \in Message /\ Last(u.messages).from = "assistant"
  BY <1>1, Elements DEF EndsWithAssistant
<1>q. QED
  BY <1>1, <1>2, ApplyFields DEF Flushed

\* updateMessages.
LEMMA UpdateFields ==
  ASSUME NEW u \in Component, NEW msgs \in Seq(Message)
  PROVE  LET v == updateMessages(u, msgs) IN
         /\ v \in Component /\ v.messages = msgs /\ v.saveTimer = TRUE
         /\ SameHooks(v, u)
         /\ v.isStreaming = u.isStreaming /\ v.isRequesting = u.isRequesting
         /\ v.sseSource = u.sseSource /\ v.abortController = u.abortController
         /\ v.pending = u.pending /\ v.flushTimer = u.flushTimer
  BY DEF updateMessages, Component, SameHooks

\* flushStreamUpdates: the chunks join the last message.
LEMMA FlushFields ==
  ASSUME NEW u \in Component
  PROVE  LET v == flushStreamUpdates(u) IN
         /\ v \in Component /\ v.pending = NoText /\ v.flushTimer = FALSE
         /\ v.messages = IF u.pending = NoText THEN u.messages
                         ELSE SetLast(u.messages, Flushed(u))
         /\ v.saveTimer = (u.saveTimer \/ u.pending # NoText)
         /\ SameHooks(v, u)
         /\ v.isStreaming = u.isStreaming /\ v.isRequesting = u.isRequesting
         /\ v.sseSource = u.sseSource /\ v.abortController = u.abortController
<1> DEFINE w == [u EXCEPT !.flushTimer = FALSE, !.pending = NoText]
<1>1. NoText \in [Channel -> Seq(Range(Token))]
  BY EmptyText
<1>2. /\ w \in Component /\ w.pending = NoText /\ w.flushTimer = FALSE
      /\ w.messages = u.messages /\ w.saveTimer = u.saveTimer /\ SameHooks(w, u)
      /\ w.isStreaming = u.isStreaming /\ w.isRequesting = u.isRequesting
      /\ w.sseSource = u.sseSource /\ w.abortController = u.abortController
  BY <1>1 DEF Component, SameHooks
<1>3. CASE u.pending = NoText
  <2>1. flushStreamUpdates(u) = w
    BY <1>3 DEF flushStreamUpdates
  <2>2. u.saveTimer \in BOOLEAN
    BY ComponentFields
  <2> HIDE DEF w
  <2>3. w.saveTimer = (u.saveTimer \/ u.pending # NoText)
    BY <1>2, <1>3, <2>2
  <2>q. QED
    BY <2>1, <2>3, <1>2, <1>3
<1>4. CASE u.pending # NoText
  <2> DEFINE s == SetLast(u.messages, Flushed(u))
  <2>1. flushStreamUpdates(u) = updateMessages(w, s)
    <3>1. flushStreamUpdates(u) = updateMessages(w,
             IF EndsWithAssistant(w.messages)
               THEN [w.messages EXCEPT ![Len(w.messages)] =
                        applyStreamingChunk(w.messages[Len(w.messages)], u.pending)]
               ELSE w.messages)
      BY <1>4 DEF flushStreamUpdates, updateLastAssistantMessage
    <3> HIDE DEF w
    <3>q. QED
      BY <3>1, <1>2 DEF SetLast, Flushed, Last
  <2>2. s \in Seq(Message)
    <3>1. u.messages \in Seq(Message)
      BY ComponentFields
    <3>2. CASE EndsWithAssistant(u.messages)
      BY <3>1, <3>2, FlushedFields, SetLastFields
    <3>3. CASE ~EndsWithAssistant(u.messages)
      BY <3>1, <3>3 DEF SetLast
    <3>q. QED
      BY <3>2, <3>3
  <2> HIDE DEF w, s
  <2>3. /\ updateMessages(w, s) \in Component /\ updateMessages(w, s).messages = s
        /\ updateMessages(w, s).saveTimer = TRUE
        /\ SameHooks(updateMessages(w, s), w)
        /\ updateMessages(w, s).isStreaming = w.isStreaming
        /\ updateMessages(w, s).isRequesting = w.isRequesting
        /\ updateMessages(w, s).sseSource = w.sseSource
        /\ updateMessages(w, s).abortController = w.abortController
        /\ updateMessages(w, s).pending = w.pending
        /\ updateMessages(w, s).flushTimer = w.flushTimer
    BY ZenonT(60), <1>2, <2>2, UpdateFields
  <2>4. SameHooks(updateMessages(w, s), u)
    BY <1>2, <2>3 DEF SameHooks
  <2>5. (u.saveTimer \/ u.pending # NoText) = TRUE
    BY <1>4
  <2>q. QED
    BY <1>2, <1>4, <2>1, <2>3, <2>4, <2>5 DEF s
<1>q. QED
  BY <1>3, <1>4

\* closeActiveStream.
LEMMA CloseFields ==
  ASSUME NEW u \in Component, NEW r \in 0..MaxRequests
  PROVE  LET v == closeActiveStream(u, r) IN
         /\ v \in Component /\ v.messages = u.messages /\ v.saveTimer = u.saveTimer
         /\ SameHooks(v, u) /\ v.isRequesting = u.isRequesting
         /\ v.abortController = u.abortController
         /\ v.pending = u.pending /\ v.flushTimer = u.flushTimer
         /\ u.sseSource = r => v.sseSource = 0 /\ v.isStreaming = FALSE
         /\ u.sseSource # r => v = u
<1>0. 0 \in 0..MaxRequests
  BY PlaygroundAssumption
<1>1. CASE u.sseSource = r
  BY <1>0, <1>1 DEF closeActiveStream, Component, SameHooks
<1>2. CASE u.sseSource # r
  BY <1>2 DEF closeActiveStream, SameHooks
<1>q. QED
  BY <1>1, <1>2

\* A message that ended, with an error or not.
LEMMA EndedFields ==
  ASSUME NEW m \in Message
  PROVE  /\ LET n == completeAssistantMessage(m) IN
              /\ n \in Message /\ n.key = m.key /\ n.from = m.from /\ n.req = m.req
              /\ n.status = "complete" /\ n.text = m.text
         /\ LET n == errorAssistantMessage(m) IN
              /\ n \in Message /\ n.key = m.key /\ n.from = m.from /\ n.req = m.req
              /\ n.status = "error"
<1>1. LET n == completeAssistantMessage(m) IN
        /\ n \in Message /\ n.key = m.key /\ n.from = m.from /\ n.req = m.req
        /\ n.status = "complete" /\ n.text = m.text
  BY DEF completeAssistantMessage, Message
<1>2. LET n == errorAssistantMessage(m) IN
        /\ n \in Message /\ n.key = m.key /\ n.from = m.from /\ n.req = m.req
        /\ n.status = "error"
  <2> DEFINE t == [m.text EXCEPT !["content"] = <<"failed">>]
  <2>0. "content" \in Channel /\ <<"failed">> \in Seq(Word)
    BY DEF Channel, Word
  <2>1. t \in [Channel -> Seq(Word)]
    BY <2>0, MessageFields
  <2>2. errorAssistantMessage(m) = Revised(m, "error", t)
    BY DEF errorAssistantMessage, Revised, Message
  <2> HIDE DEF t
  <2>q. QED
    BY <2>1, <2>2, RevisedFields
<1>q. QED
  BY <1>1, <1>2

\* The last message when the stream completes, fails or is stopped.
Completed(u) ==
    IF isAssistantMessageFinal(Flushed(u)) THEN Flushed(u)
    ELSE completeAssistantMessage(Flushed(u))

Failed(u) == errorAssistantMessage(Flushed(u))

Stopped(u) ==
    IF isAssistantMessagePending(Flushed(u)) THEN completeAssistantMessage(Flushed(u))
    ELSE Flushed(u)

\* What completing, failing and stopping make of the last answer.
LEMMA EndFields ==
  ASSUME NEW u \in Component, EndsWithAssistant(u.messages)
  PROVE  LET l == Last(u.messages) IN
         /\ \A n \in {Completed(u), Failed(u), Stopped(u)} :
              /\ n \in Message /\ n.key = l.key /\ n.from = "assistant" /\ n.req = l.req
              /\ ~isAssistantMessagePending(n)
         /\ Failed(u).status = "error"
         /\ isAssistantMessagePending(l) =>
              \A n \in {Completed(u), Stopped(u)} :
                 n.status = "complete" /\ n.text = Joined(l.text, u.pending)
         /\ l.status # "none" => Completed(u).status # "none" /\ Stopped(u).status # "none"
<1> DEFINE l == Last(u.messages)
           f == Flushed(u)
<1>1. /\ l \in Message /\ f \in Message
      /\ f.key = l.key /\ f.from = "assistant" /\ f.req = l.req
      /\ f.status = IF u.pending = NoText \/ l.status = "error" THEN l.status
                    ELSE "streaming"
      /\ f.text = IF l.status = "error" THEN l.text ELSE Joined(l.text, u.pending)
  BY FlushedFields
<1> HIDE DEF l, f
<1>2. /\ LET n == completeAssistantMessage(f) IN
           /\ n \in Message /\ n.key = f.key /\ n.from = f.from /\ n.req = f.req
           /\ n.status = "complete" /\ n.text = f.text
      /\ LET n == errorAssistantMessage(f) IN
           /\ n \in Message /\ n.key = f.key /\ n.from = f.from /\ n.req = f.req
           /\ n.status = "error"
  BY <1>1, EndedFields
<1>3. /\ Completed(u) \in {f, completeAssistantMessage(f)}
      /\ isAssistantMessageFinal(f) => Completed(u) = f
      /\ ~isAssistantMessageFinal(f) => Completed(u) = completeAssistantMessage(f)
      /\ Failed(u) = errorAssistantMessage(f)
      /\ isAssistantMessagePending(f) => Stopped(u) = completeAssistantMessage(f)
      /\ ~isAssistantMessagePending(f) => Stopped(u) = f
  BY DEF Completed, Failed, Stopped, f
<1>4. isAssistantMessageFinal(f) => ~isAssistantMessagePending(f)
  BY DEF isAssistantMessageFinal, isAssistantMessagePending
<1>5. isAssistantMessagePending(l) =>
         /\ isAssistantMessagePending(f) /\ ~isAssistantMessageFinal(f)
         /\ f.text = Joined(l.text, u.pending)
  BY <1>1 DEF isAssistantMessageFinal, isAssistantMessagePending
<1>6. \A n \in Message : n.status \in {"complete", "error"} => ~isAssistantMessagePending(n)
  BY DEF isAssistantMessagePending
<1>7. Completed(u) \in Message /\ Failed(u) \in Message /\ Stopped(u) \in Message
  BY <1>1, <1>2, <1>3
<1>8. \A n \in {Completed(u), Failed(u), Stopped(u)} :
         n.key = f.key /\ n.from = f.from /\ n.req = f.req
  BY <1>2, <1>3
<1>9. \A n \in {Completed(u), Failed(u), Stopped(u)} : ~isAssistantMessagePending(n)
  BY <1>2, <1>3, <1>4, <1>6, <1>7
<1>10. isAssistantMessagePending(l) =>
         \A n \in {Completed(u), Stopped(u)} :
            n.status = "complete" /\ n.text = Joined(l.text, u.pending)
  BY <1>2, <1>3, <1>5
<1>11. l.status # "none" => Completed(u).status # "none" /\ Stopped(u).status # "none"
  BY <1>1, <1>2, <1>3
<1>q. QED
  BY <1>1, <1>2, <1>3, <1>7, <1>8, <1>9, <1>10, <1>11 DEF l

\* Whatever ends an answer: the state w in which the last message becomes m.
\* Ended this way, nothing waits for the flush timer.
EndedAs(v, u, m) ==
    /\ v \in Component /\ v.pending = NoText /\ v.flushTimer = FALSE
    /\ v.messages = SetLast(u.messages, m) /\ v.saveTimer = TRUE
    /\ v.isRequesting = FALSE /\ SameHooks(v, u)

\* The last message of a conversation that was flushed.
LEMMA LastFlushed ==
  ASSUME NEW u \in Component
  PROVE  LET s == flushStreamUpdates(u).messages IN
         /\ s \in Seq(Message)
         /\ EndsWithAssistant(s) <=> EndsWithAssistant(u.messages)
         /\ EndsWithAssistant(u.messages) =>
              Last(s) = Flushed(u) /\ \A n \in Message : SetLast(s, n) = SetLast(u.messages, n)
         /\ ~EndsWithAssistant(u.messages) => s = u.messages
<1> DEFINE s == flushStreamUpdates(u).messages
<1>0. u.messages \in Seq(Message)
  BY ComponentFields
<1>1. s = IF u.pending = NoText THEN u.messages ELSE SetLast(u.messages, Flushed(u))
  BY FlushFields
<1> HIDE DEF s
<1>2. CASE ~EndsWithAssistant(u.messages)
  BY <1>0, <1>1, <1>2 DEF SetLast, s
<1>3. CASE EndsWithAssistant(u.messages)
  <2>1. Flushed(u) \in Message /\ Flushed(u).from = "assistant"
    BY <1>3, FlushedFields
  <2>2. CASE u.pending # NoText
    <3>1. s = SetLast(u.messages, Flushed(u))
      BY <1>1, <2>2
    <3>q. QED
      BY <1>0, <1>3, <2>1, <3>1, SetLastFields, SetLastTwice DEF s
  <2>3. CASE u.pending = NoText
    <3>1. Flushed(u) = Last(u.messages)
      BY <2>3, EmptyText DEF Flushed, applyStreamingChunk, ApplyChunk, Channel
    <3>q. QED
      BY <1>0, <1>1, <1>3, <2>3, <3>1 DEF s
  <2>q. QED
    BY <2>2, <2>3
<1>q. QED
  BY <1>2, <1>3

\* handleStreamComplete and handleStreamError.
LEMMA HandleFields ==
  ASSUME NEW u \in Component
  PROVE  /\ EndedAs(handleStreamComplete(u), u, Completed(u))
         /\ EndedAs(handleStreamError(u), u, Failed(u))
         /\ \A v \in {handleStreamComplete(u), handleStreamError(u)} :
               v.isStreaming = u.isStreaming /\ v.sseSource = u.sseSource
               /\ v.abortController = u.abortController
<1> DEFINE f == flushStreamUpdates(u)
           w == [f EXCEPT !.isRequesting = FALSE]
<1>1. /\ f \in Component /\ f.pending = NoText /\ f.flushTimer = FALSE /\ SameHooks(f, u)
      /\ f.isStreaming = u.isStreaming /\ f.sseSource = u.sseSource
      /\ f.abortController = u.abortController
  BY FlushFields
<1>2. /\ f.messages \in Seq(Message)
      /\ EndsWithAssistant(f.messages) <=> EndsWithAssistant(u.messages)
      /\ EndsWithAssistant(u.messages) =>
           /\ Last(f.messages) = Flushed(u)
           /\ \A n \in Message : SetLast(f.messages, n) = SetLast(u.messages, n)
      /\ ~EndsWithAssistant(u.messages) => f.messages = u.messages
  BY LastFlushed
<1> HIDE DEF f
<1>3. /\ w \in Component /\ w.pending = NoText /\ w.flushTimer = FALSE /\ SameHooks(w, u)
      /\ w.isStreaming = u.isStreaming /\ w.sseSource = u.sseSource
      /\ w.abortController = u.abortController
      /\ w.isRequesting = FALSE /\ w.messages = f.messages
  BY <1>1 DEF Component, SameHooks
<1>4. handleStreamComplete(u) = updateMessages(w,
         IF EndsWithAssistant(w.messages)
           THEN [w.messages EXCEPT ![Len(w.messages)] =
                    IF isAssistantMessageFinal(w.messages[Len(w.messages)])
                      THEN w.messages[Len(w.messages)]
                      ELSE completeAssistantMessage(w.messages[Len(w.messages)])]
           ELSE w.messages)
  BY DEF handleStreamComplete, updateLastAssistantMessage, f
<1>5. handleStreamError(u) = updateMessages(w,
         IF EndsWithAssistant(w.messages)
           THEN [w.messages EXCEPT ![Len(w.messages)] =
                    errorAssistantMessage(w.messages[Len(w.messages)])]
           ELSE w.messages)
  BY DEF handleStreamError, updateLastAssistantMessage, f
<1> HIDE DEF w
<1>6. handleStreamComplete(u) = updateMessages(w, SetLast(u.messages, Completed(u)))
  <2>1. CASE EndsWithAssistant(u.messages)
    <3>1. Completed(u) \in Message
      BY <2>1, EndFields
    <3>2. w.messages[Len(w.messages)] = Flushed(u)
      BY <1>2, <1>3, <2>1 DEF Last
    <3>3. handleStreamComplete(u)
            = updateMessages(w, [w.messages EXCEPT ![Len(w.messages)] = Completed(u)])
      BY <1>2, <1>3, <1>4, <2>1, <3>2 DEF Completed
    <3>4. [w.messages EXCEPT ![Len(w.messages)] = Completed(u)] = SetLast(w.messages, Completed(u))
      BY <1>2, <1>3, <2>1 DEF SetLast
    <3>q. QED
      BY <1>2, <1>3, <2>1, <3>1, <3>3, <3>4
  <2>2. CASE ~EndsWithAssistant(u.messages)
    BY <1>2, <1>3, <1>4, <2>2 DEF SetLast
  <2>q. QED
    BY <2>1, <2>2
<1>7. handleStreamError(u) = updateMessages(w, SetLast(u.messages, Failed(u)))
  <2>1. CASE EndsWithAssistant(u.messages)
    <3>1. Failed(u) \in Message
      BY <2>1, EndFields
    <3>2. w.messages[Len(w.messages)] = Flushed(u)
      BY <1>2, <1>3, <2>1 DEF Last
    <3>3. handleStreamError(u)
            = updateMessages(w, [w.messages EXCEPT ![Len(w.messages)] = Failed(u)])
      BY <1>2, <1>3, <1>5, <2>1, <3>2 DEF Failed
    <3>4. [w.messages EXCEPT ![Len(w.messages)] = Failed(u)] = SetLast(w.messages, Failed(u))
      BY <1>2, <1>3, <2>1 DEF SetLast
    <3>q. QED
      BY <1>2, <1>3, <2>1, <3>1, <3>3, <3>4
  <2>2. CASE ~EndsWithAssistant(u.messages)
    BY <1>2, <1>3, <1>5, <2>2 DEF SetLast
  <2>q. QED
    BY <2>1, <2>2
<1>8. /\ SetLast(u.messages, Completed(u)) \in Seq(Message)
      /\ SetLast(u.messages, Failed(u)) \in Seq(Message)
  <2>0. u.messages \in Seq(Message)
    BY ComponentFields
  <2>1. CASE EndsWithAssistant(u.messages)
    <3>1. Completed(u) \in Message /\ Failed(u) \in Message
      BY <2>1, EndFields
    <3>q. QED
      BY <2>0, <3>1, SetLastFields
  <2>2. CASE ~EndsWithAssistant(u.messages)
    BY <2>0, <2>2 DEF SetLast
  <2>q. QED
    BY <2>1, <2>2
<1>9. ASSUME NEW s \in Seq(Message)
      PROVE  LET v == updateMessages(w, s) IN
             /\ v \in Component /\ v.pending = NoText /\ v.flushTimer = FALSE
             /\ v.messages = s /\ v.saveTimer = TRUE
             /\ v.isRequesting = FALSE /\ SameHooks(v, u)
             /\ v.isStreaming = u.isStreaming /\ v.sseSource = u.sseSource
             /\ v.abortController = u.abortController
  <2> DEFINE v == updateMessages(w, s)
  <2>1. /\ v \in Component /\ v.messages = s /\ v.saveTimer = TRUE
        /\ SameHooks(v, w)
        /\ v.isStreaming = w.isStreaming /\ v.isRequesting = w.isRequesting
        /\ v.sseSource = w.sseSource /\ v.abortController = w.abortController
        /\ v.pending = w.pending /\ v.flushTimer = w.flushTimer
    BY <1>3, UpdateFields
  <2> HIDE DEF v
  <2>2. SameHooks(v, u)
    BY <1>3, <2>1 DEF SameHooks
  <2>q. QED
    BY <1>3, <2>1, <2>2 DEF v
<1> DEFINE a == SetLast(u.messages, Completed(u))
           b == SetLast(u.messages, Failed(u))
<1> HIDE DEF a, b
<1>10. /\ EndedAs(updateMessages(w, a), u, Completed(u))
       /\ LET v == updateMessages(w, a) IN
            v.isStreaming = u.isStreaming /\ v.sseSource = u.sseSource
            /\ v.abortController = u.abortController
  <2>1. a \in Seq(Message)
    BY <1>8 DEF a
  <2>q. QED
    BY <2>1, <1>9 DEF EndedAs, a
<1>11. /\ EndedAs(updateMessages(w, b), u, Failed(u))
       /\ LET v == updateMessages(w, b) IN
            v.isStreaming = u.isStreaming /\ v.sseSource = u.sseSource
            /\ v.abortController = u.abortController
  <2>1. b \in Seq(Message)
    BY <1>8 DEF b
  <2>q. QED
    BY <2>1, <1>9 DEF EndedAs, b
<1>12. handleStreamComplete(u) = updateMessages(w, a) /\ handleStreamError(u) = updateMessages(w, b)
  BY <1>6, <1>7 DEF a, b
<1>q. QED
  BY <1>10, <1>11, <1>12

\* stopGeneration.
LEMMA StopFields ==
  ASSUME NEW u \in Component, u.isStreaming <=> u.sseSource # 0
  PROVE  LET v == stopGeneration(u) IN
         /\ EndedAs(v, u, Stopped(u)) /\ v.isStreaming = FALSE /\ v.sseSource = 0
         /\ v.abortController = 0
<1> DEFINE c == closeActiveStream(u, u.sseSource)
           f == flushStreamUpdates(c)
           w == [f EXCEPT !.abortController = 0, !.isRequesting = FALSE]
<1>0. u.sseSource \in 0..MaxRequests /\ 0 \in 0..MaxRequests
  BY ComponentFields, PlaygroundAssumption
<1>1. /\ c \in Component /\ c.messages = u.messages /\ c.pending = u.pending
      /\ c.sseSource = 0 /\ c.isStreaming = FALSE /\ SameHooks(c, u)
  BY <1>0, CloseFields
<1> HIDE DEF c
<1>2. Flushed(c) = Flushed(u)
  BY <1>1 DEF Flushed
<1>3. /\ f \in Component /\ f.pending = NoText /\ f.flushTimer = FALSE /\ SameHooks(f, c)
      /\ f.isStreaming = FALSE /\ f.sseSource = 0
  BY <1>1, FlushFields
<1>4. /\ f.messages \in Seq(Message)
      /\ EndsWithAssistant(f.messages) <=> EndsWithAssistant(u.messages)
      /\ EndsWithAssistant(u.messages) =>
           /\ Last(f.messages) = Flushed(u)
           /\ \A n \in Message : SetLast(f.messages, n) = SetLast(u.messages, n)
      /\ ~EndsWithAssistant(u.messages) => f.messages = u.messages
  BY <1>1, <1>2, LastFlushed
<1> HIDE DEF f
<1>5. /\ w \in Component /\ w.pending = NoText /\ w.flushTimer = FALSE /\ SameHooks(w, u)
      /\ w.isStreaming = FALSE /\ w.sseSource = 0 /\ w.abortController = 0
      /\ w.isRequesting = FALSE /\ w.messages = f.messages
  <2>1. SameHooks(f, u)
    BY <1>1, <1>3 DEF SameHooks
  <2>q. QED
    BY <1>0, <1>3, <2>1 DEF Component, SameHooks
<1>6. stopGeneration(u) = updateMessages(w,
         IF EndsWithAssistant(w.messages)
           THEN [w.messages EXCEPT ![Len(w.messages)] =
                    IF isAssistantMessagePending(w.messages[Len(w.messages)])
                      THEN completeAssistantMessage(w.messages[Len(w.messages)])
                      ELSE w.messages[Len(w.messages)]]
           ELSE w.messages)
  BY DEF stopGeneration, updateLastAssistantMessage, f, c
<1> HIDE DEF w
<1> DEFINE s == SetLast(u.messages, Stopped(u))
<1>7. stopGeneration(u) = updateMessages(w, s)
  <2>1. CASE EndsWithAssistant(u.messages)
    <3>1. Stopped(u) \in Message
      BY <2>1, EndFields
    <3>2. w.messages[Len(w.messages)] = Flushed(u)
      BY <1>4, <1>5, <2>1 DEF Last
    <3>3. stopGeneration(u)
            = updateMessages(w, [w.messages EXCEPT ![Len(w.messages)] = Stopped(u)])
      BY <1>4, <1>5, <1>6, <2>1, <3>2 DEF Stopped
    <3>4. [w.messages EXCEPT ![Len(w.messages)] = Stopped(u)] = SetLast(w.messages, Stopped(u))
      BY <1>4, <1>5, <2>1 DEF SetLast
    <3>q. QED
      BY <1>4, <1>5, <2>1, <3>1, <3>3, <3>4
  <2>2. CASE ~EndsWithAssistant(u.messages)
    BY <1>4, <1>5, <1>6, <2>2 DEF SetLast
  <2>q. QED
    BY <2>1, <2>2
<1>8. s \in Seq(Message)
  <2>0. u.messages \in Seq(Message)
    BY ComponentFields
  <2>1. CASE EndsWithAssistant(u.messages)
    <3>1. Stopped(u) \in Message
      BY <2>1, EndFields
    <3>q. QED
      BY <2>0, <3>1, SetLastFields
  <2>2. CASE ~EndsWithAssistant(u.messages)
    BY <2>0, <2>2 DEF SetLast
  <2>q. QED
    BY <2>1, <2>2
<1> HIDE DEF s
<1> DEFINE v == updateMessages(w, s)
<1>9. /\ v \in Component /\ v.messages = s /\ v.saveTimer = TRUE
      /\ SameHooks(v, w)
      /\ v.isStreaming = w.isStreaming /\ v.isRequesting = w.isRequesting
      /\ v.sseSource = w.sseSource /\ v.abortController = w.abortController
      /\ v.pending = w.pending /\ v.flushTimer = w.flushTimer
  BY <1>5, <1>8, UpdateFields
<1> HIDE DEF v
<1>10. SameHooks(v, u)
  BY <1>5, <1>9 DEF SameHooks
<1>q. QED
  BY <1>5, <1>7, <1>9, <1>10 DEF v, s, EndedAs

-----------------------------------------------------------------------------
(* What the clicks and the storage make of a conversation.                 *)

\* What a user's edit makes of a message.
Edited(m) == [m EXCEPT !.text["content"] = <<"edited">>, !.req = 0]

\* The messages of n are messages of s, some of them edited.
Kept(n, s) == \A i \in DOMAIN n : \E j \in DOMAIN s : n[i] \in {s[j], Edited(s[j])}

\* None of the messages waits for an answer.
NonePending(msgs) == \A i \in DOMAIN msgs : ~isAssistantMessagePending(msgs[i])

\* An edit leaves the key, the speaker and the status.
LEMMA EditedFields ==
  ASSUME NEW m \in Message
  PROVE  LET n == Edited(m) IN
         /\ n \in Message /\ n.key = m.key /\ n.from = m.from /\ n.status = m.status
         /\ n.req = 0
<1> DEFINE t == [m.text EXCEPT !["content"] = <<"edited">>]
<1>0. "content" \in Channel /\ <<"edited">> \in Seq(Word) /\ 0 \in 0..MaxRequests
  BY PlaygroundAssumption DEF Channel, Word
<1>1. t \in [Channel -> Seq(Word)]
  BY <1>0, MessageFields
<1>2. Edited(m) = [m EXCEPT !.text = t, !.req = 0]
  BY DEF Edited, Message
<1> HIDE DEF t
<1>q. QED
  BY <1>0, <1>1, <1>2 DEF Message, Word

\* updateContent.
LEMMA EditFields ==
  ASSUME NEW msgs \in Seq(Message), NEW k, NEW K, NEW R, Conv(msgs, K, R), 0 < R
  PROVE  LET n == updateContent(msgs, k) IN
         /\ n \in Seq(Message) /\ Len(n) = Len(msgs) /\ DOMAIN n = DOMAIN msgs
         /\ \A i \in DOMAIN msgs : n[i] = IF msgs[i].key = k THEN Edited(msgs[i]) ELSE msgs[i]
         /\ \A i \in DOMAIN msgs : n[i].status = msgs[i].status /\ n[i].from = msgs[i].from
         /\ Conv(n, K, R) /\ Kept(n, msgs)
<1> DEFINE n == updateContent(msgs, k)
<1>0. Len(msgs) \in Nat /\ DOMAIN msgs = 1..Len(msgs) /\ \A i \in DOMAIN msgs : msgs[i] \in Message
  BY Elements
<1>1. n = [i \in DOMAIN msgs |-> IF msgs[i].key = k THEN Edited(msgs[i]) ELSE msgs[i]]
  BY DEF updateContent, Edited
<1> HIDE DEF n
<1>2. /\ DOMAIN n = DOMAIN msgs
      /\ \A i \in DOMAIN msgs : n[i] = IF msgs[i].key = k THEN Edited(msgs[i]) ELSE msgs[i]
  BY <1>1
<1>3. \A i \in DOMAIN msgs :
         /\ n[i] \in Message /\ n[i].status = msgs[i].status /\ n[i].from = msgs[i].from
         /\ n[i].key = msgs[i].key /\ (n[i].req = msgs[i].req \/ n[i].req = 0)
  BY <1>0, <1>2, EditedFields
<1>4. n \in Seq(Message) /\ Len(n) = Len(msgs)
  BY <1>0, <1>1, <1>2, <1>3
<1>5. Conv(n, K, R)
  BY <1>2, <1>3, <1>4 DEF Conv, isAssistantMessagePending
<1>6. Kept(n, msgs)
  BY <1>2 DEF Kept
<1>q. QED
  BY <1>2, <1>3, <1>4, <1>5, <1>6 DEF n

\* The first messages of a conversation.
LEMMA PrefixFields ==
  ASSUME NEW msgs \in Seq(Message), NEW k \in 0..Len(msgs), NEW K, NEW R, Conv(msgs, K, R)
  PROVE  LET n == SubSeq(msgs, 1, k) IN
         /\ n \in Seq(Message) /\ Len(n) = k /\ DOMAIN n = 1..k
         /\ \A i \in 1..k : i \in DOMAIN msgs /\ n[i] = msgs[i]
         /\ Conv(n, K, R) /\ Kept(n, msgs)
         /\ (k = Len(msgs) /\ k > 0 => ~isAssistantMessagePending(msgs[k])) => NonePending(n)
<1> DEFINE n == SubSeq(msgs, 1, k)
<1>0. Len(msgs) \in Nat /\ DOMAIN msgs = 1..Len(msgs) /\ k \in Nat /\ k <= Len(msgs)
  BY Elements
<1>1. n \in Seq(Message) /\ Len(n) = k /\ DOMAIN n = 1..k /\ \A i \in 1..k : n[i] = msgs[i]
  BY <1>0
<1> HIDE DEF n
<1>2. \A i \in 1..k : i \in DOMAIN msgs /\ (i = Len(msgs) => i = k)
  <2> TAKE i \in 1..k
  <2> DEFINE L == Len(msgs)
  <2>0. L \in Nat /\ k \in Nat /\ k <= L
    BY <1>0
  <2> HIDE DEF L
  <2>1. i \in 1..L /\ (i = L => i = k)
    BY <2>0
  <2>q. QED
    BY <2>1, <1>0 DEF L
<1>3. Conv(n, K, R)
  BY <1>1, <1>2 DEF Conv
<1>4. Kept(n, msgs)
  BY <1>1, <1>2 DEF Kept
<1>5. ASSUME k = Len(msgs) /\ k > 0 => ~isAssistantMessagePending(msgs[k])
      PROVE  NonePending(n)
  <2> SUFFICES ASSUME NEW i \in 1..k, isAssistantMessagePending(n[i]) PROVE FALSE
    BY <1>1 DEF NonePending
  <2>1. isAssistantMessagePending(msgs[i]) /\ i = Len(msgs)
    BY <1>1, <1>2 DEF Conv
  <2>q. QED
    BY <2>1, <1>2, <1>5, <1>0
<1>q. QED
  BY <1>1, <1>2, <1>3, <1>4, <1>5 DEF n

\* A conversation goes on with a message that is newer than its messages.
LEMMA AppendFields ==
  ASSUME NEW msgs \in Seq(Message), NEW m \in Message,
         NEW K \in Nat, NEW R \in Nat, NEW KK \in Nat, NEW RR \in Nat,
         Conv(msgs, K, R), NonePending(msgs),
         K <= m.key, m.key < KK, R <= RR, m.req < RR,
         m.from = "user" <=> m.status = "none", m.from = "user" => m.req = 0
  PROVE  LET n == Append(msgs, m) IN
         /\ n \in Seq(Message) /\ Len(n) = Len(msgs) + 1 /\ n # <<>> /\ Last(n) = m
         /\ DOMAIN n = 1..(Len(msgs) + 1) /\ n[Len(msgs) + 1] = m
         /\ \A i \in DOMAIN msgs : i \in DOMAIN n /\ n[i] = msgs[i]
         /\ \A i \in DOMAIN n : i \in DOMAIN msgs \/ i = Len(n)
         /\ Conv(n, KK, RR)
<1> DEFINE n == Append(msgs, m)
<1>0. /\ Len(msgs) \in Nat /\ DOMAIN msgs = 1..Len(msgs)
      /\ \A i \in DOMAIN msgs : msgs[i] \in Message /\ msgs[i].key \in Nat /\ msgs[i].req \in Nat
      /\ m.key \in Nat /\ m.req \in Nat
  BY Elements, MessageFields
<1>1. /\ n \in Seq(Message) /\ Len(n) = Len(msgs) + 1 /\ n # <<>>
      /\ DOMAIN n = 1..(Len(msgs) + 1) /\ n[Len(msgs) + 1] = m
      /\ \A i \in 1..Len(msgs) : n[i] = msgs[i]
  <2>1. n \in Seq(Message) /\ Len(n) = Len(msgs) + 1 /\ n[Len(msgs) + 1] = m
    OBVIOUS
  <2>2. \A i \in 1..Len(msgs) : n[i] = msgs[i]
    OBVIOUS
  <2> HIDE DEF n
  <2>3. DOMAIN n = 1..(Len(msgs) + 1) /\ n # <<>>
    BY <1>0, <2>1
  <2>q. QED
    BY <2>1, <2>2, <2>3
<1>2. Last(n) = m
  BY <1>1 DEF Last
<1> HIDE DEF n
<1>3. \A i \in DOMAIN msgs : i \in DOMAIN n /\ n[i] = msgs[i] /\ i # Len(n)
  BY <1>0, <1>1
<1>4. \A i \in DOMAIN n : i \in DOMAIN msgs \/ i = Len(n)
  BY <1>0, <1>1
<1>5. \A i \in DOMAIN msgs :
         /\ n[i].key < m.key /\ n[i].key < KK /\ n[i].req < RR
         /\ ~isAssistantMessagePending(n[i])
         /\ n[i].from = "user" <=> n[i].status = "none"
         /\ n[i].from = "user" => n[i].req = 0
         /\ \A j \in DOMAIN msgs : n[i].key = n[j].key => i = j
  BY SMTT(30), <1>0, <1>3 DEF Conv, NonePending
<1>6. n[Len(n)] = m
  BY <1>1
<1>7. \A i \in DOMAIN n : \A j \in DOMAIN n : n[i].key = n[j].key => i = j
  BY <1>0, <1>4, <1>5, <1>6
<1>8. Conv(n, KK, RR)
  BY <1>4, <1>5, <1>6, <1>7 DEF Conv
<1>q. QED
  BY <1>1, <1>2, <1>3, <1>4, <1>8 DEF n

\* A key of the conversation names one of its messages.
LEMMA IndexFields ==
  ASSUME NEW msgs \in Seq(Message), NEW k \in KeysOf(msgs)
  PROVE  IndexOf(msgs, k) \in DOMAIN msgs /\ msgs[IndexOf(msgs, k)].key = k
<1>1. \E i \in DOMAIN msgs : msgs[i].key = k
  BY DEF KeysOf
<1>q. QED
  BY <1>1 DEF IndexOf

\* removeMessageByKey.
LEMMA RemoveFields ==
  ASSUME NEW msgs \in Seq(Message), NEW k \in KeysOf(msgs), NEW K, NEW R,
         Conv(msgs, K, R), NonePending(msgs)
  PROVE  LET n == removeMessageByKey(msgs, k) IN
         n \in Seq(Message) /\ Conv(n, K, R) /\ NonePending(n) /\ Kept(n, msgs)
<1> DEFINE x == IndexOf(msgs, k)
           n == removeMessageByKey(msgs, k)
           L == Len(msgs)
           old(i) == IF i < x THEN i ELSE i + 1
<1>0. x \in DOMAIN msgs /\ L \in Nat /\ DOMAIN msgs = 1..L
  BY IndexFields, Elements
<1>1. n = SubSeq(msgs, 1, x - 1) \o SubSeq(msgs, x + 1, L)
  BY DEF removeMessageByKey, RemoveAt
<1> HIDE DEF x, n
<1>2. /\ SubSeq(msgs, 1, x - 1) \in Seq(Message) /\ Len(SubSeq(msgs, 1, x - 1)) = x - 1
      /\ \A i \in 1..(x - 1) : SubSeq(msgs, 1, x - 1)[i] = msgs[i]
  BY <1>0
<1>3. /\ SubSeq(msgs, x + 1, L) \in Seq(Message) /\ Len(SubSeq(msgs, x + 1, L)) = L - x
      /\ \A i \in 1..(L - x) : SubSeq(msgs, x + 1, L)[i] = msgs[x + i]
  BY <1>0
<1> DEFINE a == SubSeq(msgs, 1, x - 1)
           b == SubSeq(msgs, x + 1, L)
<1> HIDE DEF a, b
<1>4. n = a \o b /\ a \in Seq(Message) /\ b \in Seq(Message) /\ Len(a) = x - 1 /\ Len(b) = L - x
      /\ (\A i \in 1..(x - 1) : a[i] = msgs[i]) /\ (\A i \in 1..(L - x) : b[i] = msgs[x + i])
  BY <1>1, <1>2, <1>3 DEF a, b
<1>5. n \in Seq(Message) /\ Len(n) = L - 1 /\ DOMAIN n = 1..(L - 1)
  <2>0. a \in Seq(Message) /\ b \in Seq(Message)
    BY <1>4
  <2>1. a \o b \in Seq(Message) /\ Len(a \o b) = Len(a) + Len(b)
    BY <2>0
  <2>2. Len(a) + Len(b) = L - 1
    BY <1>0, <1>4
  <2>q. QED
    BY <2>1, <2>2, <1>4
<1>6. \A i \in 1..(L - 1) : old(i) \in DOMAIN msgs /\ n[i] = msgs[old(i)]
  <2> TAKE i \in 1..(L - 1)
  <2>1. CASE i < x
    BY <2>1, <1>0, <1>4
  <2>2. CASE ~(i < x)
    <3>1. n[i] = b[i - (x - 1)] /\ i - (x - 1) \in 1..(L - x)
      BY SMTT(30), <2>2, <1>0, <1>4
    <3>2. b[i - (x - 1)] = msgs[x + (i - (x - 1))] /\ x + (i - (x - 1)) = i + 1
      BY SMTT(30), <3>1, <1>0, <1>4
    <3>q. QED
      BY <2>2, <3>1, <3>2, <1>0
  <2>q. QED
    BY <2>1, <2>2
<1>7. \A i, j \in 1..(L - 1) : old(i) = old(j) => i = j
  BY <1>0
<1> HIDE DEF old, L
<1>8. NonePending(n) /\ Kept(n, msgs)
  BY <1>5, <1>6 DEF NonePending, Kept
<1>9. Conv(n, K, R)
  <2>1. \A i \in DOMAIN n :
           /\ n[i].key < K /\ n[i].req < R
           /\ n[i].from = "user" <=> n[i].status = "none"
           /\ n[i].from = "user" => n[i].req = 0
    BY <1>5, <1>6 DEF Conv
  <2>2. \A i \in DOMAIN n : \A j \in DOMAIN n : n[i].key = n[j].key => i = j
    <3> SUFFICES ASSUME NEW i \in DOMAIN n, NEW j \in DOMAIN n, n[i].key = n[j].key
                 PROVE  i = j
      OBVIOUS
    <3>1. msgs[old(i)].key = msgs[old(j)].key /\ old(i) \in DOMAIN msgs /\ old(j) \in DOMAIN msgs
      BY <1>5, <1>6
    <3>2. old(i) = old(j)
      BY <3>1 DEF Conv
    <3>q. QED
      BY <3>2, <1>5, <1>7
  <2>q. QED
    BY <2>1, <2>2, <1>8 DEF Conv, NonePending
<1>q. QED
  BY <1>5, <1>8, <1>9 DEF n

\* The elements of a sequence after the first d.
LEMMA LastElements ==
  ASSUME NEW S, NEW s \in Seq(S), NEW d \in Nat, d < Len(s)
  PROVE  /\ SubSeq(s, d + 1, Len(s)) \in Seq(S)
         /\ Len(SubSeq(s, d + 1, Len(s))) = Len(s) - d
         /\ \A i \in 1..(Len(s) - d) : SubSeq(s, d + 1, Len(s))[i] = s[d + i]
<1>1. Len(s) \in Nat
  OBVIOUS
<1>2. SubSeq(s, d + 1, Len(s)) \in Seq(S)
  BY <1>1
<1>3. Len(SubSeq(s, d + 1, Len(s))) = Len(s) - d
  BY <1>1
<1>4. \A i \in 1..(Len(s) - d) : SubSeq(s, d + 1, Len(s))[i] = s[d + i]
  BY <1>1
<1>q. QED
  BY <1>2, <1>3, <1>4

\* trimMessages keeps the last messages.
LEMMA TrimFields ==
  ASSUME NEW msgs \in Seq(Message), NEW K, NEW R, Conv(msgs, K, R)
  PROVE  LET n == trimMessages(msgs) IN
         /\ n \in Seq(Message) /\ Len(n) <= MaxStored /\ Conv(n, K, R) /\ Kept(n, msgs)
         /\ \A i \in DOMAIN n : \E j \in DOMAIN msgs : n[i] = msgs[j]
         /\ Len(msgs) <= MaxStored => n = msgs
<1> DEFINE n == trimMessages(msgs)
           L == Len(msgs)
<1>0. L \in Nat /\ DOMAIN msgs = 1..L /\ MaxStored \in Nat \ {0}
  BY Elements, PlaygroundAssumption
<1>1. CASE L <= MaxStored
  <2>1. n = msgs
    BY <1>1 DEF trimMessages
  <2>q. QED
    BY <1>1, <2>1 DEF Kept
<1>2. CASE ~(L <= MaxStored)
  <2> DEFINE d == L - MaxStored
  <2>1. n = SubSeq(msgs, d + 1, L)
    BY <1>2 DEF trimMessages
  <2>2. d \in Nat /\ d < L /\ L - d = MaxStored
    BY <1>0, <1>2
  <2> HIDE DEF d, n
  <2>3. n \in Seq(Message) /\ Len(n) = L - d /\ \A i \in 1..(L - d) : n[i] = msgs[d + i]
    BY <2>1, <2>2, LastElements
  <2>4. DOMAIN n = 1..(L - d)
    BY <2>3
  <2> HIDE DEF L
  <2>5. \A i \in 1..(L - d) : d + i \in 1..L /\ (d + i = L => i = L - d)
    BY <1>0, <2>2
  <2>6. \A i \in DOMAIN n : n[i] = msgs[d + i] /\ d + i \in DOMAIN msgs
                            /\ (d + i = L => i = Len(n))
    BY <1>0, <2>3, <2>4, <2>5
  <2>7. \A i, j \in DOMAIN n : d + i = d + j => i = j
    BY <1>0, <2>2, <2>4
  <2>8. Conv(n, K, R)
    <3>1. \A i \in DOMAIN n :
             /\ n[i].key < K /\ n[i].req < R
             /\ isAssistantMessagePending(n[i]) => i = Len(n)
             /\ n[i].from = "user" <=> n[i].status = "none"
             /\ n[i].from = "user" => n[i].req = 0
      BY <2>6 DEF Conv, L
    <3>2. \A i, j \in DOMAIN n : n[i].key = n[j].key => i = j
      <4> SUFFICES ASSUME NEW i \in DOMAIN n, NEW j \in DOMAIN n, n[i].key = n[j].key
                   PROVE  i = j
        OBVIOUS
      <4>1. d + i = d + j
        BY <2>6 DEF Conv
      <4>q. QED
        BY <4>1, <2>7
    <3>q. QED
      BY <3>1, <3>2 DEF Conv
  <2>9. \A i \in DOMAIN n : \E j \in DOMAIN msgs : n[i] = msgs[j]
    BY <2>6
  <2>10. Kept(n, msgs)
    BY <2>9 DEF Kept
  <2>11. Len(n) <= MaxStored
    BY <1>0, <2>2, <2>3
  <2>q. QED
    BY <1>2, <2>3, <2>8, <2>9, <2>10, <2>11 DEF n, L
<1>q. QED
  BY <1>1, <1>2

\* A message that is normalized for loading.
LEMMA NormalizeFields ==
  ASSUME NEW m \in Message
  PROVE  LET n == normalizeStoredMessageForLoad(m) IN
         /\ n \in Message /\ n.key = m.key /\ n.from = m.from
         /\ \/ n = m
            \/ n.status = "complete" /\ n.req = 0 /\ isAssistantMessagePending(m)
<1> DEFINE n == normalizeStoredMessageForLoad(m)
           c == completeAssistantMessage(m)
<1>0. 0 \in 0..MaxRequests
  BY PlaygroundAssumption
<1>1. CASE isAssistantMessagePending(m) /\ m.text # NoText
  <2>1. c \in Message /\ c.key = m.key /\ c.from = m.from /\ c.status = "complete"
    BY EndedFields
  <2>2. n = [c EXCEPT !.req = 0]
    BY <1>1 DEF normalizeStoredMessageForLoad
  <2> HIDE DEF c, n
  <2>3. n \in Message /\ n.key = c.key /\ n.from = c.from /\ n.status = c.status /\ n.req = 0
    BY <1>0, <2>1, <2>2 DEF Message
  <2>q. QED
    BY <1>1, <2>1, <2>3 DEF n
<1>2. CASE ~(isAssistantMessagePending(m) /\ m.text # NoText)
  <2>1. n = m
    BY <1>2 DEF normalizeStoredMessageForLoad
  <2> HIDE DEF n
  <2>q. QED
    BY <2>1 DEF n
<1>q. QED
  BY <1>1, <1>2

\* A conversation that is loaded: nothing waits for an answer, and a message
\* that did is no answer of the upstream any more.
Loaded(n, s) == \A i \in DOMAIN n : n[i].req = 0 \/ \E j \in DOMAIN s : n[i] = s[j]

\* sanitizeMessagesOnLoad: nothing is pending after it.
LEMMA SanitizeFields ==
  ASSUME NEW msgs \in Seq(Message), NEW K, NEW R, Conv(msgs, K, R), 0 < R
  PROVE  LET n == sanitizeMessagesOnLoad(msgs) IN
         /\ n \in Seq(Message) /\ Len(n) = Len(msgs) /\ Conv(n, K, R)
         /\ NonePending(n) /\ Loaded(n, msgs)
<1> DEFINE P == {i \in DOMAIN msgs : isAssistantMessagePending(msgs[i])}
           n == sanitizeMessagesOnLoad(msgs)
           L == Len(msgs)
<1>0. L \in Nat /\ DOMAIN msgs = 1..L /\ \A i \in DOMAIN msgs : msgs[i] \in Message
  BY Elements
<1>1. \A i \in P : i = L
  BY DEF Conv
<1>2. CASE P = {}
  <2>1. n = msgs
    BY <1>2 DEF sanitizeMessagesOnLoad
  <2>2. NonePending(msgs) /\ Loaded(msgs, msgs)
    BY <1>2 DEF NonePending, Loaded
  <2>q. QED
    BY <2>1, <2>2
<1>3. CASE P # {}
  <2>1. P = {L} /\ L \in DOMAIN msgs /\ isAssistantMessagePending(msgs[L])
    BY <1>1, <1>3
  <2>2. Max(P) = L
    <3>1. L >= L
      BY <1>0
    <3>q. QED
      BY <2>1, <3>1 DEF Max
  <2> DEFINE m == msgs[L]
             e == errorAssistantMessage(m)
             x == [e EXCEPT !.req = 0]
  <2>3. n = [msgs EXCEPT ![L] = x]
    BY <1>3, <2>2 DEF sanitizeMessagesOnLoad
  <2>4. e \in Message /\ e.key = m.key /\ e.from = m.from /\ e.status = "error"
    BY <1>0, <2>1, EndedFields
  <2> HIDE DEF e, P, n
  <2>5. x \in Message /\ x.key = m.key /\ x.from = m.from /\ x.status = "error" /\ x.req = 0
    <3>1. 0 \in 0..MaxRequests
      BY PlaygroundAssumption
    <3>q. QED
      BY <2>4, <3>1 DEF Message
  <2> HIDE DEF x
  <2>6. /\ n \in Seq(Message) /\ Len(n) = L /\ DOMAIN n = DOMAIN msgs /\ n[L] = x
        /\ \A i \in DOMAIN msgs : i # L => n[i] = msgs[i]
    BY <1>0, <2>1, <2>3, <2>5
  <2>7. NonePending(n) /\ Loaded(n, msgs)
    <3>1. \A i \in DOMAIN msgs : isAssistantMessagePending(msgs[i]) => i = L
      BY DEF Conv
    <3>2. ~isAssistantMessagePending(x)
      BY <2>5 DEF isAssistantMessagePending
    <3>q. QED
      BY <2>5, <2>6, <3>1, <3>2 DEF NonePending, Loaded
  <2>8. m.from # "user"
    BY <2>1 DEF Conv, isAssistantMessagePending
  <2>9. \A i \in DOMAIN msgs : n[i].key = msgs[i].key /\ n[i].from = msgs[i].from
    BY <2>5, <2>6
  <2>10. Conv(n, K, R)
    BY <2>5, <2>6, <2>7, <2>8, <2>9 DEF Conv, NonePending
  <2>q. QED
    BY <2>6, <2>7, <2>10 DEF n
<1>q. QED
  BY <1>2, <1>3

\* loadMessages, and that loading what was loaded changes nothing.
LEMMA LoadFields ==
  ASSUME NEW saved \in Seq(Message), NEW K, NEW R, Conv(saved, K, R), 0 < R
  PROVE  LET n == loadMessages(saved) IN
         /\ n \in Seq(Message) /\ Len(n) <= MaxStored /\ Conv(n, K, R)
         /\ NonePending(n) /\ Loaded(n, saved) /\ loadMessages(n) = n
         /\ trimMessages(n) = n
<1> DEFINE s == [i \in DOMAIN saved |-> normalizeStoredMessageForLoad(saved[i])]
           t == trimMessages(s)
           n == sanitizeMessagesOnLoad(t)
<1>0. /\ Len(saved) \in Nat /\ DOMAIN saved = 1..Len(saved)
      /\ \A i \in DOMAIN saved : saved[i] \in Message
  BY Elements
<1>1. \A i \in DOMAIN saved :
         /\ s[i] \in Message /\ s[i].key = saved[i].key /\ s[i].from = saved[i].from
         /\ \/ s[i] = saved[i]
            \/ s[i].status = "complete" /\ s[i].req = 0 /\ isAssistantMessagePending(saved[i])
  BY <1>0, NormalizeFields
<1>2. s \in Seq(Message) /\ Len(s) = Len(saved) /\ DOMAIN s = DOMAIN saved
  <2>1. \A i \in 1..Len(saved) : normalizeStoredMessageForLoad(saved[i]) \in Message
    BY <1>0, NormalizeFields
  <2>q. QED
    BY <1>0, <2>1
<1>3. n = loadMessages(saved)
  BY DEF loadMessages
<1> HIDE DEF s
<1>4. Loaded(s, saved)
  BY <1>1, <1>2 DEF Loaded
<1>5. \A i \in DOMAIN saved : saved[i].from = "user" => ~isAssistantMessagePending(saved[i])
  BY DEF Conv, isAssistantMessagePending
<1>6. \A i \in DOMAIN s :
         /\ s[i].key < K /\ s[i].req < R
         /\ isAssistantMessagePending(s[i]) => i = Len(s)
         /\ s[i].from = "user" <=> s[i].status = "none"
         /\ s[i].from = "user" => s[i].req = 0
  BY <1>1, <1>2, <1>5 DEF Conv, isAssistantMessagePending
<1>7. Conv(s, K, R)
  BY <1>1, <1>2, <1>6 DEF Conv
<1>8. /\ t \in Seq(Message) /\ Len(t) <= MaxStored /\ Conv(t, K, R)
      /\ \A i \in DOMAIN t : \E j \in DOMAIN s : t[i] = s[j]
  BY <1>2, <1>7, TrimFields
<1> HIDE DEF t
<1>9. /\ n \in Seq(Message) /\ Len(n) = Len(t) /\ Conv(n, K, R)
      /\ NonePending(n) /\ Loaded(n, t)
  BY <1>8, SanitizeFields
<1> HIDE DEF n
<1>10. Loaded(n, saved) /\ Len(n) <= MaxStored
  BY <1>4, <1>8, <1>9 DEF Loaded
<1>11. trimMessages(n) = n
  BY <1>10 DEF trimMessages
<1>12. loadMessages(n) = n
  <2>1. \A i \in DOMAIN n : normalizeStoredMessageForLoad(n[i]) = n[i]
    BY <1>9 DEF NonePending, normalizeStoredMessageForLoad
  <2>2. [i \in DOMAIN n |-> normalizeStoredMessageForLoad(n[i])] = n
    <3>1. n = [i \in DOMAIN n |-> n[i]]
      BY <1>9
    <3>q. QED
      BY <2>1, <3>1
  <2>3. {i \in DOMAIN n : isAssistantMessagePending(n[i])} = {}
    BY <1>9 DEF NonePending
  <2>4. sanitizeMessagesOnLoad(n) = n
    BY <2>3 DEF sanitizeMessagesOnLoad
  <2>q. QED
    BY <2>2, <2>4, <1>11 DEF loadMessages
<1>q. QED
  BY <1>3, <1>9, <1>10, <1>11, <1>12

-----------------------------------------------------------------------------
(* The invariant, in terms of the values it speaks of.                     *)

BusyState == {"sse", "post"}

WholeIn(m, mg, nt, rc) ==
    m.status = "complete" /\ m.req \notin {0} \cup mg =>
        nt[m.req] \notin BusyState /\ m.text = rc[m.req]

ArrivingIn(m, mg, rc, pd, md, R) ==
    isAssistantMessagePending(m) /\ m.req \notin {0} \cup mg =>
        /\ m.req = R - 1
        /\ \A c \in Channel :
             \/ md = "delta" /\ m.text[c] \o pd[c] = rc[m.req][c]
             \/ /\ md = "snapshot"
                /\ \/ pd[c] = <<>> /\ m.text[c] = rc[m.req][c]
                   \/ pd[c] = rc[m.req][c] /\ IsPrefix(m.text[c], rc[m.req][c])

WholeAll(msgs, mg, nt, rc) == \A i \in DOMAIN msgs : WholeIn(msgs[i], mg, nt, rc)

ArrivingAll(msgs, mg, rc, pd, md, R) ==
    \A i \in DOMAIN msgs : ArrivingIn(msgs[i], mg, rc, pd, md, R)

\* At most one answer is in flight, and the last message waits for it.
Single ==
    /\ \A r \in Request :
          /\ Busy(r) => r = nextReq - 1 /\ isGenerating
          /\ net[r] = "post" => ~stream /\ ui.requestId = r /\ ui.abortController = r
    /\ isGenerating => ui.messages # <<>> /\ isAssistantMessagePending(Last(ui.messages))

\* The parts of the invariant, before and after a step.
LEMMA Parts ==
  /\ OneAnswer <=>
       /\ Single /\ WholeAll(ui.messages, merged, net, recv)
       /\ ArrivingAll(ui.messages, merged, recv, ui.pending, mode, nextReq)
       /\ WholeAll(stored, merged, net, recv)
  /\ OneAnswer' <=>
       /\ Single' /\ WholeAll(ui'.messages, merged', net', recv')
       /\ ArrivingAll(ui'.messages, merged', recv', ui'.pending, mode', nextReq')
       /\ WholeAll(stored', merged', net', recv')
<1>1. OneAnswer <=>
        /\ Single /\ WholeAll(ui.messages, merged, net, recv)
        /\ ArrivingAll(ui.messages, merged, recv, ui.pending, mode, nextReq)
        /\ WholeAll(stored, merged, net, recv)
  BY DEF OneAnswer, Single, WholeAll, ArrivingAll, Whole, Arriving, WholeIn, ArrivingIn,
         Counts, Busy, BusyState
<1>2. OneAnswer' <=>
        /\ Single' /\ WholeAll(ui'.messages, merged', net', recv')
        /\ ArrivingAll(ui'.messages, merged', recv', ui'.pending, mode', nextReq')
        /\ WholeAll(stored', merged', net', recv')
  BY DEF OneAnswer, Single, WholeAll, ArrivingAll, Whole, Arriving, WholeIn, ArrivingIn,
         Counts, Busy, BusyState
<1>q. QED
  BY <1>1, <1>2

\* Conversation, in terms of the keys and requests to come.
LEMMA Conversations ==
  /\ Conversation(ui.messages) <=> Conv(ui.messages, nextKey, nextReq)
  /\ Conversation(stored) <=> Conv(stored, nextKey, nextReq)
  /\ Conversation(ui.messages)' <=> Conv(ui'.messages, nextKey', nextReq')
  /\ Conversation(stored)' <=> Conv(stored', nextKey', nextReq')
  BY DEF Conversation, Conv

\* What the invariant says of the types.
LEMMA Types ==
  ASSUME PageInv
  PROVE  /\ ui \in Component /\ ui.messages \in Seq(Message) /\ stored \in Seq(Message)
         /\ ui.pending \in [Channel -> Seq(Range(Token))]
         /\ recv \in [Request -> [Channel -> Seq(Range(Token))]]
         /\ net \in [Request -> {"none", "sse", "post", "closed", "cut"}]
         /\ nextReq \in Nat \ {0} /\ nextKey \in Nat \ {0} /\ merged \subseteq Request
         /\ nextReq <= MaxRequests + 1 /\ 0 < nextReq
         /\ MaxRequests \in Nat /\ Request \subseteq Nat \ {0}
         /\ mode \in {"delta", "snapshot"} /\ mixed \in BOOLEAN /\ stream \in BOOLEAN
         /\ left \subseteq Seq(Message)
         /\ Conv(ui.messages, nextKey, nextReq) /\ Conv(stored, nextKey, nextReq)
<1>1. TypeOK /\ Conversation(ui.messages) /\ Conversation(stored)
  BY DEF PageInv
<1>2. ui \in Component /\ stored \in Seq(Message) /\ mixed \in BOOLEAN /\ stream \in BOOLEAN
      /\ left \subseteq Seq(Message)
      /\ recv \in [Request -> [Channel -> Seq(Range(Token))]]
      /\ net \in [Request -> {"none", "sse", "post", "closed", "cut"}]
      /\ mode \in {"delta", "snapshot"} /\ merged \subseteq Request
      /\ nextReq \in 1..(MaxRequests + 1) /\ nextKey \in 1..(3 * MaxRequests + 1)
  BY <1>1 DEF TypeOK
<1>3. MaxRequests \in Nat /\ Request \subseteq Nat \ {0}
  BY PlaygroundAssumption DEF Request
<1>4. nextReq \in Nat \ {0} /\ nextKey \in Nat \ {0} /\ nextReq <= MaxRequests + 1 /\ 0 < nextReq
  BY <1>2, <1>3
<1>5. ui.messages \in Seq(Message) /\ ui.pending \in [Channel -> Seq(Range(Token))]
  BY <1>2, ComponentFields
<1>q. QED
  BY <1>1, <1>2, <1>3, <1>4, <1>5, Conversations

\* Finished answers stay whole while what arrived for them does not change.
LEMMA WholeKeeps ==
  ASSUME NEW msgs \in Seq(Message), NEW R \in Nat, NEW mg, NEW nt, NEW rc,
         NEW mg2, NEW nt2, NEW rc2, WholeAll(msgs, mg, nt, rc), mg \subseteq mg2,
         \A i \in DOMAIN msgs : msgs[i].req < R,
         \A r \in Request : r < R /\ nt[r] \notin BusyState =>
                               nt2[r] \notin BusyState /\ rc2[r] = rc[r]
  PROVE  WholeAll(msgs, mg2, nt2, rc2)
<1> SUFFICES ASSUME NEW i \in DOMAIN msgs, msgs[i].status = "complete",
                    msgs[i].req \notin {0} \cup mg2
             PROVE  nt2[msgs[i].req] \notin BusyState /\ msgs[i].text = rc2[msgs[i].req]
  BY DEF WholeAll, WholeIn
<1>1. msgs[i] \in Message
  BY Elements
<1>2. msgs[i].req \in Request
  <2>1. msgs[i].req \in 0..MaxRequests
    BY <1>1, MessageFields
  <2>q. QED
    BY <2>1, PlaygroundAssumption DEF Request
<1>3. nt[msgs[i].req] \notin BusyState /\ msgs[i].text = rc[msgs[i].req]
  BY DEF WholeAll, WholeIn
<1>q. QED
  BY <1>2, <1>3

\* So do those of a conversation made of them.
LEMMA WholeLoaded ==
  ASSUME NEW s, NEW n, NEW mg, NEW nt, NEW rc, WholeAll(s, mg, nt, rc), Loaded(n, s)
  PROVE  WholeAll(n, mg, nt, rc)
  BY DEF WholeAll, WholeIn, Loaded

\* Messages that are kept are as good as messages that are loaded.
LEMMA KeptLoaded ==
  ASSUME NEW s \in Seq(Message), NEW n, Kept(n, s)
  PROVE  Loaded(n, s)
<1>1. \A j \in DOMAIN s : Edited(s[j]).req = 0
  BY Elements, EditedFields
<1>q. QED
  BY <1>1 DEF Kept, Loaded

\* A pending message is the last one, an answer.
LEMMA PendingIsLast ==
  ASSUME NEW msgs \in Seq(Message), NEW K, NEW R, Conv(msgs, K, R),
         NEW i \in DOMAIN msgs, isAssistantMessagePending(msgs[i])
  PROVE  i = Len(msgs) /\ EndsWithAssistant(msgs) /\ msgs[i] = Last(msgs)
<1>1. i = Len(msgs) /\ msgs[i] = Last(msgs) /\ msgs # <<>>
  BY Elements DEF Conv, Last
<1>2. msgs[i] \in Message /\ msgs[i].from # "user"
  BY Elements DEF Conv, isAssistantMessagePending
<1>3. msgs[i].from = "assistant"
  BY <1>2, MessageFields
<1>q. QED
  BY <1>1, <1>3 DEF EndsWithAssistant

\* While one answer at most is in flight, a pending message and the chunks
\* that wait for the timer are all that has arrived for it.
LEMMA FullFlush ==
  ASSUME PageInv, ~mixed, NEW m, m = Last(ui.messages), ui.messages # <<>>,
         isAssistantMessagePending(m), m.req \notin {0} \cup merged \cup FlushSwallows(ui)
  PROVE  /\ Joined(m.text, ui.pending) = recv[m.req] /\ m.req = nextReq - 1
         /\ m.req \in Request
<1>1. /\ Len(ui.messages) \in DOMAIN ui.messages /\ m = ui.messages[Len(ui.messages)]
      /\ m \in Message
  BY Types, Elements DEF Last
<1>2. ArrivingIn(m, merged, recv, ui.pending, mode, nextReq)
  BY <1>1, Parts DEF PageInv, ArrivingAll
<1>3. /\ m.req = nextReq - 1
      /\ \A c \in Channel :
           \/ mode = "delta" /\ m.text[c] \o ui.pending[c] = recv[m.req][c]
           \/ /\ mode = "snapshot"
              /\ \/ ui.pending[c] = <<>> /\ m.text[c] = recv[m.req][c]
                 \/ ui.pending[c] = recv[m.req][c] /\ IsPrefix(m.text[c], recv[m.req][c])
  BY <1>2 DEF ArrivingIn
<1>4. m.req \in Request
  <2>1. m.req \in 0..MaxRequests /\ m.req # 0
    BY <1>1, MessageFields
  <2>q. QED
    BY <2>1, PlaygroundAssumption DEF Request
<1>5. ASSUME NEW c \in Channel
      PROVE  m.text[c] \o getAppendableChunk(m.text[c], ui.pending[c]) = recv[m.req][c]
  <2>0. m.text[c] \in Seq(Word) /\ ui.pending[c] \in Seq(Range(Token))
    BY <1>1, Types, MessageFields
  <2>1. CASE mode = "delta" /\ m.text[c] \o ui.pending[c] = recv[m.req][c]
    <3>1. m.req \in {Last(ui.messages).req} \ {0}
      OBVIOUS
    <3>2. ~Repeats(m.text[c], ui.pending[c])
      BY <2>1, <3>1 DEF FlushSwallows
    <3>q. QED
      BY <2>0, <2>1, <3>2, AppendableCases
  <2>2. CASE ui.pending[c] = <<>> /\ m.text[c] = recv[m.req][c]
    BY <2>0, <2>2, AppendableCases
  <2>3. CASE ui.pending[c] = recv[m.req][c] /\ IsPrefix(m.text[c], recv[m.req][c])
    BY ZenonT(60), <2>0, <2>3, AppendableCases
  <2>q. QED
    BY <2>1, <2>2, <2>3, <1>3
<1>6. recv[m.req] \in [Channel -> Seq(Range(Token))]
  BY <1>4, Types
<1>7. Joined(m.text, ui.pending) = [c \in Channel |-> recv[m.req][c]]
  BY <1>5 DEF Joined
<1>q. QED
  BY <1>3, <1>4, <1>6, <1>7

-----------------------------------------------------------------------------
(* Steps that change the last message only.                                *)

\* A step that replaces the last message by m, if that is an answer, and
\* leaves the storage and what is created next alone.
Replaces(m) ==
    /\ ui' \in Component /\ ui'.messages = SetLast(ui.messages, m)
    /\ EndsWithAssistant(ui.messages) =>
         /\ m \in Message /\ m.key = Last(ui.messages).key
         /\ m.from = "assistant" /\ m.req = Last(ui.messages).req /\ m.status # "none"
         /\ isAssistantMessagePending(m) => isGenerating'
    /\ \/ ui'.saveTimer
       \/ ui'.saveTimer = ui.saveTimer /\ ui'.messages = ui.messages
    /\ net' \in [Request -> {"none", "sse", "post", "closed", "cut"}]
    /\ recv' \in [Request -> [Channel -> Seq(Range(Token))]]
    /\ merged' \subseteq Request
    /\ UNCHANGED <<stream, stored, outdated, left, nextReq, nextKey, clicks, mode, mixed>>

\* What such a step does to the answers in flight, when there is at most one.
Delivers(m) ==
    /\ merged \subseteq merged'
    /\ \A r \in Request : net[r] \notin BusyState =>
          net'[r] \notin BusyState /\ recv'[r] = recv[r]
    /\ Single'
    /\ EndsWithAssistant(ui.messages) =>
         /\ WholeIn(m, merged', net', recv')
         /\ ArrivingIn(m, merged', recv', ui'.pending, mode, nextReq)

\* A step that replaces the last message keeps the invariant.
LEMMA ReplacesKeeps ==
  ASSUME PageInv, NEW m, Replaces(m), Flags', ~mixed => Delivers(m)
  PROVE  PageInv'
<1> DEFINE s == ui.messages
           L == Len(ui.messages)
<1>0. /\ ui.messages \in Seq(Message) /\ stored \in Seq(Message)
      /\ Conv(ui.messages, nextKey, nextReq) /\ Conv(stored, nextKey, nextReq)
      /\ nextReq \in Nat
  BY Types
<1>1. TypeOK'
  BY DEF PageInv, TypeOK, Replaces
<1>2. stored' = stored /\ nextKey' = nextKey /\ nextReq' = nextReq /\ mode' = mode /\ mixed' = mixed
  BY DEF Replaces
<1>3. Conv(stored', nextKey', nextReq')
  BY <1>0, <1>2
<1>4. CASE ~EndsWithAssistant(ui.messages)
  <2>1. ui'.messages = ui.messages
    BY <1>4 DEF Replaces, SetLast
  <2>2. NonePending(ui.messages)
    BY <1>0, <1>4, PendingIsLast DEF NonePending
  <2>3. NothingLeftPending'
    BY <2>1, <2>2 DEF NonePending, NothingLeftPending
  <2>4. SavedOrScheduled'
    BY <1>2, <2>1 DEF PageInv, SavedOrScheduled, Replaces
  <2>5. ~mixed' => OneAnswer'
    <3> SUFFICES ASSUME ~mixed PROVE OneAnswer'
      BY <1>2
    <3>1. Delivers(m) /\ WholeAll(ui.messages, merged, net, recv) /\ WholeAll(stored, merged, net, recv)
      BY Parts DEF PageInv
    <3>2. \A i \in DOMAIN ui.messages : ui.messages[i].req < nextReq
      BY <1>0 DEF Conv
    <3>3. \A i \in DOMAIN stored : stored[i].req < nextReq
      BY <1>0 DEF Conv
    <3>4. WholeAll(ui.messages, merged', net', recv') /\ WholeAll(stored, merged', net', recv')
      BY <1>0, <3>1, <3>2, <3>3, WholeKeeps DEF Delivers
    <3>5. ArrivingAll(ui.messages, merged', recv', ui'.pending, mode', nextReq')
      BY <2>2 DEF ArrivingAll, ArrivingIn, NonePending
    <3>q. QED
      BY <1>2, <2>1, <3>1, <3>4, <3>5, Parts DEF Delivers
  <2>q. QED
    BY <1>0, <1>1, <1>2, <1>3, <2>1, <2>3, <2>4, <2>5, Conversations DEF PageInv
<1>5. CASE EndsWithAssistant(ui.messages)
  <2>0. /\ m \in Message /\ m.key = Last(ui.messages).key
        /\ m.from = "assistant" /\ m.req = Last(ui.messages).req /\ m.status # "none"
        /\ isAssistantMessagePending(m) => isGenerating'
        /\ ui'.messages = SetLast(ui.messages, m)
    BY <1>5 DEF Replaces
  <2>1. /\ Len(ui'.messages) = L /\ DOMAIN ui'.messages = DOMAIN ui.messages
        /\ \A i \in DOMAIN ui.messages : i # L => ui'.messages[i] = ui.messages[i]
        /\ L \in DOMAIN ui.messages /\ ui'.messages[L] = m
    <3> DEFINE n == SetLast(ui.messages, m)
    <3>1. /\ Len(n) = Len(ui.messages) /\ DOMAIN n = DOMAIN ui.messages
          /\ \A i \in DOMAIN ui.messages : i # Len(ui.messages) => n[i] = ui.messages[i]
          /\ Len(ui.messages) \in DOMAIN ui.messages /\ n[Len(ui.messages)] = m
      BY <1>0, <1>5, <2>0, SetLastFields
    <3>2. ui'.messages = n
      BY <2>0
    <3> HIDE DEF n
    <3>q. QED
      BY <3>1, <3>2
  <2>2. Conv(ui'.messages, nextKey', nextReq')
    BY <1>0, <1>2, <2>0, SetLastConv
  <2>3. NothingLeftPending'
    <3> SUFFICES ASSUME NEW i \in DOMAIN ui'.messages, isAssistantMessagePending(ui'.messages[i])
                 PROVE  isGenerating' /\ i = Len(ui'.messages)
      BY DEF NothingLeftPending
    <3>1. i = Len(ui'.messages)
      BY <2>2 DEF Conv
    <3>2. isAssistantMessagePending(m)
      BY <2>1, <3>1
    <3>q. QED
      BY <2>0, <3>1, <3>2
  <2>4. SavedOrScheduled'
    BY <1>2 DEF PageInv, SavedOrScheduled, Replaces
  <2>5. ~mixed' => OneAnswer'
    <3> SUFFICES ASSUME ~mixed PROVE OneAnswer'
      BY <1>2
    <3>1. Delivers(m) /\ WholeAll(ui.messages, merged, net, recv) /\ WholeAll(stored, merged, net, recv)
      BY Parts DEF PageInv
    <3>2. \A i \in DOMAIN ui.messages : ui.messages[i].req < nextReq
      BY <1>0 DEF Conv
    <3>3. \A i \in DOMAIN stored : stored[i].req < nextReq
      BY <1>0 DEF Conv
    <3>4. WholeAll(ui.messages, merged', net', recv') /\ WholeAll(stored, merged', net', recv')
      BY <1>0, <3>1, <3>2, <3>3, WholeKeeps DEF Delivers
    <3>5. WholeAll(ui'.messages, merged', net', recv')
      BY <1>5, <2>1, <3>1, <3>4 DEF WholeAll, Delivers
    <3>6. ArrivingAll(ui'.messages, merged', recv', ui'.pending, mode', nextReq')
      <4> SUFFICES ASSUME NEW i \in DOMAIN ui'.messages
                   PROVE  ArrivingIn(ui'.messages[i], merged', recv', ui'.pending, mode', nextReq')
        BY DEF ArrivingAll
      <4>1. CASE i = L
        BY <1>2, <1>5, <2>1, <3>1, <4>1 DEF Delivers
      <4>2. CASE i # L
        <5>1. ~isAssistantMessagePending(ui'.messages[i])
          BY <2>1, <2>2, <4>2 DEF Conv
        <5>q. QED
          BY <5>1 DEF ArrivingIn
      <4>q. QED
        BY <4>1, <4>2
    <3>q. QED
      BY <1>2, <3>1, <3>4, <3>5, <3>6, Parts DEF Delivers
  <2>q. QED
    BY <1>1, <1>2, <1>3, <2>2, <2>3, <2>4, <2>5, Conversations DEF PageInv
<1>q. QED
  BY <1>4, <1>5

\* A finished answer that is still there is as it was, or edited.
Stays(n) ==
    \A i \in DOMAIN ui.messages : \A j \in DOMAIN n :
        isAssistantMessageFinal(ui.messages[i]) /\ n[j].key = ui.messages[i].key
        => n[j] \in {ui.messages[i], Edited(ui.messages[i])}

\* Messages that are kept have the answers that were finished.
LEMMA KeptStays ==
  ASSUME PageInv, NEW n, Kept(n, ui.messages)
  PROVE  Stays(n)
<1> SUFFICES ASSUME NEW i \in DOMAIN ui.messages, NEW j \in DOMAIN n,
                    n[j].key = ui.messages[i].key
             PROVE  n[j] \in {ui.messages[i], Edited(ui.messages[i])}
  BY DEF Stays
<1>1. PICK k \in DOMAIN ui.messages : n[j] \in {ui.messages[k], Edited(ui.messages[k])}
  BY DEF Kept
<1>2. Edited(ui.messages[k]).key = ui.messages[k].key
  BY Types, Elements, EditedFields
<1>3. n[j].key = ui.messages[k].key
  BY <1>1, <1>2
<1>4. ui.messages[i].key = ui.messages[k].key
  BY <1>3
<1>5. i = k
  BY <1>4, Types DEF Conv
<1>q. QED
  BY <1>1, <1>5

\* So has a conversation whose last message was not finished.
LEMMA ReplacesStays ==
  ASSUME PageInv, NEW m, Replaces(m),
         EndsWithAssistant(ui.messages) =>
            ~isAssistantMessageFinal(Last(ui.messages)) \/ m = Last(ui.messages)
  PROVE  Stays(ui'.messages)
<1> DEFINE n == SetLast(ui.messages, m)
<1>0. ui'.messages = n /\ ui.messages \in Seq(Message) /\ Conv(ui.messages, nextKey, nextReq)
  BY Types DEF Replaces
<1>1. CASE ~EndsWithAssistant(ui.messages)
  <2>1. ui'.messages = ui.messages
    BY <1>0, <1>1 DEF SetLast
  <2>2. Kept(ui'.messages, ui.messages)
    BY <2>1 DEF Kept
  <2>q. QED
    BY <2>2, KeptStays
<1>2. CASE EndsWithAssistant(ui.messages)
  <2>1. m \in Message /\ m.key = Last(ui.messages).key
    BY <1>2 DEF Replaces
  <2>2. /\ DOMAIN n = DOMAIN ui.messages
        /\ \A i \in DOMAIN ui.messages : i # Len(ui.messages) => n[i] = ui.messages[i]
        /\ n[Len(ui.messages)] = m /\ Len(ui.messages) \in DOMAIN ui.messages
    BY <1>0, <1>2, <2>1, SetLastFields
  <2>3. Last(ui.messages) = ui.messages[Len(ui.messages)]
    BY DEF Last
  <2> HIDE DEF n
  <2>4. \A i \in DOMAIN ui.messages : n[i].key = ui.messages[i].key
    BY <2>1, <2>2, <2>3
  <2>5. \A i, j \in DOMAIN ui.messages : ui.messages[i].key = ui.messages[j].key => i = j
    BY <1>0 DEF Conv
  <2>6. ASSUME NEW i \in DOMAIN ui.messages, NEW j \in DOMAIN n,
               isAssistantMessageFinal(ui.messages[i]), n[j].key = ui.messages[i].key
        PROVE  n[j] = ui.messages[i]
    <3>1. i = j
      BY <2>2, <2>4, <2>5, <2>6
    <3>q. QED
      BY <1>2, <2>2, <2>3, <2>6, <3>1
  <2>q. QED
    BY <1>0, <2>6 DEF Stays
<1>q. QED
  BY <1>1, <1>2

\* The answers a flush may cut are answers.
LEMMA SwallowsType ==
  ASSUME PageInv
  PROVE  FlushSwallows(ui) \subseteq Request
<1>1. CASE ui.messages = <<>>
  BY <1>1 DEF FlushSwallows
<1>2. CASE ui.messages # <<>>
  <2>1. Last(ui.messages).req \in 0..MaxRequests
    BY <1>2, Types, Elements, MessageFields
  <2>2. {Last(ui.messages).req} \ {0} \subseteq Request
    BY <2>1, PlaygroundAssumption DEF Request
  <2>q. QED
    BY <1>2, <2>2 DEF FlushSwallows
<1>q. QED
  BY <1>1, <1>2

\* While one answer at most is in flight, the last message waits for it.
LEMMA OnlyOne ==
  ASSUME PageInv, ~mixed
  PROVE  /\ \A r \in Request : net[r] \in BusyState =>
              /\ r = nextReq - 1 /\ isGenerating
              /\ \A q \in Request : q # r => net[q] \notin BusyState
              /\ net[r] = "post" => ~stream /\ ui.requestId = r /\ ui.abortController = r
         /\ isGenerating =>
              /\ ui.messages # <<>> /\ EndsWithAssistant(ui.messages)
              /\ Last(ui.messages) \in Message
              /\ isAssistantMessagePending(Last(ui.messages))
<1>1. Single
  BY Parts DEF PageInv
<1>2. \A r \in Request : net[r] \in BusyState => r = nextReq - 1 /\ isGenerating
  BY <1>1 DEF Single, Busy, BusyState
<1>3. \A r \in Request : net[r] = "post" => ~stream /\ ui.requestId = r /\ ui.abortController = r
  BY <1>1 DEF Single
<1>4. ASSUME isGenerating
      PROVE  /\ ui.messages # <<>> /\ EndsWithAssistant(ui.messages)
             /\ Last(ui.messages) \in Message
             /\ isAssistantMessagePending(Last(ui.messages))
  <2>1. ui.messages # <<>> /\ isAssistantMessagePending(Last(ui.messages))
    BY <1>1, <1>4 DEF Single
  <2>2. Last(ui.messages) \in Message /\ Len(ui.messages) \in DOMAIN ui.messages
    BY <2>1, Types, Elements
  <2>3. EndsWithAssistant(ui.messages)
    BY <2>1, <2>2, Types, PendingIsLast DEF Last
  <2>q. QED
    BY <2>1, <2>2, <2>3
<1>q. QED
  BY <1>2, <1>3, <1>4

\* The last message is an answer that is not "none".
LEMMA LastIsAnswer ==
  ASSUME PageInv, EndsWithAssistant(ui.messages)
  PROVE  /\ Last(ui.messages) \in Message /\ Last(ui.messages).status # "none"
         /\ Last(ui.messages).from = "assistant" /\ Len(ui.messages) \in DOMAIN ui.messages
         /\ Last(ui.messages) = ui.messages[Len(ui.messages)]
<1>1. /\ ui.messages # <<>> /\ Last(ui.messages) \in Message
      /\ Len(ui.messages) \in DOMAIN ui.messages
      /\ Last(ui.messages) = ui.messages[Len(ui.messages)]
      /\ Last(ui.messages).from = "assistant"
  BY Types, Elements DEF EndsWithAssistant, Last
<1>2. Last(ui.messages).status # "none"
  BY <1>1, Types DEF Conv
<1>q. QED
  BY <1>1, <1>2

\* Without chunks that wait a flush changes nothing.
LEMMA FlushedNothing ==
  ASSUME NEW u, u.pending = NoText
  PROVE  Flushed(u) = Last(u.messages)
  BY EmptyText DEF Flushed, applyStreamingChunk, ApplyChunk, Channel

\* The flush timer.
LEMMA FlushTimerKeeps ==
  ASSUME PageInv, FlushTimer
  PROVE  PageInv' /\ (~mixed' => Stays(ui'.messages))
<1> PICK m : m = Flushed(ui)
  OBVIOUS
<1>0. ui \in Component /\ ui' = flushStreamUpdates(ui) /\ merged' = merged \cup FlushSwallows(ui)
      /\ UNCHANGED <<stream, stored, outdated, left, net, nextReq, nextKey, clicks, recv, mode, mixed>>
  BY Types DEF FlushTimer
<1>1. /\ ui' \in Component /\ ui'.pending = NoText /\ ui'.flushTimer = FALSE
      /\ ui'.messages = IF ui.pending = NoText THEN ui.messages ELSE SetLast(ui.messages, m)
      /\ ui'.saveTimer = (ui.saveTimer \/ ui.pending # NoText)
      /\ SameHooks(ui', ui)
      /\ ui'.isStreaming = ui.isStreaming /\ ui'.isRequesting = ui.isRequesting
      /\ ui'.sseSource = ui.sseSource /\ ui'.abortController = ui.abortController
  BY <1>0, FlushFields
<1>2. ui.pending = NoText => m = Last(ui.messages)
  BY FlushedNothing
<1>3. ui'.messages = SetLast(ui.messages, m)
  <2>1. SetLast(ui.messages, Last(ui.messages)) = ui.messages
    BY Types DEF SetLast, Last
  <2>q. QED
    BY <1>1, <1>2, <2>1
<1>4. EndsWithAssistant(ui.messages) =>
        /\ m \in Message /\ m.key = Last(ui.messages).key
        /\ m.from = "assistant" /\ m.req = Last(ui.messages).req
        /\ m.status = IF ui.pending = NoText \/ Last(ui.messages).status = "error"
                        THEN Last(ui.messages).status ELSE "streaming"
        /\ m.text = IF Last(ui.messages).status = "error" THEN Last(ui.messages).text
                    ELSE Joined(Last(ui.messages).text, ui.pending)
  BY <1>0, FlushedFields
<1>5. isGenerating' <=> isGenerating
  BY <1>1 DEF isGenerating
<1>6. ui.pending # NoText => isGenerating
  BY DEF PageInv, Flags, isGenerating
<1>7. Replaces(m)
  <2>1. EndsWithAssistant(ui.messages) => m.status # "none"
                                           /\ (isAssistantMessagePending(m) => isGenerating')
    <3> SUFFICES ASSUME EndsWithAssistant(ui.messages)
                 PROVE  m.status # "none" /\ (isAssistantMessagePending(m) => isGenerating')
      OBVIOUS
    <3>1. /\ Last(ui.messages).status # "none" /\ Len(ui.messages) \in DOMAIN ui.messages
          /\ Last(ui.messages) = ui.messages[Len(ui.messages)]
      BY LastIsAnswer
    <3>2. isAssistantMessagePending(Last(ui.messages)) => isGenerating
      BY <3>1 DEF PageInv, NothingLeftPending
    <3>q. QED
      BY <1>2, <1>4, <1>5, <1>6, <3>1, <3>2
  <2>2. \/ ui'.saveTimer
        \/ ui'.saveTimer = ui.saveTimer /\ ui'.messages = ui.messages
    <3>1. ui.saveTimer \in BOOLEAN
      BY <1>0, ComponentFields
    <3>q. QED
      BY <1>1, <3>1
  <2>3. merged' \subseteq Request
    BY <1>0, Types, SwallowsType
  <2>q. QED
    BY <1>0, <1>1, <1>3, <1>4, <2>1, <2>2, <2>3, Types DEF Replaces
<1>8. Flags'
  BY <1>0, <1>1 DEF PageInv, Flags, SameHooks
<1>9. ASSUME ~mixed
      PROVE  Delivers(m)
  <2>1. Single'
    <3>1. isGenerating => ui'.messages # <<>> /\ isAssistantMessagePending(Last(ui'.messages))
      <4> SUFFICES ASSUME isGenerating
                   PROVE  ui'.messages # <<>> /\ isAssistantMessagePending(Last(ui'.messages))
        OBVIOUS
      <4>1. EndsWithAssistant(ui.messages) /\ isAssistantMessagePending(Last(ui.messages))
        BY <1>9, OnlyOne
      <4>2. isAssistantMessagePending(m)
        BY <1>4, <4>1 DEF isAssistantMessagePending
      <4>3. ui'.messages # <<>> /\ Last(ui'.messages) = m
        BY <1>3, <1>4, <4>1, Types, SetLastFields
      <4>q. QED
        BY <4>2, <4>3
    <3>2. Single
      BY <1>9, Parts DEF PageInv
    <3>3. \A r \in Request : Busy(r)' <=> Busy(r)
      BY <1>0 DEF Busy
    <3>4. ui'.requestId = ui.requestId
      BY <1>1 DEF SameHooks
    <3>q. QED
      BY <1>0, <1>1, <1>5, <3>1, <3>2, <3>3, <3>4 DEF Single
  <2>2. ASSUME EndsWithAssistant(ui.messages)
        PROVE  /\ WholeIn(m, merged', net', recv')
               /\ ArrivingIn(m, merged', recv', ui'.pending, mode, nextReq)
    <3>0. /\ Last(ui.messages) \in Message /\ Len(ui.messages) \in DOMAIN ui.messages
          /\ Last(ui.messages) = ui.messages[Len(ui.messages)]
      BY <2>2, LastIsAnswer
    <3>1. WholeIn(Last(ui.messages), merged, net, recv)
      BY <1>9, <3>0, Parts DEF PageInv, WholeAll
    <3>2. WholeIn(m, merged', net', recv')
      <4>1. m.status = "complete" => m = Last(ui.messages)
        BY <1>2, <1>4, <2>2
      <4>q. QED
        BY <1>0, <3>1, <4>1 DEF WholeIn
    <3>3. ASSUME isAssistantMessagePending(m), m.req \notin {0} \cup merged'
          PROVE  /\ m.req = nextReq - 1
                 /\ \A c \in Channel : /\ m.text[c] \o NoText[c] = recv[m.req][c]
                                       /\ NoText[c] = <<>> /\ m.text[c] = recv[m.req][c]
      <4>1. isAssistantMessagePending(Last(ui.messages))
        BY <1>2, <1>6, <1>9, <3>3, OnlyOne
      <4>2. Last(ui.messages).status # "error"
        BY <4>1 DEF isAssistantMessagePending
      <4>3. m.text = Joined(Last(ui.messages).text, ui.pending) /\ m.req = Last(ui.messages).req
        BY <1>4, <2>2, <4>2
      <4>4. ui.messages # <<>>
        BY <2>2 DEF EndsWithAssistant
      <4>5. /\ Joined(Last(ui.messages).text, ui.pending) = recv[m.req] /\ m.req = nextReq - 1
            /\ m.req \in Request
        BY <1>0, <1>9, <3>3, <4>1, <4>3, <4>4, FullFlush
      <4>6. \A c \in Channel : NoText[c] = <<>> /\ recv[m.req][c] \in Seq(Range(Token))
        BY <4>5, EmptyText, Types
      <4>7. m.text = recv[m.req]
        BY <4>3, <4>5
      <4>8. \A x \in Seq(Range(Token)) : x \o <<>> = x
        OBVIOUS
      <4>9. \A c \in Channel : m.text[c] \o NoText[c] = recv[m.req][c]
        BY <4>6, <4>7, <4>8
      <4>q. QED
        BY <4>5, <4>6, <4>7, <4>9
    <3>4. mode = "delta" \/ mode = "snapshot"
      BY Types
    <3>5. ArrivingIn(m, merged', recv', ui'.pending, mode, nextReq)
      BY <1>0, <1>1, <3>3, <3>4 DEF ArrivingIn
    <3>q. QED
      BY <3>2, <3>5
  <2>q. QED
    BY <1>0, <2>1, <2>2 DEF Delivers
<1>10. ASSUME ~mixed
       PROVE  Stays(ui'.messages)
  <2>1. EndsWithAssistant(ui.messages) =>
          ~isAssistantMessageFinal(Last(ui.messages)) \/ m = Last(ui.messages)
    BY <1>2, <1>6, <1>10, OnlyOne DEF isAssistantMessageFinal, isAssistantMessagePending
  <2>q. QED
    BY <1>7, <2>1, ReplacesStays
<1>q. QED
  BY <1>0, <1>7, <1>8, <1>9, <1>10, ReplacesKeeps

\* A step that ends what is in flight.
LEMMA EndsKeeps ==
  ASSUME PageInv, NEW m, Replaces(m), Flags', merged \subseteq merged',
         ~mixed =>
            /\ isGenerating /\ ~isGenerating'
            /\ \A r \in Request : /\ net'[r] \notin BusyState
                                  /\ net[r] \notin BusyState => recv'[r] = recv[r],
         ~mixed /\ EndsWithAssistant(ui.messages) =>
            /\ ~isAssistantMessagePending(m)
            /\ m.status = "complete" /\ m.req \notin {0} \cup merged' => m.text = recv'[m.req]
  PROVE  PageInv' /\ (~mixed' => Stays(ui'.messages))
<1>1. ASSUME ~mixed
      PROVE  Delivers(m)
  <2>1. Single'
    BY <1>1 DEF Single, Busy, BusyState
  <2>2. EndsWithAssistant(ui.messages) =>
          /\ WholeIn(m, merged', net', recv')
          /\ ArrivingIn(m, merged', recv', ui'.pending, mode, nextReq)
    <3> SUFFICES ASSUME EndsWithAssistant(ui.messages)
                 PROVE  /\ WholeIn(m, merged', net', recv')
                        /\ ArrivingIn(m, merged', recv', ui'.pending, mode, nextReq)
      OBVIOUS
    <3>1. m \in Message
      BY DEF Replaces
    <3>2. m.req # 0 => m.req \in Request
      BY <3>1, MessageFields, PlaygroundAssumption DEF Request
    <3>q. QED
      BY <1>1, <3>2 DEF WholeIn, ArrivingIn
  <2>q. QED
    BY <1>1, <2>1, <2>2 DEF Delivers
<1>2. mixed' = mixed
  BY DEF Replaces
<1>3. ASSUME ~mixed
      PROVE  Stays(ui'.messages)
  <2>1. EndsWithAssistant(ui.messages) => ~isAssistantMessageFinal(Last(ui.messages))
    BY <1>3, OnlyOne DEF isAssistantMessageFinal, isAssistantMessagePending
  <2>q. QED
    BY <2>1, ReplacesStays
<1>q. QED
  BY <1>1, <1>2, <1>3, ReplacesKeeps

\* What the properties of an ended answer need of it.
LEMMA CompletedText ==
  ASSUME PageInv, ~mixed, isGenerating, NEW m \in {Completed(ui), Stopped(ui)},
         m.req \notin {0} \cup merged \cup FlushSwallows(ui)
  PROVE  m.text = recv[m.req]
<1>1. /\ ui.messages # <<>> /\ EndsWithAssistant(ui.messages)
      /\ isAssistantMessagePending(Last(ui.messages))
  BY OnlyOne
<1>2. m.text = Joined(Last(ui.messages).text, ui.pending) /\ m.req = Last(ui.messages).req
  BY <1>1, Types, EndFields
<1>3. Joined(Last(ui.messages).text, ui.pending) = recv[Last(ui.messages).req]
  BY <1>1, <1>2, FullFlush
<1>q. QED
  BY <1>2, <1>3

\* A connection that ends.
LEMMA Closes ==
  ASSUME PageInv, NEW r \in Request, net[r] \in BusyState, NEW how \in {"closed", "cut"},
         net' = [net EXCEPT ![r] = how]
  PROVE  /\ net' \in [Request -> {"none", "sse", "post", "closed", "cut"}]
         /\ net'[r] = how /\ r < nextReq
         /\ \A q \in Request : q # r => net'[q] = net[q]
         /\ ~mixed => \A q \in Request : net'[q] \notin BusyState
<1>1. /\ net' \in [Request -> {"none", "sse", "post", "closed", "cut"}]
      /\ net'[r] = how /\ \A q \in Request : q # r => net'[q] = net[q]
  BY Types
<1>2. ~(r >= nextReq)
  BY DEF PageInv, Flags, BusyState
<1>3. r < nextReq
  BY <1>2, Types
<1>4. ~mixed => \A q \in Request : net'[q] \notin BusyState
  BY <1>1, OnlyOne DEF BusyState
<1>q. QED
  BY <1>1, <1>3, <1>4

\* The flags after a step in which the chunks were flushed.
LEMMA FlushedFlags ==
  ASSUME PageInv, ui'.pending = NoText, ui'.isStreaming <=> ui'.sseSource # 0,
         ui'.sseSource = 0 \/ ui'.sseSource = ui.sseSource,
         UNCHANGED <<stream, nextReq, recv>>,
         \A q \in Request :
            /\ net'[q] = "sse" => net[q] = "sse" /\ ui'.sseSource = ui.sseSource
            /\ net'[q] # net[q] => q < nextReq /\ net'[q] \notin {"none", "post"},
         ui'.isStreamComplete = ui.isStreamComplete \/ \A q \in Request : net'[q] # "sse"
  PROVE  Flags'
<1>0. nextReq \in Nat /\ Request \subseteq Nat /\ 0 < nextReq
  BY Types
<1>1. /\ ui'.isStreaming <=> ui'.sseSource # 0
      /\ ui'.sseSource < nextReq'
      /\ ui'.isStreaming => stream'
  BY <1>0 DEF PageInv, Flags
<1>2. ASSUME NEW r \in Request
      PROVE  /\ net'[r] = "sse" => ui'.sseSource = r /\ ~ui'.isStreamComplete
             /\ r >= nextReq' => net'[r] = "none"
             /\ net'[r] \in {"none", "post"} => recv'[r] = NoText
  <2>1. /\ net[r] = "sse" => ui.sseSource = r /\ ~ui.isStreamComplete
        /\ r >= nextReq => net[r] = "none"
        /\ net[r] \in {"none", "post"} => recv[r] = NoText
    BY DEF PageInv, Flags
  <2>2. r < nextReq => ~(r >= nextReq)
    BY <1>0
  <2>q. QED
    BY <2>1, <2>2
<1>q. QED
  BY <1>1, <1>2 DEF Flags

\* data: [DONE].
LEMMA StreamDoneKeeps ==
  ASSUME PageInv, NEW r \in Request, StreamDone(r)
  PROVE  PageInv' /\ (~mixed' => Stays(ui'.messages))
<1> PICK m : m = Completed(ui)
  OBVIOUS
<1> DEFINE a == [ui EXCEPT !.isStreamComplete = TRUE]
           c == closeActiveStream(a, r)
<1>0. /\ ui \in Component /\ net[r] = "sse" /\ ui' = handleStreamComplete(c)
      /\ net' = [net EXCEPT ![r] = "closed"] /\ merged' = merged \cup FlushSwallows(ui)
      /\ UNCHANGED <<stream, stored, outdated, left, nextReq, nextKey, clicks, recv, mode, mixed>>
  BY Types DEF StreamDone, Ended
<1>1. /\ a \in Component /\ a.messages = ui.messages /\ a.pending = ui.pending
      /\ a.sseSource = ui.sseSource
  BY <1>0 DEF Component
<1> HIDE DEF a
<1>2. r \in 0..MaxRequests
  BY PlaygroundAssumption DEF Request
<1>3. ui.sseSource = r
  BY <1>0 DEF PageInv, Flags
<1>4. /\ c \in Component /\ c.messages = ui.messages /\ c.pending = ui.pending
      /\ c.sseSource = 0 /\ c.isStreaming = FALSE
  BY <1>1, <1>2, <1>3, CloseFields
<1> HIDE DEF c
<1>5. Completed(c) = m
  BY <1>4 DEF Completed, Flushed
<1>6. /\ ui' \in Component /\ ui'.pending = NoText /\ ui'.flushTimer = FALSE
      /\ ui'.messages = SetLast(ui.messages, m) /\ ui'.saveTimer = TRUE
      /\ ui'.isRequesting = FALSE /\ ui'.isStreaming = FALSE /\ ui'.sseSource = 0
  BY <1>0, <1>4, <1>5, HandleFields DEF EndedAs
<1>7. EndsWithAssistant(ui.messages) =>
        /\ m \in Message /\ m.key = Last(ui.messages).key /\ m.from = "assistant"
        /\ m.req = Last(ui.messages).req /\ ~isAssistantMessagePending(m) /\ m.status # "none"
  BY <1>0, EndFields, LastIsAnswer
<1>8. /\ net' \in [Request -> {"none", "sse", "post", "closed", "cut"}]
      /\ net'[r] = "closed" /\ r < nextReq
      /\ \A q \in Request : q # r => net'[q] = net[q]
      /\ ~mixed => \A q \in Request : net'[q] \notin BusyState
  BY <1>0, Closes DEF BusyState
<1>9. \A q \in Request : net'[q] # "sse"
  BY <1>3, <1>8 DEF PageInv, Flags
<1>10. Flags'
  BY <1>0, <1>6, <1>8, <1>9, FlushedFlags
<1>11. Replaces(m)
  BY <1>0, <1>6, <1>7, <1>8, Types, SwallowsType DEF Replaces
<1>12. ~isGenerating'
  BY <1>6 DEF isGenerating
<1>13. ~mixed => isGenerating
  BY <1>0, OnlyOne DEF BusyState
<1>14. ~mixed /\ m.req \notin {0} \cup merged' => m.text = recv'[m.req]
  BY <1>0, <1>13, CompletedText
<1>q. QED
  BY <1>0, <1>7, <1>8, <1>10, <1>11, <1>12, <1>13, <1>14, EndsKeeps

\* A stream that fails.
LEMMA StreamFailKeeps ==
  ASSUME PageInv, NEW r \in Request, StreamFail(r)
  PROVE  PageInv' /\ (~mixed' => Stays(ui'.messages))
<1> PICK m : m = Failed(ui)
  OBVIOUS
<1> DEFINE e == handleStreamError(ui)
<1>0. /\ ui \in Component /\ net[r] = "sse" /\ ui' = handleError(ui, r)
      /\ net' = [net EXCEPT ![r] = "closed"] /\ merged' = merged \cup FlushSwallows(ui)
      /\ UNCHANGED <<stream, stored, outdated, left, nextReq, nextKey, clicks, recv, mode, mixed>>
  BY Types DEF StreamFail, Ended
<1>1. ui.sseSource = r /\ ~ui.isStreamComplete
  BY <1>0 DEF PageInv, Flags
<1>2. r \in 0..MaxRequests
  BY PlaygroundAssumption DEF Request
<1>3. ui' = closeActiveStream(e, r)
  BY <1>0, <1>1 DEF handleError
<1>4. /\ e \in Component /\ e.pending = NoText /\ e.flushTimer = FALSE
      /\ e.messages = SetLast(ui.messages, m) /\ e.saveTimer = TRUE
      /\ e.isRequesting = FALSE /\ e.sseSource = r
  BY <1>0, <1>1, HandleFields DEF EndedAs
<1> HIDE DEF e
<1>5. /\ ui' \in Component /\ ui'.pending = NoText /\ ui'.flushTimer = FALSE
      /\ ui'.messages = SetLast(ui.messages, m) /\ ui'.saveTimer = TRUE
      /\ ui'.isRequesting = FALSE /\ ui'.isStreaming = FALSE /\ ui'.sseSource = 0
  BY <1>2, <1>3, <1>4, CloseFields
<1>6. EndsWithAssistant(ui.messages) =>
        /\ m \in Message /\ m.key = Last(ui.messages).key /\ m.from = "assistant"
        /\ m.req = Last(ui.messages).req /\ ~isAssistantMessagePending(m) /\ m.status = "error"
  BY <1>0, EndFields
<1>8. /\ net' \in [Request -> {"none", "sse", "post", "closed", "cut"}]
      /\ net'[r] = "closed" /\ r < nextReq
      /\ \A q \in Request : q # r => net'[q] = net[q]
      /\ ~mixed => \A q \in Request : net'[q] \notin BusyState
  BY <1>0, Closes DEF BusyState
<1>9. \A q \in Request : net'[q] # "sse"
  BY <1>1, <1>8 DEF PageInv, Flags
<1>10. Flags'
  BY <1>0, <1>5, <1>8, <1>9, FlushedFlags
<1>11. Replaces(m)
  BY <1>0, <1>5, <1>6, <1>8, Types, SwallowsType DEF Replaces
<1>12. ~isGenerating'
  BY <1>5 DEF isGenerating
<1>13. ~mixed => isGenerating
  BY <1>0, OnlyOne DEF BusyState
<1>q. QED
  BY <1>0, <1>6, <1>8, <1>10, <1>11, <1>12, <1>13, EndsKeeps

\* The user stops the answer.
LEMMA StopGenerationKeeps ==
  ASSUME PageInv, StopGeneration
  PROVE  PageInv' /\ (~mixed' => Stays(ui'.messages))
<1> PICK m : m = Stopped(ui)
  OBVIOUS
<1>0. /\ ui \in Component /\ isGenerating /\ ui' = stopGeneration(ui)
      /\ net' = [q \in Request |-> IF Busy(q) /\ q \in {ui.sseSource, ui.abortController}
                                     THEN "closed" ELSE net[q]]
      /\ merged' = merged \cup FlushSwallows(ui)
      /\ UNCHANGED <<stream, stored, outdated, left, nextReq, nextKey, clicks, recv, mode, mixed>>
  BY Types DEF StopGeneration
<1>1. /\ ui' \in Component /\ ui'.pending = NoText /\ ui'.flushTimer = FALSE
      /\ ui'.messages = SetLast(ui.messages, m) /\ ui'.saveTimer = TRUE
      /\ ui'.isRequesting = FALSE /\ ui'.isStreaming = FALSE /\ ui'.sseSource = 0
  <2>1. ui.isStreaming <=> ui.sseSource # 0
    BY DEF PageInv, Flags
  <2>q. QED
    BY <1>0, <2>1, StopFields DEF EndedAs
<1>2. EndsWithAssistant(ui.messages) =>
        /\ m \in Message /\ m.key = Last(ui.messages).key /\ m.from = "assistant"
        /\ m.req = Last(ui.messages).req /\ ~isAssistantMessagePending(m) /\ m.status # "none"
  BY <1>0, EndFields, LastIsAnswer
<1>3. /\ net' \in [Request -> {"none", "sse", "post", "closed", "cut"}]
      /\ \A q \in Request : net'[q] = net[q] \/ (Busy(q) /\ net'[q] = "closed")
  BY <1>0, Types
<1>4. \A q \in Request : net'[q] # "sse"
  <2>1. \A q \in Request : net[q] = "sse" => ui.sseSource = q /\ Busy(q)
    BY DEF PageInv, Flags, Busy
  <2>q. QED
    BY <1>0, <2>1
<1>5. ~mixed => \A q \in Request : net'[q] \notin BusyState
  <2>1. ~mixed => \A q \in Request : net[q] = "post" => ui.abortController = q /\ Busy(q)
    BY OnlyOne DEF Busy, BusyState
  <2>2. ~mixed => \A q \in Request : net'[q] # "post"
    BY <1>0, <2>1
  <2>q. QED
    BY <1>4, <2>2 DEF BusyState
<1>6. Flags'
  <2>1. \A q \in Request : Busy(q) => q < nextReq
    <3>1. \A q \in Request : Busy(q) => ~(q >= nextReq)
      BY DEF PageInv, Flags, Busy
    <3>q. QED
      BY <3>1, Types
  <2>q. QED
    BY <1>0, <1>1, <1>3, <1>4, <2>1, FlushedFlags
<1>7. Replaces(m)
  BY <1>0, <1>1, <1>2, <1>3, Types, SwallowsType DEF Replaces
<1>8. ~isGenerating'
  BY <1>1 DEF isGenerating
<1>9. ~mixed /\ m.req \notin {0} \cup merged' => m.text = recv'[m.req]
  BY <1>0, CompletedText
<1>q. QED
  BY <1>0, <1>2, <1>5, <1>6, <1>7, <1>8, <1>9, EndsKeeps

\* The end of a plain request.
LEMMA PlainFields ==
  ASSUME NEW u \in Component, NEW r
  PROVE  LET v == EndPlain(u, r) IN
         /\ v \in Component /\ v.messages = u.messages /\ v.saveTimer = u.saveTimer
         /\ SameHooks(v, u) /\ v.isStreaming = u.isStreaming /\ v.sseSource = u.sseSource
         /\ v.pending = u.pending /\ v.flushTimer = u.flushTimer
         /\ u.requestId = r => v.isRequesting = FALSE
         /\ v.isRequesting = u.isRequesting \/ v.isRequesting = FALSE
<1>0. 0 \in 0..MaxRequests
  BY PlaygroundAssumption
<1>1. CASE u.requestId = r
  BY <1>0, <1>1 DEF EndPlain, Component, SameHooks
<1>2. CASE u.requestId # r
  BY <1>2 DEF EndPlain, SameHooks
<1>q. QED
  BY <1>1, <1>2

\* A plain request that fails.
LEMMA PlainFailKeeps ==
  ASSUME PageInv, NEW r \in Request, PlainFail(r)
  PROVE  PageInv' /\ (~mixed' => Stays(ui'.messages))
<1> PICK m : m = Failed(ui)
  OBVIOUS
<1> DEFINE e == handleStreamError(ui)
<1>0. /\ ui \in Component /\ net[r] = "post" /\ ui' = EndPlain(e, r)
      /\ net' = [net EXCEPT ![r] = "closed"] /\ merged' = merged \cup FlushSwallows(ui)
      /\ UNCHANGED <<stream, stored, outdated, left, nextReq, nextKey, clicks, recv, mode, mixed>>
  BY Types DEF PlainFail, Ended
<1>1. /\ e \in Component /\ e.pending = NoText /\ e.flushTimer = FALSE
      /\ e.messages = SetLast(ui.messages, m) /\ e.saveTimer = TRUE
      /\ e.isRequesting = FALSE /\ e.sseSource = ui.sseSource
      /\ e.isStreaming = ui.isStreaming /\ SameHooks(e, ui)
  BY <1>0, HandleFields DEF EndedAs
<1> HIDE DEF e
<1>2. /\ ui' \in Component /\ ui'.pending = NoText /\ ui'.flushTimer = FALSE
      /\ ui'.messages = SetLast(ui.messages, m) /\ ui'.saveTimer = TRUE
      /\ ui'.isRequesting = FALSE /\ ui'.sseSource = ui.sseSource
      /\ ui'.isStreaming = ui.isStreaming /\ SameHooks(ui', e)
  BY <1>0, <1>1, PlainFields
<1>3. ui'.isStreamComplete = ui.isStreamComplete
  BY <1>1, <1>2 DEF SameHooks
<1>4. EndsWithAssistant(ui.messages) =>
        /\ m \in Message /\ m.key = Last(ui.messages).key /\ m.from = "assistant"
        /\ m.req = Last(ui.messages).req /\ ~isAssistantMessagePending(m) /\ m.status = "error"
  BY <1>0, EndFields
<1>5. /\ net' \in [Request -> {"none", "sse", "post", "closed", "cut"}]
      /\ net'[r] = "closed" /\ r < nextReq
      /\ \A q \in Request : q # r => net'[q] = net[q]
      /\ ~mixed => \A q \in Request : net'[q] \notin BusyState
  BY <1>0, Closes DEF BusyState
<1>6. Flags'
  <2>1. ui'.isStreaming <=> ui'.sseSource # 0
    BY <1>2 DEF PageInv, Flags
  <2>q. QED
    BY <1>0, <1>2, <1>3, <1>5, <2>1, FlushedFlags
<1>7. Replaces(m)
  BY <1>0, <1>2, <1>4, <1>5, Types, SwallowsType DEF Replaces
<1>8. ~mixed => ~isGenerating'
  <2>1. ~mixed => ~ui.isStreaming
    BY <1>0, OnlyOne DEF PageInv, Flags, BusyState
  <2>q. QED
    BY <1>2, <2>1 DEF isGenerating
<1>9. ~mixed => isGenerating
  BY <1>0, OnlyOne DEF BusyState
<1>q. QED
  BY <1>0, <1>4, <1>5, <1>6, <1>7, <1>8, <1>9, EndsKeeps

\* A message that a plain response completes.
LEMMA ResponseFields ==
  ASSUME NEW m \in Message, NEW tok \in Range(Token)
  PROVE  LET n == applyChatCompletionResponse(m, tok) IN
         /\ n \in Message /\ n.key = m.key /\ n.from = m.from /\ n.req = m.req
         /\ n.status = "complete" /\ n.text = [m.text EXCEPT !["content"] = <<tok>>]
<1> DEFINE t == [m.text EXCEPT !["content"] = <<tok>>]
<1>0. "content" \in Channel /\ <<tok>> \in Seq(Word)
  BY DEF Channel, Word
<1>1. t \in [Channel -> Seq(Word)]
  BY <1>0, MessageFields
<1>2. applyChatCompletionResponse(m, tok) = Revised(m, "complete", t)
  BY DEF applyChatCompletionResponse, Revised, Message
<1> HIDE DEF t
<1>3. LET n == applyChatCompletionResponse(m, tok) IN
        /\ n \in Message /\ n.key = m.key /\ n.from = m.from /\ n.req = m.req
        /\ n.status = "complete" /\ n.text = t
  BY <1>1, <1>2, RevisedFields
<1>q. QED
  BY <1>3 DEF t

\* A response to a plain request.
LEMMA PlainResponseKeeps ==
  ASSUME PageInv, NEW r \in Request, NEW tok \in Range(Token), PlainResponse(r, tok)
  PROVE  PageInv' /\ (~mixed' => Stays(ui'.messages))
<1> PICK m : m = applyChatCompletionResponse(Last(ui.messages), tok)
  OBVIOUS
<1> DEFINE s == SetLast(ui.messages, m)
           e == updateMessages(ui, s)
<1>0. /\ ui \in Component /\ net[r] = "post" /\ net' = [net EXCEPT ![r] = "closed"]
      /\ recv' = [recv EXCEPT ![r]["content"] = <<tok>>]
      /\ UNCHANGED <<stream, stored, outdated, left, nextReq, nextKey, clicks, mode, mixed, merged>>
  BY Types DEF PlainResponse
<1>1. ui' = EndPlain(e, r)
  <2>1. ui' = EndPlain(updateMessages(ui,
           IF EndsWithAssistant(ui.messages)
             THEN [ui.messages EXCEPT ![Len(ui.messages)] =
                      applyChatCompletionResponse(ui.messages[Len(ui.messages)], tok)]
             ELSE ui.messages), r)
    BY DEF PlainResponse, updateLastAssistantMessage
  <2>q. QED
    BY <2>1 DEF SetLast, Last
<1>2. EndsWithAssistant(ui.messages) =>
        /\ Last(ui.messages) \in Message
        /\ m \in Message /\ m.key = Last(ui.messages).key /\ m.from = "assistant"
        /\ m.req = Last(ui.messages).req /\ m.status = "complete"
        /\ m.text = [Last(ui.messages).text EXCEPT !["content"] = <<tok>>]
  BY LastIsAnswer, ResponseFields
<1>3. s \in Seq(Message)
  <2>1. CASE EndsWithAssistant(ui.messages)
    BY <1>2, <2>1, Types, SetLastFields
  <2>2. CASE ~EndsWithAssistant(ui.messages)
    BY <2>2, Types DEF SetLast
  <2>q. QED
    BY <2>1, <2>2
<1> HIDE DEF s
<1>4. /\ e \in Component /\ e.messages = s /\ e.saveTimer = TRUE /\ SameHooks(e, ui)
      /\ e.isStreaming = ui.isStreaming /\ e.sseSource = ui.sseSource
      /\ e.pending = ui.pending /\ e.flushTimer = ui.flushTimer
  BY <1>0, <1>3, UpdateFields
<1> HIDE DEF e
<1>5. /\ ui' \in Component /\ ui'.messages = s /\ ui'.saveTimer = TRUE /\ SameHooks(ui', e)
      /\ ui'.isStreaming = ui.isStreaming /\ ui'.sseSource = ui.sseSource
      /\ ui'.pending = ui.pending /\ ui'.flushTimer = ui.flushTimer
      /\ e.requestId = r => ui'.isRequesting = FALSE
  BY <1>1, <1>4, PlainFields
<1>6. ui'.isStreamComplete = ui.isStreamComplete /\ e.requestId = ui.requestId
  BY <1>4, <1>5 DEF SameHooks
<1>7. /\ net' \in [Request -> {"none", "sse", "post", "closed", "cut"}]
      /\ net'[r] = "closed" /\ r < nextReq
      /\ \A q \in Request : q # r => net'[q] = net[q]
      /\ ~mixed => \A q \in Request : net'[q] \notin BusyState
  BY <1>0, Closes DEF BusyState
<1>8. /\ recv' \in [Request -> [Channel -> Seq(Range(Token))]]
      /\ recv'[r] = [recv[r] EXCEPT !["content"] = <<tok>>]
      /\ \A q \in Request : q # r => recv'[q] = recv[q]
  <2>1. [recv[r] EXCEPT !["content"] = <<tok>>] \in [Channel -> Seq(Range(Token))]
    <3>1. "content" \in Channel /\ <<tok>> \in Seq(Range(Token))
      BY DEF Channel
    <3>q. QED
      BY <3>1, Types
  <2>2. recv' = [recv EXCEPT ![r] = [recv[r] EXCEPT !["content"] = <<tok>>]]
    BY <1>0
  <2>q. QED
    BY <2>1, <2>2, Types
<1>9. Flags'
  <2>1. ASSUME NEW q \in Request
        PROVE  /\ net'[q] = "sse" => ui'.sseSource = q /\ ~ui'.isStreamComplete
               /\ q >= nextReq' => net'[q] = "none"
               /\ net'[q] \in {"none", "post"} => recv'[q] = NoText
    <3>1. /\ net[q] = "sse" => ui.sseSource = q /\ ~ui.isStreamComplete
          /\ q >= nextReq => net[q] = "none"
          /\ net[q] \in {"none", "post"} => recv[q] = NoText
      BY DEF PageInv, Flags
    <3>2. q = r => ~(q >= nextReq)
      BY <1>7, Types
    <3>q. QED
      BY <1>0, <1>5, <1>6, <1>7, <1>8, <3>1, <3>2
  <2>2. /\ ui'.isStreaming <=> ui'.sseSource # 0
        /\ ui'.sseSource < nextReq'
        /\ ui'.isStreaming => stream'
        /\ ui'.pending # NoText => ui'.isStreaming /\ ui'.flushTimer
    BY <1>0, <1>5 DEF PageInv, Flags
  <2>q. QED
    BY <2>1, <2>2 DEF Flags
<1>10. EndsWithAssistant(ui.messages) => ~isAssistantMessagePending(m)
  BY <1>2 DEF isAssistantMessagePending
<1>11. Replaces(m)
  BY <1>0, <1>2, <1>5, <1>7, <1>8, <1>10, Types DEF Replaces, s
<1>12. ASSUME ~mixed
       PROVE  ~isGenerating' /\ \A q \in Request : net[q] \notin BusyState => recv'[q] = recv[q]
  <2>1. ~stream /\ ui.requestId = r
    BY <1>0, <1>12, OnlyOne DEF BusyState
  <2>2. ~ui.isStreaming
    BY <2>1 DEF PageInv, Flags
  <2>q. QED
    BY <1>0, <1>5, <1>6, <1>8, <2>1, <2>2 DEF isGenerating, BusyState
<1>13. ASSUME ~mixed, EndsWithAssistant(ui.messages), m.req \notin {0} \cup merged'
       PROVE  m.text = recv'[m.req]
  <2> DEFINE l == Last(ui.messages)
  <2>1. /\ r = nextReq - 1 /\ isGenerating /\ ~stream /\ isAssistantMessagePending(l)
        /\ ui.messages # <<>> /\ l \in Message
    BY <1>0, <1>13, OnlyOne DEF BusyState
  <2>2. ArrivingIn(l, merged, recv, ui.pending, mode, nextReq)
    BY <1>13, LastIsAnswer, Parts DEF PageInv, ArrivingAll
  <2>a. m.req = l.req /\ l.req \notin {0} \cup merged
    BY <1>0, <1>2, <1>13
  <2>b. /\ l.req = nextReq - 1
        /\ \A c \in Channel :
             \/ l.text[c] \o ui.pending[c] = recv[l.req][c]
             \/ l.text[c] = recv[l.req][c]
             \/ IsPrefix(l.text[c], recv[l.req][c])
    BY <2>1, <2>2, <2>a DEF ArrivingIn
  <2>3. l.req = r
    BY <2>1, <2>b
  <2>4. ui.pending = NoText /\ recv[r] = NoText
    BY <1>0, <2>1 DEF PageInv, Flags
  <2>5. l.text \in [Channel -> Seq(Word)]
    BY <2>1, MessageFields
  <2>6. ASSUME NEW c \in Channel
        PROVE  l.text[c] = <<>>
    <3>1. ui.pending[c] = <<>> /\ recv[r][c] = <<>> /\ l.text[c] \in Seq(Word)
      BY <2>4, <2>5, EmptyText
    <3>2. \/ l.text[c] \o <<>> = <<>>
          \/ l.text[c] = <<>>
          \/ IsPrefix(l.text[c], <<>>)
      BY <2>3, <2>b, <3>1
    <3>3. l.text[c] \o <<>> = l.text[c]
      BY <3>1
    <3>4. IsPrefix(l.text[c], <<>>) => l.text[c] = <<>>
      BY <3>1 DEF IsPrefix
    <3>q. QED
      BY <3>2, <3>3, <3>4
  <2>7. l.text = NoText
    BY <2>5, <2>6 DEF NoText
  <2>8. m.text = [l.text EXCEPT !["content"] = <<tok>>]
    BY <1>2, <1>13
  <2> HIDE DEF l
  <2>9. recv'[r] = m.text
    BY <1>8, <2>4, <2>7, <2>8
  <2>q. QED
    BY <2>3, <2>a, <2>9
<1>14. merged \subseteq merged'
  BY <1>0
<1>15. ~mixed /\ EndsWithAssistant(ui.messages) =>
         /\ ~isAssistantMessagePending(m)
         /\ m.status = "complete" /\ m.req \notin {0} \cup merged' => m.text = recv'[m.req]
  BY <1>10, <1>13
<1>16. ~mixed => /\ isGenerating /\ ~isGenerating'
                 /\ \A q \in Request : /\ net'[q] \notin BusyState
                                       /\ net[q] \notin BusyState => recv'[q] = recv[q]
  BY <1>0, <1>7, <1>12, OnlyOne DEF BusyState
<1>q. QED
  BY <1>9, <1>11, <1>14, <1>15, <1>16, EndsKeeps

-----------------------------------------------------------------------------
(* A new request.                                                          *)

\* A fresh message for the answer to a request.
LEMMA LoadingFields ==
  ASSUME NEW k \in Key, NEW r \in Request
  PROVE  LET m == createLoadingAssistantMessage(k, r) IN
         /\ m \in Message /\ m.key = k /\ m.from = "assistant" /\ m.status = "loading"
         /\ m.text = NoText /\ m.req = r
<1>1. NoText \in [Channel -> Seq(Word)] /\ r \in 0..MaxRequests
  BY EmptyText, PlaygroundAssumption DEF Request
<1>q. QED
  BY <1>1 DEF createLoadingAssistantMessage, Message, Word

\* The messages of n before the last one are messages of the conversation.
OldMessages(n) ==
    \A i \in DOMAIN n : i # Len(n) =>
        n[i].req = 0 \/ \E j \in DOMAIN ui.messages : n[i] = ui.messages[j]

\* The step that sends the request r, with the messages n after it: the last
\* one waits for the answer, or the request failed at once.
Turns(n, r) ==
    /\ r = nextReq /\ r \in Request /\ nextReq' = nextReq + 1
    /\ mixed' = (mixed \/ ui.flushTimer \/ \E q \in Request : Busy(q))
    /\ nextKey' \in 1..(3 * MaxRequests + 1) /\ nextKey <= nextKey'
    /\ ui' \in Component /\ ui'.messages = n /\ ui'.saveTimer = TRUE
    /\ n # <<>> /\ Conv(n, nextKey', nextReq') /\ OldMessages(n)
    /\ net' \in [Request -> {"none", "sse", "post", "closed", "cut"}]
    /\ \A q \in Request : q # r => net'[q] \in {net[q], "closed"}
    /\ \/ /\ Last(n).status = "error" /\ ~isGenerating' /\ net'[r] = "closed"
       \/ /\ Last(n).status = "loading" /\ Last(n).req = r /\ Last(n).text = NoText
          /\ isGenerating' /\ ui'.pending = ui.pending
          /\ net'[r] = "post" => ~stream /\ ui'.requestId = r /\ ui'.abortController = r
    /\ UNCHANGED <<stream, stored, outdated, left, clicks, recv, mode, merged>>

\* Sending a request keeps the invariant.
LEMMA TurnsKeeps ==
  ASSUME PageInv, NEW n, NEW r, Turns(n, r), Flags'
  PROVE  PageInv'
<1>0. /\ r = nextReq /\ r \in Request /\ nextReq' = nextReq + 1 /\ nextReq \in Nat
      /\ Conv(stored, nextKey, nextReq) /\ stored \in Seq(Message)
      /\ ui.messages \in Seq(Message) /\ Conv(ui.messages, nextKey, nextReq)
      /\ n \in Seq(Message)
  BY Types, ComponentFields DEF Turns
<1>1. TypeOK'
  <2>1. nextReq' \in 1..(MaxRequests + 1)
    BY <1>0, PlaygroundAssumption DEF Request
  <2>2. mixed' \in BOOLEAN
    BY DEF Turns
  <2>q. QED
    BY <2>1, <2>2 DEF PageInv, TypeOK, Turns
<1>2. Len(n) \in DOMAIN n /\ Last(n) = n[Len(n)] /\ Last(n) \in Message
  BY <1>0, Elements DEF Turns, Last
<1>3. NothingLeftPending'
  <2> SUFFICES ASSUME NEW i \in DOMAIN n, isAssistantMessagePending(n[i])
               PROVE  isGenerating' /\ i = Len(n)
    BY DEF NothingLeftPending, Turns
  <2>1. i = Len(n)
    BY DEF Turns, Conv
  <2>2. Last(n).status # "error"
    BY <1>2, <2>1 DEF isAssistantMessagePending
  <2>q. QED
    BY <2>1, <2>2 DEF Turns
<1>4. SavedOrScheduled'
  BY DEF Turns, SavedOrScheduled
<1>5. Conv(stored', nextKey', nextReq')
  <2>1. \A i \in DOMAIN stored : stored[i] \in Message /\ stored[i].key \in Nat /\ stored[i].req \in Nat
    BY <1>0, Elements, MessageFields
  <2>2. nextKey \in Nat /\ nextKey' \in Nat /\ nextKey <= nextKey' /\ stored' = stored
    BY Types, PlaygroundAssumption DEF Turns
  <2>q. QED
    BY <1>0, <2>1, <2>2 DEF Conv
<1>6. ASSUME ~mixed'
      PROVE  OneAnswer'
  <2>0. ~mixed /\ ~ui.flushTimer /\ \A q \in Request : net[q] \notin BusyState
    BY <1>6, Types DEF Turns, Busy, BusyState
  <2>1. ui.pending = NoText
    BY <2>0 DEF PageInv, Flags
  <2>2. \A q \in Request : q # r => net'[q] \notin BusyState
    BY <2>0 DEF Turns, BusyState
  <2>3. Single'
    <3>1. \A q \in Request : Busy(q)' => q = nextReq' - 1 /\ isGenerating'
      BY <1>0, <2>2 DEF Turns, Busy, BusyState
    <3>2. \A q \in Request : net'[q] = "post" =>
             ~stream' /\ ui'.requestId = q /\ ui'.abortController = q
      BY <2>2 DEF Turns, BusyState
    <3>3. isGenerating' => ui'.messages # <<>> /\ isAssistantMessagePending(Last(ui'.messages))
      BY DEF Turns, isAssistantMessagePending
    <3>q. QED
      BY <3>1, <3>2, <3>3 DEF Single
  <2>4. /\ WholeAll(ui.messages, merged, net, recv) /\ WholeAll(stored, merged, net, recv)
        /\ recv' = recv /\ merged' = merged /\ stored' = stored /\ ui'.messages = n
        /\ mode' = mode
    BY <2>0, Parts DEF PageInv, Turns
  <2>5. \A q \in Request : q < nextReq => net'[q] \notin BusyState
    BY <1>0, <2>2
  <2>6. /\ \A i \in DOMAIN ui.messages : ui.messages[i].req < nextReq
        /\ \A i \in DOMAIN stored : stored[i].req < nextReq
    BY <1>0 DEF Conv
  <2>7. WholeAll(ui.messages, merged, net', recv) /\ WholeAll(stored, merged, net', recv)
    BY <1>0, <2>4, <2>5, <2>6, WholeKeeps
  <2>8. WholeAll(n, merged, net', recv)
    <3> SUFFICES ASSUME NEW i \in DOMAIN n
                 PROVE  WholeIn(n[i], merged, net', recv)
      BY DEF WholeAll
    <3>1. CASE i = Len(n)
      BY <1>2, <3>1 DEF Turns, WholeIn
    <3>2. CASE i # Len(n)
      BY <2>7, <3>2 DEF Turns, OldMessages, WholeAll, WholeIn
    <3>q. QED
      BY <3>1, <3>2
  <2>9. ArrivingAll(n, merged, recv, ui'.pending, mode, nextReq')
    <3> SUFFICES ASSUME NEW i \in DOMAIN n, isAssistantMessagePending(n[i])
                 PROVE  ArrivingIn(n[i], merged, recv, ui'.pending, mode, nextReq')
      BY DEF ArrivingAll, ArrivingIn
    <3>1. i = Len(n)
      BY DEF Turns, Conv
    <3>2. n[i].status # "error"
      BY DEF isAssistantMessagePending
    <3>3. n[i].req = r /\ n[i].text = NoText /\ ui'.pending = NoText
      BY <1>2, <2>1, <3>1, <3>2 DEF Turns
    <3>4. recv[r] = NoText
      BY <1>0 DEF PageInv, Flags
    <3>5. /\ \A c \in Channel : NoText[c] = <<>>
          /\ <<>> \o <<>> = <<>> /\ (mode = "delta" \/ mode = "snapshot")
      BY EmptyText, Types
    <3>6. r = nextReq' - 1
      BY <1>0
    <3>q. QED
      BY <3>3, <3>4, <3>5, <3>6 DEF ArrivingIn
  <2>q. QED
    BY <2>3, <2>4, <2>7, <2>8, <2>9, Parts
<1>q. QED
  BY <1>1, <1>3, <1>4, <1>5, <1>6, Conversations DEF PageInv, Turns

\* sendStreamRequest.
LEMMA StreamFields ==
  ASSUME NEW u \in Component, NEW r \in Request
  PROVE  LET v == sendStreamRequest(u, r) IN
         /\ v \in Component /\ v.messages = u.messages /\ v.saveTimer = u.saveTimer
         /\ v.isRequesting = TRUE /\ v.isStreaming = TRUE /\ v.sseSource = r
         /\ v.isStreamComplete = FALSE
         /\ v.pending = u.pending /\ v.flushTimer = u.flushTimer
<1>0. r \in 0..MaxRequests
  BY PlaygroundAssumption DEF Request
<1>q. QED
  BY <1>0 DEF sendStreamRequest, Component

\* sendNonStreamingChat.
LEMMA NonStreamingFields ==
  ASSUME NEW u \in Component, NEW r \in Request
  PROVE  LET v == sendNonStreamingChat(u, r) IN
         /\ v \in Component /\ v.messages = u.messages /\ v.saveTimer = u.saveTimer
         /\ v.isRequesting = TRUE /\ v.isStreaming = u.isStreaming
         /\ v.sseSource = u.sseSource /\ v.isStreamComplete = u.isStreamComplete
         /\ v.pending = u.pending /\ v.flushTimer = u.flushTimer
         /\ v.requestId = r /\ v.abortController = r
<1>0. r \in 0..MaxRequests
  BY PlaygroundAssumption DEF Request
<1>q. QED
  BY <1>0 DEF sendNonStreamingChat, Component

\* The page as it is when sendChat runs: only the editor may have been closed.
SamePage(u) ==
    /\ u \in Component /\ u.isStreaming = ui.isStreaming /\ u.isRequesting = ui.isRequesting
    /\ u.sseSource = ui.sseSource /\ u.isStreamComplete = ui.isStreamComplete
    /\ u.pending = ui.pending /\ u.flushTimer = ui.flushTimer

\* The conversation p with a fresh message for the answer to the request r.
Turned(p, k, r, K, n) ==
    LET m == createLoadingAssistantMessage(k, r) IN
    /\ n \in Seq(Message) /\ Len(n) = Len(p) + 1 /\ n # <<>> /\ Last(n) = m
    /\ \A i \in DOMAIN p : i \in DOMAIN n /\ n[i] = p[i]
    /\ \A i \in DOMAIN n : i \in DOMAIN p \/ i = Len(n)
    /\ Conv(n, K, r + 1)

LEMMA FreshTurn ==
  ASSUME NEW p \in Seq(Message), NEW k \in Key, NEW r \in Request, NEW K \in Nat,
         Conv(p, k, r), NonePending(p), k < K
  PROVE  Turned(p, k, r, K, Append(p, createLoadingAssistantMessage(k, r)))
<1>1. PICK m : m = createLoadingAssistantMessage(k, r)
  OBVIOUS
<1>2. /\ m \in Message /\ m.key = k /\ m.from = "assistant" /\ m.status = "loading"
      /\ m.req = r
  BY <1>1, LoadingFields
<1>3. k \in Nat /\ r \in Nat
  BY PlaygroundAssumption DEF Key, Request
<1>4. PICK R : R = r + 1
  OBVIOUS
<1>5. /\ R \in Nat /\ r <= R /\ m.req < R /\ k <= m.key /\ m.key < K
      /\ (m.from = "user" <=> m.status = "none") /\ (m.from = "user" => m.req = 0)
  BY <1>2, <1>3, <1>4
<1> DEFINE n == Append(p, m)
<1>6. /\ n \in Seq(Message) /\ Len(n) = Len(p) + 1 /\ n # <<>> /\ Last(n) = m
      /\ \A i \in DOMAIN p : i \in DOMAIN n /\ n[i] = p[i]
      /\ \A i \in DOMAIN n : i \in DOMAIN p \/ i = Len(n)
      /\ Conv(n, K, R)
  BY ZenonT(60), <1>2, <1>3, <1>5, AppendFields
<1>7. n = Append(p, createLoadingAssistantMessage(k, r))
  BY <1>1
<1> HIDE DEF n
<1>q. QED
  BY <1>1, <1>4, <1>6, <1>7 DEF Turned

\* sendChat, with the old messages p and a fresh message for the answer.
LEMMA SendChatKeeps ==
  ASSUME PageInv, NEW u0, NEW msgs, NEW p, NEW k \in Key, SamePage(u0),
         sendChat(u0, msgs, nextReq),
         msgs = Append(p, createLoadingAssistantMessage(k, nextReq)),
         p \in Seq(Message), Conv(p, k, nextReq), NonePending(p), Loaded(p, ui.messages),
         nextKey <= k, k < nextKey', nextKey' \in 1..(3 * MaxRequests + 1), Stays(p)
  PROVE  PageInv' /\ Stays(ui'.messages)
<1> PICK r : r = nextReq
  OBVIOUS
<1> PICK m : m = createLoadingAssistantMessage(k, r)
  OBVIOUS
<1>0. /\ r \in Request /\ nextReq' = r + 1 /\ r \in Nat /\ r >= nextReq
      /\ nextKey \in Nat /\ nextKey' \in Nat /\ k \in Nat /\ nextKey <= nextKey'
      /\ mixed' = (mixed \/ ui.flushTimer \/ \E q \in Request : Busy(q))
      /\ UNCHANGED <<stream, stored, outdated, left, clicks, recv, mode, merged>>
  <2>1. /\ r \in Request /\ nextReq' = r + 1
        /\ mixed' = (mixed \/ ui.flushTimer \/ \E q \in Request : Busy(q))
        /\ UNCHANGED <<stream, stored, outdated, left, clicks, recv, mode, merged>>
    BY DEF sendChat
  <2>2. r \in Nat /\ r >= nextReq /\ nextKey \in Nat
    BY Types
  <2>3. nextKey' \in Nat /\ k \in Nat /\ nextKey <= nextKey'
    BY <2>2, PlaygroundAssumption DEF Key
  <2>q. QED
    BY <2>1, <2>2, <2>3
<1>1. /\ m \in Message /\ m.key = k /\ m.from = "assistant" /\ m.status = "loading"
      /\ m.text = NoText /\ m.req = r
  BY <1>0, LoadingFields
<1>2. /\ msgs \in Seq(Message) /\ Len(msgs) = Len(p) + 1 /\ msgs # <<>> /\ Last(msgs) = m
      /\ \A i \in DOMAIN p : i \in DOMAIN msgs /\ msgs[i] = p[i]
      /\ \A i \in DOMAIN msgs : i \in DOMAIN p \/ i = Len(msgs)
      /\ Conv(msgs, nextKey', r + 1)
  <2>1. Turned(p, k, r, nextKey', Append(p, m))
    <3>1. k \in Key /\ r \in Request /\ nextKey' \in Nat /\ Conv(p, k, r) /\ k < nextKey'
      BY <1>0
    <3>q. QED
      BY <3>1, FreshTurn
  <2>2. msgs = Append(p, m)
    OBVIOUS
  <2>q. QED
    BY <2>1, <2>2 DEF Turned
<1>3. OldMessages(msgs)
  BY <1>2 DEF OldMessages, Loaded
<1>4. EndsWithAssistant(msgs)
  BY <1>1, <1>2 DEF EndsWithAssistant
<1>s. ASSUME NEW n, DOMAIN n = DOMAIN msgs, n[Len(msgs)].key = k,
             \A i \in DOMAIN msgs : i # Len(msgs) => n[i] = msgs[i]
      PROVE  Stays(n)
  <2> SUFFICES ASSUME NEW i \in DOMAIN ui.messages, NEW j \in DOMAIN n,
                      isAssistantMessageFinal(ui.messages[i]), n[j].key = ui.messages[i].key
               PROVE  n[j] \in {ui.messages[i], Edited(ui.messages[i])}
    BY DEF Stays
  <2>1. ui.messages[i].key < nextKey /\ ui.messages[i].key \in Nat
    BY Types, Elements, MessageFields DEF Conv
  <2>2. ui.messages[i].key # k
    BY <1>0, <2>1
  <2>3. j # Len(msgs)
    BY <1>s, <2>2
  <2>4. j \in DOMAIN p /\ n[j] = p[j]
    BY <1>2, <1>s, <2>3
  <2>q. QED
    BY <2>4 DEF Stays
<1>t. Stays(msgs)
  <2>1. msgs[Len(msgs)].key = k
    BY <1>1, <1>2 DEF Last
  <2>q. QED
    BY <1>s, <2>1
<1> DEFINE u == updateMessages(u0, msgs)
<1>5. /\ u \in Component /\ u.messages = msgs /\ u.saveTimer = TRUE
      /\ u.isStreaming = ui.isStreaming /\ u.isRequesting = ui.isRequesting
      /\ u.sseSource = ui.sseSource /\ u.isStreamComplete = ui.isStreamComplete
      /\ u.pending = ui.pending /\ u.flushTimer = ui.flushTimer
  BY <1>2, UpdateFields DEF SamePage, SameHooks
<1>6. /\ ui.isStreaming <=> ui.sseSource # 0
      /\ ui.sseSource < nextReq
      /\ ui.isStreaming => stream
      /\ ui.pending # NoText => ui.isStreaming /\ ui.flushTimer
      /\ \A q \in Request :
            /\ net[q] = "sse" => ui.sseSource = q /\ ~ui.isStreamComplete
            /\ q >= nextReq => net[q] = "none"
            /\ net[q] \in {"none", "post"} => recv[q] = NoText
  BY DEF PageInv, Flags
<1>u. u \in Component /\ r \in Request
  BY <1>0, <1>5
<1>7. \A q \in Request : q >= nextReq' => q # r /\ q >= nextReq /\ q # ui.sseSource
  <2>1. ui.sseSource < nextReq /\ nextReq \in Nat /\ Request \subseteq Nat /\ ui.sseSource \in Nat
    BY <1>6, Types, ComponentFields
  <2>2. nextReq' = r + 1 /\ r = nextReq
    BY <1>0
  <2>q. QED
    BY <2>1, <2>2
<1>8. ui.sseSource # r
  BY <1>6, Types
<1>a. CASE /\ stream /\ ui' = sendStreamRequest(u, r)
           /\ net' = [q \in Request |-> IF q = r THEN "sse"
                                        ELSE IF q = ui.sseSource THEN "closed" ELSE net[q]]
  <2> HIDE DEF u
  <2>1. /\ ui' \in Component /\ ui'.messages = msgs /\ ui'.saveTimer = TRUE
        /\ ui'.isRequesting = TRUE /\ ui'.isStreaming = TRUE /\ ui'.sseSource = r
        /\ ui'.isStreamComplete = FALSE
        /\ ui'.pending = ui.pending /\ ui'.flushTimer = ui.flushTimer
    <3> DEFINE v == sendStreamRequest(u, r)
    <3>1. /\ v \in Component /\ v.messages = u.messages /\ v.saveTimer = u.saveTimer
          /\ v.isRequesting = TRUE /\ v.isStreaming = TRUE /\ v.sseSource = r
          /\ v.isStreamComplete = FALSE
          /\ v.pending = u.pending /\ v.flushTimer = u.flushTimer
      BY <1>u, StreamFields
    <3>2. ui' = v
      BY <1>a
    <3> HIDE DEF v
    <3>q. QED
      BY <1>5, <3>1, <3>2
  <2>2. /\ net' \in [Request -> {"none", "sse", "post", "closed", "cut"}]
        /\ net'[r] = "sse" /\ \A q \in Request : q # r => net'[q] \in {net[q], "closed"}
        /\ \A q \in Request : q # r /\ q # ui.sseSource => net'[q] = net[q]
        /\ \A q \in Request : q # r /\ q = ui.sseSource => net'[q] = "closed"
    BY <1>0, <1>a, Types
  <2>3. Flags'
    <3>1. /\ ui'.isStreaming <=> ui'.sseSource # 0
          /\ ui'.sseSource < nextReq'
          /\ ui'.isStreaming => stream'
          /\ ui'.pending # NoText => ui'.isStreaming /\ ui'.flushTimer
      <4>1. r # 0 /\ r < r + 1
        BY <1>0 DEF Request
      <4>q. QED
        BY <1>0, <1>6, <1>a, <2>1, <4>1
    <3>2. ASSUME NEW q \in Request
          PROVE  /\ net'[q] = "sse" => ui'.sseSource = q /\ ~ui'.isStreamComplete
                 /\ q >= nextReq' => net'[q] = "none"
                 /\ net'[q] \in {"none", "post"} => recv'[q] = NoText
      <4>0. /\ ui'.sseSource = r /\ ~ui'.isStreamComplete /\ recv' = recv
            /\ net[q] = "sse" => ui.sseSource = q
            /\ net[q] \in {"none", "post"} => recv[q] = NoText
            /\ q >= nextReq => net[q] = "none"
        BY <1>0, <1>6, <2>1
      <4>1. CASE q = r
        <5>1. net'[q] = "sse" /\ ~(q >= nextReq')
          BY <1>7, <2>2, <4>1
        <5>q. QED
          BY <4>0, <4>1, <5>1
      <4>2. CASE q # r /\ q = ui.sseSource
        <5>1. net'[q] = "closed" /\ ~(q >= nextReq')
          BY <1>7, <2>2, <4>2
        <5>q. QED
          BY <5>1
      <4>3. CASE q # r /\ q # ui.sseSource
        <5>1. net'[q] = net[q] /\ (q >= nextReq' => q >= nextReq)
          BY <1>7, <2>2, <4>3
        <5>q. QED
          BY <4>0, <4>3, <5>1
      <4>q. QED
        BY <4>1, <4>2, <4>3
    <3>q. QED
      BY <3>1, <3>2 DEF Flags
  <2>4. Turns(msgs, r)
    BY <1>0, <1>1, <1>2, <1>3, <2>1, <2>2 DEF Turns, isGenerating
  <2>q. QED
    BY <1>t, <2>1, <2>3, <2>4, TurnsKeeps
<1>b. CASE /\ stream /\ ui' = closeActiveStream(handleStreamError(sendStreamRequest(u, r)), r)
           /\ net' = [q \in Request |-> IF q \in {r, ui.sseSource} THEN "closed" ELSE net[q]]
  <2> HIDE DEF u
  <2> DEFINE v == sendStreamRequest(u, r)
             e == handleStreamError(v)
  <2>a. v \in Component /\ v.messages = u.messages /\ v.sseSource = r
    BY <1>u, StreamFields
  <2>1. v \in Component /\ v.messages = msgs /\ v.sseSource = r
    BY <1>5, <2>a
  <2> HIDE DEF v
  <2> PICK f : f = Failed(v)
    OBVIOUS
  <2>2. /\ e \in Component /\ e.pending = NoText
        /\ e.messages = SetLast(msgs, f) /\ e.saveTimer = TRUE
        /\ e.isRequesting = FALSE /\ e.sseSource = r
    BY <2>1, HandleFields DEF EndedAs
  <2>3. /\ f \in Message /\ f.key = k /\ f.from = "assistant" /\ f.req = r
        /\ f.status = "error"
    BY <1>1, <1>2, <1>4, <2>1, EndFields
  <2> HIDE DEF e
  <2> PICK n : n = SetLast(msgs, f)
    OBVIOUS
  <2>4. /\ ui' \in Component /\ ui'.pending = NoText /\ ui'.messages = n
        /\ ui'.saveTimer = TRUE /\ ui'.isRequesting = FALSE
        /\ ui'.isStreaming = FALSE /\ ui'.sseSource = 0
    <3>1. ui' = closeActiveStream(e, r) /\ r \in 0..MaxRequests
      BY <1>0, <1>b, PlaygroundAssumption DEF e, v, Request
    <3>q. QED
      BY <2>2, <3>1, CloseFields
  <2>5. /\ n \in Seq(Message) /\ Len(n) = Len(msgs) /\ DOMAIN n = DOMAIN msgs
        /\ \A i \in DOMAIN msgs : i # Len(msgs) => n[i] = msgs[i]
        /\ Last(n) = f /\ n # <<>>
    <3>1. msgs \in Seq(Message) /\ f \in Message
      BY <1>2, <2>3
    <3>q. QED
      BY ZenonT(60), <1>4, <3>1, SetLastFields
  <2>6. Conv(n, nextKey', nextReq')
    <3>1. Conv(msgs, nextKey', nextReq')
      BY <1>0, <1>2
    <3>2. f.key = Last(msgs).key /\ f.req = Last(msgs).req
      BY <1>1, <1>2, <2>3
    <3>q. QED
      BY <1>2, <2>3, <3>1, <3>2, SetLastConv
  <2>7. OldMessages(n)
    BY <1>3, <2>5 DEF OldMessages
  <2>8. /\ net' \in [Request -> {"none", "sse", "post", "closed", "cut"}]
        /\ net'[r] = "closed" /\ \A q \in Request : q # r => net'[q] \in {net[q], "closed"}
        /\ \A q \in Request : q # r /\ q # ui.sseSource => net'[q] = net[q]
        /\ \A q \in Request : q # r /\ q = ui.sseSource => net'[q] = "closed"
    BY <1>0, <1>b, Types
  <2>9. Flags'
    <3>1. /\ ui'.isStreaming <=> ui'.sseSource # 0
          /\ ui'.sseSource < nextReq'
          /\ ui'.isStreaming => stream'
          /\ ui'.pending # NoText => ui'.isStreaming /\ ui'.flushTimer
      <4>1. 0 < r + 1
        BY <1>0
      <4>q. QED
        BY <1>0, <2>4, <4>1
    <3>2. ASSUME NEW q \in Request
          PROVE  /\ net'[q] = "sse" => ui'.sseSource = q /\ ~ui'.isStreamComplete
                 /\ q >= nextReq' => net'[q] = "none"
                 /\ net'[q] \in {"none", "post"} => recv'[q] = NoText
      BY <1>0, <1>6, <1>7, <2>8
    <3>q. QED
      BY <3>1, <3>2 DEF Flags
  <2>10. Turns(n, r)
    BY <1>0, <2>3, <2>4, <2>5, <2>6, <2>7, <2>8 DEF Turns, isGenerating
  <2>11. Stays(n)
    <3>1. n[Len(msgs)].key = k
      BY <2>3, <2>5 DEF Last
    <3>q. QED
      BY <1>s, <2>5, <3>1
  <2>q. QED
    BY <2>4, <2>9, <2>10, <2>11, TurnsKeeps
<1>c. CASE /\ ~stream /\ ui' = sendNonStreamingChat(u, r) /\ net' = [net EXCEPT ![r] = "post"]
  <2> HIDE DEF u
  <2>1. /\ ui' \in Component /\ ui'.messages = msgs /\ ui'.saveTimer = TRUE
        /\ ui'.isRequesting = TRUE /\ ui'.isStreaming = ui.isStreaming
        /\ ui'.sseSource = ui.sseSource /\ ui'.isStreamComplete = ui.isStreamComplete
        /\ ui'.pending = ui.pending /\ ui'.flushTimer = ui.flushTimer
        /\ ui'.requestId = r /\ ui'.abortController = r
    <3> DEFINE v == sendNonStreamingChat(u, r)
    <3>1. /\ v \in Component /\ v.messages = u.messages /\ v.saveTimer = u.saveTimer
          /\ v.isRequesting = TRUE /\ v.isStreaming = u.isStreaming
          /\ v.sseSource = u.sseSource /\ v.isStreamComplete = u.isStreamComplete
          /\ v.requestId = r /\ v.abortController = r
          /\ v.pending = u.pending /\ v.flushTimer = u.flushTimer
      BY <1>u, NonStreamingFields
    <3>2. ui' = v
      BY <1>c
    <3> HIDE DEF v
    <3>q. QED
      BY <1>5, <3>1, <3>2
  <2>2. /\ net' \in [Request -> {"none", "sse", "post", "closed", "cut"}]
        /\ net'[r] = "post" /\ \A q \in Request : q # r => net'[q] = net[q]
    BY <1>0, <1>c, Types
  <2>3. Flags'
    <3>1. /\ ui'.isStreaming <=> ui'.sseSource # 0
          /\ ui'.sseSource < nextReq'
          /\ ui'.isStreaming => stream'
          /\ ui'.pending # NoText => ui'.isStreaming /\ ui'.flushTimer
      <4>1. ui.sseSource < r + 1
        BY <1>0, <1>6, Types, ComponentFields
      <4>q. QED
        BY <1>0, <1>6, <2>1, <4>1
    <3>2. ASSUME NEW q \in Request
          PROVE  /\ net'[q] = "sse" => ui'.sseSource = q /\ ~ui'.isStreamComplete
                 /\ q >= nextReq' => net'[q] = "none"
                 /\ net'[q] \in {"none", "post"} => recv'[q] = NoText
      <4>1. recv[r] = NoText
        BY <1>0, <1>6
      <4>q. QED
        BY <1>0, <1>6, <1>7, <2>1, <2>2, <4>1
    <3>q. QED
      BY <3>1, <3>2 DEF Flags
  <2>4. Turns(msgs, r)
    BY <1>0, <1>1, <1>2, <1>3, <1>c, <2>1, <2>2 DEF Turns, isGenerating
  <2>q. QED
    BY <1>t, <2>1, <2>3, <2>4, TurnsKeeps
<1>q. QED
  BY <1>a, <1>b, <1>c DEF sendChat

\* When the page is idle nothing is pending.
LEMMA IdleIsDone ==
  ASSUME PageInv, ~isGenerating
  PROVE  NonePending(ui.messages)
  BY DEF PageInv, NothingLeftPending, NonePending

\* createUserMessage.
LEMMA UserFields ==
  ASSUME NEW k \in Key
  PROVE  LET m == createUserMessage(k) IN
         /\ m \in Message /\ m.key = k /\ m.from = "user" /\ m.status = "none" /\ m.req = 0
<1> DEFINE t == [NoText EXCEPT !["content"] = <<"prompt">>]
<1>0. "content" \in Channel /\ <<"prompt">> \in Seq(Word) /\ 0 \in 0..MaxRequests
  BY PlaygroundAssumption DEF Channel, Word
<1>1. t \in [Channel -> Seq(Word)]
  BY <1>0, EmptyText
<1>2. createUserMessage(k) = [key |-> k, from |-> "user", status |-> "none", text |-> t, req |-> 0]
  BY DEF createUserMessage
<1> HIDE DEF t
<1>q. QED
  BY <1>0, <1>1, <1>2 DEF Message, Word

\* An edit leaves who speaks.
LEMMA EditFrom ==
  ASSUME NEW msgs \in Seq(Message), NEW k
  PROVE  \A i \in DOMAIN msgs : updateContent(msgs, k)[i].from = msgs[i].from
<1>1. \A i \in DOMAIN msgs : msgs[i] \in Message
  BY Elements
<1>2. \A i \in DOMAIN msgs :
         updateContent(msgs, k)[i] = IF msgs[i].key = k THEN Edited(msgs[i]) ELSE msgs[i]
  BY DEF updateContent, Edited
<1>q. QED
  BY <1>1, <1>2, EditedFields

\* p is the idle conversation s with the new question a.
Asked(s, K, R, a, p, KK) ==
    /\ s \in Seq(Message) /\ K \in Nat /\ R \in Nat /\ K \in Key /\ 0 < R
    /\ Conv(s, K, R) /\ NonePending(s) /\ a = createUserMessage(K) /\ p = Append(s, a)
    /\ KK = K + 1

\* The conversation with a new question.
LEMMA QuestionFields ==
  ASSUME NEW s, NEW K, NEW R, NEW a, NEW p, NEW KK, Asked(s, K, R, a, p, KK)
  PROVE  /\ p \in Seq(Message) /\ Conv(p, KK, R) /\ Len(p) = Len(s) + 1
         /\ \A i \in DOMAIN s : i \in DOMAIN p /\ p[i] = s[i]
         /\ \A i \in DOMAIN p : i \in DOMAIN s \/ i = Len(p)
         /\ p[Len(p)] = a
<1> USE DEF Asked
<1>1. a \in Message /\ a.key = K /\ a.from = "user" /\ a.status = "none" /\ a.req = 0
  BY UserFields
<1>2. KK \in Nat /\ K <= a.key /\ a.key < KK /\ R <= R /\ a.req < R
  BY <1>1
<1>3. Append(s, a) \in Seq(Message) /\ Conv(Append(s, a), KK, R)
  BY <1>1, <1>2, AppendFields
<1>4. /\ Len(p) = Len(s) + 1 /\ p[Len(p)] = a
      /\ \A i \in DOMAIN s : i \in DOMAIN p /\ p[i] = s[i]
      /\ \A i \in DOMAIN p : i \in DOMAIN s \/ i = Len(p)
  BY <1>1
<1>q. QED
  BY <1>3, <1>4

\* A question and the answer to come are appended.
LEMMA SendMessageKeeps ==
  ASSUME PageInv, SendMessage
  PROVE  PageInv' /\ Stays(ui'.messages)
<1>u. PICK u0 : u0 = ui
  OBVIOUS
<1>a. PICK a : a = createUserMessage(nextKey)
  OBVIOUS
<1>p. PICK p : p = Append(ui.messages, a)
  OBVIOUS
<1>k. PICK k : k = nextKey + 1
  OBVIOUS
<1>1. ~isGenerating /\ nextKey' = nextKey + 2 /\ nextKey + 1 \in Key
  BY DEF SendMessage
<1>2. nextKey \in Nat \ {0} /\ nextReq \in Nat
  BY Types
<1>3. nextKey \in Key /\ k \in Key /\ k \in Nat
  BY <1>k, <1>1, <1>2, PlaygroundAssumption DEF Key
<1>4. a \in Message /\ a.key = nextKey /\ a.from = "user" /\ a.status = "none" /\ a.req = 0
  BY <1>a, <1>3, UserFields
<1>6. ui.messages \in Seq(Message) /\ Conv(ui.messages, nextKey, nextReq) /\ NonePending(ui.messages)
  BY <1>1, Types, IdleIsDone
<1>7. /\ p \in Seq(Message) /\ Conv(p, k, nextReq) /\ Len(p) = Len(ui.messages) + 1
      /\ \A i \in DOMAIN ui.messages : i \in DOMAIN p /\ p[i] = ui.messages[i]
      /\ \A i \in DOMAIN p : i \in DOMAIN ui.messages \/ i = Len(p)
      /\ p[Len(p)] = a
  <2>1. 0 < nextReq
    BY Types
  <2>2. Asked(ui.messages, nextKey, nextReq, a, p, k)
    BY <1>a, <1>p, <1>k, <1>2, <1>3, <1>6, <2>1 DEF Asked
  <2>q. QED
    BY <2>2, QuestionFields
<1>8. NonePending(p) /\ Loaded(p, ui.messages) /\ Stays(p)
  <2>1. ~isAssistantMessagePending(a)
    BY <1>4 DEF isAssistantMessagePending
  <2>2. \A i \in DOMAIN ui.messages : ui.messages[i].key # nextKey
    <3>1. \A i \in DOMAIN ui.messages : ui.messages[i].key < nextKey /\ ui.messages[i].key \in Nat
      BY <1>6, Elements, MessageFields DEF Conv
    <3>q. QED
      BY <1>2, <3>1
  <2>3. Stays(p)
    <3> SUFFICES ASSUME NEW i \in DOMAIN ui.messages, NEW j \in DOMAIN p,
                        p[j].key = ui.messages[i].key
                 PROVE  p[j] = ui.messages[i]
      BY DEF Stays
    <3>1. j # Len(p)
      BY <1>4, <1>7, <2>2
    <3>2. p[j] = ui.messages[j] /\ j \in DOMAIN ui.messages
      BY <1>7, <3>1
    <3>3. i = j
      BY <1>6, <3>2 DEF Conv
    <3>q. QED
      BY <3>2, <3>3
  <2>q. QED
    BY <1>4, <1>6, <1>7, <2>1, <2>3 DEF NonePending, Loaded
<1>b. PICK b : b = createLoadingAssistantMessage(k, nextReq)
  OBVIOUS
<1>m. PICK msgs : msgs = ui.messages \o <<a, b>>
  OBVIOUS
<1>5. sendChat(u0, msgs, nextReq)
  BY <1>u, <1>a, <1>b, <1>m, <1>k DEF SendMessage
<1>9. msgs = Append(p, createLoadingAssistantMessage(k, nextReq))
  <2>1. nextReq \in Request
    BY <1>5 DEF sendChat
  <2>2. b \in Message
    BY <1>b, <1>3, <2>1, LoadingFields
  <2>3. ui.messages \o <<a, b>> = Append(Append(ui.messages, a), b)
    BY <1>4, <1>6, <2>2
  <2>q. QED
    BY <1>b, <1>m, <1>p, <2>3
<1>10. nextKey <= k /\ k < nextKey' /\ nextKey' \in 1..(3 * MaxRequests + 1)
  BY <1>k, <1>1, <1>2, <1>3, PlaygroundAssumption DEF Key
<1>11. SamePage(u0)
  BY <1>u, Types DEF SamePage
<1>q. QED
  BY <1>3, <1>5, <1>7, <1>8, <1>9, <1>10, <1>11, SendChatKeeps

\* An answer is asked for again.
LEMMA RegenerateKeeps ==
  ASSUME PageInv, NEW k0 \in Key, RegenerateMessage(k0)
  PROVE  PageInv' /\ Stays(ui'.messages)
<1> PICK u0 : u0 = ui
  OBVIOUS
<1> PICK k : k = nextKey
  OBVIOUS
<1> PICK x : x = IndexOf(ui.messages, k0)
  OBVIOUS
<1> PICK z : z = IF ui.messages[x].from = "user" THEN x ELSE x - 1
  OBVIOUS
<1> PICK p : p = SubSeq(ui.messages, 1, z)
  OBVIOUS
<1> PICK msgs : msgs = Append(p, createLoadingAssistantMessage(k, nextReq))
  OBVIOUS
<1>1. /\ ~isGenerating /\ k0 \in KeysOf(ui.messages) /\ nextKey' = nextKey + 1 /\ nextKey \in Key
      /\ sendChat(u0, msgs, nextReq)
  BY DEF RegenerateMessage, createRegeneratedMessages
<1>2. ui.messages \in Seq(Message) /\ Conv(ui.messages, nextKey, nextReq) /\ NonePending(ui.messages)
      /\ nextKey \in Nat \ {0}
  BY <1>1, Types, IdleIsDone
<1>3. x \in DOMAIN ui.messages /\ Len(ui.messages) \in Nat /\ DOMAIN ui.messages = 1..Len(ui.messages)
  BY <1>1, <1>2, IndexFields, Elements
<1>4. z \in 0..Len(ui.messages)
  BY <1>3
<1>5. z = Len(ui.messages) /\ z > 0 => ~isAssistantMessagePending(ui.messages[z])
  BY <1>2, <1>3, <1>4 DEF NonePending
<1>6. p \in Seq(Message) /\ Conv(p, nextKey, nextReq) /\ Kept(p, ui.messages) /\ NonePending(p)
  BY <1>2, <1>4, <1>5, PrefixFields
<1>7. Loaded(p, ui.messages) /\ Stays(p)
  BY <1>2, <1>6, KeptLoaded, KeptStays
<1>8. nextKey <= k /\ k < nextKey' /\ nextKey' \in 1..(3 * MaxRequests + 1) /\ k \in Key
  <2>1. nextKey' = nextKey + 1 /\ nextKey \in Key /\ nextKey \in Nat \ {0}
    BY <1>1, <1>2
  <2>2. MaxRequests \in Nat /\ nextKey <= 3 * MaxRequests
    BY <2>1, PlaygroundAssumption DEF Key
  <2>q. QED
    BY <2>1, <2>2
<1>9. SamePage(u0)
  BY Types DEF SamePage
<1>q. QED
  BY <1>1, <1>6, <1>7, <1>8, <1>9, SendChatKeeps

\* An edited question is asked, perhaps while a request is running.
LEMMA SubmitEditKeeps ==
  ASSUME PageInv, SubmitEdit
  PROVE  PageInv' /\ Stays(ui'.messages)
<1> PICK u0 : u0 = [ui EXCEPT !.editing = 0]
  OBVIOUS
<1> PICK k : k = nextKey
  OBVIOUS
<1> PICK e : e = ui.editing
  OBVIOUS
<1> PICK x : x = IndexOf(ui.messages, e)
  OBVIOUS
<1> PICK s : s = updateContent(ui.messages, e)
  OBVIOUS
<1>1. /\ e \in KeysOf(ui.messages) /\ ui.messages[x].from = "user"
      /\ nextKey' = nextKey + 1 /\ nextKey \in Key
  BY DEF SubmitEdit
<1>2. ui.messages \in Seq(Message) /\ Conv(ui.messages, nextKey, nextReq)
      /\ nextKey \in Nat \ {0} /\ 0 < nextReq
  BY Types
<1>3. x \in DOMAIN ui.messages /\ Len(ui.messages) \in Nat /\ DOMAIN ui.messages = 1..Len(ui.messages)
  BY <1>1, <1>2, IndexFields, Elements
<1>4. /\ s \in Seq(Message) /\ Len(s) = Len(ui.messages) /\ DOMAIN s = DOMAIN ui.messages
      /\ \A i \in DOMAIN s : s[i].from = ui.messages[i].from
      /\ Conv(s, nextKey, nextReq) /\ Kept(s, ui.messages)
  <2> DEFINE n == updateContent(ui.messages, e)
  <2>1. /\ n \in Seq(Message) /\ Len(n) = Len(ui.messages) /\ DOMAIN n = DOMAIN ui.messages
        /\ Conv(n, nextKey, nextReq) /\ Kept(n, ui.messages)
    BY <1>2, EditFields
  <2>2. \A i \in DOMAIN ui.messages : n[i].from = ui.messages[i].from
    BY <1>2, EditFrom
  <2>3. s = n
    OBVIOUS
  <2> HIDE DEF n
  <2>q. QED
    BY <2>1, <2>2, <2>3
<1>5. x \in 0..Len(s) /\ ~isAssistantMessagePending(s[x])
  <2>1. x \in 1..Len(s) /\ x \in DOMAIN s /\ s[x].from = "user"
    BY <1>1, <1>3, <1>4
  <2>2. s[x].status = "none"
    BY <1>4, <2>1 DEF Conv
  <2>3. x \in 0..Len(s)
    BY <1>3, <1>4, <2>1
  <2>q. QED
    BY <2>2, <2>3 DEF isAssistantMessagePending
<1> PICK p : p = SubSeq(s, 1, x)
  OBVIOUS
<1> PICK msgs : msgs = Append(p, createLoadingAssistantMessage(k, nextReq))
  OBVIOUS
<1>a. sendChat(u0, msgs, nextReq)
  BY DEF SubmitEdit
<1>6. /\ p \in Seq(Message) /\ Conv(p, nextKey, nextReq) /\ NonePending(p) /\ DOMAIN p = 1..x
      /\ \A i \in 1..x : i \in DOMAIN s /\ p[i] = s[i]
  BY <1>4, <1>5, PrefixFields
<1>7. Kept(p, ui.messages)
  BY <1>4, <1>6 DEF Kept
<1>8. Loaded(p, ui.messages) /\ Stays(p)
  BY <1>2, <1>7, KeptLoaded, KeptStays
<1>9. nextKey <= k /\ k < nextKey' /\ nextKey' \in 1..(3 * MaxRequests + 1) /\ k \in Key
  <2>1. nextKey' = nextKey + 1 /\ nextKey \in Key /\ nextKey \in Nat \ {0}
    BY <1>1, <1>2
  <2>q. QED
    BY SMTT(30), <2>1, PlaygroundAssumption DEF Key
<1>10. SamePage(u0)
  <2>1. ui \in Component
    BY Types
  <2>q. QED
    BY <2>1 DEF SamePage, Component
<1>q. QED
  BY <1>a, <1>6, <1>8, <1>9, <1>10, SendChatKeeps

-----------------------------------------------------------------------------
(* Clicks that send nothing, and saving.                                   *)

\* A conversation that may be stored.
Filed(s) ==
    /\ s \in Seq(Message) /\ Conv(s, nextKey, nextReq)
    /\ ~mixed => WholeAll(s, merged, net, recv)

\* What is stored is one, and so is what is shown.
LEMMA ShownFiled ==
  ASSUME PageInv
  PROVE  Filed(stored) /\ Filed(ui.messages)
<1>1. ~mixed => WholeAll(ui.messages, merged, net, recv) /\ WholeAll(stored, merged, net, recv)
  BY Parts DEF PageInv
<1>q. QED
  BY <1>1, Types DEF Filed

\* It is trimmed when it is stored.
LEMMA TrimFiled ==
  ASSUME NEW s, Filed(s)
  PROVE  Filed(trimMessages(s))
<1> DEFINE t == trimMessages(s)
<1>1. /\ t \in Seq(Message) /\ Conv(t, nextKey, nextReq)
      /\ \A i \in DOMAIN t : \E j \in DOMAIN s : t[i] = s[j]
  BY TrimFields DEF Filed
<1> HIDE DEF t
<1>2. Filed(t)
  BY <1>1 DEF Filed, WholeAll
<1>q. QED
  BY <1>2 DEF t

\* The messages become n and the connections stay: the user edits or removes
\* messages, and removes them only while the page is idle; a conversation may
\* be stored.
Arranges(n) ==
    /\ ui' \in Component /\ ui'.messages = n
    /\ ui'.isStreaming = ui.isStreaming /\ ui'.isRequesting = ui.isRequesting
    /\ ui'.sseSource = ui.sseSource /\ ui'.isStreamComplete = ui.isStreamComplete
    /\ ui'.requestId = ui.requestId /\ ui'.abortController = ui.abortController
    /\ ui'.pending = ui.pending /\ ui'.flushTimer = ui.flushTimer
    /\ n \in Seq(Message) /\ Conv(n, nextKey, nextReq) /\ Kept(n, ui.messages)
    /\ \/ ~isGenerating /\ NonePending(n)
       \/ /\ Len(n) = Len(ui.messages) /\ DOMAIN n = DOMAIN ui.messages
          /\ \A i \in DOMAIN n : n[i].status = ui.messages[i].status
          /\ \A i \in DOMAIN n : n[i] = ui.messages[i] \/ n[i].req = 0
    /\ Filed(stored') /\ SavedOrScheduled' /\ outdated' \in BOOLEAN
    /\ clicks' \in 0..MaxClicks
    /\ UNCHANGED <<stream, left, net, nextReq, nextKey, recv, mode, mixed, merged>>

\* Such a step keeps the invariant and finished answers.
LEMMA ArrangesKeeps ==
  ASSUME PageInv, NEW n, Arranges(n)
  PROVE  PageInv' /\ Stays(ui'.messages)
<1>0. /\ ui.messages \in Seq(Message) /\ stored \in Seq(Message)
      /\ Conv(ui.messages, nextKey, nextReq) /\ Conv(stored, nextKey, nextReq)
      /\ nextReq \in Nat /\ ui.isStreaming \in BOOLEAN /\ ui.isRequesting \in BOOLEAN
      /\ ui'.isStreaming \in BOOLEAN /\ ui'.isRequesting \in BOOLEAN
  BY Types, ComponentFields DEF Arranges
<1>1. /\ nextKey' = nextKey /\ nextReq' = nextReq /\ mode' = mode /\ mixed' = mixed
      /\ net' = net /\ recv' = recv /\ merged' = merged /\ ui'.messages = n
      /\ ui'.pending = ui.pending /\ n \in Seq(Message)
  BY DEF Arranges
<1>2. /\ stored' \in Seq(Message) /\ Conv(stored', nextKey, nextReq)
      /\ ~mixed => WholeAll(stored', merged, net, recv)
  BY DEF Arranges, Filed
<1>3. stream' = stream
  BY DEF Arranges
<1>4. TypeOK'
  BY <1>2, <1>3 DEF PageInv, TypeOK, Arranges
<1>5. isGenerating' <=> isGenerating
  BY DEF Arranges, isGenerating
<1>6. Flags'
  <2>1. /\ ui.isStreaming <=> ui.sseSource # 0
        /\ ui.sseSource < nextReq
        /\ ui.isStreaming => stream
        /\ ui.pending # NoText => ui.isStreaming /\ ui.flushTimer
        /\ \A r \in Request :
              /\ net[r] = "sse" => ui.sseSource = r /\ ~ui.isStreamComplete
              /\ r >= nextReq => net[r] = "none"
              /\ net[r] \in {"none", "post"} => recv[r] = NoText
    BY DEF PageInv, Flags
  <2>2. ui.isStreaming => stream'
    BY <1>3, <2>1 DEF isGenerating
  <2>3. /\ ui'.isStreaming = ui.isStreaming /\ ui'.sseSource = ui.sseSource
        /\ ui'.isStreamComplete = ui.isStreamComplete /\ ui'.flushTimer = ui.flushTimer
    BY DEF Arranges
  <2>q. QED
    BY <1>1, <2>1, <2>2, <2>3 DEF Flags
<1>7. NothingLeftPending'
  <2> SUFFICES ASSUME NEW i \in DOMAIN n, isAssistantMessagePending(n[i])
               PROVE  isGenerating /\ i = Len(n)
    BY <1>1, <1>5 DEF NothingLeftPending
  <2>1. i = Len(n)
    BY DEF Arranges, Conv
  <2>2. i \in DOMAIN ui.messages /\ isAssistantMessagePending(ui.messages[i])
    BY DEF Arranges, NonePending, isAssistantMessagePending
  <2>q. QED
    BY <2>1, <2>2 DEF PageInv, NothingLeftPending
<1>8. ASSUME ~mixed
      PROVE  OneAnswer'
  <2>1. /\ WholeAll(ui.messages, merged, net, recv) /\ WholeAll(stored, merged, net, recv)
        /\ ArrivingAll(ui.messages, merged, recv, ui.pending, mode, nextReq)
        /\ Single
    BY <1>8, Parts DEF PageInv
  <2>2. WholeAll(n, merged, net, recv)
    <3>1. Loaded(n, ui.messages)
      BY <1>0, KeptLoaded DEF Arranges
    <3>q. QED
      BY <2>1, <3>1, WholeLoaded
  <2>3. WholeAll(stored', merged, net, recv)
    BY <1>2, <1>8
  <2>4. ArrivingAll(n, merged, recv, ui.pending, mode, nextReq)
    <3> SUFFICES ASSUME NEW i \in DOMAIN n, isAssistantMessagePending(n[i]), n[i].req # 0
                 PROVE  ArrivingIn(n[i], merged, recv, ui.pending, mode, nextReq)
      BY DEF ArrivingAll, ArrivingIn
    <3>1. i \in DOMAIN ui.messages /\ n[i] = ui.messages[i]
      BY DEF Arranges, NonePending
    <3>q. QED
      BY <2>1, <3>1 DEF ArrivingAll
  <2>5. Single'
    <3>1. \A r \in Request : Busy(r)' => r = nextReq' - 1 /\ isGenerating'
      BY <1>1, <1>5, <2>1 DEF Single, Busy
    <3>2. \A r \in Request : net'[r] = "post" =>
             ~stream' /\ ui'.requestId = r /\ ui'.abortController = r
      BY <1>1, <1>3, <2>1 DEF Single, Busy, Arranges
    <3>3. isGenerating' => n # <<>> /\ isAssistantMessagePending(Last(n))
      <4> SUFFICES ASSUME isGenerating
                   PROVE  n # <<>> /\ isAssistantMessagePending(Last(n))
        BY <1>5
      <4>1. ui.messages # <<>> /\ isAssistantMessagePending(Last(ui.messages))
        BY <2>1 DEF Single
      <4>2. /\ Len(n) = Len(ui.messages) /\ DOMAIN n = DOMAIN ui.messages
            /\ \A i \in DOMAIN n : n[i].status = ui.messages[i].status
        BY DEF Arranges
      <4>3. Len(ui.messages) \in DOMAIN ui.messages /\ Len(ui.messages) >= 1
        BY <1>0, <4>1, Elements
      <4>4. n # <<>>
        BY <4>2, <4>3
      <4>q. QED
        BY <4>1, <4>2, <4>3, <4>4 DEF Last, isAssistantMessagePending
    <3>q. QED
      BY <1>1, <3>1, <3>2, <3>3 DEF Single
  <2>q. QED
    BY <1>1, <2>2, <2>3, <2>4, <2>5, Parts
<1>9. PageInv'
  BY <1>1, <1>2, <1>4, <1>6, <1>7, <1>8, Conversations DEF PageInv, Arranges
<1>10. Stays(n)
  BY KeptStays DEF Arranges
<1>q. QED
  BY <1>1, <1>9, <1>10

\* Opening or closing the editor.
LEMMA EditingFields ==
  ASSUME NEW u \in Component, NEW k \in {0} \cup Key
  PROVE  LET v == [u EXCEPT !.editing = k] IN
         /\ v \in Component /\ v.messages = u.messages /\ v.saveTimer = u.saveTimer
         /\ v.isStreaming = u.isStreaming /\ v.isRequesting = u.isRequesting
         /\ v.sseSource = u.sseSource /\ v.isStreamComplete = u.isStreamComplete
         /\ v.requestId = u.requestId /\ v.abortController = u.abortController
         /\ v.pending = u.pending /\ v.flushTimer = u.flushTimer
  BY DEF Component

\* The conversation stays and is not saved by the step.
LEMMA SameArranges ==
  ASSUME PageInv, ui' \in Component, ui'.messages = ui.messages, ui'.saveTimer = ui.saveTimer,
         ui'.isStreaming = ui.isStreaming, ui'.isRequesting = ui.isRequesting,
         ui'.sseSource = ui.sseSource, ui'.isStreamComplete = ui.isStreamComplete,
         ui'.requestId = ui.requestId, ui'.abortController = ui.abortController,
         ui'.pending = ui.pending, ui'.flushTimer = ui.flushTimer,
         clicks' \in 0..MaxClicks,
         UNCHANGED <<stream, stored, outdated, left, net, nextReq, nextKey, recv, mode, mixed, merged>>
  PROVE  PageInv' /\ Stays(ui'.messages)
<1>1. ui.messages \in Seq(Message) /\ Conv(ui.messages, nextKey, nextReq)
  BY Types
<1>2. Kept(ui.messages, ui.messages)
  BY DEF Kept
<1>3. SavedOrScheduled'
  BY DEF PageInv, SavedOrScheduled
<1>a. Filed(stored) /\ outdated \in BOOLEAN
  BY ShownFiled DEF PageInv, TypeOK
<1>4. Arranges(ui.messages)
  BY <1>1, <1>2, <1>3, <1>a DEF Arranges
<1>q. QED
  BY <1>4, ArrangesKeeps

\* The clicks that are left stay within their bound.
LEMMA ClickCounts ==
  ASSUME PageInv, Click
  PROVE  clicks' \in 0..MaxClicks
<1>1. clicks \in 0..MaxClicks /\ MaxClicks \in Nat
  BY PlaygroundAssumption DEF PageInv, TypeOK
<1>q. QED
  BY <1>1 DEF Click

\* The editor is opened or closed.
LEMMA EditorKeeps ==
  ASSUME PageInv, CancelEdit \/ \E k \in Key : OpenEdit(k)
  PROVE  PageInv' /\ Stays(ui'.messages)
<1>1. PICK k \in {0} \cup Key : Local([ui EXCEPT !.editing = k])
  BY DEF CancelEdit, OpenEdit
<1>2. /\ ui' = [ui EXCEPT !.editing = k]
      /\ UNCHANGED <<stream, stored, outdated, left, net, nextReq, nextKey, recv, mode, mixed, merged>>
      /\ clicks' \in 0..MaxClicks
  BY <1>1, ClickCounts DEF Local
<1> DEFINE v == [ui EXCEPT !.editing = k]
<1>3. /\ v \in Component /\ v.messages = ui.messages /\ v.saveTimer = ui.saveTimer
      /\ v.isStreaming = ui.isStreaming /\ v.isRequesting = ui.isRequesting
      /\ v.sseSource = ui.sseSource /\ v.isStreamComplete = ui.isStreamComplete
      /\ v.requestId = ui.requestId /\ v.abortController = ui.abortController
      /\ v.pending = ui.pending /\ v.flushTimer = ui.flushTimer
  BY Types, EditingFields
<1>4. ui' = v
  BY <1>2
<1> HIDE DEF v
<1>q. QED
  BY <1>2, <1>3, <1>4, SameArranges

\* The messages are changed by a click.
LEMMA UpdateArranges ==
  ASSUME PageInv, NEW n \in Seq(Message), NEW v, v = updateMessages(ui, n),
         ui' = v \/ ui' = [v EXCEPT !.editing = 0],
         Conv(n, nextKey, nextReq), Kept(n, ui.messages),
         \/ ~isGenerating /\ NonePending(n)
         \/ /\ Len(n) = Len(ui.messages) /\ DOMAIN n = DOMAIN ui.messages
            /\ \A i \in DOMAIN n : n[i].status = ui.messages[i].status
            /\ \A i \in DOMAIN n : n[i] = ui.messages[i] \/ n[i].req = 0,
         clicks' \in 0..MaxClicks,
         UNCHANGED <<stream, stored, outdated, left, net, nextReq, nextKey, recv, mode, mixed, merged>>
  PROVE  PageInv' /\ Stays(ui'.messages)
<1>1. /\ v \in Component /\ v.messages = n /\ v.saveTimer = TRUE
      /\ v.isStreaming = ui.isStreaming /\ v.isRequesting = ui.isRequesting
      /\ v.sseSource = ui.sseSource /\ v.isStreamComplete = ui.isStreamComplete
      /\ v.requestId = ui.requestId /\ v.abortController = ui.abortController
      /\ v.pending = ui.pending /\ v.flushTimer = ui.flushTimer
  <2>1. ui \in Component
    BY Types
  <2>2. /\ v \in Component /\ v.messages = n /\ v.saveTimer = TRUE
        /\ SameHooks(v, ui)
        /\ v.isStreaming = ui.isStreaming /\ v.isRequesting = ui.isRequesting
        /\ v.sseSource = ui.sseSource /\ v.abortController = ui.abortController
        /\ v.pending = ui.pending /\ v.flushTimer = ui.flushTimer
    BY <2>1, UpdateFields
  <2>q. QED
    BY <2>2 DEF SameHooks
<1>w. PICK w : w = [v EXCEPT !.editing = 0]
  OBVIOUS
<1>2. /\ w \in Component /\ w.messages = v.messages /\ w.saveTimer = v.saveTimer
      /\ w.isStreaming = v.isStreaming /\ w.isRequesting = v.isRequesting
      /\ w.sseSource = v.sseSource /\ w.isStreamComplete = v.isStreamComplete
      /\ w.requestId = v.requestId /\ w.abortController = v.abortController
      /\ w.pending = v.pending /\ w.flushTimer = v.flushTimer
  <2>1. v \in Component /\ 0 \in {0} \cup Key
    BY <1>1
  <2> DEFINE e == [v EXCEPT !.editing = 0]
  <2>2. /\ e \in Component /\ e.messages = v.messages /\ e.saveTimer = v.saveTimer
        /\ e.isStreaming = v.isStreaming /\ e.isRequesting = v.isRequesting
        /\ e.sseSource = v.sseSource /\ e.isStreamComplete = v.isStreamComplete
        /\ e.requestId = v.requestId /\ e.abortController = v.abortController
        /\ e.pending = v.pending /\ e.flushTimer = v.flushTimer
    BY <2>1, EditingFields, Zenon
  <2>3. w = e
    BY <1>w
  <2> HIDE DEF e
  <2>q. QED
    BY <2>2, <2>3, Zenon
<1>3. ui' = v \/ ui' = w
  BY <1>w
<1>4. SavedOrScheduled'
  BY <1>1, <1>2, <1>3 DEF SavedOrScheduled
<1>a. Filed(stored) /\ outdated \in BOOLEAN
  BY ShownFiled DEF PageInv, TypeOK
<1>5. Arranges(n)
  BY <1>1, <1>2, <1>3, <1>4, <1>a DEF Arranges
<1>q. QED
  BY <1>5, ArrangesKeeps

\* An edit is saved.
LEMMA SaveEditKeeps ==
  ASSUME PageInv, SaveEdit
  PROVE  PageInv' /\ Stays(ui'.messages)
<1>1. ui.messages \in Seq(Message) /\ Conv(ui.messages, nextKey, nextReq) /\ 0 < nextReq
  BY Types
<1>2. PICK n : n = updateContent(ui.messages, ui.editing)
  OBVIOUS
<1>3. PICK v : v = updateMessages(ui, n)
  OBVIOUS
<1>4. /\ ui' = [v EXCEPT !.editing = 0] /\ clicks' \in 0..MaxClicks
      /\ UNCHANGED <<stream, stored, outdated, left, net, nextReq, nextKey, recv, mode, mixed, merged>>
  BY <1>2, <1>3, ClickCounts DEF SaveEdit, Local
<1>5. /\ n \in Seq(Message) /\ Len(n) = Len(ui.messages) /\ DOMAIN n = DOMAIN ui.messages
      /\ Conv(n, nextKey, nextReq) /\ Kept(n, ui.messages)
  <2> DEFINE x == updateContent(ui.messages, ui.editing)
  <2>1. /\ x \in Seq(Message) /\ Len(x) = Len(ui.messages) /\ DOMAIN x = DOMAIN ui.messages
        /\ Conv(x, nextKey, nextReq) /\ Kept(x, ui.messages)
    BY <1>1, EditFields
  <2>q. QED
    BY <1>2, <2>1
<1>6. \A i \in DOMAIN n : n[i].status = ui.messages[i].status
                          /\ (n[i] = ui.messages[i] \/ n[i].req = 0)
  <2>1. \A i \in DOMAIN ui.messages : ui.messages[i] \in Message
    BY <1>1, Elements
  <2>2. \A i \in DOMAIN ui.messages : n[i] \in {ui.messages[i], Edited(ui.messages[i])}
    BY <1>2 DEF updateContent, Edited
  <2>q. QED
    BY <1>5, <2>1, <2>2, EditedFields
<1>q. QED
  BY <1>3, <1>4, <1>5, <1>6, UpdateArranges

\* A message is deleted.
LEMMA DeleteMessageKeeps ==
  ASSUME PageInv, NEW k \in Key, DeleteMessage(k)
  PROVE  PageInv' /\ Stays(ui'.messages)
<1>1. ui.messages \in Seq(Message) /\ Conv(ui.messages, nextKey, nextReq) /\ ~isGenerating
      /\ NonePending(ui.messages) /\ k \in KeysOf(ui.messages)
  BY Types, IdleIsDone DEF DeleteMessage
<1>2. PICK n : n = removeMessageByKey(ui.messages, k)
  OBVIOUS
<1>3. PICK v : v = updateMessages(ui, n)
  OBVIOUS
<1>4. /\ ui' = v /\ clicks' \in 0..MaxClicks
      /\ UNCHANGED <<stream, stored, outdated, left, net, nextReq, nextKey, recv, mode, mixed, merged>>
  BY <1>2, <1>3, ClickCounts DEF DeleteMessage, Local
<1>5. n \in Seq(Message) /\ Conv(n, nextKey, nextReq) /\ NonePending(n) /\ Kept(n, ui.messages)
  <2> DEFINE x == removeMessageByKey(ui.messages, k)
  <2>1. x \in Seq(Message) /\ Conv(x, nextKey, nextReq) /\ NonePending(x) /\ Kept(x, ui.messages)
    BY <1>1, RemoveFields
  <2>q. QED
    BY <1>2, <2>1
<1>q. QED
  BY <1>1, <1>3, <1>4, <1>5, UpdateArranges

\* The conversation is cleared.
LEMMA ClearMessagesKeeps ==
  ASSUME PageInv, ClearMessages
  PROVE  PageInv' /\ Stays(ui'.messages)
<1>1. PICK n : n = <<>>
  OBVIOUS
<1>2. PICK v : v = updateMessages(ui, n)
  OBVIOUS
<1>3. /\ ui' = v /\ clicks' \in 0..MaxClicks /\ ~isGenerating
      /\ UNCHANGED <<stream, stored, outdated, left, net, nextReq, nextKey, recv, mode, mixed, merged>>
  BY <1>1, <1>2, ClickCounts DEF ClearMessages, Local
<1>4. n \in Seq(Message) /\ Conv(n, nextKey, nextReq) /\ NonePending(n) /\ Kept(n, ui.messages)
  BY <1>1 DEF Conv, NonePending, Kept
<1>q. QED
  BY <1>2, <1>3, <1>4, UpdateArranges

\* The conversation is saved, or that fails.
LEMMA SaveTimerKeeps ==
  ASSUME PageInv, NEW ok \in BOOLEAN, SaveTimer(ok)
  PROVE  PageInv' /\ Stays(ui'.messages)
<1>1. ui \in Component /\ ui.messages \in Seq(Message) /\ Conv(ui.messages, nextKey, nextReq)
  BY Types
<1>2. /\ ui' = [ui EXCEPT !.saveTimer = FALSE]
      /\ stored' = (IF ok THEN trimMessages(ui.messages) ELSE stored) /\ outdated' = ~ok
      /\ clicks' = clicks \/ Click
      /\ UNCHANGED <<stream, left, net, nextReq, nextKey, recv, mode, mixed, merged>>
  BY DEF SaveTimer, saveMessages
<1>3. /\ ui' \in Component /\ ui'.messages = ui.messages
      /\ ui'.isStreaming = ui.isStreaming /\ ui'.isRequesting = ui.isRequesting
      /\ ui'.sseSource = ui.sseSource /\ ui'.isStreamComplete = ui.isStreamComplete
      /\ ui'.requestId = ui.requestId /\ ui'.abortController = ui.abortController
      /\ ui'.pending = ui.pending /\ ui'.flushTimer = ui.flushTimer
  BY <1>1, <1>2 DEF Component
<1>4. Kept(ui.messages, ui.messages)
  BY DEF Kept
<1>5. SavedOrScheduled'
  BY <1>2, <1>3 DEF SavedOrScheduled, trimMessages
<1>6. clicks' \in 0..MaxClicks
  BY <1>2, ClickCounts DEF PageInv, TypeOK
<1>7. Filed(stored')
  BY <1>2, ShownFiled, TrimFiled
<1>8. Arranges(ui.messages)
  BY <1>1, <1>2, <1>3, <1>4, <1>5, <1>6, <1>7 DEF Arranges
<1>q. QED
  BY <1>8, ArrangesKeeps

-----------------------------------------------------------------------------
(* What arrives without being shown at once.                               *)

\* The messages, the storage and what is created next stay as they are.
Quiet ==
    /\ ui'.messages = ui.messages /\ ui'.saveTimer = ui.saveTimer
    /\ ui'.isStreaming = ui.isStreaming /\ ui'.isRequesting = ui.isRequesting
    /\ ui'.requestId = ui.requestId /\ ui'.abortController = ui.abortController
    /\ UNCHANGED <<stream, stored, outdated, left, nextReq, nextKey, mode, mixed>>

\* Such a step keeps the invariant when it keeps what it may change.
LEMMA QuietKeeps ==
  ASSUME PageInv, Quiet, TypeOK', Flags', merged \subseteq merged',
         \A q \in Request : net[q] \notin BusyState =>
            net'[q] \notin BusyState /\ recv'[q] = recv[q],
         \A q \in Request : net'[q] \in BusyState => net'[q] = net[q],
         ~mixed => ArrivingAll(ui.messages, merged', recv', ui'.pending, mode, nextReq)
  PROVE  PageInv' /\ Stays(ui'.messages)
<1>0. /\ ui.messages \in Seq(Message) /\ stored \in Seq(Message) /\ nextReq \in Nat
      /\ Conv(ui.messages, nextKey, nextReq) /\ Conv(stored, nextKey, nextReq)
  BY Types
<1>1. /\ ui'.messages = ui.messages /\ stored' = stored /\ nextKey' = nextKey
      /\ nextReq' = nextReq /\ mode' = mode /\ mixed' = mixed /\ stream' = stream
  BY DEF Quiet
<1>2. isGenerating' <=> isGenerating
  BY DEF Quiet, isGenerating
<1>3. NothingLeftPending' /\ SavedOrScheduled'
  BY <1>1, <1>2 DEF PageInv, NothingLeftPending, SavedOrScheduled, Quiet
<1>4. ASSUME ~mixed
      PROVE  OneAnswer'
  <2>1. /\ WholeAll(ui.messages, merged, net, recv) /\ WholeAll(stored, merged, net, recv)
        /\ Single
    BY <1>4, Parts DEF PageInv
  <2>2. /\ \A i \in DOMAIN ui.messages : ui.messages[i].req < nextReq
        /\ \A i \in DOMAIN stored : stored[i].req < nextReq
    BY <1>0 DEF Conv
  <2>3. WholeAll(ui.messages, merged', net', recv') /\ WholeAll(stored, merged', net', recv')
    BY <1>0, <2>1, <2>2, WholeKeeps
  <2>4. \A q \in Request : net'[q] \in BusyState => net'[q] = net[q]
    OBVIOUS
  <2>5. Single'
    BY <1>1, <1>2, <2>1, <2>4 DEF Single, Busy, BusyState, Quiet
  <2>q. QED
    BY <1>1, <1>4, <2>3, <2>5, Parts
<1>5. PageInv'
  BY <1>0, <1>1, <1>3, <1>4, Conversations DEF PageInv
<1>6. Kept(ui.messages, ui.messages)
  BY DEF Kept
<1>q. QED
  BY <1>1, <1>5, <1>6, KeptStays

\* A stream ends without [DONE].
LEMMA StreamEndKeeps ==
  ASSUME PageInv, NEW r \in Request, StreamEnd(r)
  PROVE  PageInv' /\ Stays(ui'.messages)
<1>1. /\ net[r] = "sse" /\ net' = [net EXCEPT ![r] = "cut"]
      /\ ui' = ui
      /\ UNCHANGED <<stream, stored, outdated, left, nextReq, nextKey, clicks, recv, mode, mixed, merged>>
  BY DEF StreamEnd
<1>2. net \in [Request -> {"none", "sse", "post", "closed", "cut"}]
  BY Types
<1>3. /\ net' \in [Request -> {"none", "sse", "post", "closed", "cut"}]
      /\ net'[r] = "cut" /\ \A q \in Request : q # r => net'[q] = net[q]
  BY <1>1, <1>2
<1>4. TypeOK'
  BY <1>1, <1>3 DEF PageInv, TypeOK
<1>5. Flags'
  <2>1. \A q \in Request : q >= nextReq => net[q] = "none"
    BY DEF PageInv, Flags
  <2>2. \A q \in Request : q >= nextReq => net'[q] = "none"
    BY <1>1, <1>3, <2>1
  <2>q. QED
    BY <1>1, <1>3, <2>2 DEF PageInv, Flags
<1>6. Quiet
  BY <1>1 DEF Quiet
<1>7. ~mixed => ArrivingAll(ui.messages, merged', recv', ui'.pending, mode, nextReq)
  BY <1>1, Parts DEF PageInv
<1>8. /\ \A q \in Request : net[q] \notin BusyState =>
            net'[q] \notin BusyState /\ recv'[q] = recv[q]
      /\ \A q \in Request : net'[q] \in BusyState => net'[q] = net[q]
  BY <1>1, <1>3 DEF BusyState
<1>q. QED
  BY <1>1, <1>4, <1>5, <1>6, <1>7, <1>8, QuietKeeps

\* A chunk joins those that wait for the timer.
LEMMA ChunkArrives ==
  ASSUME NEW t \in Seq(Word), NEW p \in Seq(Range(Token)), NEW v \in Seq(Range(Token)),
         NEW tok \in Range(Token)
  PROVE  /\ mergePendingStreamChunk(p, <<tok>>) \in Seq(Range(Token))
         /\ mergePendingStreamChunk(p, Append(v, tok)) \in Seq(Range(Token))
         /\ t \o p = v /\ ~Repeats(p, <<tok>>) =>
              t \o mergePendingStreamChunk(p, <<tok>>) = Append(v, tok)
         /\ (p = <<>> /\ t = v) \/ (p = v /\ IsPrefix(t, v)) =>
              /\ mergePendingStreamChunk(p, Append(v, tok)) = Append(v, tok)
              /\ IsPrefix(t, Append(v, tok))
<1>0. /\ Append(v, tok) \in Seq(Range(Token)) /\ <<tok>> \in Seq(Range(Token))
      /\ tok \in Word /\ p \in Seq(Word) /\ v \in Seq(Word)
  BY DEF Word
<1>1. /\ mergePendingStreamChunk(p, <<tok>>) \in Seq(Range(Token))
      /\ mergePendingStreamChunk(p, Append(v, tok)) \in Seq(Range(Token))
  BY <1>0 DEF mergePendingStreamChunk
<1>2. ASSUME t \o p = v, ~Repeats(p, <<tok>>)
      PROVE  t \o mergePendingStreamChunk(p, <<tok>>) = Append(v, tok)
  <2>1. mergePendingStreamChunk(p, <<tok>>) = p \o <<tok>>
    BY <1>2 DEF mergePendingStreamChunk
  <2>2. t \o (p \o <<tok>>) = Append(t \o p, tok)
    BY <1>0
  <2>q. QED
    BY <1>2, <2>1, <2>2
<1>3. ASSUME (p = <<>> /\ t = v) \/ (p = v /\ IsPrefix(t, v))
      PROVE  /\ mergePendingStreamChunk(p, Append(v, tok)) = Append(v, tok)
             /\ IsPrefix(t, Append(v, tok))
  <2>1. IsPrefix(v, Append(v, tok)) /\ (IsPrefix(t, v) => IsPrefix(t, Append(v, tok)))
    BY <1>0, PrefixGrows
  <2>2. <<>> \o Append(v, tok) = Append(v, tok)
    BY <1>0
  <2>3. p = <<>> => mergePendingStreamChunk(p, Append(v, tok)) = Append(v, tok)
    BY <2>2 DEF mergePendingStreamChunk, Repeats
  <2>4. p # <<>> /\ p = v => mergePendingStreamChunk(p, Append(v, tok)) = Append(v, tok)
    BY <2>1 DEF mergePendingStreamChunk, Repeats
  <2>q. QED
    BY <1>3, <2>1, <2>3, <2>4
<1>q. QED
  BY <1>1, <1>2, <1>3

\* A delta joins them.
LEMMA DeltaArrives ==
  ASSUME NEW t \in Seq(Word), NEW p \in Seq(Range(Token)), NEW v \in Seq(Range(Token)),
         NEW tok \in Range(Token), t \o p = v, ~Repeats(p, <<tok>>)
  PROVE  t \o mergePendingStreamChunk(p, <<tok>>) = Append(v, tok)
  BY ChunkArrives, ZenonT(30)

\* A snapshot takes their place.
LEMMA SnapshotArrives ==
  ASSUME NEW t \in Seq(Word), NEW p \in Seq(Range(Token)), NEW v \in Seq(Range(Token)),
         NEW tok \in Range(Token), (p = <<>> /\ t = v) \/ (p = v /\ IsPrefix(t, v))
  PROVE  /\ mergePendingStreamChunk(p, Append(v, tok)) = Append(v, tok)
         /\ IsPrefix(t, Append(v, tok))
  BY ChunkArrives

\* What waits in a channel with the chunk.
Merged(u, c, chunk) == mergePendingStreamChunk(u.pending[c], chunk)

\* v is the component u with the chunk in its buffer.
Buffered(v, u, c, chunk) ==
    /\ v \in Component /\ v.messages = u.messages /\ v.saveTimer = u.saveTimer
    /\ v.isStreaming = u.isStreaming /\ v.isRequesting = u.isRequesting
    /\ v.sseSource = u.sseSource /\ v.isStreamComplete = u.isStreamComplete
    /\ v.requestId = u.requestId /\ v.abortController = u.abortController
    /\ v.flushTimer = TRUE /\ v.pending[c] = Merged(u, c, chunk)
    /\ \A d \in Channel \ {c} : v.pending[d] = u.pending[d]

\* handleStreamUpdate.
LEMMA ChunkFields ==
  ASSUME NEW u \in Component, NEW c \in Channel, NEW chunk,
         Merged(u, c, chunk) \in Seq(Range(Token))
  PROVE  Buffered(handleStreamUpdate(u, c, chunk), u, c, chunk)
<1> DEFINE x == Merged(u, c, chunk)
           t == [u.pending EXCEPT ![c] = x]
<1>0. PICK v : v = handleStreamUpdate(u, c, chunk)
  OBVIOUS
<1>1. u.pending \in [Channel -> Seq(Range(Token))]
  BY ComponentFields
<1>2. /\ t \in [Channel -> Seq(Range(Token))] /\ t[c] = x
      /\ \A d \in Channel \ {c} : t[d] = u.pending[d]
  BY <1>1, ChannelTexts
<1>3. v = [u EXCEPT !.pending = t, !.flushTimer = TRUE]
  BY <1>0 DEF handleStreamUpdate, Component, Merged
<1> HIDE DEF x, t
<1>4. /\ v \in Component /\ v.messages = u.messages /\ v.saveTimer = u.saveTimer
      /\ v.isStreaming = u.isStreaming /\ v.isRequesting = u.isRequesting
      /\ v.sseSource = u.sseSource /\ v.isStreamComplete = u.isStreamComplete
      /\ v.requestId = u.requestId /\ v.abortController = u.abortController
      /\ v.flushTimer = TRUE /\ v.pending = t
  BY <1>2, <1>3 DEF Component
<1>5. Buffered(v, u, c, chunk)
  BY <1>2, <1>4 DEF x, Buffered
<1>q. QED
  BY <1>0, <1>5

\* A chunk of a stream arrives.
LEMMA StreamChunkKeeps ==
  ASSUME PageInv, NEW r \in Request, NEW c \in Channel, NEW tok \in Range(Token),
         StreamChunk(r, c, tok)
  PROVE  PageInv' /\ Stays(ui'.messages)
<1>0. /\ ui \in Component /\ ui.messages \in Seq(Message)
      /\ ui.pending \in [Channel -> Seq(Range(Token))]
      /\ recv \in [Request -> [Channel -> Seq(Range(Token))]]
      /\ Conv(ui.messages, nextKey, nextReq) /\ merged \subseteq Request
      /\ mode \in {"delta", "snapshot"} /\ Request \subseteq Nat \ {0}
  BY Types
<1>1. PICK chunk : chunk = Chunk(r, c, tok)
  OBVIOUS
<1>2. /\ net[r] = "sse" /\ recv' = [recv EXCEPT ![r][c] = Append(@, tok)]
      /\ ui' = handleStreamUpdate(ui, c, chunk)
      /\ merged' = IF Swallowed(r, c, tok) THEN merged \cup {r} ELSE merged
      /\ UNCHANGED <<stream, stored, outdated, left, net, nextReq, nextKey, clicks, mode, mixed>>
  BY <1>1 DEF StreamChunk
<1>3. /\ recv[r] \in [Channel -> Seq(Range(Token))] /\ recv[r][c] \in Seq(Range(Token))
      /\ ui.pending[c] \in Seq(Range(Token))
  BY <1>0
<1>4. /\ chunk = IF mode = "delta" THEN <<tok>> ELSE Append(recv[r][c], tok)
      /\ mergePendingStreamChunk(ui.pending[c], chunk) \in Seq(Range(Token))
  <2>1. <<>> \in Seq(Word)
    OBVIOUS
  <2>2. /\ mergePendingStreamChunk(ui.pending[c], <<tok>>) \in Seq(Range(Token))
        /\ mergePendingStreamChunk(ui.pending[c], Append(recv[r][c], tok)) \in Seq(Range(Token))
    BY <1>3, <2>1, ChunkArrives
  <2>q. QED
    BY <1>1, <2>2 DEF Chunk
<1>5. /\ ui' \in Component /\ ui'.messages = ui.messages /\ ui'.saveTimer = ui.saveTimer
      /\ ui'.isStreaming = ui.isStreaming /\ ui'.isRequesting = ui.isRequesting
      /\ ui'.sseSource = ui.sseSource /\ ui'.isStreamComplete = ui.isStreamComplete
      /\ ui'.requestId = ui.requestId /\ ui'.abortController = ui.abortController
      /\ ui'.flushTimer = TRUE
      /\ ui'.pending[c] = mergePendingStreamChunk(ui.pending[c], chunk)
      /\ \A d \in Channel \ {c} : ui'.pending[d] = ui.pending[d]
  <2>1. ui \in Component /\ Merged(ui, c, chunk) \in Seq(Range(Token))
    BY <1>0, <1>4 DEF Merged
  <2>2. Buffered(ui', ui, c, chunk)
    BY <1>2, <2>1, ChunkFields
  <2>q. QED
    BY <2>2 DEF Buffered, Merged
<1>6. /\ recv' \in [Request -> [Channel -> Seq(Range(Token))]]
      /\ recv'[r][c] = Append(recv[r][c], tok)
      /\ \A d \in Channel \ {c} : recv'[r][d] = recv[r][d]
      /\ \A q \in Request : q # r => recv'[q] = recv[q]
  <2> DEFINE x == Append(recv[r][c], tok)
             t == [recv[r] EXCEPT ![c] = x]
  <2>1. x \in Seq(Range(Token))
    BY <1>3
  <2>2. /\ t \in [Channel -> Seq(Range(Token))] /\ t[c] = x
        /\ \A d \in Channel \ {c} : t[d] = recv[r][d]
    BY <1>3, <2>1, ChannelTexts
  <2>3. recv' = [recv EXCEPT ![r] = t]
    BY <1>0, <1>2
  <2> HIDE DEF t
  <2>4. /\ recv' \in [Request -> [Channel -> Seq(Range(Token))]] /\ recv'[r] = t
        /\ \A q \in Request : q # r => recv'[q] = recv[q]
    BY <1>0, <2>2, <2>3
  <2>q. QED
    BY <2>2, <2>4
<1>7. merged' \subseteq Request /\ merged \subseteq merged'
      /\ (r \notin merged' => ~Swallowed(r, c, tok))
  BY <1>0, <1>2
<1>8. TypeOK'
  BY <1>2, <1>5, <1>6, <1>7 DEF PageInv, TypeOK
<1>9. Flags'
  <2>1. /\ ui.isStreaming <=> ui.sseSource # 0
        /\ ui.sseSource < nextReq
        /\ ui.isStreaming => stream
        /\ \A q \in Request :
              /\ net[q] = "sse" => ui.sseSource = q /\ ~ui.isStreamComplete
              /\ q >= nextReq => net[q] = "none"
              /\ net[q] \in {"none", "post"} => recv[q] = NoText
    BY DEF PageInv, Flags
  <2>2. ui.isStreaming
    BY <1>0, <1>2, <2>1
  <2>3. \A q \in Request : net[q] \in {"none", "post"} => recv'[q] = NoText
    BY <1>2, <1>6, <2>1
  <2>q. QED
    BY <1>2, <1>5, <2>1, <2>2, <2>3 DEF Flags
<1>10. Quiet
  BY <1>2, <1>5 DEF Quiet
<1>11. /\ \A q \in Request : net[q] \notin BusyState =>
             net'[q] \notin BusyState /\ recv'[q] = recv[q]
       /\ \A q \in Request : net'[q] \in BusyState => net'[q] = net[q]
  BY <1>2, <1>6 DEF BusyState
<1>12. ASSUME ~mixed, NEW i \in DOMAIN ui.messages
       PROVE  ArrivingIn(ui.messages[i], merged', recv', ui'.pending, mode, nextReq)
  <2> DEFINE m == ui.messages[i]
  <2> SUFFICES ASSUME isAssistantMessagePending(m), m.req \notin {0} \cup merged'
               PROVE  /\ m.req = nextReq - 1
                      /\ \A d \in Channel :
                           \/ mode = "delta" /\ m.text[d] \o ui'.pending[d] = recv'[m.req][d]
                           \/ /\ mode = "snapshot"
                              /\ \/ ui'.pending[d] = <<>> /\ m.text[d] = recv'[m.req][d]
                                 \/ ui'.pending[d] = recv'[m.req][d]
                                    /\ IsPrefix(m.text[d], recv'[m.req][d])
    BY DEF ArrivingIn
  <2>1. /\ m.req = nextReq - 1
        /\ \A d \in Channel :
             \/ mode = "delta" /\ m.text[d] \o ui.pending[d] = recv[m.req][d]
             \/ /\ mode = "snapshot"
                /\ \/ ui.pending[d] = <<>> /\ m.text[d] = recv[m.req][d]
                   \/ ui.pending[d] = recv[m.req][d] /\ IsPrefix(m.text[d], recv[m.req][d])
    BY <1>7, <1>12, Parts DEF PageInv, ArrivingAll, ArrivingIn
  <2>2. m.req = r
    BY <1>2, <1>12, <2>1, OnlyOne DEF BusyState
  <2>3. ~Swallowed(r, c, tok)
    BY <1>7, <2>2
  <2>4. m \in Message /\ m.text[c] \in Seq(Word)
    BY <1>0, Elements, MessageFields
  <2>5. \/ mode = "delta" /\ m.text[c] \o ui'.pending[c] = recv'[r][c]
        \/ mode = "snapshot" /\ ui'.pending[c] = recv'[r][c] /\ IsPrefix(m.text[c], recv'[r][c])
    <3>t. PICK t : t = m.text[c]
      OBVIOUS
    <3>p. PICK p : p = ui.pending[c]
      OBVIOUS
    <3>v. PICK v : v = recv[r][c]
      OBVIOUS
    <3>0. t \in Seq(Word) /\ p \in Seq(Range(Token)) /\ v \in Seq(Range(Token))
      BY <3>t, <3>p, <3>v, <1>3, <2>4
    <3>1. CASE mode = "delta"
      <4>1. chunk = <<tok>> /\ ~Repeats(p, <<tok>>) /\ t \o p = v
        BY <3>t, <3>p, <3>v, <1>4, <2>1, <2>2, <2>3, <3>1 DEF Swallowed
      <4>2. t \o mergePendingStreamChunk(p, <<tok>>) = Append(v, tok)
        BY ZenonT(60), <3>0, <4>1, DeltaArrives
      <4>q. QED
        BY <3>t, <3>p, <3>v, <1>5, <1>6, <3>1, <4>1, <4>2
    <3>2. CASE mode = "snapshot"
      <4>1. chunk = Append(v, tok) /\ ((p = <<>> /\ t = v) \/ (p = v /\ IsPrefix(t, v)))
        BY <3>t, <3>p, <3>v, <1>4, <2>1, <2>2, <3>2
      <4>2. /\ mergePendingStreamChunk(p, Append(v, tok)) = Append(v, tok)
            /\ IsPrefix(t, Append(v, tok))
        BY <3>0, <4>1, SnapshotArrives
      <4>q. QED
        BY <3>t, <3>p, <3>v, <1>5, <1>6, <3>2, <4>1, <4>2
    <3>q. QED
      BY <1>0, <3>1, <3>2
  <2>6. \A d \in Channel \ {c} : ui'.pending[d] = ui.pending[d] /\ recv'[r][d] = recv[r][d]
    BY <1>5, <1>6
  <2>q. QED
    BY <2>1, <2>2, <2>5, <2>6
<1>13. ~mixed => ArrivingAll(ui.messages, merged', recv', ui'.pending, mode, nextReq)
  BY <1>12 DEF ArrivingAll
<1>q. QED
  BY <1>7, <1>8, <1>9, <1>10, <1>11, <1>13, QuietKeeps

-----------------------------------------------------------------------------
(* Leaving the page and coming back.                                       *)

\* A component that was just mounted.
LEMMA MountedFields ==
  ASSUME NEW n \in Seq(Message)
  PROVE  LET v == Mounted(n) IN
         /\ v \in Component /\ v.messages = n /\ v.isStreaming = FALSE
         /\ v.isRequesting = FALSE /\ v.sseSource = 0 /\ v.pending = NoText
<1>1. NoText \in [Channel -> Seq(Range(Token))] /\ 0 \in 0..MaxRequests
  BY EmptyText, PlaygroundAssumption
<1>q. QED
  BY <1>1 DEF Mounted, Component

\* The conversations of the pages that were left, before and after a step.
LEMMA PagesFiled ==
  /\ LeftPages <=> \A p \in left : /\ Conv(p, nextKey, nextReq)
                                   /\ ~mixed => WholeAll(p, merged, net, recv)
  /\ LeftPages' <=> \A p \in left' : /\ Conv(p, nextKey', nextReq')
                                     /\ ~mixed' => WholeAll(p, merged', net', recv')
  BY DEF LeftPages, Conversation, Conv, Whole, WholeAll, WholeIn, Counts, Busy, BusyState

\* The answer a left page writes is a message like the one it had.
LEMMA LateAnswer ==
  ASSUME NEW l \in Message, l.from = "assistant", l.status # "none", NEW m \in LateAnswers(l)
  PROVE  LET n == [m EXCEPT !.req = 0] IN
         /\ n \in Message /\ n.key = l.key /\ n.from = "assistant" /\ n.req = 0
         /\ n.status # "none"
<1>1. Token[1] \in Range(Token) /\ "content" \in Channel /\ <<Token[1]>> # <<>>
  <2>1. 1 \in DOMAIN Token
    BY PlaygroundAssumption
  <2>q. QED
    BY <2>1 DEF Range, Channel
<1>2. /\ m \in Message /\ m.key = l.key /\ m.from = "assistant" /\ m.status # "none"
  <2>1. CASE m = errorAssistantMessage(l)
    BY <2>1, EndedFields
  <2>2. CASE m = ApplyChunk(l, "content", <<Token[1]>>)
    <3>1. <<Token[1]>> \in Seq(Range(Token))
      BY <1>1
    <3>q. QED
      BY <1>1, <2>2, <3>1, ApplyChunkFields
  <2>3. CASE m = applyChatCompletionResponse(l, Token[1])
    BY <1>1, <2>3, ResponseFields
  <2>4. CASE m = (IF isAssistantMessageFinal(l) THEN l ELSE completeAssistantMessage(l))
    BY <2>4, EndedFields
  <2>q. QED
    BY <2>1, <2>2, <2>3, <2>4 DEF LateAnswers
<1>3. 0 \in 0..MaxRequests
  BY PlaygroundAssumption
<1>q. QED
  BY <1>2, <1>3 DEF Message

\* What a left page writes may be stored when what it showed may.
LEMMA LateFiled ==
  ASSUME PageInv, NEW pages, \A p \in pages : Filed(p), NEW saved \in LateWrites(pages)
  PROVE  Filed(saved)
<1>1. PICK p \in pages : \E msgs \in LateMessages(p) : saved = trimMessages(msgs)
  BY DEF LateWrites
<1>2. PICK msgs \in LateMessages(p) : saved = trimMessages(msgs)
  BY <1>1
<1>3. p \in Seq(Message) /\ Conv(p, nextKey, nextReq) /\ 0 < nextReq
      /\ (~mixed => WholeAll(p, merged, net, recv))
  BY Types DEF Filed
<1>4. CASE ~EndsWithAssistant(p)
  <2>1. msgs = p
    BY <1>2, <1>4 DEF LateMessages
  <2>q. QED
    BY <1>2, <2>1, TrimFiled
<1>5. CASE EndsWithAssistant(p)
  <2>1. PICK m \in LateAnswers(Last(p)) : msgs = [p EXCEPT ![Len(p)] = [m EXCEPT !.req = 0]]
    BY <1>2, <1>5 DEF LateMessages
  <2>2. PICK n : n = [m EXCEPT !.req = 0]
    OBVIOUS
  <2>3. Last(p) \in Message /\ Last(p).from = "assistant" /\ Last(p).status # "none"
    BY <1>3, <1>5, Elements DEF EndsWithAssistant, Conv, Last
  <2>4. /\ n \in Message /\ n.key = Last(p).key /\ n.from = "assistant" /\ n.req = 0
        /\ n.status # "none"
    BY <2>1, <2>2, <2>3, LateAnswer
  <2>5. msgs = SetLast(p, n)
    BY <1>5, <2>1, <2>2 DEF SetLast
  <2>6. msgs \in Seq(Message) /\ Conv(msgs, nextKey, nextReq)
    BY <1>3, <2>4, <2>5, SetLastFields, SetLastConv
  <2>7. Loaded(msgs, p)
    <3>1. /\ DOMAIN SetLast(p, n) = DOMAIN p /\ SetLast(p, n)[Len(p)] = n
          /\ \A i \in DOMAIN p : i # Len(p) => SetLast(p, n)[i] = p[i]
      BY <1>3, <1>5, <2>4, SetLastFields
    <3>q. QED
      BY <2>4, <2>5, <3>1 DEF Loaded
  <2>8. Filed(msgs)
    BY <1>3, <2>6, <2>7, WholeLoaded DEF Filed
  <2>q. QED
    BY <1>2, <2>8, TrimFiled
<1>q. QED
  BY <1>4, <1>5

\* The page is mounted with a stored conversation.
LEMMA MountKeeps ==
  ASSUME PageInv, NEW saved, Filed(saved), NEW ok \in BOOLEAN, Mount(saved, ok),
         left' \subseteq Seq(Message)
  PROVE  PageInv' /\ ui'.messages = loadMessages(stored')
<1>0. /\ nextReq \in Nat /\ 0 < nextReq /\ saved \in Seq(Message)
      /\ Conv(saved, nextKey, nextReq) /\ (~mixed => WholeAll(saved, merged, net, recv))
      /\ net \in [Request -> {"none", "sse", "post", "closed", "cut"}]
  BY Types DEF Filed
<1>2. PICK n : n = loadMessages(saved)
  OBVIOUS
<1>5. /\ n \in Seq(Message) /\ Conv(n, nextKey, nextReq)
      /\ NonePending(n) /\ Loaded(n, saved) /\ loadMessages(n) = n /\ trimMessages(n) = n
  <2> DEFINE x == loadMessages(saved)
  <2>1. /\ x \in Seq(Message) /\ Conv(x, nextKey, nextReq)
        /\ NonePending(x) /\ Loaded(x, saved) /\ loadMessages(x) = x /\ trimMessages(x) = x
    BY <1>0, LoadFields
  <2>2. n = x
    BY <1>2
  <2> HIDE DEF x
  <2>q. QED
    BY <2>1, <2>2
<1>3. /\ Click /\ ui' = Mounted(n) /\ stored' \in {n, saved}
      /\ stored' = n \/ outdated'
      /\ outdated' \in BOOLEAN
      /\ net' = [r \in Request |-> IF Busy(r) THEN "closed" ELSE net[r]]
      /\ UNCHANGED <<stream, nextReq, nextKey, recv, mode, mixed, merged>>
  BY <1>2, <1>5 DEF Mount, saveMessages
<1>4. loadMessages(stored') = n /\ stored' \in Seq(Message) /\ Conv(stored', nextKey, nextReq)
  BY <1>0, <1>2, <1>3, <1>5
<1>6. /\ ui' \in Component /\ ui'.messages = n /\ ui'.isStreaming = FALSE
      /\ ui'.isRequesting = FALSE /\ ui'.sseSource = 0 /\ ui'.pending = NoText
  BY <1>3, <1>5, MountedFields
<1>7. /\ net' \in [Request -> {"none", "sse", "post", "closed", "cut"}]
      /\ \A r \in Request : net'[r] \notin BusyState /\ (net'[r] = "none" => net[r] = "none")
      /\ \A r \in Request : net[r] = "none" => net'[r] = "none"
  BY <1>0, <1>3 DEF Busy, BusyState
<1>8. TypeOK'
  BY <1>3, <1>4, <1>6, <1>7, ClickCounts DEF PageInv, TypeOK
<1>9. Flags'
  <2>1. \A r \in Request : /\ r >= nextReq => net[r] = "none"
                           /\ net[r] \in {"none", "post"} => recv[r] = NoText
    BY DEF PageInv, Flags
  <2>2. \A r \in Request : /\ net'[r] # "sse" /\ net'[r] # "post"
                           /\ r >= nextReq => net'[r] = "none"
                           /\ net'[r] = "none" => recv'[r] = NoText
    BY <1>3, <1>7, <2>1 DEF BusyState
  <2>q. QED
    BY <1>0, <1>3, <1>6, <2>2 DEF Flags
<1>10. ~isGenerating'
  BY <1>6 DEF isGenerating
<1>11. NothingLeftPending' /\ SavedOrScheduled'
  BY <1>3, <1>5, <1>6 DEF NothingLeftPending, NonePending, SavedOrScheduled
<1>12. ASSUME ~mixed
       PROVE  OneAnswer'
  <2>1. WholeAll(saved, merged, net, recv)
    BY <1>0, <1>12
  <2>2. WholeAll(n, merged, net, recv)
    BY <1>5, <2>1, WholeLoaded
  <2>3. WholeAll(stored', merged, net, recv)
    BY <1>3, <2>1, <2>2
  <2>4. /\ \A i \in DOMAIN n : n[i].req < nextReq
        /\ \A i \in DOMAIN stored' : stored'[i].req < nextReq
    BY <1>4, <1>5 DEF Conv
  <2>5. WholeAll(n, merged, net', recv) /\ WholeAll(stored', merged, net', recv)
    BY <1>0, <1>4, <1>5, <1>7, <2>2, <2>3, <2>4, WholeKeeps
  <2>6. ArrivingAll(n, merged', recv', ui'.pending, mode', nextReq')
    BY <1>5 DEF ArrivingAll, ArrivingIn, NonePending
  <2>7. Single'
    BY <1>7, <1>10 DEF Single, Busy, BusyState
  <2>q. QED
    BY <1>3, <1>6, <2>5, <2>6, <2>7, Parts
<1>13. PageInv'
  BY <1>3, <1>4, <1>5, <1>6, <1>8, <1>9, <1>11, <1>12, Conversations DEF PageInv
<1>q. QED
  BY <1>4, <1>6, <1>13

\* The tab is reloaded.
LEMMA ReloadKeeps ==
  ASSUME PageInv, NEW ok \in BOOLEAN, Reload(ok)
  PROVE  PageInv' /\ ui'.messages = loadMessages(stored')
<1>1. Mount(stored, ok) /\ left' \subseteq Seq(Message)
  BY DEF Reload
<1>q. QED
  BY <1>1, ShownFiled, MountKeeps

\* What pages that were left show may be stored, that of the page that is
\* being left too.
LEMMA LeftFiled ==
  ASSUME IInv
  PROVE  /\ \A p \in left : Filed(p)
         /\ \A p \in LeftBehind : Filed(p)
<1>1. PageInv /\ LeftPages
  BY DEF IInv
<1>2. \A p \in left : Filed(p)
  BY <1>1, PagesFiled, Types DEF Filed
<1>q. QED
  BY <1>1, <1>2, ShownFiled DEF LeftBehind

\* The page is left, and the user comes back.
LEMMA RemountKeeps ==
  ASSUME IInv, NEW ok \in BOOLEAN, NEW saved, Remount(saved, ok)
  PROVE  PageInv' /\ ui'.messages = loadMessages(stored')
<1>1. PageInv /\ Mount(saved, ok)
  BY DEF IInv, Remount
<1>2. Filed(saved)
  <2>1. CASE saved \in LateWrites(LeftBehind)
    BY <1>1, <2>1, LeftFiled, LateFiled
  <2>2. CASE saved = stored \/ saved = trimMessages(ui.messages)
    BY <1>1, <2>2, ShownFiled, TrimFiled
  <2>q. QED
    BY <2>1, <2>2 DEF Remount
<1>3. left' \subseteq Seq(Message)
  BY LeftFiled DEF Remount, Filed
<1>q. QED
  BY <1>1, <1>2, <1>3, MountKeeps

\* A page that was left writes.
LEMMA LateSaveKeeps ==
  ASSUME IInv, NEW saved, LateSave(saved)
  PROVE  PageInv' /\ Stays(ui'.messages)
<1>1. PageInv
  BY DEF IInv
<1>2. /\ saved \in LateWrites(left) /\ stored' = saved /\ outdated' = TRUE /\ Click
      /\ ui' = ui /\ UNCHANGED <<stream, left, net, nextReq, nextKey, recv, mode, mixed, merged>>
  BY DEF LateSave
<1>3. Filed(stored')
  BY <1>1, <1>2, LeftFiled, LateFiled
<1>4. clicks' \in 0..MaxClicks
  BY <1>1, <1>2, ClickCounts
<1>5. /\ ui \in Component /\ ui.messages \in Seq(Message) /\ Conv(ui.messages, nextKey, nextReq)
      /\ Kept(ui.messages, ui.messages)
  BY <1>1, Types DEF Kept
<1>6. Arranges(ui.messages)
  BY <1>2, <1>3, <1>4, <1>5 DEF Arranges, SavedOrScheduled
<1>q. QED
  BY <1>1, <1>6, ArrangesKeeps

-----------------------------------------------------------------------------
(* The theorems.                                                           *)

\* The invariant holds at the start.
LEMMA Starts ==
  ASSUME Init
  PROVE  IInv
<1>0. /\ MaxRequests \in Nat /\ MaxClicks \in Nat /\ MaxStored \in Nat
      /\ \A r \in Request : r # 0 /\ r \in Nat
  BY PlaygroundAssumption DEF Request
<1>1. PICK n : n = <<>>
  OBVIOUS
<1>2. n \in Seq(Message) /\ DOMAIN n = {} /\ Len(n) = 0
  BY <1>1
<1>3. /\ ui = Mounted(n) /\ stored = n /\ stream \in BOOLEAN /\ outdated = FALSE /\ left = {}
      /\ net = [r \in Request |-> "none"] /\ nextReq = 1 /\ nextKey = 1 /\ clicks = 0
      /\ recv = [r \in Request |-> NoText] /\ mode \in {"delta", "snapshot"}
      /\ mixed = FALSE /\ merged = {}
  BY <1>1 DEF Init
<1>4. /\ ui \in Component /\ ui.messages = n /\ ui.isStreaming = FALSE
      /\ ui.isRequesting = FALSE /\ ui.sseSource = 0 /\ ui.pending = NoText
  BY <1>2, <1>3, MountedFields
<1>5. TypeOK
  <2>1. recv \in [Request -> [Channel -> Seq(Range(Token))]]
    BY <1>3, EmptyText
  <2>2. nextReq \in 1..(MaxRequests + 1) /\ nextKey \in 1..(3 * MaxRequests + 1)
        /\ clicks \in 0..MaxClicks
    BY <1>0, <1>3
  <2>3. net \in [Request -> {"none", "sse", "post", "closed", "cut"}]
    BY <1>3
  <2>q. QED
    BY <1>2, <1>3, <1>4, <2>1, <2>2, <2>3 DEF TypeOK
<1>6. Flags
  BY <1>3, <1>4 DEF Flags
<1>7. /\ Conversation(ui.messages) /\ Conversation(stored) /\ NothingLeftPending
  BY <1>2, <1>3, <1>4 DEF Conversation, NothingLeftPending
<1>8. SavedOrScheduled
  <2>1. trimMessages(n) = n
    BY <1>0, <1>2 DEF trimMessages
  <2>q. QED
    BY <1>3, <1>4, <2>1 DEF SavedOrScheduled
<1>9. OneAnswer
  <2>1. ~isGenerating /\ \A r \in Request : ~Busy(r) /\ net[r] # "post"
    BY <1>3, <1>4 DEF isGenerating, Busy
  <2>q. QED
    BY <1>2, <1>3, <1>4, <2>1 DEF OneAnswer
<1>q. QED
  BY <1>3, <1>5, <1>6, <1>7, <1>8, <1>9 DEF IInv, PageInv, LeftPages

\* What a step does to the finished answers.
AnswersStay ==
    ~mixed' => Stays(ui'.messages) \/ ui'.messages = loadMessages(stored')

\* Every step keeps the invariant of the page and the finished answers.
LEMMA PageSteps ==
  ASSUME IInv, [Next]_vars
  PROVE  PageInv' /\ AnswersStay
<1> USE DEF AnswersStay
<1>0. PageInv
  BY DEF IInv
<1>1. CASE UNCHANGED vars
  <2>1. /\ ui' = ui /\ clicks' = clicks
        /\ UNCHANGED <<stream, stored, outdated, left, net, nextReq, nextKey, recv, mode, mixed, merged>>
    BY <1>1 DEF vars
  <2>2. ui \in Component /\ clicks \in 0..MaxClicks
    BY <1>0 DEF PageInv, TypeOK
  <2>q. QED
    BY <1>0, <2>1, <2>2, SameArranges
<1>2. CASE SendMessage
  BY <1>0, <1>2, SendMessageKeeps
<1>3. CASE SubmitEdit
  BY <1>0, <1>3, SubmitEditKeeps
<1>4. CASE CancelEdit \/ \E k \in Key : OpenEdit(k)
  BY <1>0, <1>4, EditorKeeps
<1>5. CASE SaveEdit
  BY <1>0, <1>5, SaveEditKeeps
<1>6. CASE ClearMessages
  BY <1>0, <1>6, ClearMessagesKeeps
<1>8. CASE StopGeneration
  BY <1>0, <1>8, StopGenerationKeeps
<1>9. ASSUME NEW k \in Key, RegenerateMessage(k)
      PROVE  PageInv' /\ AnswersStay
  BY <1>0, <1>9, RegenerateKeeps
<1>10. ASSUME NEW k \in Key, DeleteMessage(k)
       PROVE  PageInv' /\ AnswersStay
  BY <1>0, <1>10, DeleteMessageKeeps
<1>7. ASSUME NEW ok \in BOOLEAN, Reload(ok)
      PROVE  PageInv' /\ AnswersStay
  BY <1>0, <1>7, ReloadKeeps
<1>11. ASSUME NEW ok \in BOOLEAN, NEW saved, Remount(saved, ok)
       PROVE  PageInv' /\ AnswersStay
  BY <1>11, RemountKeeps
<1>12. CASE User
  BY <1>2, <1>3, <1>4, <1>5, <1>6, <1>7, <1>8, <1>9, <1>10, <1>11, <1>12 DEF User
<1>13. ASSUME NEW r \in Request,
              \/ StreamDone(r) \/ StreamFail(r) \/ StreamEnd(r)
              \/ PlainFail(r) \/ PlainResponse(r, Token[1])
       PROVE  PageInv' /\ AnswersStay
  <2>1. Token[1] \in Range(Token)
    <3>1. 1 \in DOMAIN Token
      BY PlaygroundAssumption
    <3>q. QED
      BY <3>1 DEF Range
  <2>2. CASE StreamDone(r)
    BY <1>0, <2>2, StreamDoneKeeps
  <2>3. CASE StreamFail(r)
    BY <1>0, <2>3, StreamFailKeeps
  <2>4. CASE StreamEnd(r)
    BY <1>0, <2>4, StreamEndKeeps
  <2>5. CASE PlainFail(r)
    BY <1>0, <2>5, PlainFailKeeps
  <2>6. CASE PlainResponse(r, Token[1])
    BY <1>0, <2>1, <2>6, PlainResponseKeeps
  <2>q. QED
    BY <1>13, <2>2, <2>3, <2>4, <2>5, <2>6
<1>14. CASE FlushTimer
  BY <1>0, <1>14, FlushTimerKeeps
<1>15. ASSUME NEW ok \in BOOLEAN, SaveTimer(ok)
       PROVE  PageInv' /\ AnswersStay
  BY <1>0, <1>15, SaveTimerKeeps
<1>17. ASSUME NEW saved, LateSave(saved)
       PROVE  PageInv' /\ AnswersStay
  BY <1>17, LateSaveKeeps
<1>16. ASSUME NEW r \in Request, NEW c \in Channel, NEW tok \in Range(Token), StreamChunk(r, c, tok)
       PROVE  PageInv' /\ AnswersStay
  BY <1>0, <1>16, StreamChunkKeeps
<1> HIDE DEF AnswersStay
<1>q. QED
  BY <1>1, <1>12, <1>13, <1>14, <1>15, <1>16, <1>17 DEF Next, NetworkEnds

\* What has arrived for an answer that ended does not change, and keys and
\* requests are not used again.
Settles ==
    /\ merged \subseteq merged' /\ nextKey <= nextKey' /\ nextReq <= nextReq'
    /\ ~mixed' => ~mixed
    /\ \A r \in Request : r < nextReq /\ net[r] \notin BusyState =>
          net'[r] \notin BusyState /\ recv'[r] = recv[r]

LEMMA StepsSettle ==
  ASSUME PageInv, [Next]_vars
  PROVE  Settles
<1>0. /\ net \in [Request -> {"none", "sse", "post", "closed", "cut"}]
      /\ recv \in [Request -> [Channel -> Seq(Range(Token))]]
      /\ nextKey \in Nat /\ nextReq \in Nat /\ mixed \in BOOLEAN /\ Request \subseteq Nat
      /\ nextKey <= nextKey /\ nextReq <= nextReq
  BY Types
<1>1. ASSUME NEW u, NEW msgs, NEW r, sendChat(u, msgs, r), nextKey <= nextKey'
      PROVE  Settles
  <2>1. \A q \in Request : q < nextReq => q # r
    BY <1>0, <1>1 DEF sendChat
  <2>2. /\ recv' = recv /\ merged' = merged /\ nextReq' = nextReq + 1 /\ r = nextReq
        /\ ~mixed' => ~mixed
    BY <1>1 DEF sendChat
  <2>3. \A q \in Request : q # r => net'[q] \in {net[q], "closed"}
    BY <1>0, <1>1 DEF sendChat
  <2>q. QED
    BY <1>0, <1>1, <2>1, <2>2, <2>3 DEF Settles, BusyState
<1>2. ASSUME SendMessage \/ SubmitEdit \/ \E k \in Key : RegenerateMessage(k)
      PROVE  Settles
  <2>1. nextKey' = nextKey + 1 \/ nextKey' = nextKey + 2
    BY <1>2 DEF SendMessage, SubmitEdit, RegenerateMessage
  <2>2. \E u, msgs, r : sendChat(u, msgs, r)
    BY <1>2 DEF SendMessage, SubmitEdit, RegenerateMessage
  <2>q. QED
    BY <1>0, <1>1, <2>1, <2>2
<1>3. ASSUME \/ CancelEdit \/ SaveEdit \/ ClearMessages
             \/ \E k \in Key : OpenEdit(k) \/ DeleteMessage(k)
      PROVE  Settles
  <2>1. \E u : Local(u)
    BY <1>3 DEF CancelEdit, SaveEdit, ClearMessages, OpenEdit, DeleteMessage
  <2>q. QED
    BY <1>0, <2>1 DEF Local, Settles
<1>4. CASE StopGeneration
  BY <1>0, <1>4 DEF StopGeneration, Settles, BusyState
<1>5. ASSUME NEW saved, NEW ok, Mount(saved, ok)
      PROVE  Settles
  BY <1>0, <1>5 DEF Mount, Settles, Busy, BusyState
<1>6. ASSUME NEW r \in Request,
             \/ StreamDone(r) \/ StreamFail(r) \/ StreamEnd(r)
             \/ PlainFail(r) \/ PlainResponse(r, Token[1])
      PROVE  Settles
  <2>1. /\ net[r] \in BusyState
        /\ \E how \in {"closed", "cut"} : net' = [net EXCEPT ![r] = how]
        /\ merged \subseteq merged'
        /\ nextKey' = nextKey /\ nextReq' = nextReq /\ mixed' = mixed
        /\ \A q \in Request : q # r => recv'[q] = recv[q]
    BY <1>0, <1>6 DEF StreamDone, StreamFail, StreamEnd, PlainFail, PlainResponse, Ended, BusyState
  <2>2. \A q \in Request : q # r => net'[q] = net[q]
    BY <1>0, <2>1
  <2>q. QED
    BY <1>0, <2>1, <2>2 DEF Settles
<1>7. ASSUME NEW r \in Request, NEW c \in Channel, NEW tok \in Range(Token), StreamChunk(r, c, tok)
      PROVE  Settles
  <2>1. /\ net[r] \in BusyState /\ net' = net /\ merged \subseteq merged'
        /\ nextKey' = nextKey /\ nextReq' = nextReq /\ mixed' = mixed
        /\ \A q \in Request : q # r => recv'[q] = recv[q]
    BY <1>0, <1>7 DEF StreamChunk, BusyState
  <2>q. QED
    BY <1>0, <2>1 DEF Settles
<1>8. CASE FlushTimer
  BY <1>0, <1>8 DEF FlushTimer, Settles
<1>9. ASSUME NEW ok, SaveTimer(ok)
      PROVE  Settles
  BY <1>0, <1>9 DEF SaveTimer, Settles
<1>10. ASSUME NEW saved, LateSave(saved)
       PROVE  Settles
  BY <1>0, <1>10 DEF LateSave, Settles
<1>11. CASE UNCHANGED vars
  BY <1>0, <1>11 DEF vars, Settles
<1>12. CASE User
  <2>1. ASSUME NEW ok, Reload(ok) \/ \E saved : Remount(saved, ok)
        PROVE  Settles
    BY <1>5, <2>1 DEF Reload, Remount
  <2>q. QED
    BY <1>2, <1>3, <1>4, <1>12, <2>1 DEF User
<1>q. QED
  BY <1>6, <1>7, <1>8, <1>9, <1>10, <1>11, <1>12 DEF Next, NetworkEnds

\* The pages that are left after a step.
LEMMA StepsLeave ==
  ASSUME [Next]_vars
  PROVE  left' \subseteq LeftBehind
<1>1. left \subseteq LeftBehind
  BY DEF LeftBehind
<1>2. ASSUME NEW u, NEW msgs, NEW r, sendChat(u, msgs, r)
      PROVE  left' = left
  BY <1>2 DEF sendChat
<1>3. ASSUME NEW u, Local(u)
      PROVE  left' = left
  BY <1>3 DEF Local
<1>4. CASE User
  <2>1. ASSUME SendMessage \/ SubmitEdit \/ \E k \in Key : RegenerateMessage(k)
        PROVE  left' = left
    BY <1>2, <2>1 DEF SendMessage, SubmitEdit, RegenerateMessage
  <2>2. ASSUME \/ CancelEdit \/ SaveEdit \/ ClearMessages
               \/ \E k \in Key : OpenEdit(k) \/ DeleteMessage(k)
        PROVE  left' = left
    BY <1>3, <2>2 DEF CancelEdit, SaveEdit, ClearMessages, OpenEdit, DeleteMessage
  <2>3. ASSUME StopGeneration
        PROVE  left' = left
    BY <2>3 DEF StopGeneration
  <2>4. ASSUME NEW ok, Reload(ok) \/ \E saved : Remount(saved, ok)
        PROVE  left' \subseteq LeftBehind
    BY <2>4 DEF Reload, Remount
  <2>q. QED
    BY <1>1, <1>4, <2>1, <2>2, <2>3, <2>4 DEF User
<1>5. CASE ~User
  <2>1. ASSUME NEW r \in Request,
               \/ StreamDone(r) \/ StreamFail(r) \/ StreamEnd(r)
               \/ PlainFail(r) \/ PlainResponse(r, Token[1])
        PROVE  left' = left
    BY <2>1 DEF StreamDone, StreamFail, StreamEnd, PlainFail, PlainResponse, Ended
  <2>2. ASSUME NEW r, NEW c, NEW tok, StreamChunk(r, c, tok)
        PROVE  left' = left
    BY <2>2 DEF StreamChunk
  <2>3. ASSUME FlushTimer \/ \E x : SaveTimer(x) \/ LateSave(x)
        PROVE  left' = left
    BY <2>3 DEF FlushTimer, SaveTimer, LateSave
  <2>4. ASSUME UNCHANGED vars
        PROVE  left' = left
    BY <2>4 DEF vars
  <2>q. QED
    BY <1>1, <1>5, <2>1, <2>2, <2>3, <2>4 DEF Next, NetworkEnds
<1>q. QED
  BY <1>4, <1>5

\* Every step keeps the invariant and the finished answers.
LEMMA Steps ==
  ASSUME IInv, [Next]_vars
  PROVE  IInv' /\ AnswersStay
<1>1. PageInv' /\ AnswersStay
  BY PageSteps
<1>2. PageInv
  BY DEF IInv
<1>3. Settles /\ left' \subseteq LeftBehind
  BY <1>2, StepsSettle, StepsLeave
<1>4. ASSUME NEW p \in left'
      PROVE  Conv(p, nextKey', nextReq') /\ (~mixed' => WholeAll(p, merged', net', recv'))
  <2>1. p \in Seq(Message) /\ Conv(p, nextKey, nextReq) /\ (~mixed => WholeAll(p, merged, net, recv))
    BY <1>3, <1>4, LeftFiled DEF Filed
  <2>2. \A i \in DOMAIN p : p[i].key \in Nat /\ p[i].req \in Nat /\ p[i].req < nextReq
    BY <2>1, Elements, MessageFields DEF Conv
  <2>3. nextKey \in Nat /\ nextReq \in Nat /\ nextKey' \in Nat /\ nextReq' \in Nat
    <3>1. nextReq' \in 1..(MaxRequests + 1) /\ nextKey' \in 1..(3 * MaxRequests + 1)
      BY <1>1 DEF PageInv, TypeOK
    <3>q. QED
      BY <1>2, <3>1, Types
  <2>4. Conv(p, nextKey', nextReq')
    BY <1>3, <2>1, <2>2, <2>3 DEF Conv, Settles
  <2>5. ~mixed' => WholeAll(p, merged', net', recv')
    BY <1>3, <2>1, <2>2, <2>3, WholeKeeps DEF Settles
  <2>q. QED
    BY <2>4, <2>5
<1>5. LeftPages'
  BY <1>4, PagesFiled
<1>q. QED
  BY <1>1, <1>5 DEF IInv

\* The clicks, the stream events, the responses and the timers keep the
\* inductive invariant of the page, in every order.
THEOREM Inductive == Spec => []IInv
<1>1. Init => IInv
  BY Starts
<1>2. IInv /\ [Next]_vars => IInv'
  BY Steps
<1>q. QED
  BY <1>1, <1>2, PTL DEF Spec

\* The state of the page, the storage and the connections keep their types.
THEOREM TypeSafe == Spec => []TypeOK
<1>1. IInv => TypeOK
  BY DEF IInv, PageInv
<1>q. QED
  BY <1>1, Inductive, PTL

\* stopGeneration, handleStreamComplete, handleStreamError and
\* sanitizeMessagesOnLoad together leave no message loading when the page is
\* idle, and only the last one while it generates.
THEOREM NothingStaysPending == Spec => []NothingLeftPending
<1>1. IInv => NothingLeftPending
  BY DEF IInv, PageInv
<1>q. QED
  BY <1>1, Inductive, PTL

\* Every path that changes the messages arms the save timer, and the stored
\* conversation is the shown one after it fires, unless the write failed or a
\* page that was left wrote over it.
THEOREM ConversationIsSaved == Spec => []SavedOrScheduled
<1>1. IInv => SavedOrScheduled
  BY DEF IInv, PageInv
<1>q. QED
  BY <1>1, Inductive, PTL

\* The invariant says that an answer and the buffer are all that arrived.
LEMMA Complete ==
  ASSUME PageInv
  PROVE  FullText
<1> SUFFICES ASSUME NEW i \in DOMAIN ui.messages,
                    ui.messages[i].req \notin {0} \cup merged \cup FlushSwallows(ui),
                    ui.messages[i].status # "error", ~mixed, NEW c \in Channel
             PROVE  Shown(ui.messages[i], c) = recv[ui.messages[i].req][c]
  BY DEF FullText
<1>0. ui.messages \in Seq(Message) /\ Conv(ui.messages, nextKey, nextReq)
  BY Types
<1>1. ui.messages[i] \in Message
  BY <1>0, Elements
<1>2. ui.messages[i].status \in {"loading", "streaming", "complete"}
  <2>1. ui.messages[i].status # "none"
    BY <1>0 DEF Conv
  <2>q. QED
    BY <1>1, <2>1, MessageFields
<1>3. CASE isAssistantMessagePending(ui.messages[i])
  <2>1. ui.messages[i] = Last(ui.messages) /\ ui.messages # <<>>
    BY <1>0, <1>3, PendingIsLast DEF EndsWithAssistant
  <2>2. Joined(ui.messages[i].text, ui.pending) = recv[ui.messages[i].req]
    BY <1>3, <2>1, FullFlush
  <2>3. Joined(ui.messages[i].text, ui.pending)[c] = Shown(ui.messages[i], c)
    BY <1>3 DEF Joined, Shown
  <2>q. QED
    BY <2>2, <2>3
<1>4. CASE ~isAssistantMessagePending(ui.messages[i])
  <2>1. ui.messages[i].status = "complete"
    BY <1>2, <1>4 DEF isAssistantMessagePending
  <2>2. WholeIn(ui.messages[i], merged, net, recv)
    BY Parts DEF PageInv, WholeAll
  <2>q. QED
    BY <1>4, <2>1, <2>2 DEF WholeIn, Shown
<1>q. QED
  BY <1>3, <1>4

\* An answer that is shown is all the text that arrived for it.
THEOREM AnswersAreFull == Spec => []FullText
<1>1. IInv => FullText
  BY Complete DEF IInv
<1>q. QED
  BY <1>1, Inductive, PTL

\* A finished answer changes only by the user's edit or by a reload.
LEMMA Final ==
  ASSUME IInv, IInv', AnswersStay, ~mixed', NEW i \in DOMAIN ui.messages,
         isAssistantMessageFinal(ui.messages[i]), ui.messages[i].key \in KeysOf(ui'.messages)
  PROVE  \/ ui'.messages[IndexOf(ui'.messages, ui.messages[i].key)]
              \in {ui.messages[i], updateContent(<<ui.messages[i]>>, ui.messages[i].key)[1]}
         \/ ui'.messages = loadMessages(stored')
<1>1. CASE Stays(ui'.messages)
  <2>1. PICK m : m = ui.messages[i]
    OBVIOUS
  <2>2. PICK n : n = ui'.messages
    OBVIOUS
  <2>3. n \in Seq(Message)
    BY <2>2, ComponentFields DEF IInv, PageInv, TypeOK
  <2>4. PICK j : j = IndexOf(n, m.key)
    OBVIOUS
  <2>5. j \in DOMAIN n /\ n[j].key = m.key
    BY <2>1, <2>2, <2>3, <2>4, IndexFields
  <2>6. n[j] \in {m, Edited(m)}
    BY <1>1, <2>1, <2>2, <2>5 DEF Stays
  <2>7. updateContent(<<m>>, m.key)[1] = Edited(m)
    <3>1. PICK s : s = <<m>>
      OBVIOUS
    <3>2. 1 \in DOMAIN s /\ s[1] = m
      BY <3>1
    <3>3. updateContent(s, m.key)[1] = Edited(s[1])
      BY <3>2 DEF updateContent, Edited
    <3>q. QED
      BY <3>1, <3>2, <3>3
  <2>q. QED
    BY <2>1, <2>2, <2>4, <2>6, <2>7
<1>q. QED
  BY <1>1 DEF AnswersStay

\* No late chunk, flush or response changes a finished answer.
THEOREM FinishedStaysFinal == Spec => FinishedIsFinal
<1>1. IInv /\ IInv' /\ [Next]_vars =>
        [~mixed' => \A i \in DOMAIN ui.messages : LET m == ui.messages[i] IN
            isAssistantMessageFinal(m) /\ m.key \in KeysOf(ui'.messages) =>
                ui'.messages[IndexOf(ui'.messages, m.key)] \in {m, updateContent(<<m>>, m.key)[1]}
                \/ ui'.messages = loadMessages(stored')]_vars
  <2>1. IInv /\ [Next]_vars => AnswersStay
    BY Steps
  <2>q. QED
    BY <2>1, Final
<1>q. QED
  BY <1>1, Inductive, PTL DEF Spec, FinishedIsFinal
=============================================================================
