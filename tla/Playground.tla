----------------------------- MODULE Playground -----------------------------
(***************************************************************************)
(* The chat playground of the default front end                            *)
(* (src/web/default/src/features/playground): one browser tab that keeps a *)
(* conversation, asks the relay for answers as an event stream or as one   *)
(* response, shows the chunks as they come, and saves the conversation in  *)
(* the browser's local storage.                                            *)
(*                                                                         *)
(* The program is single threaded; what interleaves are its callbacks: the *)
(* user's clicks, the events of a stream, the responses of plain requests, *)
(* the 50 ms timer that flushes chunks into the message and the 500 ms     *)
(* timer that saves the conversation.  Each callback is one action.  ui    *)
(* holds the React state and the refs of the mounted component, so that a  *)
(* callback is a composition of the functions it calls.                    *)
(*                                                                         *)
(* Text is a sequence of tokens.  recv, mode, mixed and merged record what *)
(* the upstream sent, outdated what became of the writes to the storage;   *)
(* the program does not have them.                                         *)
(***************************************************************************)
EXTENDS Naturals, Sequences, FiniteSets, SequencesExt

CONSTANTS
    Token,          \* what a model can say: a sequence of distinct tokens
    MaxRequests,    \* bound on the requests of a behaviour
    MaxClicks,      \* bound on its clicks that send no request, failed saves, late writes
    MaxChunks,      \* bound on the chunks of all its streams
    MaxStored       \* MAX_STORED_MESSAGES (100 in the code)

ASSUME PlaygroundAssumption ==
    /\ {MaxRequests, MaxClicks, MaxChunks} \subseteq Nat /\ MaxStored \in Nat \ {0}
    /\ Token \in Seq(Range(Token)) /\ Token # <<>>
    /\ IsInjective(Token) /\ Len(Token) >= MaxChunks
    /\ {"edited", "failed", "prompt"} \cap Range(Token) = {}

VARIABLES
    ui,        \* the mounted component: state, refs and armed timers
    stream,    \* config.stream: answers are streamed
    stored,    \* the conversation in local storage
    outdated,  \* the last write of it failed, or was that of a page that was left
    left,      \* the conversations of left pages whose connections go on
    net,       \* the connection of every request
    nextReq, nextKey, clicks,
    recv, mode, mixed, merged

vars == <<ui, stream, stored, outdated, left, net, nextReq, nextKey, clicks, recv, mode,
          mixed, merged>>

Request == 1..MaxRequests
Key     == 1..(3 * MaxRequests)
Channel == {"content", "reasoning"}
NoText  == [c \in Channel |-> <<>>]

(* An answer is shown by the message whose req is its request; req is 0    *)
(* when the message is no answer, when the user has changed it, or when it *)
(* was repaired on load or written by a page that was left.                *)
Message == [key: Key, from: {"user", "assistant"},
            status: {"none", "loading", "streaming", "complete", "error"},
            text: [Channel -> Seq(Range(Token) \cup {"edited", "failed", "prompt"})],
            req: 0..MaxRequests]

isAssistantMessagePending(m) == m.status \in {"loading", "streaming"}
isAssistantMessageFinal(m)   == m.status \in {"complete", "error"}
hasMessageContent(m)         == m.text["content"] # <<>>

isGenerating == ui.isStreaming \/ ui.isRequesting
Busy(r)      == net[r] \in {"sse", "post"}
-----------------------------------------------------------------------------
(* The message functions of lib/message.                                   *)

createUserMessage(k) ==
    [key |-> k, from |-> "user", status |-> "none",
     text |-> [NoText EXCEPT !["content"] = <<"prompt">>], req |-> 0]

createLoadingAssistantMessage(k, r) ==
    [key |-> k, from |-> "assistant", status |-> "loading", text |-> NoText, req |-> r]

completeAssistantMessage(m) == [m EXCEPT !.status = "complete"]

\* Mutant: a status the rest of the code does not know.
errorAssistantMessageFailed(m) ==
    [m EXCEPT !.status = "failed", !.text["content"] = <<"failed">>]

errorAssistantMessage(m) ==
    [m EXCEPT !.status = "error", !.text["content"] = <<"failed">>]

(* Both merge rules take a chunk that starts with the text before it for a *)
(* repetition of that text.                                                *)
Repeats(current, chunk) == current # <<>> /\ IsPrefix(current, chunk)

mergePendingStreamChunk(current, chunk) ==
    IF Repeats(current, chunk) THEN chunk ELSE current \o chunk

getAppendableChunk(current, chunk) ==
    IF Repeats(current, chunk)
      THEN SubSeq(chunk, Len(current) + 1, Len(chunk)) ELSE chunk

ApplyChunk(m, c, chunk) ==
    IF chunk = <<>> \/ m.status = "error" THEN m
    ELSE [m EXCEPT !.status = "streaming",
                   !.text[c] = @ \o getAppendableChunk(@, chunk)]

applyStreamingChunk(m, chunks) ==
    ApplyChunk(ApplyChunk(m, "reasoning", chunks["reasoning"]),
               "content", chunks["content"])

IndexOf(msgs, k) == CHOOSE i \in DOMAIN msgs : msgs[i].key = k
KeysOf(msgs)     == {msgs[i].key : i \in DOMAIN msgs}

createRegeneratedMessages(msgs, k, fresh) ==
    LET i == IndexOf(msgs, k)
    IN  Append(SubSeq(msgs, 1, IF msgs[i].from = "user" THEN i ELSE i - 1), fresh)

(* filter; no two messages have the same key.                              *)
removeMessageByKey(msgs, k) == RemoveAt(msgs, IndexOf(msgs, k))

updateContent(msgs, k) ==
    [i \in DOMAIN msgs |->
        IF msgs[i].key = k
          THEN [msgs[i] EXCEPT !.text["content"] = <<"edited">>, !.req = 0]
          ELSE msgs[i]]
-----------------------------------------------------------------------------
(* Local storage.                                                          *)

trimMessages(msgs) ==
    IF Len(msgs) <= MaxStored THEN msgs
    ELSE SubSeq(msgs, Len(msgs) - MaxStored + 1, Len(msgs))

(* The storage after a write to the storage s: a failure (the quota, the   *)
(* schema) is caught and logged, and nobody hears of it.                   *)
saveMessages(s, msgs, ok) == IF ok THEN trimMessages(msgs) ELSE s

normalizeStoredMessageForLoad(m) ==
    IF isAssistantMessagePending(m) /\ m.text # NoText
      THEN [completeAssistantMessage(m) EXCEPT !.req = 0] ELSE m

(* Only the most recent pending message is repaired.                       *)
sanitizeMessagesOnLoad(msgs) ==
    LET P == {i \in DOMAIN msgs : isAssistantMessagePending(msgs[i])}
    IN  IF P = {} THEN msgs
        ELSE [msgs EXCEPT ![Max(P)] = [errorAssistantMessage(@) EXCEPT !.req = 0]]

loadMessages(saved) ==
    sanitizeMessagesOnLoad(trimMessages(
        [i \in DOMAIN saved |-> normalizeStoredMessageForLoad(saved[i])]))
-----------------------------------------------------------------------------
(* The functions of the hooks, on the state u of the component.            *)

\* Mutant: nothing is saved while an answer is streamed.
updateMessagesIdle(u, msgs) ==
    [u EXCEPT !.messages = msgs, !.saveTimer = @ \/ ~u.isStreaming]

(* updateMessages: every update arms the save timer.                       *)
updateMessages(u, msgs) == [u EXCEPT !.messages = msgs, !.saveTimer = TRUE]

EndsWithAssistant(msgs) == msgs # <<>> /\ Last(msgs).from = "assistant"

updateLastAssistantMessage(u, F(_)) ==
    updateMessages(u,
        IF EndsWithAssistant(u.messages)
          THEN [u.messages EXCEPT ![Len(u.messages)] = F(@)]
          ELSE u.messages)

flushStreamUpdates(u) ==
    LET v == [u EXCEPT !.flushTimer = FALSE, !.pending = NoText]
    IN  IF u.pending = NoText THEN v
        ELSE updateLastAssistantMessage(v, LAMBDA m : applyStreamingChunk(m, u.pending))

handleStreamUpdate(u, c, chunk) ==
    [u EXCEPT !.pending[c] = mergePendingStreamChunk(@, chunk), !.flushTimer = TRUE]

\* Mutant: the chunks that wait for the timer are left to it.
handleStreamCompleteUnflushed(u) ==
    updateLastAssistantMessage([u EXCEPT !.isRequesting = FALSE],
        LAMBDA m : IF isAssistantMessageFinal(m) THEN m ELSE completeAssistantMessage(m))

handleStreamComplete(u) ==
    updateLastAssistantMessage([flushStreamUpdates(u) EXCEPT !.isRequesting = FALSE],
        LAMBDA m : IF isAssistantMessageFinal(m) THEN m ELSE completeAssistantMessage(m))

handleStreamError(u) ==
    updateLastAssistantMessage([flushStreamUpdates(u) EXCEPT !.isRequesting = FALSE],
        errorAssistantMessage)

\* Mutant: the source is closed and the flag is left.
closeActiveStreamForgotten(u, r) ==
    IF u.sseSource = r THEN [u EXCEPT !.sseSource = 0] ELSE u

closeActiveStream(u, r) ==
    IF u.sseSource = r THEN [u EXCEPT !.sseSource = 0, !.isStreaming = FALSE] ELSE u

\* Mutant: the error is shown and the source is not closed.
handleErrorOpen(u, r) ==
    IF u.isStreamComplete THEN u ELSE handleStreamError(u)

handleError(u, r) ==
    IF u.isStreamComplete THEN u ELSE closeActiveStream(handleStreamError(u), r)

\* Mutant: the chunks that wait for the timer are dropped.
stopGenerationDropped(u) ==
    updateLastAssistantMessage(
        [closeActiveStream(u, u.sseSource) EXCEPT !.pending = NoText, !.flushTimer = FALSE,
            !.abortController = 0, !.isRequesting = FALSE],
        LAMBDA m : IF isAssistantMessagePending(m) THEN completeAssistantMessage(m) ELSE m)

stopGeneration(u) ==
    updateLastAssistantMessage(
        [flushStreamUpdates(closeActiveStream(u, u.sseSource))
            EXCEPT !.abortController = 0, !.isRequesting = FALSE],
        LAMBDA m : IF isAssistantMessagePending(m) THEN completeAssistantMessage(m) ELSE m)

sendStreamRequest(u, r) ==
    [u EXCEPT !.isRequesting = TRUE, !.isStreaming = TRUE, !.sseSource = r,
              !.isStreamComplete = FALSE]

sendNonStreamingChat(u, r) ==
    [u EXCEPT !.isRequesting = TRUE, !.requestId = r, !.abortController = r]
-----------------------------------------------------------------------------
(* sendChat with the conversation msgs as the request r, from the state    *)
(* u0.  A new stream closes the one before it; a plain request leaves the  *)
(* one before it running.  source.stream() may throw, which is reported    *)
(* like any error.                                                         *)

sendChat(u0, msgs, r) ==
    /\ r = nextReq /\ r \in Request
    /\ nextReq' = nextReq + 1
    /\ mixed' = (mixed \/ ui.flushTimer \/ \E q \in Request : Busy(q))
    /\ LET u == updateMessages(u0, msgs) IN
         \/ /\ stream
            /\ ui' = sendStreamRequest(u, r)
            /\ net' = [q \in Request |-> IF q = r THEN "sse"
                                         ELSE IF q = ui.sseSource THEN "closed" ELSE net[q]]
         \/ /\ stream
            /\ ui' = closeActiveStream(handleStreamError(sendStreamRequest(u, r)), r)
            /\ net' = [q \in Request |-> IF q \in {r, ui.sseSource} THEN "closed" ELSE net[q]]
         \/ /\ ~stream
            /\ ui' = sendNonStreamingChat(u, r)
            /\ net' = [net EXCEPT ![r] = "post"]
    /\ UNCHANGED <<stream, stored, outdated, left, clicks, recv, mode, merged>>

(* The input is disabled while an answer is being generated.               *)
SendMessage ==
    /\ ~isGenerating
    /\ nextKey' = nextKey + 2 /\ nextKey + 1 \in Key
    /\ sendChat(ui, ui.messages \o <<createUserMessage(nextKey),
                        createLoadingAssistantMessage(nextKey + 1, nextReq)>>, nextReq)

RegenerateMessage(k) ==
    /\ ~isGenerating
    /\ k \in KeysOf(ui.messages)
    /\ hasMessageContent(ui.messages[IndexOf(ui.messages, k)])
    /\ nextKey' = nextKey + 1 /\ nextKey \in Key
    /\ sendChat(ui, createRegeneratedMessages(ui.messages, k,
                        createLoadingAssistantMessage(nextKey, nextReq)), nextReq)

(* The editor's buttons look at the text only: an editor that was opened   *)
(* before a request was sent can be submitted while it is running.         *)
SubmitEdit ==
    /\ ui.editing \in KeysOf(ui.messages)
    /\ ui.messages[IndexOf(ui.messages, ui.editing)].from = "user"
    /\ nextKey' = nextKey + 1 /\ nextKey \in Key
    /\ sendChat([ui EXCEPT !.editing = 0],
                Append(SubSeq(updateContent(ui.messages, ui.editing), 1,
                              IndexOf(ui.messages, ui.editing)),
                       createLoadingAssistantMessage(nextKey, nextReq)), nextReq)
-----------------------------------------------------------------------------
(* Clicks that change the conversation and send nothing.                   *)

(* A click, a save that fails or the late write of a page that was left:   *)
(* together they are bounded.                                              *)
Click == clicks < MaxClicks /\ clicks' = clicks + 1

Local(u) ==
    /\ Click
    /\ ui' = u
    /\ UNCHANGED <<stream, stored, outdated, left, net, nextReq, nextKey, recv, mode, mixed,
                   merged>>

OpenEdit(k) ==
    /\ ~isGenerating
    /\ k \in KeysOf(ui.messages)
    /\ hasMessageContent(ui.messages[IndexOf(ui.messages, k)])
    /\ Local([ui EXCEPT !.editing = k])

CancelEdit ==
    /\ ui.editing # 0
    /\ Local([ui EXCEPT !.editing = 0])

SaveEdit ==
    /\ ui.editing \in KeysOf(ui.messages)
    /\ Local([updateMessages(ui, updateContent(ui.messages, ui.editing)) EXCEPT !.editing = 0])

DeleteMessage(k) ==
    /\ ~isGenerating
    /\ k \in KeysOf(ui.messages)
    /\ Local(updateMessages(ui, removeMessageByKey(ui.messages, k)))

ClearMessages ==
    /\ ~isGenerating /\ ui.messages # <<>>
    /\ Local(updateMessages(ui, <<>>))
-----------------------------------------------------------------------------
(* What arrives for a request.  The events of a stream that was closed are *)
(* not dispatched, and an aborted plain request ends without effect.       *)

Arrived(r) == Len(recv[r]["content"]) + Len(recv[r]["reasoning"])

(* An upstream sends deltas or snapshots of all the text so far.           *)
Chunk(r, c, tok) ==
    IF mode = "delta" THEN <<tok>> ELSE Append(recv[r][c], tok)

(* A delta that begins with the text before it is taken for a snapshot.    *)
(* Deltas are single tokens here, so it is one that equals that text.      *)
Swallowed(r, c, tok) ==
    mode = "delta" /\ Repeats(ui.pending[c], <<tok>>)

(* Which tokens an answer uses does not matter, only which are equal: the  *)
(* n-th chunk brings one of the first n tokens.                            *)
StreamChunk(r, c, tok) ==
    /\ net[r] = "sse"
    /\ FoldFunction(+, 0, [q \in Request |-> Arrived(q)]) < MaxChunks
    /\ tok \in Range(SubSeq(Token, 1, Arrived(r) + 1))
    /\ recv' = [recv EXCEPT ![r][c] = Append(@, tok)]
    /\ ui' = handleStreamUpdate(ui, c, Chunk(r, c, tok))
    /\ merged' = IF Swallowed(r, c, tok) THEN merged \cup {r} ELSE merged
    /\ UNCHANGED <<stream, stored, outdated, left, net, nextReq, nextKey, clicks, mode, mixed>>

(* The same when the chunks of a flush repeat the text of the message.     *)
FlushSwallows(u) ==
    IF u.messages = <<>> THEN {}
    ELSE {r \in {Last(u.messages).req} \ {0} :
            /\ mode = "delta"
            /\ \E c \in Channel : Repeats(Last(u.messages).text[c], u.pending[c])}

Ended(r, u, how) ==
    /\ ui' = u
    /\ net' = [net EXCEPT ![r] = how]
    /\ merged' = merged \cup FlushSwallows(ui)
    /\ UNCHANGED <<stream, stored, outdated, left, nextReq, nextKey, clicks, recv, mode, mixed>>

\* Mutant: a plain request is not aborted.
StopGenerationStream ==
    /\ isGenerating
    /\ ui' = stopGeneration(ui)
    /\ net' = [q \in Request |-> IF Busy(q) /\ q = ui.sseSource THEN "closed" ELSE net[q]]
    /\ merged' = merged \cup FlushSwallows(ui)
    /\ UNCHANGED <<stream, stored, outdated, left, nextReq, nextKey, clicks, recv, mode, mixed>>

StopGeneration ==
    /\ isGenerating
    /\ ui' = stopGeneration(ui)
    /\ net' = [q \in Request |-> IF Busy(q) /\ q \in {ui.sseSource, ui.abortController}
                                   THEN "closed" ELSE net[q]]
    /\ merged' = merged \cup FlushSwallows(ui)
    /\ UNCHANGED <<stream, stored, outdated, left, nextReq, nextKey, clicks, recv, mode, mixed>>

(* data: [DONE]                                                            *)
StreamDone(r) ==
    /\ net[r] = "sse"
    /\ Ended(r, handleStreamComplete(closeActiveStream([ui EXCEPT !.isStreamComplete = TRUE], r)),
             "closed")

(* An error event, an HTTP status other than 200 or an unreadable chunk.   *)
StreamFail(r) ==
    /\ net[r] = "sse"
    /\ Ended(r, handleError(ui, r), "closed")

(* The response ends without [DONE]: sse.js closes the source, and no      *)
(* listener of the hook reacts to that with the status 200.                *)
StreamEnd(r) ==
    /\ net[r] = "sse"
    /\ net' = [net EXCEPT ![r] = "cut"]
    /\ UNCHANGED <<ui, stream, stored, outdated, left, nextReq, nextKey, clicks, recv, mode,
                   mixed, merged>>

(* finally: a later request keeps the controller and the flag.             *)
EndPlain(u, r) ==
    IF u.requestId = r THEN [u EXCEPT !.abortController = 0, !.isRequesting = FALSE] ELSE u

applyChatCompletionResponse(m, tok) ==
    [m EXCEPT !.status = "complete", !.text["content"] = <<tok>>]

PlainResponse(r, tok) ==
    /\ net[r] = "post"
    /\ recv' = [recv EXCEPT ![r]["content"] = <<tok>>]
    /\ net' = [net EXCEPT ![r] = "closed"]
    /\ ui' = EndPlain(updateLastAssistantMessage(ui,
                          LAMBDA m : applyChatCompletionResponse(m, tok)), r)
    /\ UNCHANGED <<stream, stored, outdated, left, nextReq, nextKey, clicks, mode, mixed, merged>>

(* A response without a choice, or a failed request.                       *)
PlainFail(r) ==
    /\ net[r] = "post"
    /\ Ended(r, EndPlain(handleStreamError(ui), r), "closed")
-----------------------------------------------------------------------------
(* The timers, and leaving the page.                                       *)

FlushTimer ==
    /\ ui.flushTimer
    /\ ui' = flushStreamUpdates(ui)
    /\ merged' = merged \cup FlushSwallows(ui)
    /\ UNCHANGED <<stream, stored, outdated, left, net, nextReq, nextKey, clicks, recv, mode, mixed>>

SaveTimer(ok) ==
    /\ ui.saveTimer
    /\ ui' = [ui EXCEPT !.saveTimer = FALSE]
    /\ stored' = saveMessages(stored, ui.messages, ok)
    /\ outdated' = ~ok
    /\ IF ok THEN UNCHANGED clicks ELSE Click
    /\ UNCHANGED <<stream, left, net, nextReq, nextKey, recv, mode, mixed, merged>>

Mounted(msgs) ==
    [messages |-> msgs, editing |-> 0, isStreaming |-> FALSE, isRequesting |-> FALSE,
     sseSource |-> 0, isStreamComplete |-> FALSE, requestId |-> 0, abortController |-> 0,
     pending |-> NoText, flushTimer |-> FALSE, saveTimer |-> FALSE]

(* No cleanup closes the stream or aborts the request of a page that is    *)
(* left.  React drops its updates, but may call the updater of the first   *)
(* one, and that arms the save timer of the page that was left.  Whatever  *)
(* text comes late is one token: nothing distinguishes it from more.       *)
LateAnswers(m) ==
    {errorAssistantMessage(m)} \cup
    IF stream THEN {ApplyChunk(m, "content", <<Token[1]>>),
                    IF isAssistantMessageFinal(m) THEN m ELSE completeAssistantMessage(m)}
              ELSE {applyChatCompletionResponse(m, Token[1])}

LateMessages(p) ==
    IF EndsWithAssistant(p)
      THEN {[p EXCEPT ![Len(p)] = [m EXCEPT !.req = 0]] : m \in LateAnswers(Last(p))}
      ELSE {p}

LateWrites(pages) ==
    {trimMessages(msgs) : msgs \in UNION {LateMessages(p) : p \in pages}}

LateSave(saved) ==
    /\ saved \in LateWrites(left)
    /\ Click
    /\ stored' = saved /\ outdated' = TRUE
    /\ UNCHANGED <<ui, stream, left, net, nextReq, nextKey, recv, mode, mixed, merged>>

(* The page is mounted and loads the conversation; what it repairs of it   *)
(* is written back.  It has none of the connections there were.            *)
Mount(saved, ok) ==
    LET msgs == loadMessages(saved)
    IN  /\ Click
        /\ ui' = Mounted(msgs)
        /\ stored' = saveMessages(saved, msgs, ok)
        /\ outdated' = (~ok /\ msgs # saved)
        /\ net' = [r \in Request |-> IF Busy(r) THEN "closed" ELSE net[r]]
        /\ UNCHANGED <<stream, nextReq, nextKey, recv, mode, mixed, merged>>

(* The tab is reloaded: nothing is saved, and nothing goes on.             *)
Reload(ok) ==
    /\ Mount(stored, ok)
    /\ left' = {}

LeftBehind ==
    IF \E r \in Request : Busy(r) THEN left \cup {ui.messages} ELSE left

(* The user goes to another page, which saves what is unsaved, and comes   *)
(* back, to what was saved or to what a left page has written since.       *)
Remount(saved, ok) ==
    /\ \/ saved = stored
       \/ ui.saveTimer /\ saved = trimMessages(ui.messages)
       \/ saved \in LateWrites(LeftBehind)
    /\ Mount(saved, ok)
    /\ left' = LeftBehind
-----------------------------------------------------------------------------
Init ==
    /\ ui = Mounted(<<>>) /\ stored = <<>> /\ outdated = FALSE /\ left = {}
    /\ stream \in BOOLEAN
    /\ net = [r \in Request |-> "none"]
    /\ nextReq = 1 /\ nextKey = 1 /\ clicks = 0
    /\ recv = [r \in Request |-> NoText]
    /\ mode \in {"delta", "snapshot"} /\ (~stream => mode = "delta")
    /\ mixed = FALSE /\ merged = {}

(* What the network and the browser do by themselves.                      *)
NetworkEnds ==
    \E r \in Request :
        \/ StreamDone(r) \/ StreamFail(r) \/ StreamEnd(r)
        \/ PlainFail(r) \/ PlainResponse(r, Token[1])

User ==
    \/ SendMessage \/ SubmitEdit \/ CancelEdit \/ SaveEdit
    \/ ClearMessages \/ StopGeneration
    \/ \E k \in Key : RegenerateMessage(k) \/ OpenEdit(k) \/ DeleteMessage(k)
    \/ \E ok \in BOOLEAN :
          \/ Reload(ok)
          \/ \E saved \in {stored, trimMessages(ui.messages)} \cup LateWrites(LeftBehind) :
                Remount(saved, ok)

Next ==
    \/ User \/ NetworkEnds \/ FlushTimer
    \/ \E ok \in BOOLEAN : SaveTimer(ok)
    \/ \E saved \in LateWrites(left) : LateSave(saved)
    \/ \E r \in Request, c \in Channel, tok \in Range(Token) : StreamChunk(r, c, tok)

(* The user need not do anything.  A connection ends, and timers fire.     *)
Spec == Init /\ [][Next]_vars /\ WF_vars(NetworkEnds) /\ WF_vars(FlushTimer)
             /\ WF_vars(\E ok \in BOOLEAN : SaveTimer(ok))
-----------------------------------------------------------------------------
Component ==
    [messages : Seq(Message), editing : {0} \cup Key,
     isStreaming : BOOLEAN, isRequesting : BOOLEAN, isStreamComplete : BOOLEAN,
     sseSource : 0..MaxRequests, requestId : 0..MaxRequests,
     abortController : 0..MaxRequests, pending : [Channel -> Seq(Range(Token))],
     flushTimer : BOOLEAN, saveTimer : BOOLEAN]

(* Types of the state of the page, its storage and its connections.        *)
TypeOK ==
    /\ ui \in Component
    /\ stored \in Seq(Message) /\ left \subseteq Seq(Message)
    /\ stream \in BOOLEAN /\ outdated \in BOOLEAN /\ mixed \in BOOLEAN
    /\ net \in [Request -> {"none", "sse", "post", "closed", "cut"}]
    /\ recv \in [Request -> [Channel -> Seq(Range(Token))]]
    /\ mode \in {"delta", "snapshot"}
    /\ nextReq \in 1..(MaxRequests + 1) /\ nextKey \in 1..(3 * MaxRequests + 1)
    /\ clicks \in 0..MaxClicks
    /\ merged \subseteq Request

(* Whatever order clicks, stream events, responses and timers come in, and *)
(* after a reload: when the page is idle no message is left loading or     *)
(* streaming, for nothing would ever finish it, and while it generates     *)
(* only the last message may be.                                           *)
NothingLeftPending ==
    \A i \in DOMAIN ui.messages :
        isAssistantMessagePending(ui.messages[i]) => isGenerating /\ i = Len(ui.messages)

(* The text the user sees of an answer, with the chunks that wait for the  *)
(* flush timer.                                                            *)
Shown(m, c) ==
    IF isAssistantMessagePending(m)
      THEN m.text[c] \o getAppendableChunk(m.text[c], ui.pending[c]) ELSE m.text[c]

(* An answer is neither cut nor doubled by buffering, flushing, stopping   *)
(* or completing: it is all the text that arrived for it, in order, in the *)
(* two forms upstreams send.  Excepted are the cases described in the      *)
(* README: two answers in flight, and a delta that repeats the text.       *)
FullText ==
    \A i \in DOMAIN ui.messages : LET m == ui.messages[i] IN
        m.req \notin {0} \cup merged \cup FlushSwallows(ui) /\ m.status # "error" /\ ~mixed
        => \A c \in Channel : Shown(m, c) = recv[m.req][c]

(* A finished answer stays as it is until the user edits it or removes it: *)
(* no late chunk, flush or response of any request changes it.             *)
FinishedIsFinal ==
    [][~mixed' => \A i \in DOMAIN ui.messages : LET m == ui.messages[i] IN
            isAssistantMessageFinal(m) /\ m.key \in KeysOf(ui'.messages) =>
                ui'.messages[IndexOf(ui'.messages, m.key)] \in {m, updateContent(<<m>>, m.key)[1]}
                \/ ui'.messages = loadMessages(stored')]_vars

(* The stored conversation is the shown one unless a save is scheduled: no *)
(* path that changes the messages forgets to arm the timer.  Excepted are  *)
(* the two cases nobody hears of: the last write failed (saveMessages      *)
(* swallows it), or a page that was left wrote over it.                    *)
SavedOrScheduled ==
    ui.saveTimer \/ outdated \/ stored = trimMessages(ui.messages)

(* The page stops generating, except when a stream ended without [DONE]:   *)
(* then it waits for the user to press stop.                               *)
Cut == ui.sseSource # 0 /\ net[ui.sseSource] = "cut"

GenerationEnds == isGenerating ~> (~isGenerating \/ Cut)
-----------------------------------------------------------------------------
(* The inductive invariant.                                                *)

(* Of a conversation, shown or stored: messages are distinct and older     *)
(* than what is created next, and only the last one can be pending.        *)
Conversation(msgs) ==
    \A i \in DOMAIN msgs :
        /\ msgs[i].key < nextKey /\ msgs[i].req < nextReq
        /\ \A j \in DOMAIN msgs : msgs[i].key = msgs[j].key => i = j
        /\ isAssistantMessagePending(msgs[i]) => i = Len(msgs)
        /\ msgs[i].from = "user" <=> msgs[i].status = "none"
        /\ msgs[i].from = "user" => msgs[i].req = 0

(* The flags of the page agree with its connections and its buffer.        *)
Flags ==
    /\ ui.isStreaming <=> ui.sseSource # 0
    /\ ui.sseSource < nextReq
    /\ ui.isStreaming => stream
    /\ ui.pending # NoText => ui.isStreaming /\ ui.flushTimer
    /\ \A r \in Request :
          /\ net[r] = "sse" => ui.sseSource = r /\ ~ui.isStreamComplete
          /\ r >= nextReq => net[r] = "none"
          /\ net[r] \in {"none", "post"} => recv[r] = NoText

(* An answer whose text the properties speak of.                           *)
Counts(m) == m.req \notin {0} \cup merged

(* A finished answer is all that will ever arrive for it.                  *)
Whole(m) ==
    m.status = "complete" /\ Counts(m) => ~Busy(m.req) /\ m.text = recv[m.req]

(* A pending answer and the buffer together are what has arrived: deltas   *)
(* one after the other, or a snapshot that goes on from the answer.        *)
Arriving(m) ==
    isAssistantMessagePending(m) /\ Counts(m) =>
        /\ m.req = nextReq - 1
        /\ \A c \in Channel :
             \/ mode = "delta" /\ m.text[c] \o ui.pending[c] = recv[m.req][c]
             \/ /\ mode = "snapshot"
                /\ \/ ui.pending[c] = <<>> /\ m.text[c] = recv[m.req][c]
                   \/ /\ ui.pending[c] = recv[m.req][c]
                      /\ IsPrefix(m.text[c], recv[m.req][c])

(* While one answer at most is in flight: it is the last message's.        *)
OneAnswer ==
    /\ \A r \in Request :
          /\ Busy(r) => r = nextReq - 1 /\ isGenerating
          /\ net[r] = "post" => ~stream /\ ui.requestId = r /\ ui.abortController = r
    /\ isGenerating => ui.messages # <<>> /\ isAssistantMessagePending(Last(ui.messages))
    /\ \A i \in DOMAIN ui.messages : Whole(ui.messages[i]) /\ Arriving(ui.messages[i])
    /\ \A i \in DOMAIN stored : Whole(stored[i])

PageInv ==
    /\ TypeOK /\ Flags
    /\ Conversation(ui.messages) /\ Conversation(stored)
    /\ NothingLeftPending /\ SavedOrScheduled
    /\ ~mixed => OneAnswer

(* What a left page may still write is as good as what is stored.          *)
LeftPages ==
    \A p \in left :
        /\ Conversation(p)
        /\ ~mixed => \A i \in DOMAIN p : Whole(p[i])

IInv == PageInv /\ LeftPages
=============================================================================
