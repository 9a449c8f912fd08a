---------------------------- MODULE Conversation ----------------------------
(***************************************************************************)
(* One cascaded voice-chat session: ConversationOrchestrator of            *)
(* backend/app/orchestration/conversation.py.  Three asyncio tasks share   *)
(* the object's fields: the main task (run, _listen, _respond), the reader *)
(* (_read_loop) and, while a reply is spoken with barge-in on, the watcher *)
(* (_watch_interrupt).  A task runs without interruption between two       *)
(* awaits that may suspend, so an action is one such segment and mpc, rpc  *)
(* and wpc name the await each task is suspended at.  Every frame sent to  *)
(* the client is a point where the other tasks may run.                    *)
(*                                                                         *)
(* Text is counted in sentences and audio in chunks.  The recogniser, the  *)
(* agent, the synthesiser and the client are the environment: their        *)
(* answers are nondeterministic choices.                                   *)
(***************************************************************************)
EXTENDS Naturals, Sequences

CONSTANTS
  KeepTurns,       \* settings.agent_max_turns
  MaxTurns,        \* bound: turns the user takes in a session
  MaxDeltas,       \* bound: deltas the agent streams in a reply (max_tokens)
  PerDelta,        \* bound: sentences a single delta completes
  MaxChunks,       \* bound: audio chunks of one synthesised text
  QueueBound       \* bound: audio chunks waiting in one queue

ASSUME ConstantsAssumption ==
  /\ KeepTurns \in Nat \ {0}
  /\ MaxTurns \in Nat \ {0}
  /\ MaxDeltas \in Nat \ {0}
  /\ PerDelta \in Nat
  /\ MaxChunks \in Nat
  /\ QueueBound \in Nat \ {0}

VARIABLES
  mpc, rpc, wpc,      \* where the main task, the reader, the watcher wait
  state,              \* _state: decides what the reader does with a frame
  stop, interrupt,    \* the two asyncio.Events
  pcmQ, bargeQ,       \* the two unbounded asyncio.Queues
  messages,           \* _messages after the system prompt
  bargeOn, bySentence,\* _barge_on, settings.chat_tts_sentence_stream: fixed
  online,             \* the client still holds the WebSocket open
  clientGone,         \* _client_disconnected
  status,             \* session_status
  turn,               \* number of _respond calls so far
  deltas, full, rest, \* deltas taken, sentences in assistant_full, buffer # ""
  todo, ended,        \* sentences popped and not yet spoken, agent stream over
  spoken, metaSent,   \* spoken_full in sentences, meta_sent
  lacking,            \* chunks the open synthesis has not produced yet
  verdict,            \* how _respond leaves its try block
  outcome,            \* history: the frame that concluded each turn
  heard,              \* history: sentences of each turn sent to the last chunk
  lost                \* history: the reader's sentinel was drained

tasks     == <<mpc, rpc, wpc>>
settings  == <<bargeOn, bySentence>>
dialogue  == <<state, messages, turn, settings>>
session   == <<online, clientGone, status>>
reply     == <<deltas, full, rest, todo, ended, spoken, metaSent, lacking, verdict>>
history   == <<outcome, heard, lost>>
vars      == <<tasks, dialogue, session, stop, interrupt, pcmQ, bargeQ,
                 reply, history>>

-----------------------------------------------------------------------------
(* Values *)

MainPcs ==
  {"start", "ready", "announce", "asrSlot", "busy", "hear", "userPartial",
   "userFinal", "thinking", "first", "responding", "partial", "nextDelta",
   "ttsSlot", "meta", "nextChunk", "bytes", "errorSent", "cleanup", "verdict",
   "finally", "closing", "closed"}

(* asr_stream is open, or waits for its slot. *)
ListenPcs == {"asrSlot", "hear", "userPartial"}

(* The reply is being streamed and spoken, and how it ends is still open. *)
SpeakingPcs == {"partial", "nextDelta", "ttsSlot", "meta", "nextChunk", "bytes"}

Turns == 1 .. MaxTurns

Outcomes == {"none", "ok", "interrupted", "error"}

(* A queue item: a chunk of audio, marked with the number of turns taken    *)
(* when it was captured, or None.                                           *)
Chunk(t) == [pcm |-> TRUE, turn |-> t]
Stop     == [pcm |-> FALSE, turn |-> 0]
Item     == [pcm : BOOLEAN, turn : 0 .. MaxTurns]

User(t)         == [role |-> "user", turn |-> t, text |-> 0]
Assistant(t, n) == [role |-> "assistant", turn |-> t, text |-> n]

Message == [role : {"user", "assistant"}, turn : Turns, text : Nat]

(* _truncate: keep the last 2 * KeepTurns messages.  A definition with an   *)
(* underscore in its name is a faulty variant of the one that follows it: a  *)
(* property that variant does not break would say nothing about the code.    *)
Truncate_KeepOldest(ms) ==
  IF Len(ms) > 2 * KeepTurns THEN SubSeq(ms, 1, 2 * KeepTurns) ELSE ms

Truncate(ms) ==
  IF Len(ms) > 2 * KeepTurns
  THEN SubSeq(ms, Len(ms) - 2 * KeepTurns + 1, Len(ms))
  ELSE ms

(* Sentences the transcript counts the client to have after the open text. *)
AfterThis == IF bySentence THEN spoken + 1 ELSE full

Init ==
  /\ mpc = "start" /\ rpc = "off" /\ wpc = "off"
  /\ state = "listening" /\ stop = FALSE /\ interrupt = FALSE
  /\ pcmQ = <<>> /\ bargeQ = <<>> /\ messages = <<>>
  /\ bargeOn \in BOOLEAN /\ bySentence \in BOOLEAN
  /\ online = TRUE /\ clientGone = FALSE /\ status = "ok"
  /\ turn = 0
  /\ deltas = 0 /\ full = 0 /\ rest = FALSE /\ todo = 0 /\ ended = FALSE
  /\ spoken = 0 /\ metaSent = FALSE /\ lacking = 0 /\ verdict = "ok"
  /\ outcome = [t \in Turns |-> "none"]
  /\ heard = [t \in Turns |-> 0]
  /\ lost = FALSE

-----------------------------------------------------------------------------
(* Sending.  _safe_send swallows a failed send and sets stop; a send can    *)
(* fail only once the client has gone, and need not fail at once.           *)

SafeSend == UNCHANGED stop \/ (~online /\ stop' = TRUE)

(* The head of run's while loop: leave it, or announce "listening". *)
LoopHead ==
  /\ mpc' = IF stop' THEN "finally" ELSE "announce"
  /\ state' = "listening"

-----------------------------------------------------------------------------
(* Main task: session start and end *)

(* The locals of _respond have their first values outside of it. *)
FreshReply ==
  /\ deltas' = 0 /\ full' = 0 /\ rest' = FALSE /\ todo' = 0 /\ ended' = FALSE
  /\ spoken' = 0 /\ metaSent' = FALSE /\ lacking' = 0 /\ verdict' = "ok"

Unavailable ==
  /\ mpc = "start"
  /\ mpc' = "closed"
  /\ status' = "unavailable"
  /\ UNCHANGED <<rpc, wpc, dialogue, online, clientGone, stop, interrupt, pcmQ,
                 bargeQ, reply, history>>

StartSession ==
  /\ mpc = "start"
  /\ mpc' = "ready"
  /\ rpc' = "recv"
  /\ UNCHANGED <<wpc, dialogue, session, stop, interrupt, pcmQ, bargeQ,
                 reply, history>>

AfterReady ==
  /\ mpc = "ready"
  /\ SafeSend
  /\ LoopHead
  /\ UNCHANGED <<rpc, wpc, messages, settings, turn, session, interrupt, pcmQ,
                 bargeQ, reply, outcome, heard, lost>>

(* run's finally block up to "await reader". *)
Finally ==
  /\ mpc = "finally"
  /\ mpc' = "closing"
  /\ stop' = TRUE
  /\ rpc' = IF rpc = "recv" THEN "cancelled" ELSE rpc
  /\ UNCHANGED <<wpc, dialogue, session, interrupt, pcmQ, bargeQ, reply,
                 history>>

CloseSession ==
  /\ mpc = "closing"
  /\ rpc = "done"
  /\ mpc' = "closed"
  /\ status' = IF status = "ok" /\ clientGone THEN "disconnected" ELSE status
  /\ UNCHANGED <<rpc, wpc, dialogue, online, clientGone, stop, interrupt, pcmQ,
                 bargeQ, reply, history>>

-----------------------------------------------------------------------------
(* Main task: _listen *)

DrainQueue_Skipped == UNCHANGED pcmQ

DrainQueue == pcmQ' = <<>>

BeginListen ==
  /\ mpc = "announce"
  /\ SafeSend
  /\ state' = "listening"
  /\ DrainQueue
  /\ mpc' = "asrSlot"
  /\ lost' = (lost \/ rpc = "done")
  /\ UNCHANGED <<rpc, wpc, messages, settings, turn, session, interrupt, bargeQ,
                 reply, outcome, heard>>

AsrGranted ==
  /\ mpc = "asrSlot"
  /\ mpc' = "hear"
  /\ UNCHANGED <<rpc, wpc, dialogue, session, stop, interrupt, pcmQ, bargeQ,
                 reply, history>>

AsrBusy ==
  /\ mpc = "asrSlot"
  /\ mpc' = "busy"
  /\ UNCHANGED <<rpc, wpc, dialogue, session, stop, interrupt, pcmQ, bargeQ,
                 reply, history>>

AfterBusy ==
  /\ mpc = "busy"
  /\ SafeSend
  /\ LoopHead
  /\ UNCHANGED <<rpc, wpc, messages, settings, turn, session, interrupt, pcmQ,
                 bargeQ, reply, outcome, heard, lost>>

(* An exception other than ConcurrencyLimitError leaves _listen and run's   *)
(* loop.                                                                    *)
ListenRaises ==
  /\ mpc \in {"asrSlot", "hear"}
  /\ mpc' = "finally"
  /\ status' = "error"
  /\ UNCHANGED <<rpc, wpc, dialogue, online, clientGone, stop, interrupt, pcmQ,
                 bargeQ, reply, history>>

(* chunk_iter hands one chunk to the recogniser, which answers with nothing, *)
(* with a partial, or with a final: _is_valid_speech drops it or takes it.    *)
HearChunk ==
  /\ mpc = "hear"
  /\ pcmQ # <<>> /\ Head(pcmQ).pcm
  /\ pcmQ' = Tail(pcmQ)
  /\ \/ mpc' = "hear"
     \/ mpc' = "userPartial"
     \/ turn < MaxTurns /\ mpc' = "userFinal"
  /\ UNCHANGED <<rpc, wpc, dialogue, session, stop, interrupt, bargeQ, reply,
                 history>>

(* chunk_iter meets None and returns; the recogniser flushes what it has,   *)
(* which may still be a valid final.                                        *)
HearStop ==
  /\ mpc = "hear"
  /\ pcmQ # <<>> /\ ~Head(pcmQ).pcm
  /\ pcmQ' = Tail(pcmQ)
  /\ \/ mpc' = IF stop THEN "finally" ELSE "announce"
     \/ turn < MaxTurns /\ mpc' = "userFinal"
  /\ UNCHANGED <<rpc, wpc, dialogue, session, stop, interrupt, bargeQ, reply,
                 history>>

AfterUserPartial ==
  /\ mpc = "userPartial"
  /\ SafeSend
  /\ mpc' = "hear"
  /\ UNCHANGED <<rpc, wpc, dialogue, session, interrupt, pcmQ, bargeQ,
                 reply, history>>

AfterUserFinal ==
  /\ mpc = "userFinal"
  /\ SafeSend
  /\ IF stop' THEN mpc' = "finally" /\ UNCHANGED state
              ELSE mpc' = "thinking" /\ state' = "thinking"
  /\ UNCHANGED <<rpc, wpc, messages, settings, turn, session, interrupt, pcmQ,
                 bargeQ, reply, history>>

-----------------------------------------------------------------------------
(* Main task: _respond, until the agent's first token *)

BeginRespond ==
  /\ mpc = "thinking"
  /\ SafeSend
  /\ turn' = turn + 1
  /\ messages' = Truncate(Append(messages, User(turn + 1)))
  /\ interrupt' = FALSE
  /\ mpc' = "first"
  /\ UNCHANGED <<rpc, wpc, state, settings, session, pcmQ, bargeQ, reply,
                 history>>

(* Leave the try block of _respond for its finally block. *)
Leave(v) == mpc' = "cleanup" /\ verdict' = v

(* cancel_task may have completed or not when the first token wins. *)
FirstToken ==
  /\ mpc = "first"
  /\ mpc' = "responding"
  /\ state' = "responding"
  /\ UNCHANGED <<rpc, wpc, messages, settings, turn, session, stop, interrupt,
                 pcmQ, bargeQ, reply, history>>

FirstEmpty ==
  /\ mpc = "first"
  /\ Leave("ok")
  /\ UNCHANGED <<rpc, wpc, dialogue, session, stop, interrupt, pcmQ, bargeQ,
                 deltas, full, rest, todo, ended, spoken, metaSent, lacking,
                 history>>

FirstInterrupted ==
  /\ mpc = "first"
  /\ interrupt
  /\ Leave("interrupted")
  /\ UNCHANGED <<rpc, wpc, dialogue, session, stop, interrupt, pcmQ, bargeQ,
                 deltas, full, rest, todo, ended, spoken, metaSent, lacking,
                 history>>

(* AgentError (a refusal, a network error, the first-token timeout) and the *)
(* synthesiser's ConcurrencyLimitError: the error frame goes out first.     *)
TurnFails ==
  /\ mpc \in {"first", "nextDelta", "ttsSlot"}
  /\ mpc' = "errorSent"
  /\ outcome' = [outcome EXCEPT ![turn] = "error"]
  /\ UNCHANGED <<rpc, wpc, dialogue, session, stop, interrupt, pcmQ, bargeQ,
                 reply, heard, lost>>

(* Any other exception of the agent or the synthesiser ends the session. *)
TurnRaises ==
  /\ mpc \in {"first", "nextDelta", "ttsSlot", "nextChunk"}
  /\ Leave("raised")
  /\ status' = "error"
  /\ UNCHANGED <<rpc, wpc, dialogue, online, clientGone, stop, interrupt, pcmQ,
                 bargeQ, deltas, full, rest, todo, ended, spoken, metaSent,
                 lacking, history>>

-----------------------------------------------------------------------------
(* Main task: _respond, the reply *)

(* The head of the delta loop.  A delta completes some sentences, with the  *)
(* text left over from before, and may leave the start of another: that is  *)
(* _pop_complete on the buffer.                                             *)
TakeDelta ==
  IF interrupt
  THEN /\ Leave("interrupted")
       /\ UNCHANGED <<deltas, full, rest, todo>>
  ELSE \E popped \in 0 .. PerDelta, left \in BOOLEAN :
         /\ (rest /\ popped = 0) => left
         /\ deltas' = deltas + 1
         /\ full' = (IF rest THEN full - 1 ELSE full)
                      + popped + (IF left THEN 1 ELSE 0)
         /\ rest' = left
         /\ todo' = popped
         /\ mpc' = "partial"
         /\ UNCHANGED verdict

Speak_Unchecked == mpc' = "ttsSlot" /\ UNCHANGED verdict

(* speak's first lines: an interrupted turn opens no new synthesis. *)
Speak ==
  IF interrupt THEN Leave("interrupted") ELSE mpc' = "ttsSlot" /\ UNCHANGED verdict

(* _drain_barge and create_task precede the first turn of the delta loop. *)
BeginReply ==
  /\ mpc = "responding"
  /\ SafeSend
  /\ IF bargeOn THEN bargeQ' = <<>> /\ wpc' = "slot" ELSE UNCHANGED <<bargeQ, wpc>>
  /\ TakeDelta
  /\ UNCHANGED <<rpc, dialogue, session, interrupt, pcmQ, ended, spoken,
                 metaSent, lacking, history>>

AfterPartial ==
  /\ mpc = "partial"
  /\ SafeSend
  /\ IF bySentence /\ todo > 0
     THEN Speak
     ELSE mpc' = "nextDelta" /\ UNCHANGED verdict
  /\ UNCHANGED <<rpc, wpc, dialogue, session, interrupt, pcmQ, bargeQ,
                 deltas, full, rest, todo, ended, spoken, metaSent, lacking,
                 history>>

NextDelta ==
  /\ mpc = "nextDelta"
  /\ deltas < MaxDeltas
  /\ TakeDelta
  /\ UNCHANGED <<rpc, wpc, dialogue, session, stop, interrupt, pcmQ, bargeQ,
                 ended, spoken, metaSent, lacking, history>>

FlushBuffer_NotQueued == ended' = TRUE /\ UNCHANGED todo

FlushBuffer == ended' = TRUE /\ todo' = 1

(* The agent's stream is over: speak the rest of the buffer, or the whole   *)
(* reply when it is not synthesised by sentence.                            *)
AgentEnds ==
  /\ mpc = "nextDelta"
  /\ FlushBuffer
  /\ IF (IF bySentence THEN rest ELSE full > 0) THEN Speak ELSE Leave("ok")
  /\ UNCHANGED <<rpc, wpc, dialogue, session, stop, interrupt, pcmQ, bargeQ,
                 deltas, full, rest, spoken, metaSent, lacking, history>>

(* tts_stream has its slot; the text will be synthesised in n chunks. *)
OpenTts ==
  /\ mpc = "ttsSlot"
  /\ \E n \in 0 .. MaxChunks :
       /\ lacking' = n
       /\ heard' = IF n = 0 THEN [heard EXCEPT ![turn] = AfterThis] ELSE heard
  /\ mpc' = IF metaSent THEN "nextChunk" ELSE "meta"
  /\ metaSent' = TRUE
  /\ UNCHANGED <<rpc, wpc, dialogue, session, stop, interrupt, pcmQ, bargeQ,
                 deltas, full, rest, todo, ended, spoken, verdict, outcome, lost>>

AfterMeta ==
  /\ mpc = "meta"
  /\ SafeSend
  /\ mpc' = "nextChunk"
  /\ UNCHANGED <<rpc, wpc, dialogue, session, interrupt, pcmQ, bargeQ, reply,
                 history>>

NextChunk ==
  /\ mpc = "nextChunk"
  /\ lacking > 0
  /\ IF interrupt
     THEN Leave("interrupted") /\ UNCHANGED lacking
     ELSE mpc' = "bytes" /\ lacking' = lacking - 1 /\ UNCHANGED verdict
  /\ UNCHANGED <<rpc, wpc, dialogue, session, stop, interrupt, pcmQ, bargeQ,
                 deltas, full, rest, todo, ended, spoken, metaSent, history>>

AfterBytes ==
  /\ mpc = "bytes"
  /\ mpc' = "nextChunk"
  /\ heard' = IF lacking = 0 THEN [heard EXCEPT ![turn] = AfterThis] ELSE heard
  /\ UNCHANGED <<rpc, wpc, dialogue, session, stop, interrupt, pcmQ, bargeQ,
                 reply, outcome, lost>>

(* send_bytes is not wrapped: a failed send leaves _respond, as a           *)
(* WebSocketDisconnect or as a RuntimeError.                                *)
BytesFail ==
  /\ mpc = "bytes"
  /\ ~online
  /\ Leave("raised")
  /\ status' \in {status, "error"}
  /\ UNCHANGED <<rpc, wpc, dialogue, online, clientGone, stop, interrupt, pcmQ,
                 bargeQ, deltas, full, rest, todo, ended, spoken, metaSent,
                 lacking, history>>

SentenceDone ==
  /\ mpc = "nextChunk"
  /\ lacking = 0
  /\ spoken' = AfterThis
  /\ todo' = todo - 1
  /\ IF todo > 1 THEN Speak
     ELSE IF ended THEN Leave("ok") ELSE mpc' = "nextDelta" /\ UNCHANGED verdict
  /\ UNCHANGED <<rpc, wpc, dialogue, session, stop, interrupt, pcmQ, bargeQ,
                 deltas, full, rest, ended, metaSent, lacking, history>>

(* The return of the except block forgotten: the turn goes on to its end. *)
ErrorReturn_Missing == Leave("ok")

ErrorReturn == Leave("error")

AfterError ==
  /\ mpc = "errorSent"
  /\ SafeSend
  /\ state' = "listening"
  /\ ErrorReturn
  /\ UNCHANGED <<rpc, wpc, messages, settings, turn, session, interrupt, pcmQ,
                 bargeQ, deltas, full, rest, todo, ended, spoken, metaSent,
                 lacking, history>>

-----------------------------------------------------------------------------
(* Main task: the end of _respond *)

(* The watcher is neither cancelled nor awaited. *)
Tidy_WatcherLeft == mpc = "cleanup" /\ bargeQ' = <<>> /\ UNCHANGED wpc

(* The watcher is awaited without having been cancelled. *)
Tidy_NoCancel == mpc = "cleanup" /\ wpc = "off" /\ bargeQ' = <<>> /\ UNCHANGED wpc

(* The finally block: the watcher is cancelled and awaited, the agent's     *)
(* stream closed, the barge-in queue drained. *)
Tidy ==
  /\ mpc = "cleanup"
  /\ wpc' = "off"
  /\ bargeQ' = <<>>

HistoryText_Full == full

(* history_text: what was spoken of an interrupted reply, all of another. *)
HistoryText == IF verdict = "interrupted" THEN spoken ELSE full

Conclude ==
  /\ Tidy
  /\ verdict \in {"ok", "interrupted"}
  /\ messages' = IF HistoryText > 0
                 THEN Append(messages, Assistant(turn, HistoryText))
                 ELSE messages
  /\ outcome' = [outcome EXCEPT ![turn] = verdict]
  /\ mpc' = "verdict"
  /\ FreshReply
  /\ UNCHANGED <<rpc, state, settings, turn, session, stop, interrupt, pcmQ,
                 heard, lost>>

Abandon ==
  /\ Tidy
  /\ \/ verdict = "error" /\ mpc' = (IF stop THEN "finally" ELSE "announce")
     \/ verdict = "raised" /\ mpc' = "finally"
  /\ FreshReply
  /\ UNCHANGED <<rpc, dialogue, session, stop, interrupt, pcmQ, outcome,
                 heard, lost>>

(* assistant_done or interrupted has gone out. *)
AfterVerdict ==
  /\ mpc = "verdict"
  /\ SafeSend
  /\ LoopHead
  /\ UNCHANGED <<rpc, wpc, messages, settings, turn, session, interrupt, pcmQ,
                 bargeQ, reply, outcome, heard, lost>>

-----------------------------------------------------------------------------
(* Reader: _read_loop *)

(* A chunk of audio goes to the recogniser while listening, to the watcher  *)
(* while a reply is spoken with barge-in on; otherwise it is dropped.       *)
ReadAudio ==
  /\ rpc = "recv"
  /\ \/ /\ state = "listening"
        /\ Len(pcmQ) < QueueBound
        /\ pcmQ' = Append(pcmQ, Chunk(turn))
        /\ UNCHANGED bargeQ
     \/ /\ state = "responding" /\ bargeOn
        /\ Len(bargeQ) < QueueBound
        /\ bargeQ' = Append(bargeQ, Chunk(turn))
        /\ UNCHANGED pcmQ
  /\ UNCHANGED <<tasks, dialogue, session, stop, interrupt, reply, history>>

ReadCancel ==
  /\ rpc = "recv"
  /\ state \in {"thinking", "responding"}
  /\ interrupt' = TRUE
  /\ UNCHANGED <<tasks, dialogue, session, stop, pcmQ, bargeQ, reply, outcome,
                 heard, lost>>

PutSentinels_BargeOnly == bargeQ' = Append(bargeQ, Stop) /\ UNCHANGED pcmQ

PutSentinels == pcmQ' = Append(pcmQ, Stop) /\ bargeQ' = Append(bargeQ, Stop)

(* The reader's finally block. *)
ReaderExit ==
  /\ rpc' = "done"
  /\ stop' = TRUE
  /\ PutSentinels
  /\ UNCHANGED <<mpc, wpc, dialogue, online, status, interrupt, reply, history>>

ReadEnd == rpc = "recv" /\ ReaderExit /\ UNCHANGED clientGone

ReadDisconnect == rpc = "recv" /\ ~online /\ ReaderExit /\ clientGone' = TRUE

ReaderCancelled == rpc = "cancelled" /\ ReaderExit /\ UNCHANGED clientGone

-----------------------------------------------------------------------------
(* Watcher: _watch_interrupt *)

WatchGranted ==
  /\ wpc = "slot"
  /\ wpc' = "hear"
  /\ UNCHANGED <<mpc, rpc, dialogue, session, stop, interrupt, pcmQ, bargeQ,
                 reply, history>>

(* No slot, or the recogniser failed: the turn goes on without a watcher. *)
WatchGivesUp ==
  /\ wpc \in {"slot", "hear"}
  /\ wpc' = "off"
  /\ UNCHANGED <<mpc, rpc, dialogue, session, stop, interrupt, pcmQ, bargeQ,
                 reply, history>>

(* The recogniser answers a chunk with nothing or with enough characters to   *)
(* interrupt; None ends its input, and the text it flushes may do so too.    *)
WatchHear ==
  /\ wpc = "hear"
  /\ bargeQ # <<>>
  /\ bargeQ' = Tail(bargeQ)
  /\ \/ ~Head(bargeQ).pcm /\ wpc' = "off" /\ UNCHANGED interrupt
     \/ Head(bargeQ).pcm /\ UNCHANGED <<wpc, interrupt>>
     \/ wpc' = "off" /\ interrupt' = TRUE
  /\ UNCHANGED <<mpc, rpc, dialogue, session, stop, pcmQ, reply, history>>

-----------------------------------------------------------------------------
(* The client closes its side, at any time. *)
ClientLeaves ==
  /\ online
  /\ online' = FALSE
  /\ UNCHANGED <<tasks, dialogue, clientGone, status, stop, interrupt, pcmQ, bargeQ,
                 reply, history>>

MainStep ==
  \/ Unavailable \/ StartSession \/ AfterReady \/ Finally \/ CloseSession
  \/ BeginListen \/ AsrGranted \/ AsrBusy \/ AfterBusy
  \/ HearChunk \/ HearStop \/ AfterUserPartial \/ AfterUserFinal
  \/ BeginRespond \/ FirstToken \/ FirstEmpty \/ FirstInterrupted
  \/ TurnFails \/ BeginReply \/ AfterPartial \/ NextDelta
  \/ AgentEnds \/ OpenTts \/ AfterMeta \/ NextChunk \/ AfterBytes
  \/ SentenceDone \/ AfterError \/ Conclude \/ Abandon \/ AfterVerdict

MainRaises == ListenRaises \/ TurnRaises \/ BytesFail

Reader == ReadAudio \/ ReadCancel \/ ReadEnd \/ ReadDisconnect \/ ReaderCancelled

Watcher == WatchGranted \/ WatchGivesUp \/ WatchHear

Next == MainStep \/ MainRaises \/ Reader \/ Watcher \/ ClientLeaves

(* The event loop runs every task that can run.  An await of the main task  *)
(* other than the one on pcmQ ends: each has a timeout (limiter, first      *)
(* token, HTTP read, WebSocket keep-alive), and the agent and the           *)
(* synthesiser stream finitely much.  The watcher, the client and the       *)
(* exceptions owe nothing.                                                  *)
Fairness ==
  /\ WF_vars(MainStep)
  /\ WF_vars(ReadDisconnect)
  /\ WF_vars(ReaderCancelled)

Spec == Init /\ [][Next]_vars /\ Fairness

-----------------------------------------------------------------------------
(* Properties *)

FlagsOK ==
  /\ stop \in BOOLEAN /\ interrupt \in BOOLEAN
  /\ bargeOn \in BOOLEAN /\ bySentence \in BOOLEAN
  /\ online \in BOOLEAN /\ clientGone \in BOOLEAN
  /\ rest \in BOOLEAN /\ ended \in BOOLEAN /\ metaSent \in BOOLEAN
  /\ lost \in BOOLEAN

DataOK ==
  /\ mpc \in MainPcs
  /\ rpc \in {"off", "recv", "cancelled", "done"}
  /\ wpc \in {"off", "slot", "hear"}
  /\ state \in {"listening", "thinking", "responding"}
  /\ pcmQ \in Seq(Item) /\ bargeQ \in Seq(Item) /\ messages \in Seq(Message)
  /\ status \in {"ok", "error", "disconnected", "unavailable"}
  /\ turn \in 0 .. MaxTurns
  /\ deltas \in 0 .. MaxDeltas /\ full \in Nat
  /\ todo \in Nat /\ spoken \in Nat /\ lacking \in 0 .. MaxChunks
  /\ verdict \in {"ok", "interrupted", "error", "raised"}
  /\ outcome \in [Turns -> Outcomes]
  /\ heard \in [Turns -> Nat]

(* Every variable keeps its type; the counters of a reply, which several      *)
(* paths of _respond decrement, never run below zero.                        *)
TypeOK == FlagsOK /\ DataOK

(* The audio in q was captured when t turns had been taken. *)
FreshFor(q, t) == \A i \in DOMAIN q : q[i].pcm => q[i].turn = t

(* Audio reaches a recogniser in the round it was captured in: what the      *)
(* microphone picked up before or during an earlier reply (an echo of the    *)
(* assistant, a chunk left over when a sentence was closed) is never heard   *)
(* as the next question or as barge-in on the next reply.                    *)
FreshAudio ==
  /\ mpc \in ListenPcs => FreshFor(pcmQ, turn)
  /\ wpc # "off" => FreshFor(bargeQ, turn)

(* The points of _respond at which a watcher may be alive. *)
ReplyPcs == SpeakingPcs \cup {"errorSent", "cleanup"}

(* No task outlives what it works for: a watcher (and its recogniser slot)   *)
(* exists only inside the reply it watches, so it cannot interrupt a later   *)
(* turn and a session never holds two recogniser slots; a closed session has *)
(* no reader.                                                                *)
TasksScoped ==
  /\ wpc # "off" => bargeOn /\ mpc \in ReplyPcs
  /\ mpc = "closed" => rpc \in {"off", "done"}

(* The history and the loudspeaker agree: an assistant message holds exactly *)
(* the sentences whose audio was sent to the last chunk, whether the turn    *)
(* ended by itself or was interrupted, and a concluded turn the client heard *)
(* something of is recorded as long as its question is.                      *)
HistoryIsHeard ==
  /\ \A i \in DOMAIN messages :
       messages[i].role = "assistant" =>
         messages[i].text = heard[messages[i].turn]
  /\ \A i \in DOMAIN messages :
       LET t == messages[i].turn
       IN outcome[t] \in {"ok", "interrupted"} /\ heard[t] > 0 =>
            \E j \in DOMAIN messages : messages[j] = Assistant(t, heard[t])

(* The context an agent is asked with: turns in order, an answer directly    *)
(* after its own question unless the question was cut off, and the present   *)
(* question last, whatever failed, was interrupted or was truncated before.  *)
ContextInOrder ==
  /\ \A i \in 1 .. Len(messages) - 1 :
       \/ messages[i].turn < messages[i + 1].turn /\ messages[i + 1].role = "user"
       \/ messages[i] = User(messages[i + 1].turn) /\ messages[i + 1].role = "assistant"
  /\ mpc = "first" => messages # <<>> /\ messages[Len(messages)] = User(turn)

(* Once an interruption is flagged, no further chunk of audio is sent and no *)
(* further sentence is synthesised until the next turn clears the flag,      *)
(* wherever in the reply the flag was raised.                                *)
NoAudioAfterInterrupt ==
  [][interrupt => /\ mpc' = "bytes" => mpc = "bytes"
                  /\ mpc' = "ttsSlot" => mpc = "ttsSlot"]_vars

(* A turn is concluded by one frame: error, interrupted and assistant_done   *)
(* exclude each other and none is sent twice.                                *)
ConcludedOnce ==
  [][\A t \in Turns : outcome[t] # "none" => outcome'[t] = outcome[t]]_vars

(* A turn cannot hang: from the moment the agent is asked, the session gets  *)
(* back to listening or ends, even with a silent watcher.                    *)
TurnEnds == mpc = "first" ~> mpc \in {"announce", "finally"}

(* Once the reader has gone (end frame, disconnect), the session closes,     *)
(* wherever it finds the main task: only a sentinel drained by a round that  *)
(* begins after the exit can keep it from doing so.                          *)
StoppedSessionCloses == rpc = "done" ~> mpc = "closed" \/ lost

(* The comment at the sentinel says that it unblocks the waiting listener:   *)
(* the session closes wherever the reader's exit finds the main task.        *)
ReaderExitCloses == rpc = "done" ~> mpc = "closed"
=============================================================================
