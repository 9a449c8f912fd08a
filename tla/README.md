# Formal models of VoiceLM-Demo

TLA+ modules, TLC configurations and TLAPS proofs about the concurrent core of
this repository: speech recognition, synthesis and voice chat behind a FastAPI
server, with a browser client. Paths below are relative to the repository root;
`PROJECT.json` maps every definition to the lines it stands for.

To run: `tlc -config native.cfg NativeSession` (each run names its module and
configuration in `PROJECT.json`), `tlapm NativeSessionProofs.tla`.

## 1. The system

| component | state it keeps | operations | module |
|---|---|---|---|
| Cascade session, `orchestration/conversation.py` | `_messages`, `_state`, two events, two audio queues, three tasks | `run`, `_listen`, `_respond`, `_read_loop`, `_watch_interrupt` | `Conversation` |
| Streaming synthesis, `api/routes_tts.py`, `Dispatcher.tts_stream`, `CosyVoiceEngine.synthesize_stream` | the TTS slot, a queue, an event, a thread | request, chunk, end, failure, drop | `SpeechStream`, `SynthesisPromise` |
| Native session, `chat/qwen_realtime.py` | `_SessionState`, a permit, two relay tasks | `run`, the relays, twelve kinds of provider event | `NativeSession` |
| Engine gateway, `api/routes_asr.py`, `Dispatcher.asr_file`, `breaker.py`, `limiter.py` | failure counts, `open_until`, semaphores, inference threads | file recognition over a fallback chain | `AsrGateway` |
| Live recognition, `pages/AsrPage.tsx`, `/ws/asr`, `Dispatcher.asr_stream`, `engines/funasr_engine.py` | page, socket, recorder; block, sentence, two caches | start, cancel, stop, frames; `transcribe_stream` | `Recognition` |
| Browser session, `ChatPage.tsx`, `client.ts`, `player.ts`, `recorder.ts` | sockets, recorders, players, turn state | start, stop, stop response, leave, frames | `BrowserChat` |
| Process lifecycle, `lifecycle.py`, `middleware.py`, `main.py`; agent client, `engines/agent_client.py` | `draining`, `_in_flight`, `_idle`; `_client`, `_sem` | enter, leave, drain; `stream_chat`, `aclose` | `Service` |
| Sentence splitting, `utils/text_split.py`, `_pop_complete` | a buffer | `split_sentences`, a delta, the end of a reply | `TextSplit` |
| Normalisation, signal processing, registry, configuration, metrics, other pages, deployment | none, or fixed at start | | see section 6 |

How they interact. A browser holds one WebSocket per session or request. `/ws/chat`
hands it to a cascade session or a native one. A cascade session iterates over
`Dispatcher.asr_stream` (an ASR slot; with barge-in a second one for the watcher),
`AgentClient.stream_chat` (an agent permit) and `Dispatcher.tts_stream` (a TTS
slot); these are async generators, so that closing or dropping one is what
releases its slot. The engines run in threads and hand chunks to the event loop
through a queue. A native session relays frames to a provider over a second
WebSocket and shares nothing with the cascade but the browser's socket. File
recognition and the recognition streams take their slots from one semaphore. Every
request is counted by the drain, and the agent client is the one object a shutdown
takes away from under the sessions.

What is hard here is not any single function but suspension: every `await` of a
send lets the other tasks of the session run, flags are read before it and used
after it, generators are closed from outside at their `yield`, and a client may
vanish anywhere. In the browser it is the same with promises: a microphone is
granted after its session has gone. `PROJECT.json` lists each such hazard at its
line, with the properties that cover it. What makes each component correct:

- *Cascade session*: audio is recognised in the round it was captured in; the
  history is what the user heard, in order, and fits its window; an interruption
  silences the reply; a turn is concluded by one frame; no task outlives its
  reply; a turn ends, and a session whose client is gone closes.
- *Streaming synthesis*: the client gets a prefix of the synthesised audio, in
  order and complete if `done` is sent; the model is held back by a slow client;
  thread and request end whatever the client does; a slot covers its thread.
- *Native session*: the permit covers both relays and the connection; speech and
  stops silence the response, which is concluded once; the browser is not left
  in a stale state; every session closes.
- *Gateway*: no permit is lost; an engine answers only when those before it could
  not; only failures of its own open an engine, which then gets nothing new;
  every request is answered.
- *Live recognition*: every chunk is recognised once, in its own sentence, the tail
  included; a microphone is on only for the recording the page shows; a stopped
  recording ends.
- *Browser*: chunks are played in order, one at a time, none of an interrupted
  turn; recorder and player do not outlive their session; a stop is answered.
- *Lifecycle*: the drain waits for exactly the requests inside, wakes when the
  last leaves, and then cuts nobody.
- *Splitting*: no character lost however the deltas fall, no piece over the
  maximum, short ones merged where there is room.

## 2. The modules

In all of them an action is the code between two points at which its task may be
suspended, and a program counter names that point. A frame counts as sent when
the send is called, for the servers write it out before they wait for room, and the
send is a point where others run. Metrics, logging and the wording of frames are
left out.

### Conversation

`mpc`, `rpc` and `wpc` are the main task, the reader and the watcher; `state`,
`stop`, `interrupt`, `pcmQ`, `bargeQ`, `messages` are fields of the object, and
`full`, `rest`, `todo`, `spoken`, `metaSent` locals of `_respond`. Text is counted
in sentences, audio in chunks tagged with the round they were captured in.
`outcome`, `heard` and `lost` are history. Choices of the model:

- The recogniser gives at most one event for a chunk; whether a final text passes
  `_is_valid_speech` is a choice.
- A malformed control frame ends the reader as `end` does. A first frame whose
  numbers do not parse, and cancellation of the whole handler when the server is
  shut down, are not modelled.
- Leaving the `async for` of `_listen` drops its generator, whose finaliser
  releases the ASR slot; the session does nothing meanwhile that depends on it, so
  the release is part of leaving.
- `speak` closes the synthesis it breaks out of (`conversation.py:315`) as the
  route of `/ws/tts` does; what happens below it is `SpeechStream`.

### SpeechStream and SynthesisPromise

`SpeechStream` is one request of `/ws/tts`: the task (`pc`), the inference thread
(`tpc`), and the event loop, which lands the thread's puts (`offer` into `queue`)
and finalises a dropped generator (`fin`). `total` and `fails` fix what the model
makes of each sentence. Folded in: the wait for a pool thread is part of `ready`,
a voice or model that does not load is a sentence that fails with no chunk, and
the two reads of the stop event in `_produce`'s `finally` are one step.
`SynthesisPromise` says what a caller of `tts_stream` may rely on, as a state
machine over the last chunk delivered and the result, and knows no thread and no
queue. `Promise == INSTANCE SynthesisPromise WITH at <- got, ...` is the mapping.

### NativeSession

`mpc` is `run`, `bpc` and `ppc` the two relay tasks, `active`, `interrupted`,
`meta`, `speech` the fields of `_SessionState` that decide anything. The provider
is external and modelled by what the handlers expect: it hears speech, answers it
with a response of text and audio events, obeys or rejects a `response.cancel`,
may send something that does not parse and may close the connection; its events
wait in order in `inbox`. `late`, `stopped`, `finished` and `spoken` are history,
by response. A task that `run` cancels takes no step more, so that cancelling and
awaiting it are part of `Wake`. Semaphore: `locked()` and `acquire()` have no
suspension between them, so admission is one step. The `client_metric` frame feeds
metrics only.

### AsrGateway

`pc` is where each request waits: for the preprocessing, for a slot, for the model.
`cur` is the engine of the loop's present round, `verdict` what became of each
engine for a request (history that the loop variable and `last_exc` follow from),
`running` the calls that still occupy a thread, `fails` and `open` the breaker.
`GoOn` is the loop from one await to the next: it skips what is open and binds the
request to the next engine, or ends it. Choices of the model:

- Time is left out: a cooldown may end at any moment, a wait for a slot may time
  out whenever no permit is free.
- All engines declare one input contract, so a request is preprocessed once.
- Waiters of a semaphore are granted in any order, where asyncio is first come,
  first served: safety does not depend on the order, and a request that is
  overtaken times out.
- Recognition streams and the chat sessions' listeners are `streams`.

### Recognition

The page (`page`, `wsRef`, `recRef`), its sockets and recorders by connection, the
frames both ways, and the server's task of each connection (`srv`), in which
`buf`, `seg`, `text`, `cache` are the locals of `transcribe_stream`. Audio is a
sequence of chunk numbers, and what is recognised of it are its voiced chunks, so
that a text says which audio it is of. Whether the voice detector finds the end of
a sentence in a block, and whether the offline correction or the streaming text is
used, are choices. The slot is granted or times out (`AsrGateway` has its count).

### BrowserChat

The page's half of a chat, with the same sockets and recorders, and the player:
`pending`, `sources`, `cursor` and `started` are its fields, with times in ticks of
one chunk relative to the present. The server is the environment: it sends turns
as `Conversation` and `NativeSession` do, every turn concluded by one frame, no
audio after it; it may miss a stop. Left out: the lead of 20 ms with which
playback starts, the counters of underruns, and message bubbles.

### Service

`at` is where each request is, `inFlight`, `draining` and `idle` the fields of
`Lifecycle`, `pc` the shutdown half of `lifespan`, `woken` the future inside
`idle.wait()`, which stays resolved when the event is cleared again. The server may
hand over requests until the end of `lifespan`, and those it did not wait for may
go on after it. Chat sessions stream from the shared `client` under `permits`.

### TextSplit

Pure functions over sequences of five kinds of character: a letter, a mark that
ends a sentence, a comma, a space, a line break. Around them a machine of one
reply: `Delta` is the loop of `_respond` over `_pop_complete`, `Finish` its end.
Ready pieces count as handed on; that an interruption stops it is `Conversation`.
The loops of the code are recursive functions over prefixes (`ScanUpTo`, `Chop`,
`MergeUpTo`), one element a step. The `while` of `_cap`, which takes `max_chars`
characters at a time, is `Chop`, which puts each character in the last slice until
that is full.

## 3. The runs

| run | what it shows | instance |
|---|---|---|
| `conv_safety` | fresh audio, scoped tasks, the history is what was heard, ordered context, silence after an interruption, one conclusion | 2 turns, window of 1 turn, 2 deltas of up to 2 sentences and a remainder |
| `conv_liveness` | a turn ends; a session without reader closes | 1 turn, 2 deltas |
| `conv_sentinel` | finding: a sentinel put while the listening frame is sent is drained, the session hangs | 2 turns |
| `tts_stream` | promise kept, back-pressure, slot and thread, thread and request end | 2 sentences, 4 chunks, queue of 2 |
| `tts_ghost` | finding: a dropped stream frees its slot before its thread has stopped | 1 sentence, 2 chunks, queue of 1 |
| `native` | permit, late audio, one conclusion, rest state, closing | 2 responses, 2 audio events, 1 event on its way |
| `gateway` | slots accounted for, answers and open engines justified, open engines shielded, every request answered | 3 requests, 2 engines, 2 permits, threshold 2, fallback and timeout on |
| `recognition` | the transcript is what was said, the microphone is scoped, finalizing ends | 2 recordings of 4 chunks, 1 and 3 voiced, blocks of 2 |
| `browser` | devices belong to the session held, playback is sound, a stop is answered | 2 sessions of 2 turns of 2 chunks, 3 frames on their way, start level 2, at most 2 ahead |
| `service` | exact counts, the drain wakes, a clean exit | 3 chat sessions, 2 health checks, 2 other requests, 2 permits |
| `text_split` | nothing lost, pieces fit | texts of up to 7 characters, deltas of up to 2, maximum 3, minimum 2 |
| `split_lines` | finding: a line break at the end of a delta is stripped, and two lines are spoken as one sentence | texts of a few characters |

Why the bounds are enough. Conversation: what one turn leaves behind (queues,
flag, watcher, messages) meets the next one, so two turns and a window of one
reach each of these pairs, truncation included; three sentences in one delta would add
no new point of interruption. SpeechStream: four chunks over a queue of two fill
it, block the put behind it and leave one unmade; two sentences have one boundary.
NativeSession: the second response meets flags and events of the first; the second
audio event is the one after `tts_meta`, and one event on its way is enough for a
stop to overtake it. AsrGateway: with two permits and three requests one waits;
the requests ask for the second engine, so that the chain goes back to the first;
two failures open an engine and leave a third request to see it open. Recognition:
the second recording meets what the first left open; four chunks are two blocks,
so that a sentence ends between them, or audio inside one, and each block has a
voiced chunk and a silent one. BrowserChat: as there, and the second turn's audio
meets what the first left in the player, with both the start level and the limit
reached by two chunks. Service: the second health check comes after the
first has cleared the event, and with two permits a third session is refused.
TextSplit: seven characters over a maximum of three are cut, chopped and merged at
either end. The findings appear on smaller instances.

Deadlock is not checked: a session, request or reply ends, and nothing follows it.

Fairness. The event loop runs each task that can run, so a task is weakly fair; an
await of an external party ends by a timeout of the code (limiter, first token,
HTTP read, connect and ping timeouts), so the step after it is fair too. In
`SpeechStream`, `AsrGateway` (whose inference timeout may be off) and `Recognition`
the model is assumed to return; in the browser modules, frames that arrived are
handled and a closing socket closes, as the browser's event loop and the closing
timeout of its WebSocket have it, and `BrowserChat` takes from `TurnEnds` of
`Conversation` that a turn ends. Nothing is assumed of the user, of what the provider says, of
the watcher, of exceptions, or of a microphone that is asked for.

## 4. The proofs

Each for every value of the constants, from the named assumption on them only.

| theorem | argument |
|---|---|
| `ConversationProofs!TypeCorrect` | `TypeInv`: the counters of a reply are decremented on several paths, and stay natural because a sentence being synthesised is still counted in `todo` and a remainder in `full` (`LocalsOK`) |
| `ConversationProofs!TasksAreScoped` | `ScopeInv`: `TasksScoped`, and no reader before the session is started |
| `ConversationProofs!AudioIsFresh` | `FreshAudio` with both: a queue is drained where a round begins, and in between the reader tags audio with the present turn |
| `ConversationProofs!TurnsConcludedOnce` | `OutcomeInv`: no turn to come is concluded, nor the present one while its reply is under way; its error frame takes the main task out of the reply |
| `ConversationProofs!InterruptIsObeyed` | no induction: every way of `_respond` to the next chunk or text asks for the flag after its last suspension |
| `ConversationProofs!HistoryHeard`, `ContextOrdered` | `RecordInv`: `CountInv`, every sentence of the reply is spoken, popped or left over; `HeardInv`, what the client was sent at each point of a sentence, in terms of `spoken`; `MessagesInv`, the messages stand in order and the present question last, which `_truncate` keeps (`RecordKept`) |
| `SpeechStreamProofs!TypeCorrect`, `GhostsAreDropped` | `PhaseInv`: how the points of task, thread and finaliser fit together |
| `SpeechStreamProofs!ThreadHeldBack` | `FlowInv`: the chunks taken, queued and offered are a line without gaps that ends at the chunk made last |
| `SpeechStreamProofs!StreamKeepsPromise` | `ReachInv` on top of these: what was handed over when an end marker is taken; then every step is a step of `SynthesisPromise` or leaves `at` and `result` alone |
| `NativeSessionProofs!TypeCorrect`, `PermitCovers` | `PermitInv`: where `run` is decides who lives and who holds the permit |
| `NativeSessionProofs!LateAudioBounded` | `SilenceInv`: the flag says exactly whether the interruption of the present response was accepted, and a chunk can be late only between `tts_meta` and its own send |
| `NativeSessionProofs!ResponseConcludedOnce` | `StopInv`: whoever accepted an interruption has still to send its frame, and the two tasks never owe it for one response; `StreamInv`: between two ends of a response the provider's backlog has a beginning, so that no end is answered twice (`DoneInv`) |
| `NativeSessionProofs!SettlesListening` | these, `ShownInv` (where `responding` may be left standing) and `BirthInv` (responses handled or waiting were made) |
| `RecognitionProofs!TypeCorrect`, `MicrophoneScoped` | `PageInv`: a connection under way is the page's; a recorder not past `ready` is not asked for; a microphone on is the one the page shows |
| `RecognitionProofs!TranscriptHolds` | `TranscriptInv`: cache and block make up the sentence (`TaskInv`); committed text, finals on their way, the server's sentence and audio on its way are together what was spoken (`TextInv`); a provisional text is of the open sentence or about to be replaced (`PartialInv`); `end` and `close` come last |
| `BrowserProofs!TypeCorrect`, `DevicesOwned` | `SessionInv`: for each connection, which recorder, player and server may exist, given which one the page holds |
| `BrowserProofs!PlaybackHolds` | `PlayInv`: what is scheduled, held back and on its way is one line in order (`PlayerInv`, `WireInv`), of no turn that has ended; one lemma for each method of the player |
| `GatewayProofs!TypeCorrect`, `SlotsNeverLeak` | `Shape`: the engine a request is bound to has no verdict yet, so a call that timed out is never its present one, and permits plus slots change together by one |
| `GatewayProofs!AnswersAreJustified` | `Shape` again: all engines before the present one were passed over; `FailInv`: the breaker's count is at most the number of requests that failed on the engine, which never shrinks |
| `GatewayProofs!OpenEnginesAreShielded` | `GoOnEffect`, what one round of the loop does: whom it binds, it binds to an engine that is not open |
| `ServiceProofs!CountsAreExact`, `TypeCorrect` | entering and leaving change the counter and the set of requests inside by one each, streams and permits likewise |
| `ServiceProofs!DrainWakes`, `ExitIsClean` | `Wake`: an event that is set means nobody is inside, and a wait that was woken that only health checks have come since; both need the exact count |
| `TextSplitProofs!NothingIsLost`, `EveryPieceFits` | `SplitInv`: what was spoken is a sequence of pieces, what waits is blank or a piece, and together they are the text; below it, for any text, what each function returns: stripping and scanning keep what is heard (`StripSolid`, `ScanSolid`), a clause has a blank only where no slice of it begins (`ClausesAre`), so that no slice is blank (`ChopClause`), and a merged piece under the minimum has no room for what follows (`Crowded`, `MergeKeeps`, `MergeTailGood`) |

Every invariant and every safety property of a step that a passing run checks is
a theorem; model-checked only are the eight liveness properties (`TurnEnds`,
`StoppedSessionCloses`, `ThreadEnds`, both `RequestEnds`, `SessionCloses`,
`FinalizingEnds`, `StopAnswered`), for the prover has no support for fairness.

Induction over data, which `RecognitionProofs` and `TextSplitProofs` need, cannot
cite the library's theorems, which take an operator. It is stated with sets
instead, in both: `Induction` follows from the well-foundedness of the natural
numbers, and `AppendInduction` says that a set with `<<>>` and, with each `s`, all
`Append(s, x)` has every sequence. In `TextSplitProofs`, `FoldExists`, `FoldUnique` and `FoldMore` say once
for all folds that such a recursive function exists and what it does to one
element more.

## 5. Disagreements of code and documents

The three the runs show are under "findings" in `PROJECT.json`: a hanging session
(`conv_sentinel`), a slot freed too early (`tts_ghost`), lines run together
(`split_lines`). Others met while modelling; no run states them, the models do
what the code does.

- A stop accepted after the last check of the flag still ends with
  `assistant_done`, and one accepted before `_respond` clears the flag
  (`conversation.py:292`) is lost, where `docs/chat/speech-to-speech.md:538` has
  `interrupted` sent and no `assistant_done`. In the native session a stop during the send of
  `assistant_done` is answered by `interrupted` after it (`qwen_realtime.py:443`),
  one during the send of `tts_meta` by `listening` and then `responding`, and one
  before `response.created` is ignored (227).
- The window of messages may open with an assistant message, though
  `conversation.py:534` speaks of pairs; and the question of a failed turn
  stays in the messages, though the same document (118) says it does not.
- After a cooldown the breaker lets every waiting request through, not the one
  probe of its docstring (`breaker.py:13-15`).
- `_merge_short` promises that the last short piece joins the one before it
  (`text_split.py:53`), and `test_text_split.py:57` that only the last may be short;
  where the maximum leaves no room, any piece may be (`PiecesFit`).
- When a reply is interrupted the page falls back to the partial text
  (`ChatPage.tsx:237`), which its comment (232) excludes.
- A microphone whose start fails after it was granted, for a connection that was
  replaced meanwhile, is not stopped (`"abandoned"` in both browser modules).
- Below the start level, the audio of a turn that ends with an error waits in the
  player and is heard with the next turn; audio on its way after a stop is played
  until `interrupted` arrives; a late chunk of a native session likewise.
- `cancel_response` names no turn: one that is late could stop the next reply.
- The two audio queues of a session have no bound (`conversation.py:170`).

## 6. Not modelled

Text normalisation is regular expressions without state. The signal processing of
the audio pipeline is stateless; decoding a file is a step of `AsrGateway` that ends
or fails. Engine construction and warm-up run once before requests are let in.
Configuration, schemas, errors and metrics are declarations and counters. The
providers' route only chooses a session. The one-shot synthesis takes a TTS slot
and has no state. The recorder's energy gate and the WAV writer, the upload form,
the settings and history pages, scripts and deployment keep nothing that others
share. `max_chars = 0`, for which splitting would not end, is excluded by
`SplitAssumption`; the default is 60.

## 7. The plan

Modelled and checked is what sections 2 and 3 name, and proved is all of its
safety. What is left:

1. The safety that liveness rests on, as invariants: that a session which is not
   closed has a task that can go on (`SessionCloses`, `RequestEnds`), in terms of
   the guards and not of `ENABLED`.
2. What `BrowserChat` assumes of its server (one concluding frame for a turn, no
   audio after it) as a statement about `Conversation` and `NativeSession`
   that both components prove.
3. A promise for `asr_stream` as there is one for `tts_stream`, with `Recognition`
   as its implementation.
