--------------------------- MODULE NativeSession ---------------------------
(***************************************************************************)
(* A native speech session, QwenRealtimeProvider.run                       *)
(* (chat/qwen_realtime.py): one task relays the browser to the provider,   *)
(* one the provider to the browser, and run waits for the first of them to *)
(* end.  Both tasks read and write one _SessionState and send on the same  *)
(* WebSocket; a send hands its frame over at once and may be suspended.    *)
(*                                                                         *)
(* The provider is a service of its own: it detects speech, answers it     *)
(* with responses, and its events wait in inbox.  Responses are numbered   *)
(* in the order their response.created is handled; text is left out.       *)
(***************************************************************************)
EXTENDS Naturals, Sequences

CONSTANTS
  MaxResponses,  \* bound: responses of a session
  MaxChunks,     \* bound: audio events of a response
  InboxMax       \* bound: provider events on their way

ASSUME NativeAssumption ==
  MaxResponses \in Nat /\ MaxChunks \in Nat /\ InboxMax \in Nat \ {0}

VARIABLES
  online,        \* the browser still holds the WebSocket open
  mpc,           \* run
  permit,        \* its permit of the semaphore: "none", "held", "released"
  outcome,       \* session_status
  bpc, ppc,      \* _browser_to_provider, _provider_to_browser
  target,        \* the response the browser task's stop is for
  active, interrupted, meta, speech,  \* _SessionState
  cur,           \* responses created so far: the number of the last one
  link,          \* the provider's end of the connection is open
  talking,       \* the provider hears speech
  answer,        \* its response: "none", "due", "active"
  said,          \* audio events of the response
  made,          \* responses it has created
  cancels,       \* response.cancel on the way to it
  inbox,         \* its events, in order
  shown,         \* the last state frame
  stopped, finished, late, spoken  \* history, by response: interrupted frames,
                 \* assistant_done frames, audio sent after its interruption
                 \* was accepted, and those interrupted by speech

tasks    == <<bpc, ppc, target>>
session  == <<mpc, permit, outcome>>
state    == <<active, interrupted, meta, speech, cur>>
provider == <<link, talking, answer, said, made, cancels>>
history  == <<stopped, finished, late, spoken>>
vars     == <<online, session, tasks, state, provider, inbox, shown, history>>

Responses == 1 .. MaxResponses

Over == {"ok", "gone", "disconnected", "error", "cancelled"}

Init ==
  /\ online = TRUE
  /\ mpc = "start" /\ permit = "none" /\ outcome = "ok"
  /\ bpc = "off" /\ ppc = "off" /\ target = 0
  /\ active = FALSE /\ interrupted = FALSE /\ meta = FALSE /\ speech = FALSE
  /\ cur = 0
  /\ link = TRUE /\ talking = FALSE /\ answer = "none" /\ said = 0 /\ made = 0
  /\ cancels = 0 /\ inbox = <<>> /\ shown = "none"
  /\ stopped = [r \in Responses |-> 0] /\ finished = [r \in Responses |-> 0]
  /\ late = [r \in Responses |-> 0] /\ spoken = {}

-----------------------------------------------------------------------------
(* run *)

(* Not configured, or no permit is left: an error frame, and the end. *)
Refuse ==
  /\ mpc = "start"
  /\ mpc' = "refused"
  /\ UNCHANGED <<online, permit, outcome, tasks, state, provider, inbox, shown,
                 history>>

Admit ==
  /\ mpc = "start"
  /\ mpc' = "boot" /\ permit' = "held"
  /\ UNCHANGED <<online, outcome, tasks, state, provider, inbox, shown, history>>

(* Connected and bootstrapped: the ready frame goes out. *)
Ready ==
  /\ mpc = "boot" /\ link
  /\ mpc' = "ready"
  /\ UNCHANGED <<online, permit, outcome, tasks, state, provider, inbox, shown,
                 history>>

(* No connection, a refused session.update, or a timeout. *)
BootFails ==
  /\ mpc = "boot"
  /\ mpc' = "leave" /\ outcome' = "error"
  /\ UNCHANGED <<online, permit, tasks, state, provider, inbox, shown, history>>

AfterReady ==
  /\ mpc = "ready"
  /\ mpc' = "listening" /\ shown' = "listening"
  /\ UNCHANGED <<online, permit, outcome, tasks, state, provider, inbox, history>>

StartTasks ==
  /\ mpc = "listening"
  /\ mpc' = "wait" /\ bpc' = "recv" /\ ppc' = "recv"
  /\ UNCHANGED <<online, permit, outcome, target, state, provider, inbox, shown,
                 history>>

GreetingFails ==
  /\ mpc \in {"ready", "listening"} /\ ~online
  /\ mpc' = "leave" /\ outcome' = "disconnected"
  /\ UNCHANGED <<online, permit, tasks, state, provider, inbox, shown, history>>

(* Both tasks must have ended. *)
AnyOver_All == bpc \in Over /\ ppc \in Over

AnyOver == bpc \in Over \/ ppc \in Over

(* The status is what the browser's task returned. *)
Outcomes_Returned ==
  IF bpc \in Over THEN {bpc} ELSE {"ok"}

(* What result() of the tasks that are done makes of the session. *)
Outcomes ==
  LET raised == {bpc, ppc} \cap {"disconnected", "error"}
  IN  IF raised # {} THEN raised
      ELSE IF bpc = "gone" THEN {"disconnected"} ELSE {"ok"}

(* The permit is given back before the connection is left. *)
Keep_Early == permit' = "released"

Keep == UNCHANGED permit

(* wait returns; a task that is pending is cancelled and takes no step more. *)
Wake ==
  /\ mpc = "wait" /\ AnyOver
  /\ outcome' \in Outcomes
  /\ bpc' = IF bpc \in Over THEN bpc ELSE "cancelled"
  /\ ppc' = IF ppc \in Over THEN ppc ELSE "cancelled"
  /\ mpc' = "leave"
  /\ Keep
  /\ UNCHANGED <<online, target, state, provider, inbox, shown, history>>

Finally == mpc' = "close" /\ permit' = "released"

(* The connection to the provider is closed; then the except and finally    *)
(* blocks.                                                                  *)
Left ==
  /\ mpc = "leave"
  /\ link' = FALSE
  /\ IF outcome = "error" THEN mpc' = "sorry" /\ UNCHANGED permit ELSE Finally
  /\ UNCHANGED <<online, outcome, tasks, state, talking, answer, said, made,
                 cancels, inbox, shown, history>>

(* The error frame is out, or could not be sent. *)
AfterSorry ==
  /\ mpc = "sorry"
  /\ Finally
  /\ UNCHANGED <<online, outcome, tasks, state, provider, inbox, shown, history>>

Closed ==
  /\ mpc \in {"close", "refused"}
  /\ mpc' = "closed"
  /\ UNCHANGED <<online, permit, outcome, tasks, state, provider, inbox, shown,
                 history>>

-----------------------------------------------------------------------------
(* _browser_to_provider *)

ReadDisconnect ==
  /\ bpc = "recv" /\ ~online
  /\ bpc' = "gone"
  /\ UNCHANGED <<online, session, ppc, target, state, provider, inbox, shown,
                 history>>

ReadEnd ==
  /\ bpc = "recv" /\ online
  /\ bpc' = "ok"
  /\ UNCHANGED <<online, session, ppc, target, state, provider, inbox, shown,
                 history>>

(* Audio of an odd length, or a control frame that is no object. *)
ReadMalformed ==
  /\ bpc = "recv" /\ online
  /\ bpc' = "error"
  /\ UNCHANGED <<online, session, ppc, target, state, provider, inbox, shown,
                 history>>

(* Audio is passed on; the send may raise when the provider is gone. *)
ReadAudio ==
  /\ bpc = "recv" /\ online
  /\ bpc' = "append"
  /\ UNCHANGED <<online, session, ppc, target, state, provider, inbox, shown,
                 history>>

AfterAppend ==
  /\ bpc = "append"
  /\ bpc' \in IF link THEN {"recv"} ELSE {"recv", "error"}
  /\ UNCHANGED <<online, session, ppc, target, state, provider, inbox, shown,
                 history>>

(* A second stop of the same response is taken for a new one. *)
Stoppable_Again == active

Stoppable == active /\ ~interrupted

(* _cancel_response: nothing is sent, and nothing raised, without a link. *)
Cancel == IF link THEN cancels' = cancels + 1 ELSE UNCHANGED cancels

ReadCancel ==
  /\ bpc = "recv" /\ online /\ Stoppable
  /\ interrupted' = TRUE /\ target' = cur
  /\ Cancel
  /\ bpc' = "cancel"
  /\ UNCHANGED <<online, session, ppc, active, meta, speech, cur, link, talking,
                 answer, said, made, inbox, shown, history>>

AfterCancel ==
  /\ bpc = "cancel"
  /\ stopped' = [stopped EXCEPT ![target] = @ + 1]
  /\ bpc' = "interrupted"
  /\ UNCHANGED <<online, session, ppc, target, state, provider, inbox, shown,
                 finished, late, spoken>>

AfterInterrupted ==
  /\ bpc = "interrupted"
  /\ shown' = "listening"
  /\ bpc' = "listening"
  /\ UNCHANGED <<online, session, ppc, target, state, provider, inbox, history>>

Resume ==
  /\ bpc = "listening"
  /\ bpc' = "recv"
  /\ UNCHANGED <<online, session, ppc, target, state, provider, inbox, shown,
                 history>>

BrowserSendFails ==
  /\ bpc \in {"interrupted", "listening"} /\ ~online
  /\ bpc' = "disconnected"
  /\ UNCHANGED <<online, session, ppc, target, state, provider, inbox, shown,
                 history>>

-----------------------------------------------------------------------------
(* _provider_to_browser and _handle_server_event *)

Take(kind) ==
  /\ ppc = "recv" /\ inbox # <<>> /\ Head(inbox) = kind
  /\ inbox' = Tail(inbox)

SpeechInterrupts ==
  /\ Take("speech_started") /\ Stoppable
  /\ speech' = TRUE
  /\ interrupted' = TRUE
  /\ Cancel
  /\ spoken' = spoken \cup {cur}
  /\ ppc' = "cancel"
  /\ UNCHANGED <<online, session, bpc, target, active, meta, cur, link, talking,
                 answer, said, made, shown, stopped, finished, late>>

SpeechStarted ==
  /\ Take("speech_started") /\ ~Stoppable
  /\ speech' = TRUE
  /\ shown' = "listening"
  /\ ppc' = "frame"
  /\ UNCHANGED <<online, session, bpc, target, active, interrupted, meta, cur,
                 provider, history>>

AfterSpeechCancel ==
  /\ ppc = "cancel"
  /\ stopped' = [stopped EXCEPT ![cur] = @ + 1]
  /\ ppc' = "interrupted"
  /\ UNCHANGED <<online, session, bpc, target, state, provider, inbox, shown,
                 finished, late, spoken>>

AfterSpeechInterrupted ==
  /\ ppc = "interrupted"
  /\ shown' = "listening"
  /\ ppc' = "frame"
  /\ UNCHANGED <<online, session, bpc, target, state, provider, inbox, history>>

SpeechStopped ==
  /\ Take("speech_stopped")
  /\ speech' = FALSE
  /\ shown' = "thinking"
  /\ ppc' = "frame"
  /\ UNCHANGED <<online, session, bpc, target, active, interrupted, meta, cur,
                 provider, history>>

(* A transcription of the user, or an error: one frame, passed on. *)
PassOn ==
  /\ Take("transcription") \/ Take("error")
  /\ ppc' = "frame"
  /\ UNCHANGED <<online, session, bpc, target, state, provider, shown, history>>

Created ==
  /\ Take("created")
  /\ active' = TRUE /\ interrupted' = FALSE /\ meta' = FALSE /\ cur' = cur + 1
  /\ UNCHANGED <<online, session, tasks, speech, provider, shown, history>>

TextDelta ==
  /\ Take("text")
  /\ ppc' = IF interrupted THEN "recv" ELSE "frame"
  /\ UNCHANGED <<online, session, bpc, target, state, provider, shown, history>>

(* The audio of an interrupted response is not looked for. *)
Dropped_Never == FALSE

Dropped == interrupted

AudioDropped ==
  /\ Take("audio") /\ Dropped
  /\ UNCHANGED <<online, session, tasks, state, provider, shown, history>>

(* The first audio of a response: tts_meta, then the responding state. *)
AudioFirst ==
  /\ Take("audio") /\ ~Dropped /\ ~meta
  /\ meta' = TRUE
  /\ ppc' = "meta"
  /\ UNCHANGED <<online, session, bpc, target, active, interrupted, speech, cur,
                 provider, shown, history>>

AfterMeta ==
  /\ ppc = "meta"
  /\ shown' = "responding"
  /\ ppc' = "responding"
  /\ UNCHANGED <<online, session, bpc, target, state, provider, inbox, history>>

(* The interruption of the present response was accepted. *)
Accepted == cur \in spoken \/ (cur > 0 /\ target = cur)

SendAudio ==
  /\ late' = IF Accepted THEN [late EXCEPT ![cur] = @ + 1] ELSE late
  /\ ppc' = "frame"
  /\ UNCHANGED <<online, session, bpc, target, state, provider, shown, stopped,
                 finished, spoken>>

AfterResponding == ppc = "responding" /\ SendAudio /\ UNCHANGED inbox

AudioNext == Take("audio") /\ ~Dropped /\ meta /\ SendAudio

(* _finish_response: an interrupted response ends without a frame. *)
DoneInterrupted ==
  /\ Take("done") /\ interrupted
  /\ active' = FALSE
  /\ UNCHANGED <<online, session, tasks, interrupted, meta, speech, cur, provider,
                 shown, history>>

Done ==
  /\ Take("done") /\ ~interrupted
  /\ finished' = [finished EXCEPT ![cur] = @ + 1]
  /\ ppc' = "done"
  /\ UNCHANGED <<online, session, bpc, target, state, provider, shown, stopped,
                 late, spoken>>

(* The listening state is left to the next event. *)
Rest_NoState == UNCHANGED shown

Rest == shown' = "listening"

AfterDone ==
  /\ ppc = "done"
  /\ Rest
  /\ ppc' = "rest"
  /\ UNCHANGED <<online, session, bpc, target, state, provider, inbox, history>>

AfterRest ==
  /\ ppc = "rest"
  /\ active' = FALSE
  /\ ppc' = "recv"
  /\ UNCHANGED <<online, session, bpc, target, interrupted, meta, speech, cur,
                 provider, inbox, shown, history>>

AfterFrame ==
  /\ ppc = "frame"
  /\ ppc' = "recv"
  /\ UNCHANGED <<online, session, bpc, target, state, provider, inbox, shown,
                 history>>

(* An event that is no JSON object, or audio that is no base64. *)
Malformed ==
  /\ Take("malformed")
  /\ ppc' = "error"
  /\ UNCHANGED <<online, session, bpc, target, state, provider, shown, history>>

(* The iteration ends, or raises, when the provider closed the connection. *)
LinkEnds ==
  /\ ppc = "recv" /\ inbox = <<>> /\ ~link
  /\ ppc' \in {"ok", "error"}
  /\ UNCHANGED <<online, session, bpc, target, state, provider, inbox, shown,
                 history>>

ProviderSendFails ==
  /\ ppc \in {"interrupted", "frame", "meta", "responding", "done", "rest"}
  /\ ~online
  /\ ppc' = "disconnected"
  /\ UNCHANGED <<online, session, bpc, target, state, provider, inbox, shown,
                 history>>

-----------------------------------------------------------------------------
(* The provider and the browser *)

Emit(kind) ==
  /\ mpc \in {"ready", "listening", "wait"} /\ link /\ Len(inbox) < InboxMax
  /\ inbox' = Append(inbox, kind)

World == <<online, session, tasks, state, shown, history>>

HearSpeech ==
  /\ ~talking /\ Emit("speech_started")
  /\ talking' = TRUE
  /\ answer' = IF answer = "due" THEN "none" ELSE answer
  /\ UNCHANGED <<World, link, said, made, cancels>>

(* A response that is talked over has ended before the speech does. *)
HearSilence ==
  /\ talking /\ answer = "none" /\ Emit("speech_stopped")
  /\ talking' = FALSE /\ answer' = "due"
  /\ UNCHANGED <<World, link, said, made, cancels>>

Transcribe ==
  /\ answer = "due" /\ Emit("transcription")
  /\ UNCHANGED <<World, provider>>

CreateResponse ==
  /\ answer = "due" /\ made < MaxResponses /\ Emit("created")
  /\ answer' = "active" /\ made' = made + 1 /\ said' = 0
  /\ UNCHANGED <<World, link, talking, cancels>>

SayText ==
  /\ answer = "active" /\ Emit("text")
  /\ UNCHANGED <<World, provider>>

SayAudio ==
  /\ answer = "active" /\ said < MaxChunks /\ Emit("audio")
  /\ said' = said + 1
  /\ UNCHANGED <<World, link, talking, answer, made, cancels>>

EndResponse ==
  /\ answer = "active" /\ Emit("done")
  /\ answer' = "none"
  /\ UNCHANGED <<World, link, talking, said, made, cancels>>

(* A cancel ends the response, and is an error when there is none. *)
ObeyCancel ==
  /\ cancels > 0
  /\ cancels' = cancels - 1
  /\ IF answer = "active" THEN Emit("done") /\ answer' = "none"
                          ELSE Emit("error") /\ UNCHANGED answer
  /\ UNCHANGED <<World, link, talking, said, made>>

Garble ==
  /\ Emit("malformed")
  /\ UNCHANGED <<World, provider>>

LinkDrops ==
  /\ link
  /\ link' = FALSE
  /\ UNCHANGED <<World, talking, answer, said, made, cancels, inbox>>

BrowserLeaves ==
  /\ online
  /\ online' = FALSE
  /\ UNCHANGED <<session, tasks, state, provider, inbox, shown, history>>

-----------------------------------------------------------------------------

Main == \/ Refuse \/ Admit \/ Ready \/ BootFails \/ AfterReady \/ StartTasks
        \/ GreetingFails \/ Wake \/ Left \/ AfterSorry \/ Closed

BrowserSends == AfterAppend \/ AfterCancel \/ AfterInterrupted \/ Resume
                \/ BrowserSendFails

BrowserTask == ReadDisconnect \/ ReadEnd \/ ReadMalformed \/ ReadAudio \/ ReadCancel
               \/ BrowserSends

ProviderTask ==
  \/ SpeechInterrupts \/ SpeechStarted \/ AfterSpeechCancel
  \/ AfterSpeechInterrupted \/ SpeechStopped \/ PassOn \/ Created \/ TextDelta
  \/ AudioDropped \/ AudioFirst \/ AfterMeta \/ AfterResponding \/ AudioNext
  \/ DoneInterrupted \/ Done \/ AfterDone \/ AfterRest \/ AfterFrame
  \/ Malformed \/ LinkEnds \/ ProviderSendFails

Environment ==
  \/ HearSpeech \/ HearSilence \/ Transcribe \/ CreateResponse \/ SayText
  \/ SayAudio \/ EndResponse \/ ObeyCancel \/ Garble \/ LinkDrops
  \/ BrowserLeaves

Next == Main \/ BrowserTask \/ ProviderTask \/ Environment

(* The loop runs the tasks; connecting, closing and sending end, by their   *)
(* timeouts if need be.  What the browser sends, and what the provider says *)
(* and when, is nobody's duty.                                              *)
Fairness == /\ WF_vars(Main)
            /\ WF_vars(ReadDisconnect \/ BrowserSends)
            /\ WF_vars(ProviderTask)

Spec == Init /\ [][Next]_vars /\ Fairness

-----------------------------------------------------------------------------
(* Properties *)

Counts == [Responses -> Nat]

Events == {"speech_started", "speech_stopped", "transcription", "created",
           "text", "audio", "done", "error", "malformed"}

FlagsOK ==
  /\ online \in BOOLEAN /\ link \in BOOLEAN /\ talking \in BOOLEAN
  /\ active \in BOOLEAN /\ interrupted \in BOOLEAN /\ meta \in BOOLEAN
  /\ speech \in BOOLEAN

ControlOK ==
  /\ mpc \in {"start", "refused", "boot", "ready", "listening", "wait", "leave",
              "sorry", "close", "closed"}
  /\ permit \in {"none", "held", "released"}
  /\ outcome \in {"ok", "disconnected", "error"}
  /\ bpc \in {"off", "recv", "append", "cancel", "interrupted", "listening"} \cup Over
  /\ ppc \in {"off", "recv", "cancel", "interrupted", "frame", "meta",
              "responding", "done", "rest"} \cup (Over \ {"gone"})
  /\ answer \in {"none", "due", "active"}
  /\ shown \in {"none", "listening", "thinking", "responding"}

NumbersOK ==
  /\ cur \in Nat /\ target \in 0 .. cur /\ cancels \in Nat
  /\ made \in 0 .. MaxResponses /\ said \in 0 .. MaxChunks
  /\ inbox \in Seq(Events)

HistoryOK ==
  /\ stopped \in Counts /\ finished \in Counts /\ late \in Counts
  /\ spoken \subseteq Nat

TypeOK == FlagsOK /\ ControlOK /\ NumbersOK /\ HistoryOK

(* Whoever talks to the provider holds a permit: a permit given back too    *)
(* early would let more sessions in than qwen_omni_concurrency.             *)
PermitCoversTasks ==
  /\ (bpc \notin Over /\ bpc # "off") => permit = "held"
  /\ (ppc \notin Over /\ ppc # "off") => permit = "held"
  /\ mpc \in {"ready", "listening", "wait", "leave"} => permit = "held"
  /\ mpc = "closed" => permit # "held"

(* Speech silences a response at once.  A stop lets through at most the one *)
(* chunk whose tts_meta or state frame was being sent.                      *)
LateAudio == \A r \in Responses : late[r] <= IF r \in spoken THEN 0 ELSE 1

(* However stops and speech fall together, a response is interrupted once   *)
(* at most, and is done once at most.                                       *)
ConcludedOnce == \A r \in Responses : stopped[r] <= 1 /\ finished[r] <= 1

(* Nothing is going on, and nothing is on the way. *)
Quiet == bpc = "recv" /\ ppc = "recv" /\ inbox = <<>> /\ ~active

(* A response nobody stopped does not leave the browser in responding. *)
RestsListening ==
  Quiet /\ cur > 0 /\ (stopped[cur] = 0 \/ cur \in spoken) => shown # "responding"

(* A browser that leaves, or a task that ends, ends the session, and its    *)
(* permit is free again.                                                    *)
SessionCloses ==
  ~online \/ bpc \in Over \/ ppc \in Over ~> mpc = "closed" /\ permit # "held"
=============================================================================
