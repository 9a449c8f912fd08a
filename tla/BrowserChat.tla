---------------------------- MODULE BrowserChat ----------------------------
(***************************************************************************)
(* The browser's side of a voice conversation: the page                    *)
(* (pages/ChatPage.tsx), its WebSocket (openChatStream in api/client.ts),  *)
(* its recorder (audio/recorder.ts) and its player (audio/player.ts).      *)
(*                                                                         *)
(* A session is numbered by the start that opened it, and so are its       *)
(* WebSocket, recorder and player, of which the page holds one each.  The  *)
(* server is outside: it sends the frames of whole turns in order, as      *)
(* Conversation does, and no audio of a turn after its last frame.         *)
(*                                                                         *)
(* Audio comes in chunks of one tick.  Times are relative to the present:  *)
(* a source at 0 is being played, one at -1 has ended.                     *)
(***************************************************************************)
EXTENDS Integers, Sequences

CONSTANTS
  Starts,   \* bound: sessions started on the page
  Turns,    \* bound: turns of a session
  Chunks,   \* bound: chunks of audio in a turn
  Flight,   \* bound: frames on their way to the page
  Level,    \* chunks in initialBufferMs
  Cap       \* ticks in maxBufferedMs

ASSUME BrowserAssumption ==
  /\ Starts \in Nat /\ Turns \in Nat /\ Chunks \in Nat /\ Flight \in Nat
  /\ Level \in Nat \ {0} /\ Cap \in Nat \ {0}

VARIABLES
  page,        \* connectionState, or "gone" when the page was left
  wsRef,       \* the session whose WebSocket the page holds, 0 if none
  recRef,      \* the session whose recorder it holds
  turnState,   \* the state last announced
  stopping,    \* stoppingResponse
  last,        \* sessions started so far
  sock,        \* readyState of each WebSocket
  rec,         \* each recorder: "on" when the microphone is
  player,      \* each StreamingPcmPlayer
  up, down,    \* frames on their way to the server and to the page
  srv,         \* where the server is in each session
  ended        \* history: how each turn of the session ended for the page

held   == <<wsRef, recRef>>
ui     == <<page, turnState, stopping>>
wires  == <<up, down>>
vars   == <<held, ui, last, sock, rec, player, wires, srv, ended>>

-----------------------------------------------------------------------------
(* Values *)

Conn == 1 .. Starts
Turn == 1 .. Turns

Frame(kind, turn, k) == [kind |-> kind, turn |-> turn, k |-> k]
Plain(kind) == Frame(kind, 0, 0)

AtLeast(m, n) == IF n < m THEN m ELSE n
AtMost(m, n)  == IF n > m THEN m ELSE n

-----------------------------------------------------------------------------
(* The player *)

(* A player that is heard: pending holds the chunks below the start level,  *)
(* sources those handed to the AudioContext, cursor is nextTime.            *)
NewPlayer == [alive |-> TRUE, started |-> FALSE, complete |-> FALSE,
              pending |-> <<>>, sources |-> <<>>, cursor |-> 0]

(* stop *)
Silent(p) == [NewPlayer EXCEPT !.alive = p.alive]

NoPlayer == [NewPlayer EXCEPT !.alive = FALSE]

Room_Unbounded(from, q) == Len(q)

Room(from, q) == AtMost(Cap - from, Len(q))

(* schedule, of the chunks q one after the other: each starts where the one *)
(* before it ends, or at once after a gap, and those beyond maxBufferedMs   *)
(* are dropped.                                                             *)
Schedule(p, q) ==
  LET from == AtLeast(0, p.cursor)
      n == Room(from, q)
  IN [p EXCEPT !.sources = @ \o [i \in 1 .. n |->
                                   [turn |-> q[i].turn, k |-> q[i].k, at |-> from + i - 1]],
               !.cursor = from + n]

(* flush *)
Flushed(p) ==
  IF p.pending = <<>> THEN p
  ELSE Schedule([p EXCEPT !.pending = <<>>, !.started = TRUE,
                          !.cursor = IF p.started THEN @ ELSE 0], p.pending)

(* push *)
Pushed(p, x) ==
  LET q == [p EXCEPT !.complete = FALSE]
      waiting == [q EXCEPT !.pending = Append(@, x)]
  IN IF p.started THEN Schedule(q, <<x>>)
     ELSE IF Len(waiting.pending) >= Level THEN Flushed(waiting) ELSE waiting

Drained_Early(p) == p.complete /\ p.pending = <<>>

Drained(p) == p.complete /\ p.pending = <<>> /\ p.sources = <<>>

(* resetTurnIfDrained *)
Reset(p) ==
  IF Drained(p) THEN [p EXCEPT !.started = FALSE, !.complete = FALSE, !.cursor = 0] ELSE p

(* finishTurn *)
TurnFinished(p) == Reset([Flushed(p) EXCEPT !.complete = TRUE])

(* Time passes by one tick for everything that is scheduled. *)
Sooner(at) == AtLeast(-1, at - 1)

Later(p) ==
  [p EXCEPT !.sources = [i \in DOMAIN @ |-> [turn |-> @[i].turn, k |-> @[i].k, at |-> Sooner(@[i].at)]],
            !.cursor = Sooner(@)]

Tick(c) ==
  /\ player[c].alive /\ player[c].cursor > -1
  /\ player' = [player EXCEPT ![c] = Later(@)]
  /\ UNCHANGED <<held, ui, last, sock, rec, wires, srv, ended>>

(* onended of a source; the events come in the order of the sources.        *)
PlayedOne(p) == Reset([p EXCEPT !.sources = Tail(@)])

SourceEnds(c) ==
  /\ player[c].sources # <<>> /\ Head(player[c].sources).at = -1
  /\ player' = [player EXCEPT ![c] = PlayedOne(@)]
  /\ UNCHANGED <<held, ui, last, sock, rec, wires, srv, ended>>

-----------------------------------------------------------------------------
(* The page: sessions *)

NoServer == [pc |-> "none", turn |-> 0, k |-> 0]

NotEnded == [t \in Turn |-> "no"]

Init ==
  /\ page = "idle" /\ wsRef = 0 /\ recRef = 0
  /\ turnState = "" /\ stopping = FALSE /\ last = 0
  /\ sock = [c \in Conn |-> "none"] /\ rec = [c \in Conn |-> "none"]
  /\ player = [c \in Conn |-> NoPlayer]
  /\ up = [c \in Conn |-> <<>>] /\ down = [c \in Conn |-> <<>>]
  /\ srv = [c \in Conn |-> NoServer]
  /\ ended = NotEnded

Start ==
  /\ page = "idle" /\ last < Starts
  /\ page' = "connecting" /\ turnState' = "" /\ stopping' = FALSE
  /\ last' = last + 1 /\ wsRef' = last + 1
  /\ player' = [player EXCEPT ![last + 1] = NewPlayer]
  /\ sock' = [sock EXCEPT ![last + 1] = "connecting"]
  /\ ended' = NotEnded
  /\ UNCHANGED <<recRef, rec, wires, srv>>

Unseen(c) ==
  /\ down' = [down EXCEPT ![c] = <<>>] /\ up' = [up EXCEPT ![c] = <<>>]
  /\ srv' = [srv EXCEPT ![c] = NoServer]

(* close() of the WebSocket: no frame is delivered from then on, and what   *)
(* the server still reads and does in the session is not seen.              *)
Close(c) ==
  /\ sock' = [sock EXCEPT ![c] = IF @ \in {"connecting", "open"} THEN "closing" ELSE @]
  /\ Unseen(c)

(* MicRecorder.stop has nothing to stop while getUserMedia is pending. *)
Stopped(r) == IF r = 0 THEN rec ELSE [rec EXCEPT ![r] = IF @ = "asked" THEN @ ELSE "off"]

LetGo_PlayerLeft ==
  /\ rec' = Stopped(recRef) /\ recRef' = 0 /\ wsRef' = 0
  /\ UNCHANGED player

(* What a session held is stopped and let go, its player last. *)
LetGo ==
  /\ rec' = Stopped(recRef) /\ recRef' = 0 /\ wsRef' = 0
  /\ player' = [player EXCEPT ![wsRef] = NoPlayer]

Idle == page' = "idle" /\ turnState' = "" /\ stopping' = FALSE

(* stop.  The end frame sent before the close changes nothing that is seen. *)
Stop ==
  /\ Close(wsRef) /\ LetGo /\ Idle

(* The button, or switching to the cascade after a failure. *)
StopPressed ==
  /\ page \in {"connecting", "connected"}
  /\ Stop
  /\ UNCHANGED <<last, ended>>

(* teardown, when the page is left; what it showed goes with it. *)
Teardown ==
  /\ page # "gone"
  /\ page' = "gone" /\ turnState' = "" /\ stopping' = FALSE
  /\ IF wsRef = 0 THEN UNCHANGED <<held, rec, player, sock, wires, srv>>
                  ELSE LetGo /\ Close(wsRef)
  /\ UNCHANGED <<last, ended>>

(* The page sends what it played and silences the reply before it asks the  *)
(* server to stop.                                                          *)
StopResponse ==
  /\ page = "connected" /\ ~stopping
  /\ turnState \in {"thinking", "responding"} /\ sock[wsRef] = "open"
  /\ player' = [player EXCEPT ![wsRef] = Silent(@)]
  /\ up' = [up EXCEPT ![wsRef] = Append(@, "cancel_response")]
  /\ stopping' = TRUE
  /\ UNCHANGED <<held, page, turnState, last, sock, rec, down, srv, ended>>

-----------------------------------------------------------------------------
(* The page: its WebSocket *)

Opens(c) ==
  /\ sock[c] = "connecting"
  /\ sock' = [sock EXCEPT ![c] = "open"]
  /\ srv' = [srv EXCEPT ![c].pc = "start"]
  /\ UNCHANGED <<held, ui, last, rec, player, wires, ended>>

(* armWebSocket gives a connection ten seconds. *)
ConnectTimeout(c) ==
  /\ sock[c] = "connecting"
  /\ Close(c)
  /\ UNCHANGED <<held, ui, last, rec, player, ended>>

(* onclose of a session the page no longer holds changes nothing.           *)
Over(c) ==
  /\ sock' = [sock EXCEPT ![c] = "closed"]
  /\ Unseen(c)
  /\ IF wsRef = c THEN LetGo /\ Idle ELSE UNCHANGED <<held, ui, rec, player>>
  /\ UNCHANGED <<last, ended>>

Closed(c) == sock[c] = "closing" /\ Over(c)

ConnectionLost(c) == sock[c] \in {"connecting", "open"} /\ Over(c)

(* onmessage, while the socket is open. *)
Gets(c, kind) ==
  /\ sock[c] = "open" /\ down[c] # <<>> /\ Head(down[c]).kind = kind
  /\ down' = [down EXCEPT ![c] = Tail(@)]

OnReady(c) ==
  /\ Gets(c, "ready")
  /\ IF wsRef = c
       THEN page' = "connected" /\ rec' = [rec EXCEPT ![c] = "asked"] /\ recRef' = c
       ELSE UNCHANGED <<page, rec, recRef>>
  /\ UNCHANGED <<wsRef, turnState, stopping, last, sock, player, up, srv, ended>>

Answered_NotByState(state) == FALSE

Answered(state) == state = "listening"

OnState(c) ==
  /\ \E s \in {"listening", "thinking", "responding"} :
       /\ Gets(c, s)
       /\ turnState' = s
       /\ stopping' = (stopping /\ ~Answered(s))
  /\ UNCHANGED <<held, page, last, sock, rec, player, up, srv, ended>>

OnAudio(c) ==
  /\ Gets(c, "audio")
  /\ LET m == Head(down[c])
     IN player' = [player EXCEPT ![c] = Pushed(@, [turn |-> m.turn, k |-> m.k])]
  /\ UNCHANGED <<held, ui, last, sock, rec, up, srv, ended>>

OnAssistantDone(c) ==
  /\ Gets(c, "assistant_done")
  /\ player' = [player EXCEPT ![c] = TurnFinished(@)]
  /\ stopping' = FALSE
  /\ ended' = [ended EXCEPT ![Head(down[c]).turn] = "done"]
  /\ UNCHANGED <<held, page, turnState, last, sock, rec, up, srv>>

OnInterrupted(c) ==
  /\ Gets(c, "interrupted")
  /\ player' = [player EXCEPT ![c] = Silent(@)]
  /\ stopping' = FALSE
  /\ ended' = [ended EXCEPT ![Head(down[c]).turn] = "interrupted"]
  /\ UNCHANGED <<held, page, turnState, last, sock, rec, up, srv>>

(* An error is shown, and that is all. *)
OnError(c) ==
  /\ Gets(c, "error")
  /\ UNCHANGED <<held, ui, last, sock, rec, player, up, srv, ended>>

OnClosing(c) ==
  /\ sock[c] = "open" /\ down[c] # <<>> /\ Head(down[c]).kind = "close"
  /\ Close(c)
  /\ UNCHANGED <<held, ui, last, rec, player, ended>>

-----------------------------------------------------------------------------
(* The page: its microphone *)

(* getUserMedia resolves; the capture node is still being loaded. *)
MicGranted(c) ==
  /\ rec[c] = "asked"
  /\ rec' = [rec EXCEPT ![c] = "starting"]
  /\ UNCHANGED <<held, ui, last, sock, player, wires, srv, ended>>

Kept(c) == wsRef = c /\ sock[c] = "open"

(* rec.start returns: it is kept for the session the page holds, if open.   *)
MicStarted(c) ==
  /\ rec[c] = "starting"
  /\ IF Kept(c)
       THEN rec' = [rec EXCEPT ![c] = "on"] /\ UNCHANGED recRef
       ELSE rec' = [rec EXCEPT ![c] = "off"] /\ recRef' = IF recRef = c THEN 0 ELSE recRef
  /\ UNCHANGED <<wsRef, ui, last, sock, player, wires, srv, ended>>

(* It raises: the session is stopped, or, if it is not the page's any more, *)
(* nothing is done, not even to a microphone that was granted.              *)
MicFails(c) ==
  /\ rec[c] \in {"asked", "starting"}
  /\ IF wsRef = c
       THEN /\ Close(c)
            /\ rec' = [rec EXCEPT ![c] = "off"] /\ recRef' = 0 /\ wsRef' = 0
            /\ player' = [player EXCEPT ![c] = NoPlayer]
            /\ Idle
       ELSE /\ rec' = [rec EXCEPT ![c] = IF @ = "asked" THEN "off" ELSE "abandoned"]
            /\ UNCHANGED <<held, ui, sock, wires, srv, player>>
  /\ UNCHANGED <<last, ended>>

-----------------------------------------------------------------------------
(* The server, as the page knows it *)

InTurn(c) == srv[c].pc \in {"thinking", "responding"}

Serves(c, s, ms) ==
  /\ sock[c] = "open" /\ Len(down[c]) + Len(ms) <= Flight
  /\ srv' = [srv EXCEPT ![c] = s] /\ down' = [down EXCEPT ![c] = @ \o ms]
  /\ UNCHANGED <<held, ui, last, sock, rec, player, ended>>

Now(c, p) == [srv[c] EXCEPT !.pc = p]

(* A turn ends with one frame, and the state goes back to listening. *)
Concludes(c, kind) ==
  Serves(c, Now(c, "listening"), <<Frame(kind, srv[c].turn, 0), Plain("listening")>>)

SessionReady(c) ==
  /\ srv[c].pc = "start" /\ UNCHANGED up
  /\ Serves(c, Now(c, "listening"), <<Plain("ready"), Plain("listening")>>)

TurnBegins(c) ==
  /\ srv[c].pc = "listening" /\ srv[c].turn < Turns /\ UNCHANGED up
  /\ Serves(c, [pc |-> "thinking", turn |-> srv[c].turn + 1, k |-> 0], <<Plain("thinking")>>)

Responds(c) ==
  /\ srv[c].pc = "thinking" /\ UNCHANGED up
  /\ Serves(c, Now(c, "responding"), <<Plain("responding")>>)

Speaks(c) ==
  /\ srv[c].pc = "responding" /\ srv[c].k < Chunks /\ UNCHANGED up
  /\ Serves(c, [srv[c] EXCEPT !.k = @ + 1], <<Frame("audio", srv[c].turn, srv[c].k + 1)>>)

(* It ends, fails, or is talked over. *)
TurnEnds(c) ==
  /\ InTurn(c) /\ UNCHANGED up
  /\ \E kind \in {"assistant_done", "error", "interrupted"} : Concludes(c, kind)

(* A stop for a turn that is over is ignored, and so is one that comes       *)
(* before the turn looks for it, or after it looked for the last time.      *)
HearsStop(c) ==
  /\ up[c] # <<>>
  /\ up' = [up EXCEPT ![c] = Tail(@)]
  /\ \/ InTurn(c) /\ Concludes(c, "interrupted")
     \/ Serves(c, srv[c], <<>>)

GivesUp(c) ==
  /\ srv[c].pc \notin {"none", "over"} /\ UNCHANGED up
  /\ Serves(c, Now(c, "over"), <<Plain("error"), Plain("close")>>)

-----------------------------------------------------------------------------
(* Specification *)

Buttons == Start \/ StopPressed \/ StopResponse \/ Teardown

Deliver(c) == \/ OnReady(c) \/ OnState(c) \/ OnAudio(c) \/ OnAssistantDone(c)
              \/ OnInterrupted(c) \/ OnError(c) \/ OnClosing(c)

Socket(c) == Opens(c) \/ ConnectTimeout(c) \/ Closed(c) \/ ConnectionLost(c) \/ Deliver(c)

Devices(c) == \/ MicGranted(c) \/ MicStarted(c) \/ MicFails(c)
              \/ Tick(c) \/ SourceEnds(c)

Server(c) == \/ SessionReady(c) \/ TurnBegins(c) \/ Responds(c) \/ Speaks(c)
             \/ TurnEnds(c) \/ HearsStop(c) \/ GivesUp(c)

Next == Buttons \/ \E c \in Conn : Socket(c) \/ Devices(c) \/ Server(c)

(* Frames that arrived are handled, a closing socket closes, and a turn     *)
(* ends, as Conversation has it.  Nobody has to press a button.             *)
Fairness == \A c \in Conn : WF_vars(Deliver(c)) /\ WF_vars(Closed(c)) /\ WF_vars(TurnEnds(c))

Spec == Init /\ [][Next]_vars /\ Fairness

-----------------------------------------------------------------------------
(* Properties *)

Chunk    == [turn : Turn, k : 1 .. Chunks]
Source   == [turn : Turn, k : 1 .. Chunks, at : -1 .. Cap - 1]
APlayer  == [alive : BOOLEAN, started : BOOLEAN, complete : BOOLEAN,
             pending : Seq(Chunk), sources : Seq(Source), cursor : -1 .. Cap]
ToPage   == [kind : {"ready", "listening", "thinking", "responding", "audio",
                     "assistant_done", "interrupted", "error", "close"},
             turn : 0 .. Turns, k : 0 .. Chunks]
AServer  == [pc : {"none", "start", "listening", "thinking", "responding", "over"},
             turn : 0 .. Turns, k : 0 .. Chunks]

(* The variables keep their types; in particular no chunk is scheduled      *)
(* further ahead than maxBufferedMs.                                        *)
TypeOK ==
  /\ page \in {"idle", "connecting", "connected", "gone"}
  /\ turnState \in {"", "listening", "thinking", "responding"} /\ stopping \in BOOLEAN
  /\ last \in 0 .. Starts /\ wsRef \in 0 .. last /\ recRef \in 0 .. last
  /\ sock \in [Conn -> {"none", "connecting", "open", "closing", "closed"}]
  /\ rec \in [Conn -> {"none", "asked", "starting", "on", "abandoned", "off"}]
  /\ player \in [Conn -> APlayer]
  /\ up \in [Conn -> Seq({"cancel_response"})] /\ down \in [Conn -> Seq(ToPage)]
  /\ srv \in [Conn -> AServer]
  /\ ended \in [Turn -> {"no", "done", "interrupted"}]

(* Nothing outlives the session it was opened for, whenever the microphone  *)
(* is granted and however the session goes: a recorder runs, and a player   *)
(* plays, only for the session the page holds, and the page is not left     *)
(* stopping, or in a turn, without one.                                     *)
SessionOwnsDevices ==
  /\ \A c \in Conn : /\ player[c].alive <=> wsRef = c
                     /\ rec[c] = "on" => wsRef = c /\ recRef = c
  /\ page \in {"idle", "gone"} => wsRef = 0 /\ recRef = 0 /\ turnState = "" /\ ~stopping

(* What is heard: chunks in the order they were sent, never two at a time,  *)
(* none of a turn after its interruption; and a turn that is done has no    *)
(* tail left that waits for the audio of the next.                          *)
PlaybackSound ==
  \A c \in Conn :
    LET p == player[c]
        s == p.sources
    IN /\ \A i, j \in DOMAIN s :
            i < j => /\ s[i].turn < s[j].turn \/ (s[i].turn = s[j].turn /\ s[i].k < s[j].k)
                     /\ s[i].at < s[j].at \/ s[j].at = -1
       /\ \A i \in DOMAIN s : ended[s[i].turn] # "interrupted"
       /\ \A i \in DOMAIN p.pending : ended[p.pending[i].turn] = "no"

(* A stop is answered: the button does not stay at "stopping", whether the  *)
(* turn is interrupted, has just ended, misses the stop, fails, or the      *)
(* connection is lost.                                                      *)
StopAnswered == stopping ~> ~stopping
=============================================================================
