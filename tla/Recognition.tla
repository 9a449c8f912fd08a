---------------------------- MODULE Recognition ----------------------------
(***************************************************************************)
(* Live recognition, end to end: the page (pages/AsrPage.tsx) with its     *)
(* WebSocket (api/client.ts) and recorder (audio/recorder.ts), the route   *)
(* /ws/asr (api/routes_asr.py), Dispatcher.asr_stream, and the engine      *)
(* FunASRStreamingEngine.transcribe_stream inside it                       *)
(* (engines/funasr_engine.py).                                             *)
(*                                                                         *)
(* A connection is numbered by the start that opened it; the page holds    *)
(* one in wsRef and one recorder in recRef, and those of earlier starts    *)
(* may still be closing or starting.  The server serves each connection    *)
(* with one task, which pulls audio, recognises and sends in turn.         *)
(*                                                                         *)
(* Audio is a sequence of chunk numbers; what is recognised of it are its  *)
(* voiced chunks.  A step runs from one await or event to the next.        *)
(***************************************************************************)
EXTENDS Naturals, Sequences

CONSTANTS
  Starts,   \* bound: recordings started on the page
  Chunks,   \* bound: chunks of one recording
  Voiced,   \* the chunks with speech in them
  Window    \* chunks in settings.funasr_streaming_chunk_ms

ASSUME RecognitionAssumption ==
  /\ Starts \in Nat \ {0} /\ Chunks \in Nat
  /\ Voiced \subseteq 1 .. Chunks
  /\ Window \in Nat \ {0}

VARIABLES
  page,        \* streamState
  wsRef,       \* the connection the page holds, 0 if none
  recRef,      \* the recorder it holds, named by its connection
  last,        \* connections opened so far
  sock,        \* readyState of each WebSocket
  rec,         \* each recorder: "on" when the microphone is
  sent,        \* chunks sent on each connection
  up, down,    \* frames on their way to the server and to the page
  committed,   \* final texts shown, by segment
  partial,     \* the provisional text shown
  srv,         \* the server's task of each connection
  how          \* how that task ended

browser == <<page, wsRef, recRef, last, sock, rec, sent>>
shown   == <<committed, partial>>
server  == <<srv, how>>
vars    == <<browser, up, down, shown, server>>

-----------------------------------------------------------------------------
(* Values *)

Conn == 1 .. Starts

Pcm(k) == [kind |-> "pcm", k |-> k]
End    == [kind |-> "end", k |-> 0]
Gone   == [kind |-> "disconnect", k |-> 0]

Plain(kind)       == [kind |-> kind, id |-> 0, text |-> <<>>]
Text(kind, id, t) == [kind |-> kind, id |-> id, text |-> t]

Recognised(audio) ==
  LET upto[n \in 0 .. Len(audio)] ==
        IF n = 0 THEN <<>>
        ELSE IF audio[n] \in Voiced THEN Append(upto[n - 1], audio[n]) ELSE upto[n - 1]
  IN upto[Len(audio)]

NoPartial == [id |-> 0, text |-> <<>>]

NewTask == [pc |-> "none", gone |-> FALSE, buf |-> <<>>, seg |-> <<>>,
            text |-> <<>>, cache |-> <<>>, id |-> 0]

Init ==
  /\ page = "idle" /\ wsRef = 0 /\ recRef = 0 /\ last = 0
  /\ sock = [c \in Conn |-> "none"] /\ rec = [c \in Conn |-> "none"]
  /\ sent = [c \in Conn |-> 0]
  /\ up = [c \in Conn |-> <<>>] /\ down = [c \in Conn |-> <<>>]
  /\ committed = {} /\ partial = NoPartial
  /\ srv = [c \in Conn |-> NewTask] /\ how = [c \in Conn |-> "none"]

-----------------------------------------------------------------------------
(* The page: its button *)

Start ==
  /\ page = "idle" /\ last < Starts
  /\ page' = "connecting"
  /\ last' = last + 1 /\ wsRef' = last + 1
  /\ sock' = [sock EXCEPT ![last + 1] = "connecting"]
  /\ committed' = {} /\ partial' = NoPartial
  /\ UNCHANGED <<recRef, rec, sent, up, down, server>>

Close(c) == sock' = [sock EXCEPT ![c] = IF @ \in {"connecting", "open"} THEN "closing" ELSE @]

(* The button while connecting; wsRef stays until the socket has closed. *)
Cancel ==
  /\ page = "connecting"
  /\ Close(wsRef)
  /\ page' = "idle"
  /\ UNCHANGED <<wsRef, recRef, last, rec, sent, up, down, shown, server>>

(* MicRecorder.stop has nothing to stop while getUserMedia is pending. *)
Stopped(r) == IF r = 0 THEN rec ELSE [rec EXCEPT ![r] = IF @ = "asked" THEN @ ELSE "off"]

StopRecording ==
  /\ page = "recording"
  /\ rec' = Stopped(recRef) /\ recRef' = 0
  /\ page' = "finalizing"
  /\ IF sock[wsRef] = "open"
       THEN up' = [up EXCEPT ![wsRef] = Append(@, End)] /\ UNCHANGED sock
       ELSE Close(wsRef) /\ UNCHANGED up
  /\ UNCHANGED <<wsRef, last, sent, down, shown, server>>

-----------------------------------------------------------------------------
(* The page: its WebSocket *)

Opens(c) ==
  /\ sock[c] = "connecting"
  /\ sock' = [sock EXCEPT ![c] = "open"]
  /\ srv' = [srv EXCEPT ![c].pc = "start"]
  /\ UNCHANGED <<page, wsRef, recRef, last, rec, sent, up, down, shown, how>>

(* armWebSocket gives a connection ten seconds. *)
ConnectTimeout(c) ==
  /\ sock[c] = "connecting"
  /\ Close(c)
  /\ UNCHANGED <<page, wsRef, recRef, last, rec, sent, up, down, shown, server>>

(* onclose of a connection that was replaced changes nothing. *)
OnClose(c) ==
  IF wsRef = c
    THEN /\ rec' = Stopped(recRef) /\ recRef' = 0 /\ wsRef' = 0
         /\ page' = "idle"
    ELSE UNCHANGED <<page, wsRef, recRef, rec>>

(* The connection is over on both sides: frames under way to the page are   *)
(* dropped, of those to the server a prefix arrives.                        *)
Over(c) ==
  /\ sock' = [sock EXCEPT ![c] = "closed"]
  /\ down' = [down EXCEPT ![c] = <<>>]
  /\ \E n \in 0 .. Len(up[c]) :
       up' = [up EXCEPT ![c] = Append(SubSeq(@, 1, n), Gone)]
  /\ OnClose(c)
  /\ UNCHANGED <<last, sent, shown, server>>

Closed(c) == sock[c] = "closing" /\ Over(c)

ConnectionLost(c) == sock[c] \in {"connecting", "open"} /\ Over(c)

Commit(id, t) == {x \in committed : x.id # id} \cup {[id |-> id, text |-> t]}

(* onmessage, while the socket is open. *)
Deliver(c) ==
  /\ sock[c] = "open" /\ down[c] # <<>>
  /\ LET m == Head(down[c]) IN
       /\ down' = [down EXCEPT ![c] = Tail(@)]
       /\ sock' = [sock EXCEPT ![c] = IF m.kind = "close" THEN "closing" ELSE @]
       /\ IF m.kind = "ready" /\ wsRef = c
            THEN rec' = [rec EXCEPT ![c] = "asked"] /\ recRef' = c
            ELSE UNCHANGED <<rec, recRef>>
       /\ committed' = IF m.kind = "final" THEN Commit(m.id, m.text) ELSE committed
       /\ partial' = CASE m.kind = "partial" -> [id |-> m.id, text |-> m.text]
                       [] m.kind = "final" /\ m.id = partial.id -> NoPartial
                       [] OTHER -> partial
  /\ UNCHANGED <<page, wsRef, last, sent, up, server>>

-----------------------------------------------------------------------------
(* The page: its microphone *)

(* getUserMedia resolves; the capture node is still being loaded. *)
MicGranted(c) ==
  /\ rec[c] = "asked"
  /\ rec' = [rec EXCEPT ![c] = "starting"]
  /\ UNCHANGED <<page, wsRef, recRef, last, sock, sent, up, down, shown, server>>

Kept_Always(c) == TRUE

Kept(c) == wsRef = c /\ sock[c] = "open"

(* rec.start returns: the recorder is kept only for the connection the page *)
(* still holds, if it is open.                                              *)
MicStarted(c) ==
  /\ rec[c] = "starting"
  /\ IF Kept(c)
       THEN /\ rec' = [rec EXCEPT ![c] = "on"]
            /\ page' = "recording"
            /\ UNCHANGED recRef
       ELSE /\ rec' = [rec EXCEPT ![c] = "off"]
            /\ recRef' = IF recRef = c THEN 0 ELSE recRef
            /\ UNCHANGED page
  /\ UNCHANGED <<wsRef, last, sock, sent, up, down, shown, server>>

(* It raises, before the microphone is granted or after: the handler closes *)
(* the connection, whose onclose stops the recorder; it does not stop the   *)
(* recorder of a connection that was replaced.                              *)
MicFails(c) ==
  /\ rec[c] \in {"asked", "starting"}
  /\ rec' = [rec EXCEPT ![c] = IF @ = "asked" THEN "off" ELSE "abandoned"]
  /\ IF wsRef = c THEN Close(c) ELSE UNCHANGED sock
  /\ UNCHANGED <<page, wsRef, recRef, last, sent, up, down, shown, server>>

Speaks(c) ==
  /\ rec[c] = "on" /\ sock[c] = "open" /\ sent[c] < Chunks
  /\ sent' = [sent EXCEPT ![c] = @ + 1]
  /\ up' = [up EXCEPT ![c] = Append(@, Pcm(sent[c] + 1))]
  /\ UNCHANGED <<page, wsRef, recRef, last, sock, rec, down, shown, server>>

-----------------------------------------------------------------------------
(* The server: the route *)

(* The task of connection c goes on as t. *)
Task(c, t) == srv' = [srv EXCEPT ![c] = t]

At(c, p) == Task(c, [srv[c] EXCEPT !.pc = p])

Ends(c, h) == Task(c, [NewTask EXCEPT !.pc = "ended"]) /\ how' = [how EXCEPT ![c] = h]

Reaches(c) == sock[c] \in {"open", "closing"}

Post(c, ms) == down' = IF Reaches(c) THEN [down EXCEPT ![c] = @ \o ms] ELSE down

(* A frame to a client that has gone raises WebSocketDisconnect. *)
SendFails(c) ==
  /\ srv[c].pc \in {"ready", "partial", "final", "tailfinal"} /\ ~Reaches(c)
  /\ Ends(c, "disconnected")
  /\ UNCHANGED <<browser, shown, up, down>>

Refuse(c, h) == Post(c, <<Plain("error"), Plain("close")>>) /\ Ends(c, h)

(* The first frame is not a start, or names a model nobody registered. *)
BadStart(c) ==
  /\ srv[c].pc = "start"
  /\ Refuse(c, "bad_request")
  /\ UNCHANGED <<browser, shown, up>>

Started(c) ==
  /\ srv[c].pc = "start"
  /\ At(c, "ready")
  /\ UNCHANGED <<browser, shown, up, down, how>>

Ready(c) ==
  /\ srv[c].pc = "ready"
  /\ Post(c, <<Plain("ready")>>)
  /\ At(c, "slot")
  /\ UNCHANGED <<browser, shown, up, how>>

SlotGranted(c) ==
  /\ srv[c].pc = "slot"
  /\ At(c, "receive")
  /\ UNCHANGED <<browser, shown, up, down, how>>

SlotTimeout(c) ==
  /\ srv[c].pc = "slot"
  /\ Refuse(c, "busy")
  /\ UNCHANGED <<browser, shown, up>>

(* Any other exception, of the engine in particular. *)
EngineFails(c) ==
  /\ srv[c].pc \in {"flush", "tail"}
  /\ Refuse(c, "error")
  /\ UNCHANGED <<browser, shown, up>>

(* The stream is exhausted: the route closes, unless the client has. *)
CloseDown_Forgotten(c) == UNCHANGED down

CloseDown(c) == Post(c, <<Plain("close")>>)

Finishes(c) ==
  /\ srv[c].pc = "close"
  /\ IF srv[c].gone THEN Ends(c, "disconnected") /\ UNCHANGED down
                    ELSE Ends(c, "ok") /\ CloseDown(c)
  /\ UNCHANGED <<browser, shown, up>>

-----------------------------------------------------------------------------
(* The server: transcribe_stream *)

Unfinished_BufferOnly(t) == t.buf # <<>>

(* What is left when the audio ends: a short block, or an open sentence. *)
Unfinished(t) == t.buf # <<>> \/ t.seg # <<>>

IsAudio_Unchecked(m) == m.kind # "disconnect"

IsAudio(m) == m.kind = "pcm"

Receive(c) ==
  /\ srv[c].pc = "receive" /\ up[c] # <<>>
  /\ LET m == Head(up[c])
         t == srv[c]
         buf == Append(t.buf, m.k)
     IN Task(c, IF IsAudio(m)
                  THEN [t EXCEPT !.buf = buf, !.seg = Append(@, m.k),
                                 !.pc = IF Len(buf) < Window THEN "receive" ELSE "flush"]
                  ELSE [t EXCEPT !.gone = (m.kind = "disconnect"),
                                 !.pc = IF Unfinished(t) THEN "tail" ELSE "close"])
  /\ up' = [up EXCEPT ![c] = Tail(@)]
  /\ UNCHANGED <<browser, shown, down, how>>

(* _flush, in a thread: both models take the block with their caches. *)
Flushed(t, p) ==
  [t EXCEPT !.text = @ \o Recognised(t.buf), !.cache = @ \o t.buf,
            !.buf = <<>>, !.pc = p]

Flush(c) ==
  /\ srv[c].pc = "flush"
  /\ Task(c, Flushed(srv[c], "partial"))
  /\ UNCHANGED <<browser, shown, up, down, how>>

(* The provisional text goes out; the voice detector may have heard the end *)
(* of the sentence in the block.                                            *)
SendPartial(c) ==
  /\ srv[c].pc = "partial"
  /\ Post(c, <<Text("partial", srv[c].id, srv[c].text)>>)
  /\ \E ended \in BOOLEAN : At(c, IF ended THEN "final" ELSE "receive")
  /\ UNCHANGED <<browser, shown, up, how>>

(* _correct: the offline model over the audio of the sentence, or the       *)
(* streaming text where that is off, fails, or hears nothing.               *)
Corrections(t) == {Recognised(t.seg), t.text}

NextSentence_SameCaches(t) ==
  [t EXCEPT !.id = @ + 1, !.text = <<>>, !.seg = <<>>, !.pc = "receive"]

NextSentence(t) ==
  [t EXCEPT !.id = @ + 1, !.text = <<>>, !.seg = <<>>, !.cache = <<>>, !.pc = "receive"]

SendFinal(c) ==
  /\ srv[c].pc = "final"
  /\ \E text \in Corrections(srv[c]) : Post(c, <<Text("final", srv[c].id, text)>>)
  /\ Task(c, NextSentence(srv[c]))
  /\ UNCHANGED <<browser, shown, up, how>>

FlushTail(c) ==
  /\ srv[c].pc = "tail"
  /\ Task(c, Flushed(srv[c], "tailfinal"))
  /\ UNCHANGED <<browser, shown, up, down, how>>

(* The last sentence is sent only if there is any text in it. *)
SendTail(c) ==
  /\ srv[c].pc = "tailfinal"
  /\ \E text \in Corrections(srv[c]) :
       IF text = <<>> THEN UNCHANGED down
                      ELSE Post(c, <<Text("final", srv[c].id, text)>>)
  /\ At(c, "close")
  /\ UNCHANGED <<browser, shown, up, how>>

-----------------------------------------------------------------------------
(* Specification *)

Button == Start \/ Cancel \/ StopRecording

Socket(c) == Opens(c) \/ ConnectTimeout(c) \/ Closed(c) \/ ConnectionLost(c) \/ Deliver(c)

Microphone(c) == MicGranted(c) \/ MicStarted(c) \/ MicFails(c) \/ Speaks(c)

Server(c) ==
  \/ SendFails(c) \/ BadStart(c) \/ Started(c) \/ Ready(c) \/ SlotGranted(c)
  \/ SlotTimeout(c) \/ EngineFails(c) \/ Finishes(c)
  \/ Receive(c) \/ Flush(c) \/ SendPartial(c) \/ SendFinal(c)
  \/ FlushTail(c) \/ SendTail(c)

Next == Button \/ \E c \in Conn : Socket(c) \/ Microphone(c) \/ Server(c)

(* The server's task goes on, frames that arrived are handled, and a        *)
(* closing socket closes.  Nobody has to press a button.                    *)
Fairness ==
  \A c \in Conn :
    /\ WF_vars(Server(c))
    /\ WF_vars(Deliver(c)) /\ WF_vars(Closed(c))

Spec == Init /\ [][Next]_vars /\ Fairness

-----------------------------------------------------------------------------
(* Properties *)

Pages   == {"idle", "connecting", "recording", "finalizing"}
Sockets == {"none", "connecting", "open", "closing", "closed"}
Recs    == {"none", "asked", "starting", "on", "abandoned", "off"}
Places  == {"none", "start", "ready", "slot", "receive", "flush", "partial",
            "final", "tail", "tailfinal", "close", "ended"}
Hows    == {"none", "bad_request", "busy", "error", "disconnected", "ok"}
Audio   == Seq(1 .. Chunks)

ToServer == {Pcm(k) : k \in 1 .. Chunks} \cup {End, Gone}
ToPage   == [kind : {"ready", "partial", "final", "error", "close"}, id : Nat, text : Audio]
Segment  == [id : Nat, text : Audio]
ATask    == [pc : Places, gone : BOOLEAN, buf : Audio, seg : Audio, text : Audio,
             cache : Audio, id : Nat]

(* The variables keep their types, and there is a recorder or a task only   *)
(* for a connection that was opened.                                        *)
TypeOK ==
  /\ page \in Pages /\ last \in 0 .. Starts
  /\ wsRef \in 0 .. last /\ recRef \in 0 .. last
  /\ sock \in [Conn -> Sockets] /\ rec \in [Conn -> Recs]
  /\ sent \in [Conn -> 0 .. Chunks]
  /\ up \in [Conn -> Seq(ToServer)] /\ down \in [Conn -> Seq(ToPage)]
  /\ committed \subseteq Segment /\ partial \in Segment
  /\ srv \in [Conn -> ATask]
  /\ how \in [Conn -> Hows]
  /\ \A c \in Conn : c > last => sock[c] = "none" /\ rec[c] = "none" /\ srv[c] = NewTask

(* Texts in the order of their segments. *)
InOrder(segments) ==
  LET TextOf(i) == IF \E x \in segments : x.id = i
                     THEN (CHOOSE x \in segments : x.id = i).text ELSE <<>>
      upto[n \in 0 .. Chunks + 1] == IF n = 0 THEN <<>> ELSE upto[n - 1] \o TextOf(n - 1)
  IN upto[Chunks + 1]

CommittedText == InOrder(committed)

Spoken == Recognised([k \in 1 .. sent[last] |-> k])

(* No caches or text of one sentence reach into the next; no audio is       *)
(* shown twice or out of order; and when the server has closed in its own   *)
(* time the page shows all that was said, none of it as provisional.        *)
TranscriptExact ==
  /\ \A c \in Conn : LET t == srv[c]
                     IN t.cache \o t.buf = t.seg /\ t.text = Recognised(t.cache)
  /\ last # 0 =>
       /\ CommittedText = SubSeq(Spoken, 1, Len(CommittedText))
       /\ how[last] = "ok" /\ sock[last] = "closing" =>
            CommittedText = Spoken /\ partial.text = <<>>

(* A recorder runs only for the connection the page holds, while the page   *)
(* shows that it records: none is left on by a cancel, a restart, or a      *)
(* permission granted late.                                                 *)
MicScoped ==
  \A c \in Conn : rec[c] = "on" => page = "recording" /\ wsRef = c /\ recRef = c

(* The button does not stay at "finalizing": a recording that was stopped   *)
(* ends, with its last text, an error, or a lost connection.                *)
FinalizingEnds == page = "finalizing" ~> page = "idle"
=============================================================================
