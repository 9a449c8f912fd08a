---------------------------- MODULE SpeechStream ----------------------------
(***************************************************************************)
(* One request on /ws/tts: the route (api/routes_tts.py), the generator    *)
(* Dispatcher.tts_stream it iterates over (orchestration/dispatcher.py),   *)
(* which holds a TTS slot of the limiter, and the generator                *)
(* CosyVoiceEngine.synthesize_stream inside it                             *)
(* (engines/cosyvoice_engine.py), which runs the model in a thread and     *)
(* takes its chunks from a bounded queue.                                  *)
(*                                                                         *)
(* Three parties run: the task of the request (pc), the thread (tpc), and  *)
(* the event loop, which lands the thread's puts and finalises a generator *)
(* that was dropped (fin).  Audio is a chunk number within a sentence.     *)
(***************************************************************************)
EXTENDS Naturals, Sequences

CONSTANTS
  Sentences,   \* sentences the text is split into
  MaxChunks,   \* bound: chunks the model makes of one sentence
  QueueMax     \* settings.tts_stream_queue_chunks

ASSUME StreamAssumption ==
  /\ Sentences \in Nat \ {0}
  /\ MaxChunks \in Nat
  /\ QueueMax \in Nat \ {0}

VARIABLES
  total, fails,   \* what the model makes of each sentence: fixed
  online,         \* the client still holds the WebSocket open
  pc,             \* what the request's task waits for
  answer,         \* how the request ends: the last frame, or "dropped"
  slot,           \* the TTS slot: "none", "held", "released"
  cur,            \* the sentence being synthesised
  got,            \* the last chunk the route was handed
  ending,         \* how synthesize_stream leaves its loop
  fin,            \* finalisation of a dropped synthesize_stream
  tpc,            \* where the thread is
  made,           \* chunks the thread has made of the sentence
  queue, offer,   \* the asyncio.Queue; the put under way, if any
  stop            \* the threading.Event

script  == <<total, fails>>
request == <<pc, answer, slot, cur, got, ending>>
thread  == <<tpc, made>>
vars    == <<script, online, request, fin, thread, queue, offer, stop>>

-----------------------------------------------------------------------------
(* Values *)

Place == [s : 1 .. Sentences, k : 0 .. MaxChunks]

Pcm(s, k) == [kind |-> "pcm", s |-> s, k |-> k]
Done(s)   == [kind |-> "done", s |-> s, k |-> 0]
Exc(s)    == [kind |-> "exc", s |-> s, k |-> 0]
Item      == [kind : {"pcm", "done", "exc"}, s : 1 .. Sentences, k : 0 .. MaxChunks]

Nothing == [kind |-> "none", s |-> 1, k |-> 0]

Init ==
  /\ total \in [1 .. Sentences -> 0 .. MaxChunks]
  /\ fails \in [1 .. Sentences -> BOOLEAN]
  /\ online = TRUE
  /\ pc = "request" /\ answer = "none" /\ slot = "none"
  /\ cur = 1 /\ got = [s |-> 1, k |-> 0] /\ ending = "none" /\ fin = "none"
  /\ tpc = "off" /\ made = 0 /\ queue = <<>> /\ offer = Nothing /\ stop = FALSE

-----------------------------------------------------------------------------
(* The request's task *)

(* A first frame that is not synthesize, an unknown model, a bad speed. *)
BadRequest ==
  /\ pc = "request"
  /\ pc' = "closed" /\ answer' = "bad_request"
  /\ UNCHANGED <<script, online, slot, cur, got, ending, fin, thread, queue,
                 offer, stop>>

Request ==
  /\ pc = "request"
  /\ pc' = "meta"
  /\ UNCHANGED <<script, online, answer, slot, cur, got, ending, fin, thread,
                 queue, offer, stop>>

(* The meta frame is out: the first anext enters guarded. *)
AfterMeta ==
  /\ pc = "meta"
  /\ pc' = "slot"
  /\ UNCHANGED <<script, online, answer, slot, cur, got, ending, fin, thread,
                 queue, offer, stop>>

(* The generator has not begun: closing it does nothing. *)
MetaFails ==
  /\ pc = "meta" /\ ~online
  /\ pc' = "closed" /\ answer' = "dropped"
  /\ UNCHANGED <<script, online, slot, cur, got, ending, fin, thread, queue,
                 offer, stop>>

SlotTimeout ==
  /\ pc = "slot"
  /\ pc' = "final" /\ answer' = "busy"
  /\ UNCHANGED <<script, online, slot, cur, got, ending, fin, thread, queue,
                 offer, stop>>

(* A new synthesize_stream: its queue, its event, its thread. *)
OpenSentence(s) ==
  /\ cur' = s
  /\ tpc' = "ready" /\ made' = 0
  /\ queue' = <<>> /\ offer' = Nothing /\ stop' = FALSE
  /\ ending' = "none"
  /\ pc' = "get"

SlotGranted ==
  /\ pc = "slot"
  /\ slot' = "held"
  /\ OpenSentence(1)
  /\ UNCHANGED <<script, online, answer, got, fin>>

(* queue.get: a chunk goes up to the route. *)
TakeChunk ==
  /\ pc = "get" /\ queue # <<>> /\ Head(queue).kind = "pcm"
  /\ queue' = Tail(queue)
  /\ got' = [s |-> Head(queue).s, k |-> Head(queue).k]
  /\ pc' = "send"
  /\ UNCHANGED <<script, online, answer, slot, cur, ending, fin, thread, offer,
                 stop>>

(* _DONE or an exception: the finally block sets stop and awaits the thread. *)
TakeEnd ==
  /\ pc = "get" /\ queue # <<>> /\ Head(queue).kind # "pcm"
  /\ queue' = Tail(queue)
  /\ ending' = Head(queue).kind
  /\ stop' = TRUE
  /\ pc' = "join"
  /\ UNCHANGED <<script, online, answer, slot, cur, got, fin, thread, offer>>

AfterBytes ==
  /\ pc = "send"
  /\ pc' = "get"
  /\ UNCHANGED <<script, online, answer, slot, cur, got, ending, fin, thread,
                 queue, offer, stop>>

(* The finally block does not wait for the thread. *)
ThreadOver_NotAwaited == TRUE

ThreadOver == tpc = "exited"

More_OffByOne == cur <= Sentences

More == cur < Sentences

(* The thread has exited: the next sentence, or the end of the stream,      *)
(* which releases the slot.                                                 *)
Joined ==
  /\ pc = "join" /\ ThreadOver
  /\ IF ending = "done" /\ More
     THEN OpenSentence(cur + 1) /\ UNCHANGED <<answer, slot>>
     ELSE /\ slot' = "released"
          /\ answer' = IF ending = "done" THEN "done" ELSE "error"
          /\ pc' = "final"
          /\ UNCHANGED <<cur, ending, thread, queue, offer, stop>>
  /\ UNCHANGED <<script, online, got, fin>>

(* send_bytes raises: the route closes the generator it iterates over.      *)
(* guarded is at its yield, leaves tts_slot and drops synthesize_stream,    *)
(* which the event loop finalises later.                                    *)
SendFails ==
  /\ pc = "send" /\ ~online
  /\ pc' = "closed" /\ answer' = "dropped"
  /\ slot' = "released"
  /\ fin' = "pending"
  /\ UNCHANGED <<script, online, cur, got, ending, thread, queue, offer, stop>>

(* The done, busy or error frame is out, or could not be sent. *)
AfterFinal ==
  /\ pc = "final"
  /\ pc' = "closed"
  /\ UNCHANGED <<script, online, answer, slot, cur, got, ending, fin, thread,
                 queue, offer, stop>>

-----------------------------------------------------------------------------
(* The thread: _produce and _put *)

(* The thread is started, and loads the model if it has to; the generator   *)
(* exists when the stop event is looked at.                                 *)
ThreadStarts ==
  /\ tpc = "ready"
  /\ tpc' = "check"
  /\ UNCHANGED <<script, online, request, fin, made, queue, offer, stop>>

CheckStop ==
  /\ tpc = "check"
  /\ tpc' = IF stop THEN "finally" ELSE "compute"
  /\ UNCHANGED <<script, online, request, fin, made, queue, offer, stop>>

MakeChunk ==
  /\ tpc = "compute" /\ made < total[cur]
  /\ made' = made + 1
  /\ offer' = Pcm(cur, made + 1)
  /\ tpc' = "put"
  /\ UNCHANGED <<script, online, request, fin, queue, stop>>

ModelEnds ==
  /\ tpc = "compute" /\ made = total[cur] /\ ~fails[cur]
  /\ tpc' = "finally"
  /\ UNCHANGED <<script, online, request, fin, made, queue, offer, stop>>

(* The except block only logs. *)
Forward_Swallowed == tpc' = "finally" /\ UNCHANGED offer

(* The except block forwards the exception unless stop is set. *)
Forward ==
  IF stop THEN tpc' = "finally" /\ UNCHANGED offer
          ELSE tpc' = "putExc" /\ offer' = Exc(cur)

ModelRaises ==
  /\ tpc = "compute" /\ made = total[cur] /\ fails[cur]
  /\ Forward
  /\ UNCHANGED <<script, online, request, fin, made, queue, stop>>

(* The finally block ends without the end marker. *)
PutDone_Missing == tpc' = "exited" /\ UNCHANGED offer

PutDone ==
  IF stop THEN tpc' = "exited" /\ UNCHANGED offer
          ELSE tpc' = "putDone" /\ offer' = Done(cur)

ThreadFinally ==
  /\ tpc = "finally"
  /\ PutDone
  /\ UNCHANGED <<script, online, request, fin, made, queue, stop>>

Putting == {"put", "putExc", "putDone"}

AfterPut == [put |-> "check", putExc |-> "finally", putDone |-> "exited"]

(* future.result returns: the put has landed. *)
PutReturns ==
  /\ tpc \in Putting /\ offer = Nothing
  /\ tpc' = AfterPut[tpc]
  /\ UNCHANGED <<script, online, request, fin, made, queue, offer, stop>>

(* _put waits for its future without looking at stop. *)
PutGivesUp_Never == FALSE /\ UNCHANGED <<tpc, offer>>

(* The poll of 0.1 s finds stop set: the put is cancelled. *)
PutGivesUp ==
  /\ stop /\ offer # Nothing
  /\ offer' = Nothing
  /\ tpc' = IF tpc = "putDone" THEN "exited" ELSE "finally"

PutCancelled ==
  /\ tpc \in Putting
  /\ PutGivesUp
  /\ UNCHANGED <<script, online, request, fin, made, queue, stop>>

-----------------------------------------------------------------------------
(* The event loop *)

Room_Unbounded == TRUE

Room == Len(queue) < QueueMax

(* queue.put(item), scheduled by run_coroutine_threadsafe, gets its turn. *)
PutLands ==
  /\ offer # Nothing /\ Room
  /\ queue' = Append(queue, offer)
  /\ offer' = Nothing
  /\ UNCHANGED <<script, online, request, fin, thread, stop>>

(* The finaliser of a dropped generator runs its finally block. *)
Finalise ==
  /\ fin = "pending"
  /\ stop' = TRUE
  /\ fin' = "joining"
  /\ UNCHANGED <<script, online, request, thread, queue, offer>>

Finalised ==
  /\ fin = "joining" /\ ThreadOver
  /\ fin' = "done"
  /\ UNCHANGED <<script, online, request, thread, queue, offer, stop>>

ClientLeaves ==
  /\ online
  /\ online' = FALSE
  /\ UNCHANGED <<script, request, fin, thread, queue, offer, stop>>

Task == \/ BadRequest \/ Request \/ AfterMeta \/ MetaFails \/ SlotTimeout
        \/ SlotGranted \/ TakeChunk \/ TakeEnd
        \/ AfterBytes \/ Joined \/ SendFails \/ AfterFinal

Thread == \/ ThreadStarts \/ CheckStop \/ MakeChunk \/ ModelEnds \/ ModelRaises
          \/ ThreadFinally \/ PutReturns \/ PutCancelled

Loop == PutLands \/ Finalise \/ Finalised

Next == Task \/ Thread \/ Loop \/ ClientLeaves

(* The task and the thread run whenever they can, and the model answers;    *)
(* the loop lands what fits and runs the finalisers it was given.  A send   *)
(* to a client ends.                                                        *)
Fairness == WF_vars(Task) /\ WF_vars(Thread) /\ WF_vars(PutLands)
            /\ WF_vars(Finalise \/ Finalised)

Spec == Init /\ [][Next]_vars /\ Fairness

-----------------------------------------------------------------------------
(* Properties *)

FlagsOK == online \in BOOLEAN /\ stop \in BOOLEAN

DataOK ==
  /\ total \in [1 .. Sentences -> 0 .. MaxChunks]
  /\ fails \in [1 .. Sentences -> BOOLEAN]
  /\ pc \in {"request", "meta", "slot", "get", "send", "join", "final", "closed"}
  /\ answer \in {"none", "bad_request", "busy", "error", "done", "dropped"}
  /\ slot \in {"none", "held", "released"}
  /\ cur \in 1 .. Sentences /\ got \in Place
  /\ ending \in {"none", "done", "exc"}
  /\ fin \in {"none", "pending", "joining", "done"}
  /\ tpc \in {"off", "ready", "check", "compute", "finally", "exited"} \cup Putting
  /\ made \in 0 .. MaxChunks
  /\ queue \in Seq(Item) /\ offer \in Item \cup {Nothing}

Running == tpc \notin {"off", "exited"}

TypeOK == FlagsOK /\ DataOK

(* Chunks of the present sentence the route was handed. *)
Taken == IF got.s = cur THEN got.k ELSE 0

(* Back-pressure: the model never runs further ahead of the client than the *)
(* queue and the one put that waits for room, however slowly it reads.      *)
Backpressure == made <= Taken + QueueMax + 1

(* A stream that was not dropped keeps its slot as long as its thread runs; *)
(* one that was is finalised before the finaliser reports it closed.        *)
GhostsWereDropped ==
  Running => slot = "held" \/ fin \in {"pending", "joining"}

(* The promise kept to the route, whatever thread, loop and client do. *)
Promise == INSTANCE SynthesisPromise
             WITH at <- got, result <- IF answer = "none" THEN "open" ELSE answer

KeepsPromise == Promise!Spec

(* The thread always ends, also when the client is gone and the queue full. *)
ThreadEnds == Running ~> ~Running

(* A request is always answered or dropped. *)
RequestEnds == pc = "slot" ~> pc = "closed"

(* The comment at the finally block of synthesize_stream: the slot is        *)
(* released only once the thread has exited.                                *)
NoGhostInference == Running => slot = "held"

=============================================================================
