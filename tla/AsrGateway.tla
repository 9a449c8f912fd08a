----------------------------- MODULE AsrGateway -----------------------------
(***************************************************************************)
(* File recognition: the route POST /api/v1/asr (api/routes_asr.py) and    *)
(* Dispatcher.asr_file, which walks the chain of engines, skips those the  *)
(* CircuitBreaker has opened, and holds a slot of GpuLimiter around each   *)
(* inference.  The recognition streams appear as what they are to it: the  *)
(* other holders of the same slots.                                        *)
(*                                                                         *)
(* Engines are numbered in the order of their registration.  All declare   *)
(* the same contract, so a request is preprocessed at most once.  Time is  *)
(* left out: a cooldown may be over at any moment.  A step runs from one   *)
(* await to the next.                                                      *)
(***************************************************************************)
EXTENDS Naturals, FiniteSets

CONSTANTS
  Requests,    \* requests to POST /api/v1/asr
  Engines,     \* registered ASR engines
  Asked,       \* those that requests name, or that is the default
  Permits,     \* settings.asr_concurrency
  Threshold,   \* settings.breaker_fail_threshold
  Fallback,    \* settings.asr_fallback_enabled
  TimeoutOn    \* settings.asr_infer_timeout > 0

ASSUME GatewayAssumption ==
  /\ IsFiniteSet(Requests)
  /\ Engines \in Nat \ {0}
  /\ Asked \subseteq 1 .. Engines
  /\ Permits \in Nat \ {0}
  /\ Threshold \in Nat \ {0}
  /\ Fallback \in BOOLEAN /\ TimeoutOn \in BOOLEAN

VARIABLES
  pc,        \* what each request waits for
  primary,   \* the engine it asked for, or the default one
  cur,       \* the engine it is bound to
  verdict,   \* what became of each engine for this request
  answer,    \* how it ended
  running,   \* inference threads: <<request, engine>>
  permits,   \* the ASR semaphore
  streams,   \* slots held by recognition streams
  fails,     \* CircuitBreaker._fails
  open       \* engines whose _open_until is in the future

request == <<pc, primary, cur, verdict, answer>>
slots   == <<permits, streams>>
breaker == <<fails, open>>
vars    == <<request, running, slots, breaker>>

-----------------------------------------------------------------------------
(* The chain of engines *)

Engine == 1 .. Engines

Failed == {"failed", "timed_out"}

ChainOf(p) == IF Fallback THEN Engine ELSE {p}

(* The chain has the primary first, the others as registered. *)
Precedes(p, e, f) == e # f /\ (e = p \/ (f # p /\ e < f))

Init ==
  /\ pc = [r \in Requests |-> "idle"]
  /\ primary = [r \in Requests |-> 1]
  /\ cur = [r \in Requests |-> 1]
  /\ verdict = [r \in Requests |-> [e \in Engine |-> "untried"]]
  /\ answer = [r \in Requests |-> "none"]
  /\ running = {}
  /\ permits = Permits /\ streams = 0
  /\ fails = [e \in Engine |-> 0] /\ open = {}

-----------------------------------------------------------------------------
(* The breaker *)

RecordFailure(e) ==
  /\ fails' = [fails EXCEPT ![e] = @ + 1]
  /\ open' = IF fails[e] + 1 >= Threshold THEN open \cup {e} ELSE open

RecordSuccess(e) ==
  /\ fails' = [fails EXCEPT ![e] = 0]
  /\ open' = open \ {e}

(* The engine counts as well again; its failures are not forgotten. *)
CooldownOver(e) ==
  /\ e \in open
  /\ open' = open \ {e}
  /\ UNCHANGED <<request, running, slots, fails>>

-----------------------------------------------------------------------------
(* The limiter *)

Acquire == permits > 0 /\ permits' = permits - 1

Release_Lost == UNCHANGED permits

Release_Twice == permits' = permits + 2

Release == permits' = permits + 1

StreamOpens ==
  /\ Acquire
  /\ streams' = streams + 1
  /\ UNCHANGED <<request, running, breaker>>

StreamEnds ==
  /\ streams > 0
  /\ streams' = streams - 1
  /\ Release
  /\ UNCHANGED <<request, running, breaker>>

-----------------------------------------------------------------------------
(* One request *)

Finish(r, a) ==
  /\ pc' = [pc EXCEPT ![r] = "done"]
  /\ answer' = [answer EXCEPT ![r] = a]

Available_Unchecked(left) == left

(* The engines left that is_open does not rule out. *)
Available(left) == left \ open

(* The for loop goes on with verdicts v: open engines are skipped up to the *)
(* next sound one; when there is none the last exception is raised, or the  *)
(* error of a chain that is open altogether.                                *)
GoOn(r, p, v) ==
  LET left  == {e \in ChainOf(p) : v[e] = "untried"}
      sound == Available(left)
      tried == \E e \in Engine : v[e] \in Failed
      Skip(S) == verdict' = [verdict EXCEPT ![r] =
                   [e \in Engine |-> IF e \in S THEN "skipped" ELSE v[e]]]
  IN \/ \E e \in sound :
          /\ \A f \in sound : f = e \/ Precedes(p, e, f)
          /\ Skip({f \in left : Precedes(p, f, e)})
          /\ cur' = [cur EXCEPT ![r] = e]
          /\ pc' = [pc EXCEPT ![r] = IF tried THEN "queue" ELSE "prepare"]
          /\ UNCHANGED answer
     \/ /\ sound = {}
        /\ Skip(left)
        /\ Finish(r, IF tried THEN "error" ELSE "unavailable")
        /\ UNCHANGED cur

(* An upload that is empty or too large, or a model nobody registered. *)
Refused(r) ==
  /\ pc[r] = "idle"
  /\ Finish(r, "refused")
  /\ UNCHANGED <<primary, cur, verdict, running, slots, breaker>>

Arrives(r, p) ==
  /\ pc[r] = "idle"
  /\ primary' = [primary EXCEPT ![r] = p]
  /\ GoOn(r, p, verdict[r])
  /\ UNCHANGED <<running, slots, breaker>>

Prepared(r) ==
  /\ pc[r] = "prepare"
  /\ pc' = [pc EXCEPT ![r] = "queue"]
  /\ UNCHANGED <<primary, cur, verdict, answer, running, slots, breaker>>

BadAudio(r) ==
  /\ pc[r] = "prepare"
  /\ Finish(r, "bad_audio")
  /\ UNCHANGED <<primary, cur, verdict, running, slots, breaker>>

SlotGranted(r) ==
  /\ pc[r] = "queue"
  /\ Acquire
  /\ pc' = [pc EXCEPT ![r] = "infer"]
  /\ running' = running \cup {<<r, cur[r]>>}
  /\ UNCHANGED <<primary, cur, verdict, answer, streams, breaker>>

SlotTimeout_CountsAsFailure(r) ==
  /\ pc[r] = "queue" /\ permits = 0
  /\ Finish(r, "busy")
  /\ RecordFailure(cur[r])
  /\ UNCHANGED <<primary, cur, verdict, running, slots>>

SlotTimeout_Never(r) == FALSE

(* The slot did not come within acquire_timeout: no fault of the engine. *)
SlotTimeout(r) ==
  /\ pc[r] = "queue" /\ permits = 0
  /\ Finish(r, "busy")
  /\ UNCHANGED <<primary, cur, verdict, running, slots, breaker>>

Answered(r) ==
  /\ pc[r] = "infer"
  /\ verdict' = [verdict EXCEPT ![r][cur[r]] = "answered"]
  /\ Finish(r, "ok")
  /\ RecordSuccess(cur[r])
  /\ Release
  /\ running' = running \ {<<r, cur[r]>>}
  /\ UNCHANGED <<primary, cur, streams>>

Verdict(r, how) == [verdict[r] EXCEPT ![cur[r]] = how]

(* Every way out of the slot but an answer: the breaker is told, the next   *)
(* engine tried.                                                            *)
GivesUp(r, how) ==
  /\ pc[r] = "infer"
  /\ Release
  /\ RecordFailure(cur[r])
  /\ GoOn(r, primary[r], Verdict(r, how))
  /\ UNCHANGED <<primary, streams>>

InferenceFails(r) ==
  /\ GivesUp(r, "failed")
  /\ running' = running \ {<<r, cur[r]>>}

(* wait_for cancels the coroutine; the thread under it runs on. *)
InferenceTimesOut(r) ==
  /\ TimeoutOn
  /\ GivesUp(r, "timed_out")
  /\ UNCHANGED running

InferenceEndsLate(r, e) ==
  /\ <<r, e>> \in running /\ verdict[r][e] = "timed_out"
  /\ running' = running \ {<<r, e>>}
  /\ UNCHANGED <<request, slots, breaker>>

-----------------------------------------------------------------------------
(* Specification *)

(* What a request does once it is in: to_thread, the semaphore or its       *)
(* timeout, and the model all answer in the end.                            *)
Progress(r) ==
  \/ Prepared(r) \/ BadAudio(r) \/ SlotGranted(r) \/ SlotTimeout(r)
  \/ Answered(r) \/ InferenceFails(r) \/ InferenceTimesOut(r)

Request(r) == Refused(r) \/ (\E p \in Asked : Arrives(r, p)) \/ Progress(r)

Others ==
  \/ StreamOpens \/ StreamEnds
  \/ \E e \in Engine : CooldownOver(e)
  \/ \E r \in Requests, e \in Engine : InferenceEndsLate(r, e)

Next == (\E r \in Requests : Request(r)) \/ Others

Fairness == \A r \in Requests : WF_vars(Progress(r))

Spec == Init /\ [][Next]_vars /\ Fairness

-----------------------------------------------------------------------------
(* Properties *)

Places  == {"idle", "prepare", "queue", "infer", "done"}
Answers == {"none", "refused", "bad_audio", "busy", "ok", "error", "unavailable"}
Verdicts == {"untried", "skipped", "answered"} \cup Failed

(* The variables keep their types. *)
TypeOK ==
  /\ pc \in [Requests -> Places]
  /\ primary \in [Requests -> Engine] /\ cur \in [Requests -> Engine]
  /\ verdict \in [Requests -> [Engine -> Verdicts]]
  /\ answer \in [Requests -> Answers]
  /\ running \subseteq Requests \X Engine
  /\ permits \in 0 .. Permits /\ streams \in 0 .. Permits
  /\ fails \in [Engine -> Nat] /\ open \subseteq Engine

InSlot == {r \in Requests : pc[r] = "infer"}

(* No permit is lost or made on any way out of a slot, and a model runs     *)
(* outside a slot only where wait_for gave its call up: with no inference   *)
(* timeout, as many models run at once as there are permits, at most.       *)
SlotsAccounted ==
  /\ permits + streams + Cardinality(InSlot) = Permits
  /\ \A r \in InSlot : <<r, cur[r]>> \in running
  /\ \A c \in running : \/ (c[1] \in InSlot /\ cur[c[1]] = c[2])
                         \/ (TimeoutOn /\ verdict[c[1]][c[2]] = "timed_out")

Passed(r, e) == verdict[r][e] \in Failed \cup {"skipped"}

AnswerJustified(r) ==
  /\ answer[r] = "ok" =>
       /\ verdict[r][cur[r]] = "answered"
       /\ cur[r] # primary[r] =>
            /\ Fallback /\ Passed(r, primary[r])
            /\ \A e \in 1 .. (cur[r] - 1) : Passed(r, e)
  /\ answer[r] \in {"error", "unavailable"} =>
       \A e \in ChainOf(primary[r]) : Passed(r, e)
  /\ answer[r] = "error" <=>
       pc[r] = "done" /\ (\E e \in Engine : verdict[r][e] \in Failed)
                      /\ (\A e \in ChainOf(primary[r]) : Passed(r, e))
  /\ answer[r] \in {"busy", "bad_audio"} => verdict[r][cur[r]] = "untried"

(* An answer comes from an engine only when every engine before it in the   *)
(* chain failed or was skipped; a request ends with an engine's error, or   *)
(* as unavailable, only when no engine of the chain is left; an overload    *)
(* leaves the engine without a verdict.  An engine is open only if          *)
(* Threshold requests failed on it: neither an overload of the limiter nor  *)
(* a bad upload ever opens one.                                             *)
Justified ==
  /\ \A r \in Requests : AnswerJustified(r)
  /\ \A e \in open :
       Cardinality({r \in Requests : verdict[r][e] \in Failed}) >= Threshold

Bound(e) == {r \in Requests : pc[r] \in {"prepare", "queue", "infer"} /\ cur[r] = e}

(* While an engine stays open no further request is bound to it: what it    *)
(* still gets was let through before.                                       *)
OpenEngineShielded ==
  [][\A e \in Engine : e \in open /\ e \in open' => Bound(e)' \subseteq Bound(e)]_vars

(* Every request is answered, whatever fails and whoever holds the slots.   *)
RequestEnds == \A r \in Requests : pc[r] # "idle" ~> pc[r] = "done"
=============================================================================
