------------------------------- MODULE Service -------------------------------
(***************************************************************************)
(* The life of the process: Lifecycle (orchestration/lifecycle.py), the    *)
(* DrainMiddleware every request passes (api/middleware.py), the shutdown  *)
(* half of lifespan (main.py), and the one AgentClient the chat sessions   *)
(* share, which lifespan closes last (engines/agent_client.py).            *)
(*                                                                         *)
(* The server may hand requests to the application until lifespan is over, *)
(* and those it did not wait for may run on after it.  A step runs from    *)
(* one await to the next.                                                  *)
(***************************************************************************)
EXTENDS Naturals, FiniteSets

CONSTANTS
  Chats,     \* sessions of /ws/chat in cascade mode
  Probes,    \* requests to /healthz and /readyz
  Others,    \* requests of any other kind
  Permits    \* settings.agent_concurrency

ASSUME ServiceAssumption ==
  /\ IsFiniteSet(Chats) /\ IsFiniteSet(Probes) /\ IsFiniteSet(Others)
  /\ Chats \cap Probes = {} /\ Chats \cap Others = {} /\ Probes \cap Others = {}
  /\ Permits \in Nat \ {0}

VARIABLES
  at,         \* where each request is
  inFlight,   \* Lifecycle._in_flight
  draining,   \* Lifecycle.draining
  idle,       \* Lifecycle._idle: "none" until it is made, "clear" or "set"
  pc,         \* where lifespan is
  woken,      \* the future of idle.wait() is resolved
  drained,    \* what wait_idle returned
  client,     \* AgentClient._client: "none", "open" or "closed"
  permits,    \* AgentClient._sem
  harmed      \* sessions whose stream the closing of the client broke

lifecycle == <<inFlight, draining, idle>>
shutdown  == <<pc, woken, drained>>
agent     == <<client, permits, harmed>>
vars      == <<at, lifecycle, shutdown, agent>>

Requests == Chats \cup Probes \cup Others

Init ==
  /\ at = [r \in Requests |-> "new"]
  /\ inFlight = 0 /\ draining = FALSE /\ idle = "none"
  /\ pc = "serving" /\ woken = FALSE /\ drained = "no"
  /\ client = "none" /\ permits = Permits /\ harmed = {}

Move(r, from, to) == at[r] = from /\ at' = [at EXCEPT ![r] = to]

-----------------------------------------------------------------------------
(* Lifecycle: enter, leave and the event *)

Enter ==
  /\ inFlight' = inFlight + 1
  /\ idle' = IF idle = "none" THEN idle ELSE "clear"

(* Setting the event resolves the future of a wait under way, for good: a   *)
(* request that enters afterwards clears the event, not the future.         *)
Leave ==
  /\ inFlight' = IF inFlight = 0 THEN 0 ELSE inFlight - 1
  /\ IF inFlight' = 0 /\ idle # "none"
       THEN idle' = "set" /\ woken' = (woken \/ pc = "waiting")
       ELSE UNCHANGED <<idle, woken>>

-----------------------------------------------------------------------------
(* DrainMiddleware *)

Turned_None(r) == FALSE

(* While draining only the health checks pass. *)
Turned(r) == draining /\ r \notin Probes

Refused(r) ==
  /\ pc # "over" /\ Turned(r)
  /\ Move(r, "new", "out")
  /\ UNCHANGED <<lifecycle, shutdown, agent>>

Enters(r) ==
  /\ pc # "over" /\ ~Turned(r)
  /\ Move(r, "new", "inside")
  /\ Enter
  /\ UNCHANGED <<draining, shutdown, agent>>

(* The application returns or raises: the finally block counts it out. *)
Leaves(r) ==
  /\ Move(r, "inside", "out")
  /\ Leave
  /\ UNCHANGED <<draining, pc, drained, agent>>

-----------------------------------------------------------------------------
(* AgentClient.stream_chat *)

HasPermit_Untested == TRUE

(* Without one the stream is refused at once, and nothing changes. *)
HasPermit == permits > 0

EnsureClient == client' = IF client = "none" THEN "open" ELSE client

StreamStarts(r) ==
  /\ r \in Chats /\ HasPermit /\ client # "closed"
  /\ Move(r, "inside", "streaming")
  /\ EnsureClient
  /\ permits' = permits - 1
  /\ UNCHANGED <<lifecycle, shutdown, harmed>>

(* A client that aclose has closed raises; the permit is given back, and    *)
(* the exception, not being an AgentError, ends the session.                *)
StreamOnClosedClient(r) ==
  /\ r \in Chats /\ at[r] = "inside"
  /\ HasPermit /\ client = "closed"
  /\ harmed' = harmed \cup {r}
  /\ UNCHANGED <<at, lifecycle, shutdown, client, permits>>

PermitBack_OnSuccess ==
  permits' = IF client = "open" THEN permits + 1 ELSE permits

(* The finally block: on the end, an error, or a cancelled consumer.        *)
PermitBack == permits' = permits + 1

StreamEnds(r) ==
  /\ Move(r, "streaming", "inside")
  /\ PermitBack
  /\ UNCHANGED <<lifecycle, shutdown, client, harmed>>

-----------------------------------------------------------------------------
(* lifespan, after its yield *)

(* wait_idle returns, and aclose runs to its first await: the client is     *)
(* closed under the sessions that still stream.                             *)
Return(how) ==
  /\ drained' = how
  /\ IF client = "open"
       THEN /\ pc' = "closing" /\ client' = "closed"
            /\ harmed' = harmed \cup {r \in Chats : at[r] = "streaming"}
       ELSE pc' = "over" /\ UNCHANGED <<client, harmed>>

Wait(p) == pc' = p /\ UNCHANGED <<drained, client, harmed>>

(* begin_drain, and wait_idle as far as its first await: the event is made  *)
(* only when there is something to wait for.                                *)
BeginDrain ==
  /\ pc = "serving"
  /\ draining' = TRUE
  /\ IF inFlight = 0
       THEN Return("idle") /\ UNCHANGED idle
       ELSE idle' = "clear" /\ Wait("arming")
  /\ UNCHANGED <<at, inFlight, woken, permits>>

Arm_Untested == Wait("waiting")

(* idle.wait begins: an event set already is not waited for. *)
Arm == IF idle = "set" THEN Return("idle") ELSE Wait("waiting")

WaitBegins ==
  /\ pc = "arming"
  /\ Arm
  /\ UNCHANGED <<at, lifecycle, woken, permits>>

WaitEnds ==
  /\ pc = "waiting" /\ woken
  /\ Return("idle")
  /\ UNCHANGED <<at, lifecycle, woken, permits>>

DrainTimeout ==
  /\ pc \in {"arming", "waiting"}
  /\ Return("timeout")
  /\ UNCHANGED <<at, lifecycle, woken, permits>>

(* aclose is over: a session that goes on makes itself a new client. *)
ShutdownOver ==
  /\ pc = "closing"
  /\ pc' = "over"
  /\ client' = "none"
  /\ UNCHANGED <<at, lifecycle, woken, drained, permits, harmed>>

-----------------------------------------------------------------------------
(* Specification *)

RequestStep(r) ==
  \/ Refused(r) \/ Enters(r) \/ Leaves(r)
  \/ StreamStarts(r) \/ StreamOnClosedClient(r) \/ StreamEnds(r)

Lifespan == BeginDrain \/ WaitBegins \/ WaitEnds \/ DrainTimeout \/ ShutdownOver

Next == Lifespan \/ \E r \in Requests : RequestStep(r)

Spec == Init /\ [][Next]_vars

-----------------------------------------------------------------------------
(* Properties *)

(* The variables keep their types; in_flight never needs its max(0, ..). *)
TypeOK ==
  /\ at \in [Requests -> {"new", "inside", "streaming", "out"}]
  /\ inFlight \in Nat /\ draining \in BOOLEAN
  /\ idle \in {"none", "clear", "set"}
  /\ pc \in {"serving", "arming", "waiting", "closing", "over"}
  /\ woken \in BOOLEAN /\ drained \in {"no", "idle", "timeout"}
  /\ client \in {"none", "open", "closed"} /\ permits \in 0 .. Permits
  /\ harmed \subseteq Chats

Streaming == {r \in Requests : at[r] = "streaming"}
Inside    == {r \in Requests : at[r] \in {"inside", "streaming"}}

(* The counter the drain goes by counts the requests in the application,    *)
(* and no permit of the agent is lost, however streams and requests end.    *)
CountsExact ==
  /\ inFlight = Cardinality(Inside)
  /\ permits + Cardinality(Streaming) = Permits

(* A drain whose last request has left does not sit out its timeout: the    *)
(* event is set, or the wait resolved, whatever health checks came between. *)
NoLostWakeup ==
  inFlight = 0 => /\ pc = "arming" => idle = "set"
                  /\ pc = "waiting" => woken

(* When wait_idle returns True no session is cut, none streams on a closed  *)
(* client, none opens a client that nobody closes: only health checks are,  *)
(* and will be, inside.                                                     *)
CleanExit ==
  drained # "timeout" =>
    /\ drained = "idle" => Inside \subseteq Probes
    /\ harmed = {}
    /\ pc = "over" => client = "none"
=============================================================================
