---------------------------- MODULE ServiceProofs ----------------------------
(***************************************************************************)
(* Proofs about Service: its type invariant, the exact counts, the drain   *)
(* that wakes, and the clean exit.                                         *)
(*                                                                         *)
(* Everything hangs on the counter agreeing with the requests that are in  *)
(* (CountsExact), which is a fact about cardinalities: entering and        *)
(* leaving change both by one.  Wake adds what lifespan relies on between  *)
(* its steps: an event that is set means nobody is in, and a wait that was *)
(* woken means that only health checks have come since.                    *)
(***************************************************************************)
EXTENDS Service, FiniteSetTheorems, TLAPS

At == {"new", "inside", "streaming", "out"}

Types ==
  /\ at \in [Requests -> At]
  /\ inFlight \in Nat /\ draining \in BOOLEAN
  /\ idle \in {"none", "clear", "set"}
  /\ pc \in {"serving", "arming", "waiting", "closing", "over"}
  /\ woken \in BOOLEAN /\ drained \in {"no", "idle", "timeout"}
  /\ client \in {"none", "open", "closed"} /\ permits \in Nat
  /\ harmed \subseteq Chats

Wake ==
  /\ draining <=> pc # "serving"
  /\ drained = "no" <=> pc \in {"serving", "arming", "waiting"}
  /\ pc \in {"arming", "waiting"} => idle # "none"
  /\ idle = "set" => inFlight = 0
  /\ woken => draining /\ Inside \subseteq Probes
  /\ client = "closed" => pc = "closing"

(***************************************************************************)
(* Sets and their sizes                                                    *)
(***************************************************************************)

(* One element more, and one element less. *)
LEMMA OneMore ==
  ASSUME NEW S, IsFiniteSet(S), NEW x, x \notin S
  PROVE  /\ IsFiniteSet(S \cup {x})
         /\ Cardinality(S \cup {x}) = Cardinality(S) + 1
  BY FS_AddElement

LEMMA OneLess ==
  ASSUME NEW S, IsFiniteSet(S), NEW x \in S
  PROVE  Cardinality(S \ {x}) = Cardinality(S) - 1
  BY FS_RemoveElement

LEMMA FiniteRequests == IsFiniteSet(Requests)
  BY FS_Union, ServiceAssumption DEF Requests

LEMMA FiniteParts ==
  /\ IsFiniteSet(Inside) /\ Cardinality(Inside) \in Nat
  /\ IsFiniteSet(Streaming) /\ Cardinality(Streaming) \in Nat
<1>1. Inside \subseteq Requests /\ Streaming \subseteq Requests
  BY DEF Inside, Streaming
<1> QED
  BY <1>1, FiniteRequests, FS_Subset, FS_CardinalityType

(* What a request that moves does to the two sets. *)
LEMMA MoveSets ==
  ASSUME Types, NEW r \in Requests, NEW from \in At, NEW to \in At, Move(r, from, to)
  PROVE  /\ at' \in [Requests -> At]
         /\ Inside' = IF to \in {"inside", "streaming"} THEN Inside \cup {r} ELSE Inside \ {r}
         /\ Streaming' = IF to = "streaming" THEN Streaming \cup {r} ELSE Streaming \ {r}
         /\ r \in Inside <=> from \in {"inside", "streaming"}
         /\ r \in Streaming <=> from = "streaming"
  BY DEF Types, Move, Inside, Streaming

LEMMA StaySets == at' = at => Inside' = Inside /\ Streaming' = Streaming
  BY DEF Inside, Streaming

(***************************************************************************)
(* Counts                                                                  *)
(***************************************************************************)

LEMMA CountsInit == Init => Types /\ CountsExact
<1> SUFFICES ASSUME Init PROVE Types /\ CountsExact
  OBVIOUS
<1>1. Inside = {} /\ Streaming = {}
  BY DEF Init, Inside, Streaming
<1>2. Cardinality({}) = 0
  BY FS_EmptySet
<1>3. Permits \in Nat
  BY ServiceAssumption
<1>4. Types
  <2>1. at \in [Requests -> At]
    BY DEF Init, At
  <2>2. harmed \subseteq Chats
    BY DEF Init
  <2> QED
    BY <2>1, <2>2, <1>3 DEF Init, Types
<1>5. CountsExact
  BY <1>1, <1>2, <1>3 DEF Init, CountsExact
<1> QED
  BY <1>4, <1>5

LEMMA CountsStep == Types /\ CountsExact /\ [Next]_vars => Types' /\ CountsExact'
<1> SUFFICES ASSUME Types, CountsExact, [Next]_vars PROVE Types' /\ CountsExact'
  OBVIOUS
<1> USE DEF At, lifecycle, shutdown, agent
<1>1. ASSUME NEW r \in Requests, Refused(r) PROVE Types' /\ CountsExact'
  <2>1. Move(r, "new", "out")
    BY <1>1 DEF Refused
  <2>2. Inside' = Inside /\ Streaming' = Streaming /\ at' \in [Requests -> At]
    BY <2>1, MoveSets
  <2> QED
    BY <1>1, <2>2 DEF Refused, Types, CountsExact
<1>2. ASSUME NEW r \in Requests, Enters(r) PROVE Types' /\ CountsExact'
  <2>1. Move(r, "new", "inside")
    BY <1>2 DEF Enters
  <2>2. /\ Inside' = Inside \cup {r} /\ r \notin Inside
        /\ Streaming' = Streaming /\ at' \in [Requests -> At]
    BY <2>1, MoveSets
  <2>3. Cardinality(Inside') = Cardinality(Inside) + 1
    BY <2>2, FiniteParts, OneMore
  <2> QED
    BY <1>2, <2>2, <2>3 DEF Enters, Enter, Types, CountsExact
<1>3. ASSUME NEW r \in Requests, Leaves(r) PROVE Types' /\ CountsExact'
  <2>1. Move(r, "inside", "out")
    BY <1>3 DEF Leaves
  <2>2. /\ Inside' = Inside \ {r} /\ r \in Inside
        /\ Streaming' = Streaming /\ at' \in [Requests -> At]
    BY <2>1, MoveSets
  <2>3. Cardinality(Inside') = Cardinality(Inside) - 1 /\ Cardinality(Inside') \in Nat
    <3>1. IsFiniteSet(Inside \ {r})
      BY FiniteParts, FS_Subset
    <3> QED
      BY <2>2, <3>1, FiniteParts, OneLess, FS_CardinalityType
  <2>4. inFlight # 0
    BY <2>3, FiniteParts DEF CountsExact
  <2> QED
    BY <1>3, <2>2, <2>3, <2>4 DEF Leaves, Leave, Types, CountsExact
<1>4. ASSUME NEW r \in Requests, StreamStarts(r) PROVE Types' /\ CountsExact'
  <2>1. Move(r, "inside", "streaming")
    BY <1>4 DEF StreamStarts
  <2>2. /\ Streaming' = Streaming \cup {r} /\ r \notin Streaming
        /\ Inside' = Inside /\ at' \in [Requests -> At]
    BY <2>1, MoveSets
  <2>3. Cardinality(Streaming') = Cardinality(Streaming) + 1
    BY <2>2, FiniteParts, OneMore
  <2> QED
    BY <1>4, <2>2, <2>3, FiniteParts DEF StreamStarts, HasPermit, EnsureClient, Types, CountsExact
<1>5. ASSUME NEW r \in Requests, StreamOnClosedClient(r) PROVE Types' /\ CountsExact'
  BY <1>5, StaySets DEF StreamOnClosedClient, Types, CountsExact
<1>6. ASSUME NEW r \in Requests, StreamEnds(r) PROVE Types' /\ CountsExact'
  <2>1. Move(r, "streaming", "inside")
    BY <1>6 DEF StreamEnds
  <2>2. /\ Streaming' = Streaming \ {r} /\ r \in Streaming
        /\ Inside' = Inside /\ at' \in [Requests -> At]
    BY <2>1, MoveSets
  <2>3. Cardinality(Streaming') = Cardinality(Streaming) - 1
    BY <2>2, FiniteParts, OneLess
  <2> QED
    BY <1>6, <2>2, <2>3, FiniteParts DEF StreamEnds, PermitBack, Types, CountsExact
<1>7. CASE Lifespan
  <2>1. at' = at /\ inFlight' = inFlight /\ permits' = permits
    BY <1>7 DEF Lifespan, BeginDrain, WaitBegins, WaitEnds, DrainTimeout, ShutdownOver
  <2>2. Types'
    BY <1>7, <2>1 DEF Lifespan, BeginDrain, WaitBegins, WaitEnds, DrainTimeout,
       ShutdownOver, Arm, Wait, Return, Types
  <2> QED
    BY <2>1, <2>2, StaySets DEF CountsExact
<1>8. CASE UNCHANGED vars
  BY <1>8, StaySets DEF vars, Types, CountsExact
<1> QED
  BY <1>1, <1>2, <1>3, <1>4, <1>5, <1>6, <1>7, <1>8 DEF Next, RequestStep

(***************************************************************************)
(* The type invariant and the counts, as theorems of the specification.    *)
(***************************************************************************)

(* For any number of requests and permits the counter the drain goes by     *)
(* counts the requests inside, and no permit of the agent is lost.          *)
THEOREM CountsAreExact == Spec => []CountsExact
<1>1. Spec => [](Types /\ CountsExact)
  BY CountsInit, CountsStep, PTL DEF Spec
<1> QED
  BY <1>1, PTL

(* Every variable keeps its type: with the counts, the permits stay within  *)
(* agent_concurrency.                                                       *)
THEOREM TypeCorrect == Spec => []TypeOK
<1>1. Types /\ CountsExact => TypeOK
  <2> SUFFICES ASSUME Types, CountsExact PROVE TypeOK
    OBVIOUS
  <2>1. permits \in 0 .. Permits
    BY FiniteParts, ServiceAssumption DEF Types, CountsExact
  <2> QED
    BY <2>1 DEF Types, TypeOK, At
<1> QED
  BY <1>1, CountsInit, CountsStep, PTL DEF Spec

(***************************************************************************)
(* The drain wakes, and an exit that was waited for is clean               *)
(***************************************************************************)

IInv == Types /\ CountsExact /\ Wake /\ NoLostWakeup /\ CleanExit

(* When the counter is at zero nobody is inside, and the other way round.   *)
LEMMA NobodyInside == CountsExact => (inFlight = 0 <=> Inside = {})
  BY FiniteParts, FS_EmptySet DEF CountsExact

LEMMA DrainInit == Init => Wake /\ NoLostWakeup /\ CleanExit
  BY DEF Init, Wake, NoLostWakeup, CleanExit

(* A drained process has no chat session inside, so none of its streams.    *)
LEMMA NoChatInside ==
  ASSUME Types, Inside \subseteq Probes, NEW r \in Chats
  PROVE  r \notin Inside /\ at[r] \notin {"inside", "streaming"}
  BY ServiceAssumption DEF Inside, Requests

(* wait_idle returns "idle": what follows is clean. *)
LEMMA ReturnIsClean ==
  ASSUME IInv, pc \in {"serving", "arming", "waiting"}, Inside \subseteq Probes,
         Return("idle"), at' = at
  PROVE  /\ drained' = "idle" /\ harmed' = {} /\ Inside' \subseteq Probes
         /\ \/ pc' = "closing" /\ client' = "closed"
            \/ pc' = "over" /\ client' = "none"
<1>1. harmed = {} /\ client # "closed" /\ client \in {"none", "open", "closed"}
  BY DEF IInv, Types, Wake, CleanExit
<1>2. {r \in Chats : at[r] = "streaming"} = {}
  BY NoChatInside DEF IInv
<1>3. Inside' = Inside
  BY StaySets
<1> QED
  BY <1>1, <1>2, <1>3 DEF Return

LEMMA DrainStep == IInv /\ [Next]_vars => Wake' /\ NoLostWakeup' /\ CleanExit'
<1> SUFFICES ASSUME IInv, [Next]_vars PROVE Wake' /\ NoLostWakeup' /\ CleanExit'
  OBVIOUS
<1> USE DEF IInv, At, lifecycle, shutdown, agent
<1>1. ASSUME NEW r \in Requests, Refused(r) PROVE Wake' /\ NoLostWakeup' /\ CleanExit'
  <2>1. Inside' = Inside
    BY <1>1, MoveSets DEF Refused
  <2> QED
    BY <1>1, <2>1 DEF Refused, Wake, NoLostWakeup, CleanExit
<1>2. ASSUME NEW r \in Requests, Enters(r) PROVE Wake' /\ NoLostWakeup' /\ CleanExit'
  <2>1. Inside' = Inside \cup {r}
    BY <1>2, MoveSets DEF Enters
  <2>2. draining => r \in Probes
    BY <1>2 DEF Enters, Turned
  <2>3. inFlight' # 0 /\ idle' # "set"
    BY <1>2 DEF Enters, Enter, Types, Wake
  <2> QED
    BY <1>2, <2>1, <2>2, <2>3 DEF Enters, Enter, Types, Wake, NoLostWakeup, CleanExit
<1>3. ASSUME NEW r \in Requests, Leaves(r) PROVE Wake' /\ NoLostWakeup' /\ CleanExit'
  <2>1. Inside' = Inside \ {r} /\ r \in Inside
    BY <1>3, MoveSets DEF Leaves
  <2>2. inFlight # 0 /\ idle # "set"
    BY <2>1, NobodyInside DEF Wake
  <2>3. CountsExact'
    BY CountsStep
  <2>4. inFlight' = 0 => Inside' = {}
    BY <2>1, <2>3, FiniteParts, FS_EmptySet, FS_Subset DEF CountsExact
  <2>5. CASE inFlight' = 0 /\ idle # "none"
    BY <1>3, <2>1, <2>4, <2>5 DEF Leaves, Leave, Wake, NoLostWakeup, CleanExit
  <2>6. CASE ~(inFlight' = 0 /\ idle # "none")
    BY <1>3, <2>1, <2>2, <2>6 DEF Leaves, Leave, Wake, NoLostWakeup, CleanExit
  <2> QED
    BY <2>5, <2>6
<1>4. ASSUME NEW r \in Requests, StreamStarts(r) PROVE Wake' /\ NoLostWakeup' /\ CleanExit'
  <2>1. Inside' = Inside /\ r \in Inside
    BY <1>4, MoveSets DEF StreamStarts
  <2>2. drained # "idle"
    BY <1>4, <2>1, NoChatInside DEF StreamStarts, CleanExit
  <2> QED
    BY <1>4, <2>1, <2>2 DEF StreamStarts, EnsureClient, Types, Wake, NoLostWakeup, CleanExit
<1>5. ASSUME NEW r \in Requests, StreamOnClosedClient(r)
      PROVE  Wake' /\ NoLostWakeup' /\ CleanExit'
  <2>1. drained = "timeout"
    BY <1>5, NoChatInside DEF StreamOnClosedClient, Types, Wake, CleanExit
  <2> QED
    BY <1>5, <2>1, StaySets DEF StreamOnClosedClient, Wake, NoLostWakeup, CleanExit
<1>6. ASSUME NEW r \in Requests, StreamEnds(r) PROVE Wake' /\ NoLostWakeup' /\ CleanExit'
  <2>1. Inside' = Inside
    BY <1>6, MoveSets DEF StreamEnds
  <2> QED
    BY <1>6, <2>1 DEF StreamEnds, Wake, NoLostWakeup, CleanExit
<1>7. CASE Lifespan
  <2>0. at' = at /\ Inside' = Inside /\ inFlight' = inFlight
    BY <1>7, StaySets DEF Lifespan, BeginDrain, WaitBegins, WaitEnds, DrainTimeout, ShutdownOver
  <2>1. CASE BeginDrain
    <3>1. CASE inFlight = 0
      <4>1. Return("idle") /\ Inside \subseteq Probes
        BY <2>1, <3>1, NobodyInside DEF BeginDrain
      <4> QED
        BY <2>0, <2>1, <3>1, <4>1, ReturnIsClean DEF BeginDrain, Wake, NoLostWakeup, CleanExit
    <3>2. CASE inFlight # 0
      BY <2>0, <2>1, <3>2 DEF BeginDrain, Wait, Wake, NoLostWakeup, CleanExit
    <3> QED
      BY <3>1, <3>2
  <2>2. CASE WaitBegins
    <3>1. CASE idle = "set"
      <4>1. Return("idle") /\ Inside \subseteq Probes
        BY <2>2, <3>1, NobodyInside DEF WaitBegins, Arm, Wake
      <4> QED
        BY <2>0, <2>2, <4>1, ReturnIsClean DEF WaitBegins, Wake, NoLostWakeup, CleanExit
    <3>2. CASE idle # "set"
      BY <2>0, <2>2, <3>2 DEF WaitBegins, Arm, Wait, Wake, NoLostWakeup, CleanExit
    <3> QED
      BY <3>1, <3>2
  <2>3. CASE WaitEnds
    <3>1. Return("idle") /\ Inside \subseteq Probes
      BY <2>3 DEF WaitEnds, Wake
    <3> QED
      BY <2>0, <2>3, <3>1, ReturnIsClean DEF WaitEnds, Wake, NoLostWakeup, CleanExit
  <2>4. CASE DrainTimeout
    BY <2>0, <2>4 DEF DrainTimeout, Return, Types, Wake, NoLostWakeup, CleanExit
  <2>5. CASE ShutdownOver
    BY <2>0, <2>5 DEF ShutdownOver, Wake, NoLostWakeup, CleanExit
  <2> QED
    BY <1>7, <2>1, <2>2, <2>3, <2>4, <2>5 DEF Lifespan
<1>8. CASE UNCHANGED vars
  BY <1>8, StaySets DEF vars, Wake, NoLostWakeup, CleanExit
<1> QED
  BY <1>1, <1>2, <1>3, <1>4, <1>5, <1>6, <1>7, <1>8 DEF Next, RequestStep

(* The whole invariant holds of every reachable state. *)
LEMMA Invariant == Spec => []IInv
<1>1. Init => IInv
  BY CountsInit, DrainInit DEF IInv
<1>2. IInv /\ [Next]_vars => IInv'
  BY CountsStep, DrainStep DEF IInv
<1> QED
  BY <1>1, <1>2, PTL DEF Spec

(* For any requests, however they interleave with lifespan: once the last   *)
(* of them has left, the drain does not wait for its timeout.               *)
THEOREM DrainWakes == Spec => []NoLostWakeup
<1>1. IInv => NoLostWakeup
  BY DEF IInv
<1> QED
  BY <1>1, Invariant, PTL

(* For any requests: an exit whose drain did not time out cut no session,   *)
(* and leaves no agent client open behind it.                               *)
THEOREM ExitIsClean == Spec => []CleanExit
<1>1. IInv => CleanExit
  BY DEF IInv
<1> QED
  BY <1>1, Invariant, PTL
=============================================================================
