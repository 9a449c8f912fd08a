---------------------------- MODULE GatewayProofs ----------------------------
(***************************************************************************)
(* Proofs about AsrGateway: types, slots, justified answers, and the       *)
(* engine that is left alone while it is open.                             *)
(*                                                                         *)
(* GoOn is the heart of asr_file: GoOnEffect says once what the loop does  *)
(* to the request that runs it.  Shape is the invariant of one request on  *)
(* its way along the chain: every engine before the present one was passed *)
(* over, and the present one has no verdict yet.  Since a step touches one *)
(* request only, each invariant is shown for that request and carried over *)
(* for the others.                                                         *)
(***************************************************************************)
EXTENDS AsrGateway, FiniteSetTheorems, TLAPS

Active == {"prepare", "queue", "infer"}

Types ==
  /\ pc \in [Requests -> Places]
  /\ primary \in [Requests -> Engine] /\ cur \in [Requests -> Engine]
  /\ verdict \in [Requests -> [Engine -> Verdicts]]
  /\ answer \in [Requests -> Answers]
  /\ running \subseteq Requests \X Engine
  /\ permits \in Nat /\ streams \in Nat
  /\ fails \in [Engine -> Nat] /\ open \subseteq Engine

Shape(r) ==
  /\ pc[r] = "idle" => \A e \in Engine : verdict[r][e] = "untried"
  /\ pc[r] \in Active =>
       /\ cur[r] \in ChainOf(primary[r]) /\ verdict[r][cur[r]] = "untried"
       /\ \A e \in Engine : verdict[r][e] # "answered"
       /\ \A e \in ChainOf(primary[r]) : Precedes(primary[r], e, cur[r]) => Passed(r, e)
  /\ answer[r] = "none" <=> pc[r] # "done"
  /\ answer[r] \in {"ok", "busy", "bad_audio"} => cur[r] \in ChainOf(primary[r])

Shapes == \A r \in Requests : Shape(r) /\ AnswerJustified(r)

LEMMA ChainFacts ==
  ASSUME NEW p \in Engine
  PROVE  ChainOf(p) \subseteq Engine /\ p \in ChainOf(p)
  BY GatewayAssumption DEF ChainOf

LEMMA EngineFacts == 1 \in Engine /\ Engine \subseteq Nat /\ Asked \subseteq Engine
  BY GatewayAssumption DEF Engine

(***************************************************************************)
(* The loop of asr_file                                                    *)
(***************************************************************************)

(* What the loop does to the request that runs it: bind it to an engine     *)
(* that is not open and passes over all that precede it, or end it with     *)
(* every engine of its chain passed over.                                   *)
LEMMA GoOnEffect ==
  ASSUME Types, NEW r \in Requests, NEW p \in Engine,
         NEW v \in [Engine -> Verdicts \ {"answered"}], GoOn(r, p, v)
  PROVE  /\ pc' \in [Requests -> Places] /\ cur' \in [Requests -> Engine]
         /\ verdict' \in [Requests -> [Engine -> Verdicts]] /\ answer' \in [Requests -> Answers]
         /\ \A q \in Requests \ {r} : /\ pc'[q] = pc[q] /\ cur'[q] = cur[q]
                                      /\ verdict'[q] = verdict[q] /\ answer'[q] = answer[q]
         /\ \A e \in Engine : v[e] # "untried" => verdict'[r][e] = v[e]
         /\ \A e \in Engine : v[e] = "untried" => verdict'[r][e] \in {"untried", "skipped"}
         /\ \/ /\ pc'[r] \in {"prepare", "queue"} /\ answer' = answer
               /\ cur'[r] \in ChainOf(p) /\ cur'[r] \notin open
               /\ verdict'[r][cur'[r]] = "untried"
               /\ \A e \in ChainOf(p) : Precedes(p, e, cur'[r]) =>
                                          verdict'[r][e] \in Failed \cup {"skipped"}
            \/ /\ pc'[r] = "done" /\ cur' = cur
               /\ \/ answer'[r] = "error" /\ \E e \in Engine : v[e] \in Failed
                  \/ answer'[r] = "unavailable" /\ \A e \in Engine : v[e] \notin Failed
               /\ \A e \in ChainOf(p) : verdict'[r][e] \in Failed \cup {"skipped"}
<1> DEFINE left  == {e \in ChainOf(p) : v[e] = "untried"}
           sound == Available(left)
           tried == \E e \in Engine : v[e] \in Failed
           skipping(S) == [e \in Engine |-> IF e \in S THEN "skipped" ELSE v[e]]
           Skip(S) == verdict' = [verdict EXCEPT ![r] = skipping(S)]
<1>1. left \subseteq Engine /\ sound = left \ open
  BY ChainFacts DEF Available
<1>2. ASSUME NEW S \in SUBSET left, Skip(S)
      PROVE  /\ verdict' \in [Requests -> [Engine -> Verdicts]]
             /\ \A q \in Requests \ {r} : verdict'[q] = verdict[q]
             /\ verdict'[r] = skipping(S)
             /\ \A e \in Engine : v[e] # "untried" => verdict'[r][e] = v[e]
             /\ \A e \in Engine : v[e] = "untried" => verdict'[r][e] \in {"untried", "skipped"}
  <2>1. skipping(S) \in [Engine -> Verdicts]
    BY DEF Verdicts
  <2> QED
    BY <1>1, <1>2, <2>1 DEF Types
<1>3. \/ \E e \in sound :
           /\ \A f \in sound : f = e \/ Precedes(p, e, f)
           /\ Skip({f \in left : Precedes(p, f, e)})
           /\ cur' = [cur EXCEPT ![r] = e]
           /\ pc' = [pc EXCEPT ![r] = IF tried THEN "queue" ELSE "prepare"]
           /\ UNCHANGED answer
      \/ /\ sound = {}
         /\ Skip(left)
         /\ Finish(r, IF tried THEN "error" ELSE "unavailable")
         /\ UNCHANGED cur
  BY Zenon DEF GoOn
<1>4. ASSUME NEW e \in sound,
             Skip({f \in left : Precedes(p, f, e)}),
             cur' = [cur EXCEPT ![r] = e],
             pc' = [pc EXCEPT ![r] = IF tried THEN "queue" ELSE "prepare"],
             UNCHANGED answer
      PROVE  /\ pc' \in [Requests -> Places] /\ cur' \in [Requests -> Engine]
             /\ \A q \in Requests \ {r} : pc'[q] = pc[q] /\ cur'[q] = cur[q]
             /\ pc'[r] \in {"prepare", "queue"} /\ cur'[r] = e
             /\ verdict'[r][e] = "untried"
             /\ \A f \in ChainOf(p) : Precedes(p, f, e) =>
                                        verdict'[r][f] \in Failed \cup {"skipped"}
  <2>1. {f \in left : Precedes(p, f, e)} \in SUBSET left
    OBVIOUS
  <2>2. verdict'[r] = skipping({f \in left : Precedes(p, f, e)})
    BY <1>2, <1>4, <2>1
  <2>3. e \notin {f \in left : Precedes(p, f, e)}
    BY DEF Precedes
  <2>4. e \in Engine /\ v[e] = "untried"
    BY <1>1
  <2>5. ASSUME NEW f \in ChainOf(p), Precedes(p, f, e)
        PROVE  verdict'[r][f] \in Failed \cup {"skipped"}
    <3>1. f \in Engine
      BY ChainFacts
    <3>2. CASE v[f] = "untried"
      BY <2>2, <2>5, <3>1, <3>2
    <3>3. CASE v[f] # "untried"
      <4>1. v[f] \in Failed \cup {"skipped"}
        BY <3>1, <3>3 DEF Verdicts
      <4> QED
        BY <2>2, <3>1, <3>3, <4>1
    <3> QED
      BY <3>2, <3>3
  <2>6. verdict'[r][e] = "untried"
    BY <2>2, <2>3, <2>4
  <2> QED
    BY <1>4, <2>4, <2>5, <2>6 DEF Types, Places
<1>5. CASE \E e \in sound :
           /\ \A f \in sound : f = e \/ Precedes(p, e, f)
           /\ Skip({f \in left : Precedes(p, f, e)})
           /\ cur' = [cur EXCEPT ![r] = e]
           /\ pc' = [pc EXCEPT ![r] = IF tried THEN "queue" ELSE "prepare"]
           /\ UNCHANGED answer
  <2>1. PICK e \in sound :
           /\ Skip({f \in left : Precedes(p, f, e)})
           /\ cur' = [cur EXCEPT ![r] = e]
           /\ pc' = [pc EXCEPT ![r] = IF tried THEN "queue" ELSE "prepare"]
           /\ UNCHANGED answer
    BY <1>5
  <2>2. e \in ChainOf(p) /\ e \notin open
    BY <1>1
  <2>3. {f \in left : Precedes(p, f, e)} \in SUBSET left
    OBVIOUS
  <2>4. /\ verdict' \in [Requests -> [Engine -> Verdicts]]
        /\ \A q \in Requests \ {r} : verdict'[q] = verdict[q]
        /\ \A f \in Engine : v[f] # "untried" => verdict'[r][f] = v[f]
        /\ \A f \in Engine : v[f] = "untried" => verdict'[r][f] \in {"untried", "skipped"}
    BY <1>2, <2>1, <2>3
  <2>5. /\ pc' \in [Requests -> Places] /\ cur' \in [Requests -> Engine]
        /\ \A q \in Requests \ {r} : pc'[q] = pc[q] /\ cur'[q] = cur[q]
        /\ pc'[r] \in {"prepare", "queue"} /\ cur'[r] = e
        /\ verdict'[r][e] = "untried"
        /\ \A f \in ChainOf(p) : Precedes(p, f, e) =>
                                   verdict'[r][f] \in Failed \cup {"skipped"}
    BY <1>4, <2>1
  <2> QED
    BY <2>1, <2>2, <2>4, <2>5 DEF Types
<1>6. CASE /\ sound = {}
           /\ Skip(left)
           /\ Finish(r, IF tried THEN "error" ELSE "unavailable")
           /\ UNCHANGED cur
  <2>1. /\ verdict' \in [Requests -> [Engine -> Verdicts]]
        /\ \A q \in Requests \ {r} : verdict'[q] = verdict[q]
        /\ verdict'[r] = skipping(left)
        /\ \A f \in Engine : v[f] # "untried" => verdict'[r][f] = v[f]
        /\ \A f \in Engine : v[f] = "untried" => verdict'[r][f] \in {"untried", "skipped"}
    BY <1>2, <1>6
  <2>2. ASSUME NEW f \in ChainOf(p) PROVE verdict'[r][f] \in Failed \cup {"skipped"}
    <3>1. f \in Engine
      BY ChainFacts
    <3>2. CASE v[f] = "untried"
      BY <2>1, <3>1, <3>2
    <3>3. CASE v[f] # "untried"
      BY <2>1, <3>1, <3>3 DEF Verdicts
    <3> QED
      BY <3>2, <3>3
  <2>3. /\ pc' \in [Requests -> Places] /\ answer' \in [Requests -> Answers]
        /\ \A q \in Requests \ {r} : pc'[q] = pc[q] /\ answer'[q] = answer[q]
        /\ pc'[r] = "done" /\ answer'[r] = IF tried THEN "error" ELSE "unavailable"
    BY <1>6 DEF Finish, Types, Places, Answers
  <2> QED
    BY <1>6, <2>1, <2>2, <2>3 DEF Types
<1> QED
  BY <1>3, <1>5, <1>6

(* A request that arrives, and one whose engine failed it, run the loop.    *)
LEMMA Looping ==
  ASSUME Types, NEW r \in Requests, Shape(r)
  PROVE  /\ pc[r] = "idle" => /\ verdict[r] \in [Engine -> Verdicts \ {"answered"}]
                              /\ \A e \in Engine : verdict[r][e] = "untried"
         /\ \A how \in Failed : pc[r] = "infer" =>
              /\ Verdict(r, how) \in [Engine -> Verdicts \ {"answered"}]
              /\ Verdict(r, how)[cur[r]] = how
              /\ \A e \in Engine \ {cur[r]} : Verdict(r, how)[e] = verdict[r][e]
<1>1. verdict[r] \in [Engine -> Verdicts] /\ cur[r] \in Engine
  BY DEF Types
<1>2. CASE pc[r] = "idle"
  BY <1>1, <1>2 DEF Shape, Verdicts
<1>3. CASE pc[r] = "infer"
  <2>1. verdict[r] \in [Engine -> Verdicts \ {"answered"}]
    BY <1>1, <1>3 DEF Shape, Active
  <2>2. Failed \subseteq Verdicts \ {"answered"}
    BY DEF Failed, Verdicts
  <2> QED
    BY <1>1, <1>3, <2>1, <2>2 DEF Verdict
<1> QED
  BY <1>2, <1>3

(***************************************************************************)
(* Types                                                                   *)
(***************************************************************************)

LEMMA TypesInit == Init => Types
<1> SUFFICES ASSUME Init PROVE Types
  OBVIOUS
<1>1. Permits \in Nat /\ 1 \in Engine
  BY GatewayAssumption, EngineFacts
<1>2. verdict \in [Requests -> [Engine -> Verdicts]]
  BY DEF Init, Verdicts
<1> QED
  BY <1>1, <1>2 DEF Init, Types, Places, Answers

LEMMA RecordTypes ==
  ASSUME Types, NEW e \in Engine, RecordFailure(e) \/ RecordSuccess(e)
  PROVE  fails' \in [Engine -> Nat] /\ open' \subseteq Engine
  BY DEF Types, RecordFailure, RecordSuccess

LEMMA FinishTypes ==
  ASSUME Types, NEW r \in Requests, NEW a \in Answers, Finish(r, a)
  PROVE  /\ pc' \in [Requests -> Places] /\ answer' \in [Requests -> Answers]
         /\ pc'[r] = "done" /\ answer'[r] = a
         /\ \A q \in Requests \ {r} : pc'[q] = pc[q] /\ answer'[q] = answer[q]
  BY DEF Types, Finish, Places, Answers

LEMMA TypesStep == Types /\ Shapes /\ [Next]_vars => Types'
<1> SUFFICES ASSUME Types, Shapes, [Next]_vars PROVE Types'
  OBVIOUS
<1> USE DEF request, slots, breaker
<1>1. ASSUME NEW r \in Requests, Refused(r) PROVE Types'
  <2>1. Finish(r, "refused") /\ "refused" \in Answers
    BY <1>1 DEF Refused, Answers
  <2> QED
    BY <1>1, <2>1, FinishTypes DEF Refused, Types
<1>2. ASSUME NEW r \in Requests, NEW p \in Asked, Arrives(r, p) PROVE Types'
  <2>1. p \in Engine /\ verdict[r] \in [Engine -> Verdicts \ {"answered"}]
    BY <1>2, Looping, EngineFacts DEF Shapes, Arrives
  <2>2. /\ pc' \in [Requests -> Places] /\ cur' \in [Requests -> Engine]
        /\ verdict' \in [Requests -> [Engine -> Verdicts]] /\ answer' \in [Requests -> Answers]
    BY <1>2, <2>1, GoOnEffect DEF Arrives
  <2> QED
    BY <1>2, <2>1, <2>2 DEF Arrives, Types
<1>3. ASSUME NEW r \in Requests, Prepared(r) PROVE Types'
  BY <1>3 DEF Prepared, Types, Places
<1>4. ASSUME NEW r \in Requests, BadAudio(r) PROVE Types'
  <2>1. Finish(r, "bad_audio") /\ "bad_audio" \in Answers
    BY <1>4 DEF BadAudio, Answers
  <2> QED
    BY <1>4, <2>1, FinishTypes DEF BadAudio, Types
<1>5. ASSUME NEW r \in Requests, SlotGranted(r) PROVE Types'
  BY <1>5 DEF SlotGranted, Acquire, Types, Places
<1>6. ASSUME NEW r \in Requests, SlotTimeout(r) PROVE Types'
  <2>1. Finish(r, "busy") /\ "busy" \in Answers
    BY <1>6 DEF SlotTimeout, Answers
  <2> QED
    BY <1>6, <2>1, FinishTypes DEF SlotTimeout, Types
<1>7. ASSUME NEW r \in Requests, Answered(r) PROVE Types'
  <2>1. Finish(r, "ok") /\ "ok" \in Answers /\ RecordSuccess(cur[r]) /\ cur[r] \in Engine
    BY <1>7 DEF Answered, Answers, Types
  <2>2. verdict' \in [Requests -> [Engine -> Verdicts]]
    BY <1>7 DEF Answered, Types, Verdicts
  <2> QED
    BY <1>7, <2>1, <2>2, FinishTypes, RecordTypes DEF Answered, Release, Types
<1>8. ASSUME NEW r \in Requests, NEW how \in Failed, GivesUp(r, how), running' \subseteq running
      PROVE  Types'
  <2>1. /\ primary[r] \in Engine /\ cur[r] \in Engine /\ RecordFailure(cur[r])
        /\ Verdict(r, how) \in [Engine -> Verdicts \ {"answered"}]
    BY <1>8, Looping DEF Shapes, GivesUp, Types
  <2>2. /\ pc' \in [Requests -> Places] /\ cur' \in [Requests -> Engine]
        /\ verdict' \in [Requests -> [Engine -> Verdicts]] /\ answer' \in [Requests -> Answers]
    BY <1>8, <2>1, GoOnEffect DEF GivesUp
  <2> QED
    BY <1>8, <2>1, <2>2, RecordTypes DEF GivesUp, Release, Types
<1>9. ASSUME NEW r \in Requests, InferenceFails(r) \/ InferenceTimesOut(r) PROVE Types'
  BY <1>8, <1>9 DEF InferenceFails, InferenceTimesOut, Failed
<1>10. ASSUME StreamOpens \/ StreamEnds PROVE Types'
  BY <1>10 DEF StreamOpens, StreamEnds, Acquire, Release, Types
<1>11. ASSUME NEW e \in Engine, CooldownOver(e) PROVE Types'
  BY <1>11 DEF CooldownOver, Types
<1>12. ASSUME NEW r \in Requests, NEW e \in Engine, InferenceEndsLate(r, e) PROVE Types'
  BY <1>12 DEF InferenceEndsLate, Types
<1>13. CASE UNCHANGED vars
  BY <1>13 DEF vars, Types
<1> QED
  BY <1>1, <1>2, <1>3, <1>4, <1>5, <1>6, <1>7, <1>9, <1>10, <1>11, <1>12, <1>13
  DEF Next, Request, Progress, Others

(***************************************************************************)
(* The way of a request along its chain                                    *)
(***************************************************************************)

LEMMA ShapesInit == Init => Shapes
<1> SUFFICES ASSUME Init, NEW r \in Requests PROVE Shape(r) /\ AnswerJustified(r)
  BY DEF Shapes
<1> QED
  BY DEF Init, Shape, AnswerJustified, Active

(* A request that does not move keeps what is known of it. *)
LEMMA ShapeStays ==
  ASSUME Types, NEW q \in Requests, Shape(q) /\ AnswerJustified(q),
         pc'[q] = pc[q], primary'[q] = primary[q], cur'[q] = cur[q],
         verdict'[q] = verdict[q], answer'[q] = answer[q]
  PROVE  Shape(q)' /\ AnswerJustified(q)'
  BY DEF Shape, AnswerJustified, Passed

(* One that the loop has dealt with is bound, or at the end of its chain.   *)
LEMMA LoopShape ==
  ASSUME Types, NEW r \in Requests, NEW p \in Engine,
         NEW v \in [Engine -> Verdicts \ {"answered"}], GoOn(r, p, v),
         primary'[r] = p, answer[r] = "none", pc[r] # "done"
  PROVE  Shape(r)' /\ AnswerJustified(r)'
<1>1. /\ \A e \in Engine : v[e] # "untried" => verdict'[r][e] = v[e]
      /\ \A e \in Engine : v[e] = "untried" => verdict'[r][e] \in {"untried", "skipped"}
  BY GoOnEffect
<1>2. \A e \in Engine : verdict'[r][e] # "answered"
  BY <1>1
<1>3. CASE /\ pc'[r] \in {"prepare", "queue"} /\ answer' = answer
           /\ cur'[r] \in ChainOf(p) /\ cur'[r] \notin open
           /\ verdict'[r][cur'[r]] = "untried"
           /\ \A e \in ChainOf(p) : Precedes(p, e, cur'[r]) =>
                                      verdict'[r][e] \in Failed \cup {"skipped"}
  BY <1>2, <1>3 DEF Shape, AnswerJustified, Passed, Active
<1>4. CASE /\ pc'[r] = "done" /\ cur' = cur
           /\ \/ answer'[r] = "error" /\ \E e \in Engine : v[e] \in Failed
              \/ answer'[r] = "unavailable" /\ \A e \in Engine : v[e] \notin Failed
           /\ \A e \in ChainOf(p) : verdict'[r][e] \in Failed \cup {"skipped"}
  <2>1. \A e \in Engine : v[e] \in Failed <=> verdict'[r][e] \in Failed
    BY <1>1 DEF Failed
  <2> QED
    BY <1>4, <2>1 DEF Shape, AnswerJustified, Passed, Active
<1> QED
  BY <1>3, <1>4, GoOnEffect

LEMMA ShapesStep == Types /\ Shapes /\ [Next]_vars => Shapes'
<1> SUFFICES ASSUME Types, Shapes, [Next]_vars PROVE Shapes'
  OBVIOUS
<1> USE DEF request, slots, breaker
<1>0. \A r \in Requests : Shape(r) /\ AnswerJustified(r) /\ primary[r] \in Engine /\ cur[r] \in Engine
  BY DEF Shapes, Types
<1>a. ASSUME NEW r \in Requests, Shape(r)' /\ AnswerJustified(r)',
             \A q \in Requests \ {r} :
                /\ pc'[q] = pc[q] /\ primary'[q] = primary[q] /\ cur'[q] = cur[q]
                /\ verdict'[q] = verdict[q] /\ answer'[q] = answer[q]
      PROVE  Shapes'
  <2>1. ASSUME NEW q \in Requests PROVE Shape(q)' /\ AnswerJustified(q)'
    BY <1>0, <1>a, <2>1, ShapeStays
  <2> QED
    BY <2>1 DEF Shapes
<1>b. ASSUME UNCHANGED request PROVE Shapes'
  <2>1. ASSUME NEW q \in Requests PROVE Shape(q)' /\ AnswerJustified(q)'
    BY <1>0, <1>b, <2>1, ShapeStays
  <2> QED
    BY <2>1 DEF Shapes
<1>1. ASSUME NEW r \in Requests, Refused(r) PROVE Shapes'
  <2>1. /\ pc'[r] = "done" /\ answer'[r] = "refused"
        /\ \A q \in Requests \ {r} : pc'[q] = pc[q] /\ answer'[q] = answer[q]
    BY <1>1, FinishTypes DEF Refused, Answers
  <2>2. \A e \in Engine : verdict[r][e] = "untried"
    BY <1>0, <1>1 DEF Refused, Shape
  <2>3. Shape(r)' /\ AnswerJustified(r)'
    BY <1>0, <1>1, <2>1, <2>2 DEF Refused, Shape, AnswerJustified, Active, Failed
  <2> QED
    BY <1>a, <1>1, <2>1, <2>3 DEF Refused
<1>2. ASSUME NEW r \in Requests, NEW p \in Asked, Arrives(r, p) PROVE Shapes'
  <2>1. /\ p \in Engine /\ verdict[r] \in [Engine -> Verdicts \ {"answered"}]
        /\ GoOn(r, p, verdict[r]) /\ pc[r] = "idle"
    BY <1>0, <1>2, Looping, EngineFacts DEF Arrives
  <2>2. primary' = [primary EXCEPT ![r] = p] /\ primary'[r] = p
    BY <1>2 DEF Arrives, Types
  <2>3. answer[r] = "none"
    BY <1>0, <2>1 DEF Shape
  <2>4. Shape(r)' /\ AnswerJustified(r)'
    BY <2>1, <2>2, <2>3, LoopShape
  <2>5. \A q \in Requests \ {r} : /\ pc'[q] = pc[q] /\ cur'[q] = cur[q]
                                   /\ verdict'[q] = verdict[q] /\ answer'[q] = answer[q]
    BY <2>1, GoOnEffect
  <2>6. \A q \in Requests \ {r} : primary'[q] = primary[q]
    BY <2>2 DEF Types
  <2> QED
    BY <1>a, <2>4, <2>5, <2>6
<1>3. ASSUME NEW r \in Requests, Prepared(r) PROVE Shapes'
  <2>1. pc'[r] = "queue" /\ \A q \in Requests \ {r} : pc'[q] = pc[q]
    BY <1>3 DEF Prepared, Types
  <2>2. Shape(r)' /\ AnswerJustified(r)'
    BY <1>0, <1>3, <2>1 DEF Prepared, Shape, AnswerJustified, Passed, Active
  <2> QED
    BY <1>a, <1>3, <2>1, <2>2 DEF Prepared
<1>4. ASSUME NEW r \in Requests, NEW a \in {"bad_audio", "busy"}, pc[r] \in Active, Finish(r, a),
             UNCHANGED <<primary, cur, verdict>>
      PROVE  Shapes'
  <2>1. /\ pc'[r] = "done" /\ answer'[r] = a
        /\ \A q \in Requests \ {r} : pc'[q] = pc[q] /\ answer'[q] = answer[q]
    BY <1>4, FinishTypes DEF Answers
  <2>2. cur[r] \in ChainOf(primary[r]) /\ verdict[r][cur[r]] = "untried"
    BY <1>0, <1>4 DEF Shape
  <2>3. Shape(r)' /\ AnswerJustified(r)'
    BY <1>4, <2>1, <2>2 DEF Shape, AnswerJustified, Passed, Active, Failed
  <2> QED
    BY <1>a, <1>4, <2>1, <2>3
<1>5. ASSUME NEW r \in Requests, SlotGranted(r) PROVE Shapes'
  <2>1. pc'[r] = "infer" /\ \A q \in Requests \ {r} : pc'[q] = pc[q]
    BY <1>5 DEF SlotGranted, Types
  <2>2. Shape(r)' /\ AnswerJustified(r)'
    BY <1>0, <1>5, <2>1 DEF SlotGranted, Shape, AnswerJustified, Passed, Active
  <2> QED
    BY <1>a, <1>5, <2>1, <2>2 DEF SlotGranted
<1>6. ASSUME NEW r \in Requests, BadAudio(r) \/ SlotTimeout(r) PROVE Shapes'
  BY <1>4, <1>6 DEF BadAudio, SlotTimeout, Active
<1>7. ASSUME NEW r \in Requests, Answered(r) PROVE Shapes'
  <2>1. /\ pc'[r] = "done" /\ answer'[r] = "ok"
        /\ \A q \in Requests \ {r} : pc'[q] = pc[q] /\ answer'[q] = answer[q]
    BY <1>7, FinishTypes DEF Answered, Answers
  <2>2. /\ verdict'[r][cur[r]] = "answered"
        /\ \A e \in Engine \ {cur[r]} : verdict'[r][e] = verdict[r][e]
        /\ \A q \in Requests \ {r} : verdict'[q] = verdict[q]
    BY <1>7 DEF Answered, Types
  <2>3. /\ cur[r] \in ChainOf(primary[r])
        /\ \A e \in ChainOf(primary[r]) : Precedes(primary[r], e, cur[r]) => Passed(r, e)
    BY <1>0, <1>7 DEF Answered, Shape, Active
  <2>4. cur'[r] = cur[r] /\ primary'[r] = primary[r]
    BY <1>7 DEF Answered
  <2>5. \A e \in ChainOf(primary[r]) : Precedes(primary[r], e, cur[r]) => Passed(r, e)'
    <3>1. \A e \in ChainOf(primary[r]) : Precedes(primary[r], e, cur[r]) => e \in Engine \ {cur[r]}
      BY <1>0, ChainFacts DEF Precedes
    <3> QED
      BY <2>2, <2>3, <3>1 DEF Passed
  <2>6. ASSUME cur[r] # primary[r]
        PROVE  Fallback /\ Passed(r, primary[r])' /\ \A e \in 1 .. (cur[r] - 1) : Passed(r, e)'
    <3>1. Fallback /\ ChainOf(primary[r]) = Engine
      BY <2>3, <2>6, GatewayAssumption DEF ChainOf
    <3>2. Passed(r, primary[r])'
      <4>1. primary[r] \in ChainOf(primary[r])
        BY <1>0, ChainFacts
      <4>2. Precedes(primary[r], primary[r], cur[r])
        BY <2>6 DEF Precedes
      <4> QED
        BY <2>4, <2>5, <4>1, <4>2
    <3>3. ASSUME NEW e \in 1 .. (cur[r] - 1) PROVE Passed(r, e)'
      <4>0. cur[r] \in Nat /\ cur[r] <= Engines /\ Engines \in Nat
        BY <1>0, GatewayAssumption DEF Engine
      <4>1. e \in Engine /\ e < cur[r] /\ e # cur[r]
        BY <4>0 DEF Engine
      <4>2. Precedes(primary[r], e, cur[r])
        BY <2>6, <4>1 DEF Precedes
      <4> QED
        BY <2>5, <3>1, <4>1, <4>2
    <3> QED
      BY <3>1, <3>2, <3>3
  <2>7. AnswerJustified(r)'
    <3>1. ~Passed(r, cur[r])'
      BY <2>2, <2>4 DEF Passed, Failed
    <3> QED
      BY <2>1, <2>2, <2>3, <2>4, <2>6, <3>1 DEF AnswerJustified
  <2>8. Shape(r)'
    BY <2>1, <2>3, <2>4 DEF Shape, Active
  <2> QED
    BY <1>a, <1>7, <2>1, <2>2, <2>7, <2>8 DEF Answered
<1>8. ASSUME NEW r \in Requests, NEW how \in Failed, GivesUp(r, how) PROVE Shapes'
  <2>1. /\ Verdict(r, how) \in [Engine -> Verdicts \ {"answered"}]
        /\ GoOn(r, primary[r], Verdict(r, how)) /\ pc[r] = "infer" /\ primary' = primary
    BY <1>0, <1>8, Looping DEF GivesUp
  <2>2. answer[r] = "none"
    BY <1>0, <2>1 DEF Shape
  <2>3. Shape(r)' /\ AnswerJustified(r)'
    BY <1>0, <2>1, <2>2, LoopShape
  <2>4. \A q \in Requests \ {r} : /\ pc'[q] = pc[q] /\ cur'[q] = cur[q]
                                   /\ verdict'[q] = verdict[q] /\ answer'[q] = answer[q]
    BY <1>0, <2>1, GoOnEffect
  <2> QED
    BY <1>a, <2>1, <2>3, <2>4
<1>9. ASSUME NEW r \in Requests, InferenceFails(r) \/ InferenceTimesOut(r) PROVE Shapes'
  BY <1>8, <1>9 DEF InferenceFails, InferenceTimesOut, Failed
<1>10. ASSUME StreamOpens \/ StreamEnds PROVE Shapes'
  BY <1>b, <1>10 DEF StreamOpens, StreamEnds
<1>11. ASSUME NEW e \in Engine, CooldownOver(e) PROVE Shapes'
  BY <1>b, <1>11 DEF CooldownOver
<1>12. ASSUME NEW r \in Requests, NEW e \in Engine, InferenceEndsLate(r, e) PROVE Shapes'
  BY <1>b, <1>12 DEF InferenceEndsLate
<1>13. CASE UNCHANGED vars
  BY <1>b, <1>13 DEF vars
<1> QED
  BY <1>1, <1>2, <1>3, <1>5, <1>6, <1>7, <1>9, <1>10, <1>11, <1>12, <1>13
  DEF Next, Request, Progress, Others

(***************************************************************************)
(* Slots                                                                   *)
(***************************************************************************)

LEMMA FiniteSlots == IsFiniteSet(InSlot) /\ Cardinality(InSlot) \in Nat
  BY GatewayAssumption, FS_Subset, FS_CardinalityType DEF InSlot

LEMMA SlotMoves ==
  ASSUME NEW r \in Requests, \A q \in Requests \ {r} : pc'[q] = pc[q]
  PROVE  InSlot' = IF pc'[r] = "infer" THEN InSlot \cup {r} ELSE InSlot \ {r}
  BY DEF InSlot

(* A step outside every slot, and one that takes or leaves one, by its      *)
(* effect on the permits.                                                   *)
LEMMA SlotArithmetic ==
  ASSUME Types, SlotsAccounted, NEW r \in Requests,
         \A q \in Requests \ {r} : pc'[q] = pc[q], streams' = streams,
         \/ pc[r] # "infer" /\ pc'[r] # "infer" /\ permits' = permits
         \/ pc[r] # "infer" /\ pc'[r] = "infer" /\ permits' = permits - 1
         \/ pc[r] = "infer" /\ pc'[r] # "infer" /\ permits' = permits + 1
  PROVE  permits' + streams' + Cardinality(InSlot') = Permits
<1>1. InSlot' = IF pc'[r] = "infer" THEN InSlot \cup {r} ELSE InSlot \ {r}
  BY SlotMoves
<1>2. permits + streams + Cardinality(InSlot) = Permits
  BY DEF SlotsAccounted
<1>3. r \in InSlot <=> pc[r] = "infer"
  BY DEF InSlot
<1>4. CASE pc[r] # "infer" /\ pc'[r] # "infer" /\ permits' = permits
  BY <1>1, <1>2, <1>3, <1>4
<1>5. CASE pc[r] # "infer" /\ pc'[r] = "infer" /\ permits' = permits - 1
  <2>1. Cardinality(InSlot \cup {r}) = Cardinality(InSlot) + 1
    BY <1>3, <1>5, FiniteSlots, FS_AddElement
  <2> QED
    BY <1>1, <1>2, <1>5, <2>1, FiniteSlots DEF Types
<1>6. CASE pc[r] = "infer" /\ pc'[r] # "infer" /\ permits' = permits + 1
  <2>1. Cardinality(InSlot \ {r}) = Cardinality(InSlot) - 1
    BY <1>3, <1>6, FiniteSlots, FS_RemoveElement
  <2> QED
    BY <1>1, <1>2, <1>6, <2>1, FiniteSlots DEF Types
<1> QED
  BY <1>4, <1>5, <1>6

(* The calls that run outside a slot keep their verdict.                    *)
Covered ==
  /\ \A r \in InSlot : <<r, cur[r]>> \in running
  /\ \A c \in running : \/ (c[1] \in InSlot /\ cur[c[1]] = c[2])
                         \/ (TimeoutOn /\ verdict[c[1]][c[2]] = "timed_out")

LEMMA CoveredStays ==
  ASSUME Types, Covered, running' = running, InSlot' = InSlot,
         \A r \in InSlot : cur'[r] = cur[r],
         \A r \in Requests, e \in Engine :
            verdict[r][e] = "timed_out" => verdict'[r][e] = "timed_out"
  PROVE  Covered'
  BY DEF Covered, Types

LEMMA CoveredLeaves ==
  ASSUME Types, Covered, NEW r \in Requests, pc[r] = "infer", InSlot' = InSlot \ {r},
         \A q \in Requests \ {r} : cur'[q] = cur[q] /\ verdict'[q] = verdict[q],
         \A e \in Engine \ {cur[r]} :
            verdict[r][e] = "timed_out" => verdict'[r][e] = "timed_out",
         \/ running' = running \ {<<r, cur[r]>>}
         \/ running' = running /\ TimeoutOn /\ verdict'[r][cur[r]] = "timed_out"
  PROVE  Covered'
<1>1. ASSUME NEW q \in InSlot' PROVE <<q, cur'[q]>> \in running'
  <2>1. q \in InSlot /\ q # r /\ q \in Requests
    BY <1>1 DEF InSlot
  <2> QED
    BY <2>1 DEF Covered
<1>2. ASSUME NEW c \in running'
      PROVE  \/ (c[1] \in InSlot' /\ cur'[c[1]] = c[2])
             \/ (TimeoutOn /\ verdict'[c[1]][c[2]] = "timed_out")
  <2>1. c \in running /\ c \in Requests \X Engine /\ c = <<c[1], c[2]>>
    BY DEF Types
  <2>2. CASE c[1] # r
    BY <2>1, <2>2 DEF Covered
  <2>3. CASE c[1] = r /\ c[2] # cur[r]
    <3>1. TimeoutOn /\ verdict[r][c[2]] = "timed_out"
      BY <2>1, <2>3 DEF Covered
    <3> QED
      BY <2>1, <2>3, <3>1
  <2>4. CASE c[1] = r /\ c[2] = cur[r]
    BY <1>2, <2>1, <2>4
  <2> QED
    BY <2>2, <2>3, <2>4
<1> QED
  BY <1>1, <1>2 DEF Covered

LEMMA SlotsInit == Init => SlotsAccounted
<1> SUFFICES ASSUME Init PROVE SlotsAccounted
  OBVIOUS
<1>1. InSlot = {} /\ running = {}
  BY DEF Init, InSlot
<1>2. Cardinality({}) = 0 /\ Permits \in Nat
  BY FS_EmptySet, GatewayAssumption
<1> QED
  BY <1>1, <1>2 DEF Init, SlotsAccounted

LEMMA SlotsStep == Types /\ Shapes /\ SlotsAccounted /\ [Next]_vars => SlotsAccounted'
<1> SUFFICES ASSUME Types, Shapes, SlotsAccounted, [Next]_vars PROVE SlotsAccounted'
  OBVIOUS
<1> USE DEF request, slots, breaker
<1>0. Covered /\ \A r \in Requests : Shape(r) /\ primary[r] \in Engine /\ cur[r] \in Engine
  BY DEF SlotsAccounted, Covered, Shapes, Types
<1>q. SlotsAccounted' <=> permits' + streams' + Cardinality(InSlot') = Permits /\ Covered'
  BY DEF SlotsAccounted, Covered
<1>a. ASSUME NEW r \in Requests, pc[r] # "infer", pc'[r] # "infer",
             \A q \in Requests \ {r} : pc'[q] = pc[q] /\ cur'[q] = cur[q],
             \A q \in Requests, e \in Engine :
                verdict[q][e] = "timed_out" => verdict'[q][e] = "timed_out",
             UNCHANGED <<running, slots>>
      PROVE  SlotsAccounted'
  <2>1. permits' + streams' + Cardinality(InSlot') = Permits
    BY <1>a, SlotArithmetic
  <2>2. InSlot' = InSlot \ {r} /\ r \notin InSlot
    BY <1>a, SlotMoves DEF InSlot
  <2>3. \A q \in InSlot : cur'[q] = cur[q]
    BY <1>a, <2>2 DEF InSlot
  <2>4. Covered'
    BY <1>0, <1>a, <2>2, <2>3, CoveredStays
  <2> QED
    BY <1>q, <2>1, <2>4
<1>1. ASSUME NEW r \in Requests, Refused(r) \/ BadAudio(r) \/ SlotTimeout(r) PROVE SlotsAccounted'
  <2>1. /\ pc[r] # "infer" /\ pc'[r] # "infer" /\ UNCHANGED <<cur, verdict, running, slots>>
        /\ \A q \in Requests \ {r} : pc'[q] = pc[q]
    BY <1>1, FinishTypes DEF Refused, BadAudio, SlotTimeout, Answers
  <2> QED
    BY <1>a, <2>1
<1>2. ASSUME NEW r \in Requests, NEW p \in Asked, Arrives(r, p) PROVE SlotsAccounted'
  <2>1. /\ p \in Engine /\ verdict[r] \in [Engine -> Verdicts \ {"answered"}]
        /\ GoOn(r, p, verdict[r]) /\ pc[r] = "idle" /\ UNCHANGED <<running, slots>>
    BY <1>0, <1>2, Looping, EngineFacts DEF Arrives
  <2>2. /\ \A q \in Requests \ {r} : pc'[q] = pc[q] /\ cur'[q] = cur[q] /\ verdict'[q] = verdict[q]
        /\ \A e \in Engine : verdict[r][e] # "untried" => verdict'[r][e] = verdict[r][e]
        /\ pc'[r] # "infer"
    BY <2>1, GoOnEffect
  <2> QED
    BY <1>a, <2>1, <2>2
<1>3. ASSUME NEW r \in Requests, Prepared(r) PROVE SlotsAccounted'
  <2>1. /\ pc[r] # "infer" /\ pc'[r] # "infer" /\ UNCHANGED <<cur, verdict, running, slots>>
        /\ \A q \in Requests \ {r} : pc'[q] = pc[q]
    BY <1>3 DEF Prepared, Types
  <2> QED
    BY <1>a, <2>1
<1>4. ASSUME NEW r \in Requests, SlotGranted(r) PROVE SlotsAccounted'
  <2>1. /\ pc[r] # "infer" /\ pc'[r] = "infer" /\ permits' = permits - 1
        /\ UNCHANGED <<cur, verdict, streams>> /\ running' = running \cup {<<r, cur[r]>>}
        /\ \A q \in Requests \ {r} : pc'[q] = pc[q]
    BY <1>4 DEF SlotGranted, Acquire, Types
  <2>2. permits' + streams' + Cardinality(InSlot') = Permits
    BY <2>1, SlotArithmetic
  <2>3. InSlot' = InSlot \cup {r}
    BY <2>1, SlotMoves
  <2>4. Covered'
    BY <1>0, <2>1, <2>3 DEF Covered
  <2> QED
    BY <1>q, <2>2, <2>4
<1>5. ASSUME NEW r \in Requests, Answered(r) PROVE SlotsAccounted'
  <2>1. /\ pc[r] = "infer" /\ pc'[r] # "infer" /\ permits' = permits + 1
        /\ UNCHANGED <<cur, streams>> /\ running' = running \ {<<r, cur[r]>>}
        /\ \A q \in Requests \ {r} : pc'[q] = pc[q]
    BY <1>5, FinishTypes DEF Answered, Release, Answers
  <2>2. /\ \A e \in Engine \ {cur[r]} : verdict'[r][e] = verdict[r][e]
        /\ \A q \in Requests \ {r} : verdict'[q] = verdict[q]
    BY <1>5 DEF Answered, Types
  <2>3. permits' + streams' + Cardinality(InSlot') = Permits
    BY <2>1, SlotArithmetic
  <2>4. InSlot' = InSlot \ {r}
    BY <2>1, SlotMoves
  <2>5. Covered'
    BY <1>0, <2>1, <2>2, <2>4, CoveredLeaves
  <2> QED
    BY <1>q, <2>3, <2>5
<1>6. ASSUME NEW r \in Requests, NEW how \in Failed, GivesUp(r, how),
             \/ running' = running \ {<<r, cur[r]>>}
             \/ running' = running /\ TimeoutOn /\ how = "timed_out"
      PROVE  SlotsAccounted'
  <2>1. /\ pc[r] = "infer" /\ permits' = permits + 1 /\ streams' = streams
        /\ Verdict(r, how) \in [Engine -> Verdicts \ {"answered"}]
        /\ GoOn(r, primary[r], Verdict(r, how))
        /\ Verdict(r, how)[cur[r]] = how
        /\ \A e \in Engine \ {cur[r]} : Verdict(r, how)[e] = verdict[r][e]
    BY <1>0, <1>6, Looping DEF GivesUp, Release
  <2>2. /\ \A q \in Requests \ {r} : pc'[q] = pc[q] /\ cur'[q] = cur[q] /\ verdict'[q] = verdict[q]
        /\ \A e \in Engine : Verdict(r, how)[e] # "untried" => verdict'[r][e] = Verdict(r, how)[e]
        /\ pc'[r] # "infer"
    BY <1>0, <2>1, GoOnEffect
  <2>3. /\ verdict'[r][cur[r]] = how
        /\ \A e \in Engine \ {cur[r]} :
              verdict[r][e] = "timed_out" => verdict'[r][e] = "timed_out"
    BY <1>0, <2>1, <2>2 DEF Failed
  <2>4. permits' + streams' + Cardinality(InSlot') = Permits
    BY <2>1, <2>2, SlotArithmetic
  <2>5. InSlot' = InSlot \ {r}
    BY <2>1, <2>2, SlotMoves
  <2>6. Covered'
    BY <1>0, <1>6, <2>1, <2>2, <2>3, <2>5, CoveredLeaves
  <2> QED
    BY <1>q, <2>4, <2>6
<1>7. ASSUME NEW r \in Requests, InferenceFails(r) PROVE SlotsAccounted'
  BY <1>6, <1>7 DEF InferenceFails, Failed
<1>8. ASSUME NEW r \in Requests, InferenceTimesOut(r) PROVE SlotsAccounted'
  BY <1>6, <1>8 DEF InferenceTimesOut, Failed
<1>9. ASSUME StreamOpens \/ StreamEnds PROVE SlotsAccounted'
  <2>1. InSlot' = InSlot /\ UNCHANGED <<request, running>>
    BY <1>9 DEF StreamOpens, StreamEnds, InSlot
  <2>2. Covered'
    BY <1>0, <2>1, CoveredStays
  <2>3. permits' + streams' = permits + streams
    <3>1. permits \in Nat /\ streams \in Nat
      BY DEF Types
    <3>2. \/ permits' = permits - 1 /\ streams' = streams + 1
          \/ permits' = permits + 1 /\ streams' = streams - 1
      BY <1>9 DEF StreamOpens, StreamEnds, Acquire, Release
    <3> QED
      BY <3>1, <3>2
  <2>4. permits' + streams' + Cardinality(InSlot') = Permits
    <3>1. permits + streams + Cardinality(InSlot) = Permits
      BY DEF SlotsAccounted
    <3> QED
      BY <2>1, <2>3, <3>1
  <2> QED
    BY <1>q, <2>2, <2>4
<1>10. ASSUME NEW e \in Engine, CooldownOver(e) PROVE SlotsAccounted'
  BY <1>10 DEF CooldownOver, SlotsAccounted, InSlot
<1>11. ASSUME NEW r \in Requests, NEW e \in Engine, InferenceEndsLate(r, e) PROVE SlotsAccounted'
  <2>1. UNCHANGED <<request, slots>> /\ running' = running \ {<<r, e>>} /\ InSlot' = InSlot
    BY <1>11 DEF InferenceEndsLate, InSlot
  <2>2. \A q \in InSlot : <<q, cur[q]>> # <<r, e>>
    BY <1>0, <1>11 DEF InferenceEndsLate, InSlot, Shape, Active
  <2>3. Covered'
    BY <1>0, <2>1, <2>2 DEF Covered
  <2> QED
    BY <1>q, <2>1, <2>3 DEF SlotsAccounted
<1>12. CASE UNCHANGED vars
  BY <1>12 DEF vars, SlotsAccounted, InSlot
<1> QED
  BY <1>1, <1>2, <1>3, <1>4, <1>5, <1>7, <1>8, <1>9, <1>10, <1>11, <1>12
  DEF Next, Request, Progress, Others

(***************************************************************************)
(* Failures                                                                *)
(***************************************************************************)

FailedOn(e) == {r \in Requests : verdict[r][e] \in Failed}

FailInv == \A e \in Engine : /\ fails[e] <= Cardinality(FailedOn(e))
                             /\ e \in open => Cardinality(FailedOn(e)) >= Threshold

LEMMA FiniteFailures ==
  ASSUME NEW e PROVE IsFiniteSet(FailedOn(e)) /\ Cardinality(FailedOn(e)) \in Nat
  BY GatewayAssumption, FS_Subset, FS_CardinalityType DEF FailedOn

(* A failure, once there, is there for good: the counts only grow. *)
LEMMA FailuresGrow ==
  ASSUME NEW e, IsFiniteSet(FailedOn(e)'), FailedOn(e) \subseteq FailedOn(e)'
  PROVE  Cardinality(FailedOn(e)) <= Cardinality(FailedOn(e)')
  BY FS_Subset

LEMMA FailInit == Init => FailInv
<1> SUFFICES ASSUME Init, NEW e \in Engine
             PROVE  fails[e] <= Cardinality(FailedOn(e)) /\ e \notin open
  BY DEF FailInv
<1> QED
  BY FiniteFailures DEF Init

(* A step that tells the breaker nothing, or a success. *)
LEMMA FailStays ==
  ASSUME Types, FailInv, open' \subseteq open,
         \A e \in Engine : FailedOn(e) \subseteq FailedOn(e)',
         \A e \in Engine : fails'[e] = fails[e] \/ fails'[e] = 0
  PROVE  FailInv'
<1> SUFFICES ASSUME NEW e \in Engine
             PROVE  /\ fails'[e] <= Cardinality(FailedOn(e)')
                    /\ e \in open' => Cardinality(FailedOn(e)') >= Threshold
  BY DEF FailInv
<1>1. IsFiniteSet(FailedOn(e)') /\ Cardinality(FailedOn(e)') \in Nat
  BY GatewayAssumption, FS_Subset, FS_CardinalityType DEF FailedOn
<1>2. Cardinality(FailedOn(e)) <= Cardinality(FailedOn(e)')
  BY <1>1, FailuresGrow
<1>3. Cardinality(FailedOn(e)) \in Nat /\ fails[e] \in Nat /\ Threshold \in Nat
  BY FiniteFailures, GatewayAssumption DEF Types
<1>4. /\ fails[e] <= Cardinality(FailedOn(e))
      /\ e \in open => Cardinality(FailedOn(e)) >= Threshold
  BY DEF FailInv
<1> QED
  BY <1>1, <1>2, <1>3, <1>4

(* A failure that is told to the breaker has just been entered in the       *)
(* verdicts of the request.                                                 *)
LEMMA FailCounts ==
  ASSUME Types, FailInv, NEW r \in Requests, NEW c \in Engine, RecordFailure(c),
         \A e \in Engine : FailedOn(e) \subseteq FailedOn(e)',
         r \notin FailedOn(c), r \in FailedOn(c)'
  PROVE  FailInv'
<1> SUFFICES ASSUME NEW e \in Engine
             PROVE  /\ fails'[e] <= Cardinality(FailedOn(e)')
                    /\ e \in open' => Cardinality(FailedOn(e)') >= Threshold
  BY DEF FailInv
<1>1. IsFiniteSet(FailedOn(e)') /\ Cardinality(FailedOn(e)') \in Nat
  BY GatewayAssumption, FS_Subset, FS_CardinalityType DEF FailedOn
<1>2. Cardinality(FailedOn(e)) <= Cardinality(FailedOn(e)')
  BY <1>1, FailuresGrow
<1>3. Cardinality(FailedOn(e)) \in Nat /\ fails[e] \in Nat /\ Threshold \in Nat
  BY FiniteFailures, GatewayAssumption DEF Types
<1>4. /\ fails[e] <= Cardinality(FailedOn(e))
      /\ e \in open => Cardinality(FailedOn(e)) >= Threshold
  BY DEF FailInv
<1>5. CASE e # c
  <2>1. fails'[e] = fails[e] /\ (e \in open' => e \in open)
    BY <1>5 DEF RecordFailure, Types
  <2> QED
    BY <1>1, <1>2, <1>3, <1>4, <2>1
<1>6. CASE e = c
  <2>1. fails'[e] = fails[e] + 1 /\ (e \in open' => e \in open \/ fails[e] + 1 >= Threshold)
    BY <1>6 DEF RecordFailure, Types
  <2>2. Cardinality(FailedOn(e) \cup {r}) = Cardinality(FailedOn(e)) + 1
    BY <1>6, FiniteFailures, FS_AddElement
  <2>3. Cardinality(FailedOn(e) \cup {r}) <= Cardinality(FailedOn(e)')
    <3>1. FailedOn(e) \cup {r} \subseteq FailedOn(e)'
      BY <1>6
    <3> QED
      BY <1>1, <3>1, FS_Subset
  <2> QED
    BY <1>1, <1>2, <1>3, <1>4, <2>1, <2>2, <2>3
<1> QED
  BY <1>5, <1>6

LEMMA FailStep == Types /\ Shapes /\ FailInv /\ [Next]_vars => FailInv'
<1> SUFFICES ASSUME Types, Shapes, FailInv, [Next]_vars PROVE FailInv'
  OBVIOUS
<1> USE DEF request, slots, breaker
<1>0. \A r \in Requests : Shape(r) /\ primary[r] \in Engine /\ cur[r] \in Engine
  BY DEF Shapes, Types
<1>a. ASSUME UNCHANGED <<verdict, fails>>, open' \subseteq open PROVE FailInv'
  <2>1. \A e \in Engine : FailedOn(e) \subseteq FailedOn(e)'
    BY <1>a DEF FailedOn
  <2> QED
    BY <1>a, <2>1, FailStays
<1>1. ASSUME NEW r \in Requests,
             Refused(r) \/ Prepared(r) \/ BadAudio(r) \/ SlotGranted(r) \/ SlotTimeout(r)
      PROVE  FailInv'
  BY <1>a, <1>1 DEF Refused, Prepared, BadAudio, SlotGranted, SlotTimeout
<1>2. ASSUME NEW r \in Requests, NEW p \in Asked, Arrives(r, p) PROVE FailInv'
  <2>1. /\ p \in Engine /\ verdict[r] \in [Engine -> Verdicts \ {"answered"}]
        /\ GoOn(r, p, verdict[r]) /\ UNCHANGED breaker
    BY <1>0, <1>2, Looping, EngineFacts DEF Arrives
  <2>2. /\ \A q \in Requests \ {r} : verdict'[q] = verdict[q]
        /\ \A e \in Engine : verdict[r][e] # "untried" => verdict'[r][e] = verdict[r][e]
    BY <2>1, GoOnEffect
  <2>3. \A e \in Engine : FailedOn(e) \subseteq FailedOn(e)'
    BY <2>2 DEF FailedOn, Failed
  <2> QED
    BY <2>1, <2>3, FailStays
<1>3. ASSUME NEW r \in Requests, Answered(r) PROVE FailInv'
  <2>1. /\ cur[r] \in Engine /\ verdict[r][cur[r]] = "untried" /\ RecordSuccess(cur[r])
        /\ verdict' = [verdict EXCEPT ![r][cur[r]] = "answered"]
    BY <1>0, <1>3 DEF Answered, Shape, Active
  <2>2. \A e \in Engine : FailedOn(e) \subseteq FailedOn(e)'
    BY <2>1 DEF FailedOn, Failed, Types
  <2>3. open' \subseteq open /\ \A e \in Engine : fails'[e] = fails[e] \/ fails'[e] = 0
    BY <2>1 DEF RecordSuccess, Types
  <2> QED
    BY <2>2, <2>3, FailStays
<1>4. ASSUME NEW r \in Requests, NEW how \in Failed, GivesUp(r, how) PROVE FailInv'
  <2>1. /\ Verdict(r, how) \in [Engine -> Verdicts \ {"answered"}]
        /\ GoOn(r, primary[r], Verdict(r, how)) /\ RecordFailure(cur[r])
        /\ Verdict(r, how)[cur[r]] = how
        /\ \A e \in Engine \ {cur[r]} : Verdict(r, how)[e] = verdict[r][e]
        /\ verdict[r][cur[r]] = "untried"
    BY <1>0, <1>4, Looping DEF GivesUp, Shape, Active
  <2>2. /\ \A q \in Requests \ {r} : verdict'[q] = verdict[q]
        /\ \A e \in Engine : Verdict(r, how)[e] # "untried" => verdict'[r][e] = Verdict(r, how)[e]
    BY <1>0, <2>1, GoOnEffect
  <2>3. verdict'[r][cur[r]] \in Failed
    BY <1>0, <2>1, <2>2 DEF Failed
  <2>4. \A e \in Engine : FailedOn(e) \subseteq FailedOn(e)'
    BY <2>1, <2>2, <2>3 DEF FailedOn, Failed
  <2>5. r \notin FailedOn(cur[r]) /\ r \in {q \in Requests : verdict'[q][cur[r]] \in Failed}
    BY <2>1, <2>3 DEF FailedOn, Failed
  <2> DEFINE c == cur[r]
  <2>6. c \in Engine /\ RecordFailure(c) /\ r \notin FailedOn(c)
    BY <1>0, <2>1, <2>5
  <2> HIDE DEF c
  <2> QED
    BY <2>4, <2>5, <2>6, FailCounts DEF FailedOn, c
<1>5. ASSUME NEW r \in Requests, InferenceFails(r) \/ InferenceTimesOut(r) PROVE FailInv'
  BY <1>4, <1>5 DEF InferenceFails, InferenceTimesOut, Failed
<1>6. ASSUME StreamOpens \/ StreamEnds PROVE FailInv'
  BY <1>a, <1>6 DEF StreamOpens, StreamEnds
<1>7. ASSUME NEW e \in Engine, CooldownOver(e) PROVE FailInv'
  BY <1>a, <1>7 DEF CooldownOver
<1>8. ASSUME NEW r \in Requests, NEW e \in Engine, InferenceEndsLate(r, e) PROVE FailInv'
  BY <1>a, <1>8 DEF InferenceEndsLate
<1>9. CASE UNCHANGED vars
  BY <1>a, <1>9 DEF vars
<1> QED
  BY <1>1, <1>2, <1>3, <1>5, <1>6, <1>7, <1>8, <1>9 DEF Next, Request, Progress, Others

(***************************************************************************)
(* The theorems                                                            *)
(***************************************************************************)

IInv == Types /\ Shapes /\ SlotsAccounted /\ FailInv

LEMMA Invariant == Spec => []IInv
<1>1. Init => IInv
  BY TypesInit, ShapesInit, SlotsInit, FailInit DEF IInv
<1>2. IInv /\ [Next]_vars => IInv'
  BY TypesStep, ShapesStep, SlotsStep, FailStep DEF IInv
<1> QED
  BY <1>1, <1>2, PTL DEF Spec

(* The variables keep their types; permits and stream slots stay within     *)
(* asr_concurrency because slots are accounted for.                         *)
THEOREM TypeCorrect == Spec => []TypeOK
<1>1. IInv => TypeOK
  <2> SUFFICES ASSUME IInv PROVE TypeOK
    OBVIOUS
  <2>1. permits \in Nat /\ streams \in Nat /\ permits + streams + Cardinality(InSlot) = Permits
    BY DEF IInv, Types, SlotsAccounted
  <2>2. permits \in 0 .. Permits /\ streams \in 0 .. Permits
    BY <2>1, FiniteSlots, GatewayAssumption
  <2> QED
    BY <2>2 DEF IInv, Types, TypeOK
<1> QED
  BY <1>1, Invariant, PTL

(* For any number of requests, engines and permits no way out of a slot     *)
(* loses a permit, and a model runs outside one only after a timeout.       *)
THEOREM SlotsNeverLeak == Spec => []SlotsAccounted
<1>1. IInv => SlotsAccounted
  BY DEF IInv
<1> QED
  BY <1>1, Invariant, PTL

(* For any chain and threshold: how a request ends is justified by what its *)
(* engines did, and an engine is open only if Threshold requests failed on  *)
(* it.                                                                      *)
THEOREM AnswersAreJustified == Spec => []Justified
<1>1. IInv => Justified
  <2> SUFFICES ASSUME IInv PROVE Justified
    OBVIOUS
  <2>1. \A e \in open : Cardinality(FailedOn(e)) >= Threshold
    BY DEF IInv, Types, FailInv
  <2> QED
    BY <2>1 DEF IInv, Shapes, Justified, FailedOn
<1> QED
  BY <1>1, Invariant, PTL

(* No step of any number of requests binds one to an engine that is open    *)
(* before and after it.                                                     *)
THEOREM OpenEnginesAreShielded == Spec => OpenEngineShielded
<1>1. IInv /\ [Next]_vars =>
        [\A e \in Engine : e \in open /\ e \in open' => Bound(e)' \subseteq Bound(e)]_vars
  <2> SUFFICES ASSUME IInv, Next, NEW e \in Engine, e \in open,
                      NEW q \in Requests, pc'[q] \in Active, cur'[q] = e
               PROVE  pc[q] \in Active /\ cur[q] = e
    BY DEF Bound, Active
  <2> USE DEF request, slots, breaker
  <2>0. Types /\ \A r \in Requests : Shape(r) /\ primary[r] \in Engine /\ cur[r] \in Engine
    BY DEF IInv, Shapes, Types
  <2>1. CASE pc'[q] = pc[q] /\ cur'[q] = cur[q]
    BY <2>1
  <2>2. ASSUME NEW r \in Requests,
               Refused(r) \/ Prepared(r) \/ BadAudio(r) \/ SlotGranted(r) \/ SlotTimeout(r)
                 \/ Answered(r)
        PROVE  pc[q] \in Active /\ cur[q] = e
    BY <2>0, <2>2 DEF Refused, Prepared, BadAudio, SlotGranted, SlotTimeout, Answered,
       Finish, Types, Active
  <2>3. ASSUME NEW r \in Requests, NEW p \in Engine,
               NEW v \in [Engine -> Verdicts \ {"answered"}], GoOn(r, p, v)
        PROVE  pc[q] \in Active /\ cur[q] = e
    <3>1. q # r
      BY <2>0, <2>3, GoOnEffect DEF Active
    <3> QED
      BY <2>0, <2>3, <3>1, GoOnEffect
  <2>4. ASSUME NEW r \in Requests, NEW p \in Asked, Arrives(r, p)
        PROVE  pc[q] \in Active /\ cur[q] = e
    BY <2>0, <2>3, <2>4, Looping, EngineFacts DEF Arrives
  <2>5. ASSUME NEW r \in Requests, NEW how \in Failed, GivesUp(r, how)
        PROVE  pc[q] \in Active /\ cur[q] = e
    BY <2>0, <2>3, <2>5, Looping DEF GivesUp
  <2>6. ASSUME NEW r \in Requests, InferenceFails(r) \/ InferenceTimesOut(r)
        PROVE  pc[q] \in Active /\ cur[q] = e
    BY <2>5, <2>6 DEF InferenceFails, InferenceTimesOut, Failed
  <2>7. ASSUME Others PROVE pc[q] \in Active /\ cur[q] = e
    BY <2>1, <2>7 DEF Others, StreamOpens, StreamEnds, CooldownOver, InferenceEndsLate
  <2> QED
    BY <2>2, <2>4, <2>6, <2>7 DEF Next, Request, Progress
<1> QED
  BY <1>1, Invariant, PTL DEF Spec, OpenEngineShielded
=============================================================================
