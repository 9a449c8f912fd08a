------------------------- MODULE SpeechStreamProofs -------------------------
(***************************************************************************)
(* Proofs about SpeechStream, for every value of its constants: the slot   *)
(* outlives the thread of a stream that is not dropped, the thread is held *)
(* back, and the promise of SynthesisPromise is kept.                      *)
(***************************************************************************)
EXTENDS SpeechStream, SequenceTheorems, TLAPS

(* What is under way from the thread to the task: the queue, followed by    *)
(* the put that waits for room.  Landing the put does not change it.        *)
Line == IF offer = Nothing THEN queue ELSE Append(queue, offer)

(* The thread still makes chunks. *)
Busy == {"ready", "check", "compute", "put"}

(* The thread has ended its generator, or is about to. *)
Late == {"finally", "putExc", "putDone", "exited"}

(* Who runs at each point of the request. *)
PhaseInv ==
  /\ pc \in {"request", "meta", "slot"} =>
       /\ tpc = "off" /\ fin = "none" /\ slot = "none" /\ cur = 1 /\ made = 0
       /\ got = [s |-> 1, k |-> 0] /\ ending = "none" /\ queue = <<>>
  /\ pc \in {"get", "send"} => ending = "none" /\ ~stop
  /\ pc = "join" => ending # "none"
  /\ pc \in {"get", "send", "join"} => slot = "held" /\ fin = "none" /\ tpc # "off"
  /\ pc \in {"final", "closed"} <=> answer # "none"
  /\ pc \in {"final", "closed"} /\ fin \in {"none", "done"} => ~Running
  /\ pc = "final" => fin = "none"
  /\ tpc \notin Putting => offer = Nothing
  /\ Len(queue) <= QueueMax

(* The line carries the chunks of the sentence in order, from the first one  *)
(* the task has not taken; an end marker comes after the last of them, and   *)
(* that of a sentence that failed after the exception.                       *)
ItemInOrder(i) ==
  /\ Line[i].kind = "pcm" =>
       Line[i].s = cur /\ Line[i].k = Taken + i /\ Taken + i <= total[cur]
  /\ Line[i].kind # "pcm" => total[cur] < Taken + i
  /\ Line[i].kind = "exc" => fails[cur]
  /\ Line[i].kind = "done" /\ fails[cur] => \E j \in 1 .. i - 1 : Line[j].kind = "exc"

LineInOrder == \A i \in 1 .. Len(Line) : ItemInOrder(i)

(* Nothing that was made is missing from the line. *)
NothingLost ==
  /\ tpc \in Busy => made = Taken + Len(Line)
  /\ tpc \in Late /\ ~stop =>
       /\ total[cur] <= Taken + Len(Line)
       /\ fails[cur] => \E j \in 1 .. Len(Line) : Line[j].kind = "exc"

CountsInv ==
  /\ made <= total[cur]
  /\ got.s <= cur /\ got.k <= total[got.s]
  /\ ending # "none" => tpc \in Late

FlowInv ==
  /\ CountsInv
  /\ Backpressure
  /\ ending = "none" /\ tpc # "off" => LineInOrder /\ NothingLost

(* The sentences before the present one are delivered and did not fail; the  *)
(* end of the present one is met only when it is delivered too.              *)
ReachInv ==
  /\ \A x \in 1 .. cur - 1 : ~fails[x]
  /\ got.s < cur => Promise!Through(cur - 1)
  /\ ending = "done" => Promise!Through(cur) /\ ~fails[cur]
  /\ ending = "exc" => Promise!Through(cur) /\ fails[cur]

(* The boolean variables. *)
LEMMA FlagsStep == FlagsOK /\ [Next]_vars => FlagsOK'
<1> SUFFICES ASSUME FlagsOK, [Next]_vars PROVE FlagsOK'
  OBVIOUS
<1> USE DEF FlagsOK, script, request, thread
<1>1. CASE BadRequest
  BY <1>1, Zenon DEF BadRequest
<1>2. CASE Request
  BY <1>2, Zenon DEF Request
<1>3. CASE AfterMeta
  BY <1>3, Zenon DEF AfterMeta
<1>4. CASE MetaFails
  BY <1>4, Zenon DEF MetaFails
<1>5. CASE SlotTimeout
  BY <1>5, Zenon DEF SlotTimeout
<1>6. CASE SlotGranted
  BY <1>6, Zenon DEF SlotGranted, OpenSentence
<1>7. CASE TakeChunk
  BY <1>7, Zenon DEF TakeChunk
<1>24. CASE TakeEnd
  BY <1>24, Zenon DEF TakeEnd
<1>8. CASE AfterBytes
  BY <1>8, Zenon DEF AfterBytes
<1>9. CASE Joined
  BY <1>9, Zenon DEF Joined, OpenSentence
<1>10. CASE SendFails
  BY <1>10, Zenon DEF SendFails
<1>11. CASE AfterFinal
  BY <1>11, Zenon DEF AfterFinal
<1>12. CASE ThreadStarts
  BY <1>12, Zenon DEF ThreadStarts
<1>13. CASE CheckStop
  BY <1>13, Zenon DEF CheckStop
<1>14. CASE MakeChunk
  BY <1>14, Zenon DEF MakeChunk
<1>15. CASE ModelEnds
  BY <1>15, Zenon DEF ModelEnds
<1>16. CASE ModelRaises
  BY <1>16, Zenon DEF ModelRaises
<1>17. CASE ThreadFinally
  BY <1>17, Zenon DEF ThreadFinally
<1>18. CASE PutReturns
  BY <1>18, Zenon DEF PutReturns
<1>19. CASE PutCancelled
  BY <1>19, Zenon DEF PutCancelled
<1>20. CASE PutLands
  BY <1>20, Zenon DEF PutLands
<1>21. CASE Finalise
  BY <1>21, Zenon DEF Finalise
<1>22. CASE Finalised
  BY <1>22, Zenon DEF Finalised
<1>23. CASE ClientLeaves
  BY <1>23, Zenon DEF ClientLeaves
<1>25. CASE UNCHANGED vars
  BY <1>25, Zenon DEF vars
<1>26. QED
  BY <1>1, <1>2, <1>3, <1>4, <1>5, <1>6, <1>7, <1>8, <1>9, <1>10, <1>11, <1>12,
     <1>13, <1>14, <1>15, <1>16, <1>17, <1>18, <1>19, <1>20, <1>21, <1>22, <1>23,
     <1>24, <1>25, Zenon DEF Next, Task, Thread, Loop

LEMMA DataStep == DataOK /\ [Next]_vars => DataOK'
<1> SUFFICES ASSUME DataOK, [Next]_vars PROVE DataOK'
  OBVIOUS
<1> USE StreamAssumption DEF DataOK, StreamAssumption, script, request, thread, Putting
<1>1. CASE BadRequest
  BY <1>1 DEF BadRequest
<1>2. CASE Request
  BY <1>2 DEF Request
<1>3. CASE AfterMeta
  BY <1>3 DEF AfterMeta
<1>4. CASE MetaFails
  BY <1>4 DEF MetaFails
<1>5. CASE SlotTimeout
  BY <1>5 DEF SlotTimeout
<1>6. CASE SlotGranted
  BY <1>6 DEF SlotGranted, OpenSentence
<1>7. CASE TakeChunk
  <2>1. Head(queue) \in Item /\ Tail(queue) \in Seq(Item)
    BY <1>7, HeadTailProperties DEF TakeChunk
  <2>2. [s |-> Head(queue).s, k |-> Head(queue).k] \in Place
    BY <2>1 DEF Place, Item
  <2>3. QED
    BY <1>7, <2>1, <2>2 DEF TakeChunk
<1>26. CASE TakeEnd
  <2>1. Head(queue) \in Item /\ Tail(queue) \in Seq(Item)
    BY <1>26, HeadTailProperties DEF TakeEnd
  <2>2. QED
    BY <1>26, <2>1, SMTT(30) DEF TakeEnd, Item
<1>8. CASE AfterBytes
  BY <1>8 DEF AfterBytes
<1>9. CASE Joined
  <2>1. CASE ending = "done" /\ More
    BY <1>9, <2>1 DEF Joined, OpenSentence, More
  <2>2. CASE ~(ending = "done" /\ More)
    BY <1>9, <2>2 DEF Joined
  <2>3. QED
    BY <2>1, <2>2
<1>10. CASE SendFails
  BY <1>10 DEF SendFails
<1>11. CASE AfterFinal
  BY <1>11 DEF AfterFinal
<1>12. CASE ThreadStarts
  BY <1>12 DEF ThreadStarts
<1>13. CASE CheckStop
  BY <1>13 DEF CheckStop
<1>14. CASE MakeChunk
  BY <1>14 DEF MakeChunk, Pcm, Item
<1>15. CASE ModelEnds
  BY <1>15 DEF ModelEnds
<1>16. CASE ModelRaises
  BY <1>16 DEF ModelRaises, Forward, Exc, Item
<1>17. CASE ThreadFinally
  BY <1>17 DEF ThreadFinally, PutDone, Done, Item
<1>18. CASE PutReturns
  BY <1>18 DEF PutReturns, AfterPut
<1>19. CASE PutCancelled
  BY <1>19 DEF PutCancelled, PutGivesUp
<1>20. CASE PutLands
  <2>1. offer \in Item
    BY <1>20 DEF PutLands
  <2>2. Append(queue, offer) \in Seq(Item)
    BY <2>1, AppendProperties
  <2>3. QED
    BY <1>20, <2>2 DEF PutLands
<1>21. CASE Finalise
  BY <1>21 DEF Finalise
<1>22. CASE Finalised
  BY <1>22 DEF Finalised
<1>23. CASE ClientLeaves
  BY <1>23 DEF ClientLeaves
<1>24. CASE UNCHANGED vars
  BY <1>24 DEF vars
<1>25. QED
  BY <1>1, <1>2, <1>3, <1>4, <1>5, <1>6, <1>7, <1>8, <1>9, <1>10, <1>11,
     <1>12, <1>13, <1>14, <1>15, <1>16, <1>17, <1>18, <1>19, <1>20, <1>21,
     <1>22, <1>23, <1>24, <1>26 DEF Next, Task, Thread, Loop

(* Every variable of a request keeps its type: the sentence synthesised is   *)
(* one of the text, the thread makes no more chunks than there are.          *)
THEOREM TypeCorrect == Spec => []TypeOK
<1>1. Init => DataOK
  BY StreamAssumption DEF Init, DataOK, StreamAssumption, Place
<1>2. Init => FlagsOK
  BY Zenon DEF Init, FlagsOK
<1>3. TypeOK /\ [Next]_vars => TypeOK'
  BY FlagsStep, DataStep DEF TypeOK
<1>4. QED
  BY <1>1, <1>2, <1>3, PTL DEF Spec, TypeOK

LEMMA PhaseInit == Init => PhaseInv
BY StreamAssumption DEF Init, PhaseInv, StreamAssumption, Running, Putting

LEMMA PhaseStep == TypeOK /\ PhaseInv /\ [Next]_vars => PhaseInv'
<1> SUFFICES ASSUME TypeOK, PhaseInv, [Next]_vars PROVE PhaseInv'
  OBVIOUS
<1> USE StreamAssumption DEF StreamAssumption, TypeOK, DataOK, PhaseInv, Running, Putting, script, request, thread
<1>1. CASE BadRequest
  BY <1>1 DEF BadRequest
<1>2. CASE Request
  BY <1>2 DEF Request
<1>3. CASE AfterMeta
  BY <1>3 DEF AfterMeta
<1>4. CASE MetaFails
  BY <1>4 DEF MetaFails
<1>5. CASE SlotTimeout
  BY <1>5 DEF SlotTimeout
<1>6. CASE SlotGranted
  BY <1>6 DEF SlotGranted, OpenSentence
<1>7. CASE TakeChunk
  BY <1>7 DEF TakeChunk
<1>8. CASE TakeEnd
  <2>1. Head(queue) \in Item /\ Len(Tail(queue)) = Len(queue) - 1
    BY <1>8, HeadTailProperties DEF TakeEnd
  <2>2. Head(queue).kind \in {"done", "exc"}
    BY <1>8, <2>1 DEF TakeEnd, Item
  <2>3. Len(queue) \in Nat
    BY LenProperties
  <2>4. QED
    BY <1>8, <2>1, <2>2, <2>3 DEF TakeEnd
<1>9. CASE AfterBytes
  BY <1>9 DEF AfterBytes
<1>10. CASE Joined
  BY <1>10 DEF Joined, OpenSentence, ThreadOver
<1>11. CASE SendFails
  BY <1>11 DEF SendFails
<1>12. CASE AfterFinal
  BY <1>12 DEF AfterFinal
<1>13. CASE ThreadStarts
  BY <1>13 DEF ThreadStarts
<1>14. CASE CheckStop
  BY <1>14 DEF CheckStop
<1>15. CASE MakeChunk
  BY <1>15 DEF MakeChunk
<1>16. CASE ModelEnds
  BY <1>16 DEF ModelEnds
<1>17. CASE ModelRaises
  BY <1>17 DEF ModelRaises, Forward
<1>18. CASE ThreadFinally
  BY <1>18 DEF ThreadFinally, PutDone
<1>19. CASE PutReturns
  BY <1>19 DEF PutReturns, AfterPut
<1>20. CASE PutCancelled
  BY <1>20 DEF PutCancelled, PutGivesUp
<1>21. CASE PutLands
  BY <1>21 DEF PutLands, Room
<1>22. CASE Finalise
  BY <1>22 DEF Finalise
<1>23. CASE Finalised
  BY <1>23 DEF Finalised, ThreadOver
<1>24. CASE ClientLeaves
  BY <1>24 DEF ClientLeaves
<1>25. CASE UNCHANGED vars
  BY <1>25 DEF vars
<1>26. QED
  BY <1>1, <1>2, <1>3, <1>4, <1>5, <1>6, <1>7, <1>8, <1>9, <1>10, <1>11, <1>12, <1>13, <1>14, <1>15, <1>16, <1>17, <1>18, <1>19, <1>20, <1>21, <1>22, <1>23, <1>24, <1>25 DEF Next, Task, Thread, Loop

(***************************************************************************)
(* What the actions do to the line.                                        *)
(***************************************************************************)
LEMMA LineType == ASSUME TypeOK PROVE Line \in Seq(Item) /\ Len(Line) \in Nat
<1> USE DEF TypeOK, DataOK
<1>1. CASE offer = Nothing
  BY <1>1, LenProperties DEF Line
<1>2. CASE offer # Nothing
  <2>1. offer \in Item
    BY <1>2
  <2>2. Append(queue, offer) \in Seq(Item)
    BY <2>1, AppendProperties
  <2>3. QED
    BY <1>2, <2>2, LenProperties DEF Line
<1>3. QED
  BY <1>1, <1>2

LEMMA LineSame == ASSUME UNCHANGED <<queue, offer>> PROVE Line' = Line
BY DEF Line

(* An item is offered while no put is under way. *)
LEMMA LineOffered ==
  ASSUME offer = Nothing, offer' \in Item, UNCHANGED queue
  PROVE  Line' = Append(Line, offer')
BY DEF Line, Nothing, Item

LEMMA LineLands == ASSUME offer # Nothing, queue' = Append(queue, offer), offer' = Nothing
                   PROVE  Line' = Line
BY DEF Line

(* The first item is taken. *)
LEMMA LineTaken ==
  ASSUME TypeOK, queue # <<>>, queue' = Tail(queue), UNCHANGED offer
  PROVE  /\ Len(Line) >= 1 /\ Line[1] = Head(queue)
         /\ Len(Line') = Len(Line) - 1
         /\ \A i \in 1 .. Len(Line') : Line'[i] = Line[i + 1]
<1> USE DEF TypeOK, DataOK
<1>1. /\ Len(queue) \in Nat /\ Len(queue) >= 1 /\ Head(queue) = queue[1]
      /\ Tail(queue) \in Seq(Item) /\ Len(Tail(queue)) = Len(queue) - 1
      /\ \A i \in 1 .. Len(queue) - 1 : Tail(queue)[i] = queue[i + 1]
  BY HeadTailProperties, LenProperties, EmptySeq
<1>2. CASE offer = Nothing
  BY <1>1, <1>2 DEF Line
<1>3. CASE offer # Nothing
  <2>1. offer \in Item
    BY <1>3
  <2>2. /\ Len(Append(queue, offer)) = Len(queue) + 1
        /\ \A i \in 1 .. Len(queue) : Append(queue, offer)[i] = queue[i]
        /\ Append(queue, offer)[Len(queue) + 1] = offer
    BY <2>1, AppendProperties
  <2>3. /\ Len(Append(Tail(queue), offer)) = Len(queue)
        /\ \A i \in 1 .. Len(queue) - 1 : Append(Tail(queue), offer)[i] = Tail(queue)[i]
        /\ Append(Tail(queue), offer)[Len(queue)] = offer
    BY <1>1, <2>1, AppendProperties
  <2>4. Line = Append(queue, offer) /\ Line' = Append(Tail(queue), offer)
    BY <1>3 DEF Line
  <2>5. Len(Line') = Len(Line) - 1 /\ Len(Line') = Len(queue)
    BY <1>1, <2>2, <2>3, <2>4
  <2>6. Line[1] = Head(queue) /\ Len(Line) >= 1
    BY <1>1, <2>2, <2>4
  <2>7. ASSUME NEW i \in 1 .. Len(queue) PROVE Line'[i] = Line[i + 1]
    <3>1. CASE i = Len(queue)
      BY <1>1, <2>2, <2>3, <2>4, <3>1
    <3>2. CASE i # Len(queue)
      <4>0. Len(queue) \in Nat
        BY <1>1
      <4>1. i \in 1 .. Len(queue) - 1 /\ i + 1 \in 1 .. Len(queue)
        BY <3>2, <4>0
      <4>2. Line'[i] = Tail(queue)[i]
        BY <2>3, <2>4, <4>1, Zenon
      <4>3. Tail(queue)[i] = queue[i + 1]
        BY <1>1, <4>1
      <4>4. Line[i + 1] = queue[i + 1]
        BY <2>2, <2>4, <4>1
      <4>5. QED
        BY <4>2, <4>3, <4>4
    <3>3. QED
      BY <3>1, <3>2
  <2>8. QED
    BY <2>5, <2>6, <2>7
<1>4. QED
  BY <1>2, <1>3

(* The put under way is cancelled. *)
LEMMA LineCancelled ==
  ASSUME TypeOK, offer # Nothing, offer' = Nothing, UNCHANGED queue
  PROVE  /\ Len(Line') = Len(Line) - 1
         /\ \A i \in 1 .. Len(Line') : Line'[i] = Line[i]
<1>1. offer \in Item /\ queue \in Seq(Item)
  BY DEF TypeOK, DataOK
<1>2. Line = Append(queue, offer) /\ Line' = queue
  BY DEF Line
<1>3. /\ Len(Append(queue, offer)) = Len(queue) + 1
      /\ \A i \in 1 .. Len(queue) : Append(queue, offer)[i] = queue[i]
  BY <1>1, AppendProperties
<1>4. Len(queue) \in Nat
  BY <1>1, LenProperties
<1>5. QED
  BY <1>2, <1>3, <1>4

(* Steps that leave the line and the counts alone. *)
LEMMA FlowFrame ==
  ASSUME TypeOK, FlowInv, Line' = Line, UNCHANGED <<script, cur, got, ending, made>>,
         stop' = stop \/ stop' = TRUE,
         \/ tpc' = tpc
         \/ tpc \in Busy /\ tpc' \in Busy
         \/ tpc \in Late /\ tpc' \in Late
  PROVE  FlowInv'
<1>1. Taken' = Taken /\ total' = total /\ fails' = fails
  BY DEF Taken, script
<1>2. tpc # "off" => tpc' # "off" /\ (ending # "none" => tpc' \in Late)
  BY DEF Busy, Late, FlowInv, CountsInv
<1>3. CountsInv' /\ Backpressure'
  BY <1>1, <1>2 DEF FlowInv, CountsInv, Backpressure, Late, Busy
<1>4. LineInOrder => LineInOrder'
  BY <1>1, Zenon DEF LineInOrder, ItemInOrder
<1>5. NothingLost => NothingLost'
  BY <1>1 DEF NothingLost, Busy, Late
<1>6. ending' = "none" /\ tpc' # "off" => ending = "none" /\ tpc # "off"
  BY DEF Busy, Late
<1>7. QED
  BY <1>3, <1>4, <1>5, <1>6 DEF FlowInv

(* An item joins the line. *)
LEMMA FlowAppend ==
  ASSUME TypeOK, LineInOrder, NEW x \in Item, Line' = Append(Line, x),
         UNCHANGED <<script, cur, got>>,
         x.kind = "pcm" => /\ x.s = cur /\ x.k = Taken + Len(Line) + 1
                           /\ Taken + Len(Line) + 1 <= total[cur],
         x.kind # "pcm" => total[cur] < Taken + Len(Line) + 1,
         x.kind = "exc" => fails[cur],
         x.kind = "done" /\ fails[cur] => \E j \in 1 .. Len(Line) : Line[j].kind = "exc"
  PROVE  LineInOrder'
<1>1. Taken' = Taken /\ total' = total /\ fails' = fails /\ cur' = cur
  BY DEF Taken, script
<1>2. Taken \in Nat /\ Len(Line) \in Nat
  BY LineType DEF Taken, TypeOK, DataOK, Place
<1>3. /\ Len(Line') = Len(Line) + 1
      /\ \A i \in 1 .. Len(Line) : Line'[i] = Line[i]
      /\ Line'[Len(Line) + 1] = x
  BY LineType, AppendProperties
<1>4. ASSUME NEW i \in 1 .. Len(Line) PROVE ItemInOrder(i)'
  <2>1. ItemInOrder(i) /\ Line'[i] = Line[i]
    BY <1>3 DEF LineInOrder
  <2>2. \A j \in 1 .. i - 1 : Line'[j] = Line[j]
    BY <1>2, <1>3
  <2>3. QED
    BY <1>1, <2>1, <2>2 DEF ItemInOrder
<1>5. ASSUME NEW i \in Nat, i = Len(Line) + 1 PROVE ItemInOrder(i)'
  <2>1. Line'[i] = x /\ Taken' + i = Taken + Len(Line) + 1
    BY <1>1, <1>2, <1>3, <1>5
  <2>2. \A j \in 1 .. Len(Line) : j \in 1 .. i - 1 /\ Line'[j] = Line[j]
    BY <1>2, <1>3, <1>5
  <2>3. QED
    BY <1>1, <2>1, <2>2 DEF ItemInOrder
<1>6. \A i \in 1 .. Len(Line') : i \in Nat /\ (i \in 1 .. Len(Line) \/ i = Len(Line) + 1)
  BY <1>2, <1>3
<1>7. QED
  BY <1>4, <1>5, <1>6 DEF LineInOrder

(* A chunk that is taken is the next one of the present sentence. *)
LEMMA ChunkTaken ==
  ASSUME TypeOK, PhaseInv, FlowInv, TakeChunk
  PROVE  got' = [s |-> cur, k |-> Taken + 1] /\ Taken + 1 <= total[cur]
<1>1. ending = "none" /\ tpc # "off"
  BY DEF TakeChunk, PhaseInv
<1>2. Len(Line) >= 1 /\ Line[1] = Head(queue)
  BY LineTaken DEF TakeChunk
<1>3. Len(Line) \in Nat
  BY LineType
<1>4. ItemInOrder(1)
  BY <1>1, <1>2, <1>3 DEF FlowInv, LineInOrder
<1>5. QED
  BY <1>2, <1>4 DEF ItemInOrder, TakeChunk

(* An end marker is taken when all of the present sentence was, and is an    *)
(* exception exactly when the sentence failed.                               *)
LEMMA EndTaken ==
  ASSUME TypeOK, PhaseInv, FlowInv, TakeEnd
  PROVE  /\ Taken = total[cur]
         /\ \/ ending' = "done" /\ ~fails[cur]
            \/ ending' = "exc" /\ fails[cur]
<1>1. ending = "none" /\ tpc # "off"
  BY DEF TakeEnd, PhaseInv
<1>2. Len(Line) >= 1 /\ Line[1] = Head(queue)
  BY LineTaken DEF TakeEnd
<1>3. Len(Line) \in Nat /\ Taken \in Nat /\ total[cur] \in Nat
  BY LineType DEF Taken, TypeOK, DataOK, Place
<1>4. ItemInOrder(1)
  BY <1>1, <1>2, <1>3 DEF FlowInv, LineInOrder
<1>5. total[cur] < Taken + 1
  BY <1>2, <1>4 DEF ItemInOrder, TakeEnd
<1>6. Taken <= total[cur]
  BY <1>3 DEF FlowInv, CountsInv, Taken
<1>7. Head(queue) \in Item
  BY HeadTailProperties DEF TakeEnd, TypeOK, DataOK
<1>8. Head(queue).kind \in {"done", "exc"}
  BY <1>7 DEF TakeEnd, Item
<1>9. Head(queue).kind = "done" => ~fails[cur]
  <2>1. ~(\E j \in 1 .. 1 - 1 : Line[j].kind = "exc")
    OBVIOUS
  <2>2. QED
    BY <1>2, <1>4, <2>1 DEF ItemInOrder
<1>10. Head(queue).kind = "exc" => fails[cur]
  BY <1>2, <1>4 DEF ItemInOrder
<1>11. QED
  BY <1>3, <1>5, <1>6, <1>8, <1>9, <1>10 DEF TakeEnd

LEMMA FlowInit == Init => FlowInv /\ ReachInv
<1> USE StreamAssumption DEF StreamAssumption, Init
<1>1. Init => CountsInv /\ Backpressure
  BY DEF CountsInv, Backpressure, Taken
<1>2. Init => ReachInv
  BY DEF ReachInv
<1>3. QED
  BY <1>1, <1>2 DEF FlowInv

LEMMA FlowStep == TypeOK /\ TypeOK' /\ PhaseInv /\ FlowInv /\ [Next]_vars => FlowInv'
<1> SUFFICES ASSUME TypeOK, TypeOK', PhaseInv, FlowInv, [Next]_vars PROVE FlowInv'
  OBVIOUS
<1> USE StreamAssumption DEF StreamAssumption
<1>1. CASE BadRequest
  BY <1>1, LineSame, FlowFrame DEF BadRequest, script, request, thread, Busy, Late
<1>2. CASE Request
  BY <1>2, LineSame, FlowFrame DEF Request, script, request, thread, Busy, Late
<1>3. CASE AfterMeta
  BY <1>3, LineSame, FlowFrame DEF AfterMeta, script, request, thread, Busy, Late
<1>4. CASE MetaFails
  BY <1>4, LineSame, FlowFrame DEF MetaFails, script, request, thread, Busy, Late
<1>5. CASE SlotTimeout
  BY <1>5, LineSame, FlowFrame DEF SlotTimeout, script, request, thread, Busy, Late
<1>6. CASE SlotGranted
  <2>1. got.s = 1 /\ got.k = 0 /\ ending = "none"
    BY <1>6 DEF SlotGranted, PhaseInv
  <2>2. /\ Line' = <<>> /\ cur' = 1 /\ made' = 0 /\ ending' = "none" /\ tpc' = "ready"
        /\ UNCHANGED <<total, fails, got>>
    BY <1>6 DEF SlotGranted, OpenSentence, Line, script
  <2>3. 1 \in 1 .. Sentences /\ total[1] \in Nat
    BY DEF TypeOK, DataOK
  <2>4. Taken' = 0 /\ Len(Line') = 0
    BY <2>1, <2>2 DEF Taken
  <2>5. QED
    BY <2>1, <2>2, <2>3, <2>4
    DEF FlowInv, CountsInv, Backpressure, LineInOrder, NothingLost, Busy, Late
<1>7. CASE TakeChunk
  <2>1. ending = "none" /\ ~stop /\ tpc # "off"
    BY <1>7 DEF TakeChunk, PhaseInv
  <2>2. /\ Len(Line) >= 1 /\ Line[1] = Head(queue) /\ Len(Line') = Len(Line) - 1
        /\ \A i \in 1 .. Len(Line') : Line'[i] = Line[i + 1]
    BY <1>7, LineTaken DEF TakeChunk
  <2>3. Len(Line) \in Nat /\ Len(Line') \in Nat /\ Taken \in Nat
    BY LineType, SMTT(30) DEF Taken, TypeOK, DataOK, Place
  <2>4. LineInOrder /\ NothingLost
    BY <2>1 DEF FlowInv
  <2>5. Taken + 1 <= total[cur]
    BY <1>7, ChunkTaken
  <2>6. got' = [s |-> cur, k |-> Taken + 1]
    BY <1>7, ChunkTaken
  <2>7. UNCHANGED <<total, fails, cur, ending, tpc, made, stop>>
    BY <1>7 DEF TakeChunk, script, thread
  <2>8. Taken' = Taken + 1
    BY <2>6, <2>7 DEF Taken
  <2>9. CountsInv' /\ Backpressure'
    <3>1. made \in Nat /\ cur \in Nat
      BY DEF TypeOK, DataOK
    <3>2. QED
      BY <2>1, <2>3, <2>5, <2>6, <2>7, <2>8, <3>1 DEF FlowInv, CountsInv, Backpressure
  <2>10. LineInOrder'
    <3>1. SUFFICES ASSUME NEW i \in 1 .. Len(Line') PROVE ItemInOrder(i)'
      BY DEF LineInOrder
    <3>2. i \in Nat /\ i + 1 \in 1 .. Len(Line) /\ Line'[i] = Line[i + 1]
      BY <2>2, <2>3
    <3>3. ItemInOrder(i + 1)
      BY <2>4, <3>2 DEF LineInOrder
    <3>4. Taken' + i = Taken + (i + 1)
      BY <2>3, <2>8, <3>2
    <3>5. ASSUME NEW j \in 1 .. (i + 1) - 1, Line[j].kind = "exc"
          PROVE  j - 1 \in 1 .. i - 1 /\ Line'[j - 1].kind = "exc"
      <4>1. j # 1
        BY <1>7, <2>2, <3>5 DEF TakeChunk
      <4>2. j - 1 \in 1 .. i - 1 /\ j - 1 \in 1 .. Len(Line') /\ (j - 1) + 1 = j
        BY <2>3, <3>2, <4>1
      <4>3. QED
        BY <2>2, <3>5, <4>2
    <3>6. QED
      BY <2>7, <3>2, <3>3, <3>4, <3>5 DEF ItemInOrder
  <2>11. NothingLost'
    <3>1. Taken' + Len(Line') = Taken + Len(Line)
      BY <2>2, <2>3, <2>8
    <3>2. ASSUME NEW j \in 1 .. Len(Line), Line[j].kind = "exc"
          PROVE  j - 1 \in 1 .. Len(Line') /\ Line'[j - 1].kind = "exc"
      <4>1. j # 1
        BY <1>7, <2>2, <3>2 DEF TakeChunk
      <4>2. j - 1 \in 1 .. Len(Line') /\ (j - 1) + 1 = j
        BY <2>2, <2>3, <4>1
      <4>3. QED
        BY <2>2, <3>2, <4>2
    <3>3. QED
      BY <2>4, <2>7, <3>1, <3>2 DEF NothingLost
  <2>12. QED
    BY <2>9, <2>10, <2>11 DEF FlowInv
<1>8. CASE TakeEnd
  <2>1. ending = "none" /\ ~stop /\ tpc # "off"
    BY <1>8 DEF TakeEnd, PhaseInv
  <2>2. Len(Line) >= 1 /\ Line[1] = Head(queue)
    BY <1>8, LineTaken DEF TakeEnd
  <2>3. Len(Line) \in Nat /\ Taken \in Nat /\ total[cur] \in Nat
    BY LineType, SMTT(30) DEF Taken, TypeOK, DataOK, Place
  <2>5. total[cur] = Taken /\ ending' # "none"
    BY <1>8, EndTaken
  <2>6. tpc \notin Busy
    <3>1. tpc \in Busy => made = Taken + Len(Line)
      BY <2>1 DEF FlowInv, NothingLost
    <3>2. made <= total[cur]
      BY DEF FlowInv, CountsInv
    <3>3. QED
      BY <2>2, <2>3, <2>5, <3>1, <3>2
  <2>7. tpc \in Late
    BY <2>1, <2>6 DEF TypeOK, DataOK, Putting, Busy, Late
  <2>8. UNCHANGED <<total, fails, cur, got, tpc, made>>
    BY <1>8 DEF TakeEnd, script, thread
  <2>10. Taken' = Taken
    BY <2>8 DEF Taken
  <2>11. QED
    BY <2>5, <2>7, <2>8, <2>10 DEF FlowInv, CountsInv, Backpressure
<1>9. CASE AfterBytes
  BY <1>9, LineSame, FlowFrame DEF AfterBytes, script, request, thread, Busy, Late
<1>10. CASE Joined
  <2>1. CASE ending = "done" /\ More
    <3>1. /\ Line' = <<>> /\ cur' = cur + 1 /\ made' = 0 /\ ending' = "none" /\ tpc' = "ready"
          /\ UNCHANGED <<total, fails, got>>
      BY <1>10, <2>1 DEF Joined, OpenSentence, Line, script
    <3>2. cur + 1 \in 1 .. Sentences /\ total[cur + 1] \in Nat /\ got.s \in Nat
      BY <2>1, SMTT(30) DEF TypeOK, DataOK, More, Place
    <3>3. got.s <= cur /\ got.k <= total[got.s]
      BY DEF FlowInv, CountsInv
    <3>4. got.s # cur + 1
      BY <3>2, <3>3 DEF TypeOK, DataOK
    <3>5. Taken' = 0 /\ Len(Line') = 0
      BY <3>1, <3>4 DEF Taken
    <3>6. got.s <= cur + 1
      BY <3>2, <3>3, SMTT(30) DEF TypeOK, DataOK
    <3>7. QED
      BY <3>1, <3>2, <3>3, <3>5, <3>6
      DEF FlowInv, CountsInv, Backpressure, LineInOrder, NothingLost, Busy, Late
  <2>2. CASE ~(ending = "done" /\ More)
    BY <1>10, <2>2, LineSame, FlowFrame DEF Joined, script, thread
  <2>3. QED
    BY <2>1, <2>2
<1>11. CASE SendFails
  BY <1>11, LineSame, FlowFrame DEF SendFails, script, request, thread, Busy, Late
<1>12. CASE AfterFinal
  BY <1>12, LineSame, FlowFrame DEF AfterFinal, script, request, thread, Busy, Late
<1>13. CASE ThreadStarts
  BY <1>13, LineSame, FlowFrame DEF ThreadStarts, script, request, thread, Busy, Late
<1>14. CASE CheckStop
  <2>1. CASE stop
    <3>1. UNCHANGED <<total, fails, cur, got, ending, made, stop>> /\ tpc' = "finally"
      BY <1>14, <2>1 DEF CheckStop, script, request
    <3>2. Line' = Line /\ Taken' = Taken
      BY <1>14, <3>1, LineSame DEF CheckStop, Taken
    <3>3. LineInOrder => LineInOrder'
      BY <3>1, <3>2, Zenon DEF LineInOrder, ItemInOrder
    <3>4. NothingLost'
      BY <2>1, <3>1 DEF NothingLost, Busy
    <3>5. CountsInv' /\ Backpressure'
      BY <3>1, <3>2 DEF FlowInv, CountsInv, Backpressure, Late
    <3>6. tpc # "off"
      BY <1>14 DEF CheckStop
    <3>7. QED
      BY <3>1, <3>3, <3>4, <3>5, <3>6 DEF FlowInv
  <2>2. CASE ~stop
    BY <1>14, <2>2, LineSame, FlowFrame DEF CheckStop, script, request, Busy
  <2>3. QED
    BY <2>1, <2>2
<1>15. CASE MakeChunk
  <2>1. offer = Nothing /\ Pcm(cur, made + 1) \in Item
    BY <1>15 DEF MakeChunk, PhaseInv, Putting, TypeOK, DataOK, Pcm, Item
  <2>2. Line' = Append(Line, Pcm(cur, made + 1))
    BY <1>15, <2>1, LineOffered DEF MakeChunk
  <2>3. /\ UNCHANGED <<script, total, fails, cur, got, ending, stop>>
        /\ made' = made + 1 /\ tpc' = "put" /\ tpc = "compute"
    BY <1>15 DEF MakeChunk, script, request
  <2>4. Taken' = Taken /\ Taken \in Nat /\ Len(Line) \in Nat /\ made \in Nat
    BY <2>3, LineType DEF Taken, TypeOK, DataOK, Place
  <2>5. ending = "none" /\ LineInOrder /\ made = Taken + Len(Line)
    BY <2>3 DEF FlowInv, CountsInv, NothingLost, Busy, Late
  <2>6. made + 1 <= total[cur]
    <3>1. total[cur] \in Nat
      BY DEF TypeOK, DataOK
    <3>2. QED
      BY <1>15, <2>4, <3>1, <2>5 DEF MakeChunk, FlowInv, CountsInv
  <2>7. LineInOrder'
    <3>1. /\ Pcm(cur, made + 1).kind = "pcm" /\ Pcm(cur, made + 1).s = cur
          /\ Pcm(cur, made + 1).k = Taken + Len(Line) + 1
      BY <2>4, <2>5 DEF Pcm
    <3>2. Taken + Len(Line) + 1 <= total[cur]
      BY <2>4, <2>5, <2>6
    <3>3. QED
      BY <2>1, <2>2, <2>3, <2>5, <3>1, <3>2, FlowAppend
  <2>8. Len(Line') = Len(Line) + 1
    BY <2>1, <2>2, LineType, AppendProperties
  <2>9. NothingLost'
    BY <2>3, <2>4, <2>5, <2>8 DEF NothingLost, Busy, Late
  <2>10. Len(Line) <= QueueMax
    BY <2>1 DEF Line, PhaseInv
  <2>11. Backpressure'
    BY <2>3, <2>4, <2>5, <2>10 DEF Backpressure
  <2>12. CountsInv'
    BY <2>3, <2>5, <2>6 DEF FlowInv, CountsInv
  <2>13. QED
    BY <2>7, <2>9, <2>11, <2>12 DEF FlowInv
<1>16. CASE ModelEnds
  <2>1. UNCHANGED <<total, fails, cur, got, ending, made, stop>>
    BY <1>16 DEF ModelEnds, script, request
  <2>2. Line' = Line /\ Taken' = Taken
    BY <1>16, <2>1, LineSame DEF ModelEnds, Taken
  <2>3. LineInOrder => LineInOrder'
    BY <2>1, <2>2, Zenon DEF LineInOrder, ItemInOrder
  <2>4. tpc = "compute" /\ tpc' = "finally" /\ made = total[cur] /\ ~fails[cur]
    BY <1>16 DEF ModelEnds
  <2>5. NothingLost => NothingLost'
    <3>1. Taken \in Nat /\ Len(Line) \in Nat
      BY LineType DEF Taken, TypeOK, DataOK, Place
    <3>2. QED
      BY <2>1, <2>2, <2>4, <3>1 DEF NothingLost, Busy, Late
  <2>6. CountsInv' /\ Backpressure'
    BY <2>1, <2>2, <2>4 DEF FlowInv, CountsInv, Backpressure, Late
  <2>7. QED
    BY <2>1, <2>3, <2>4, <2>5, <2>6 DEF FlowInv
<1>17. CASE ModelRaises
  <2>1. /\ UNCHANGED <<script, total, fails, cur, got, ending, made, stop>>
        /\ tpc = "compute" /\ tpc' \in Late /\ made = total[cur] /\ fails[cur]
    BY <1>17 DEF ModelRaises, Forward, script, request, Late
  <2>2. Taken' = Taken
    BY <2>1 DEF Taken
  <2>3. CountsInv' /\ Backpressure'
    BY <2>1, <2>2 DEF FlowInv, CountsInv, Backpressure
  <2>4. Taken \in Nat /\ Len(Line) \in Nat /\ made \in Nat
    BY LineType DEF Taken, TypeOK, DataOK, Place
  <2>5. LineInOrder /\ made = Taken + Len(Line)
    BY <2>1 DEF FlowInv, CountsInv, NothingLost, Busy, Late
  <2>6. CASE stop
    <3>1. Line' = Line
      BY <1>17, <2>6, LineSame DEF ModelRaises, Forward
    <3>2. LineInOrder'
      BY <2>1, <2>2, <2>5, <3>1, Zenon DEF LineInOrder, ItemInOrder
    <3>3. NothingLost'
      BY <2>1, <2>6 DEF NothingLost, Busy, Late
    <3>4. QED
      BY <2>3, <3>2, <3>3 DEF FlowInv
  <2>7. CASE ~stop
    <3>1. offer = Nothing /\ Exc(cur) \in Item /\ Exc(cur).kind = "exc"
      BY <2>1 DEF PhaseInv, Putting, TypeOK, DataOK, Exc, Item
    <3>2. Line' = Append(Line, Exc(cur))
      BY <1>17, <2>7, <3>1, LineOffered DEF ModelRaises, Forward
    <3>3. total[cur] < Taken + Len(Line) + 1
      BY <2>1, <2>4, <2>5
    <3>4. LineInOrder'
      BY <2>1, <2>5, <3>1, <3>2, <3>3, FlowAppend
    <3>5. Len(Line') = Len(Line) + 1 /\ Line'[Len(Line) + 1] = Exc(cur)
      BY <3>1, <3>2, LineType, AppendProperties
    <3>6. Len(Line) + 1 \in 1 .. Len(Line')
      BY <2>4, <3>5
    <3>7. total[cur] <= Taken + Len(Line')
      BY <2>1, <2>4, <2>5, <3>5
    <3>8. NothingLost'
      BY <2>1, <2>2, <3>1, <3>5, <3>6, <3>7 DEF NothingLost, Busy, Late
    <3>9. QED
      BY <2>3, <3>4, <3>8 DEF FlowInv
  <2>8. QED
    BY <2>6, <2>7
<1>18. CASE ThreadFinally
  <2>1. /\ UNCHANGED <<script, total, fails, cur, got, ending, made, stop>>
        /\ tpc = "finally" /\ tpc' \in Late
    BY <1>18 DEF ThreadFinally, PutDone, script, request, Late
  <2>2. CASE stop \/ ending # "none"
    <3>1. Taken' = Taken
      BY <2>1 DEF Taken
    <3>2. CountsInv' /\ Backpressure'
      BY <2>1, <3>1 DEF FlowInv, CountsInv, Backpressure
    <3>3. CASE ending # "none"
      BY <2>1, <3>2, <3>3 DEF FlowInv
    <3>4. CASE ending = "none" /\ stop
      <4>1. Line' = Line
        BY <1>18, <3>4, LineSame DEF ThreadFinally, PutDone
      <4>2. LineInOrder'
        BY <2>1, <3>1, <3>4, <4>1, Zenon DEF FlowInv, LineInOrder, ItemInOrder
      <4>3. NothingLost'
        BY <2>1, <3>4 DEF NothingLost, Busy, Late
      <4>4. QED
        BY <3>2, <4>2, <4>3 DEF FlowInv
    <3>5. QED
      BY <2>2, <3>3, <3>4
  <2>3. CASE ~stop /\ ending = "none"
    <3>1. Taken' = Taken
      BY <2>1 DEF Taken
    <3>2. Taken \in Nat /\ Len(Line) \in Nat /\ total[cur] \in Nat
      BY LineType, SMTT(30) DEF Taken, TypeOK, DataOK, Place
    <3>3. /\ LineInOrder /\ total[cur] <= Taken + Len(Line)
          /\ fails[cur] => \E j \in 1 .. Len(Line) : Line[j].kind = "exc"
      BY <2>1, <2>3 DEF FlowInv, NothingLost, Late
    <3>4. offer = Nothing /\ Done(cur) \in Item /\ Done(cur).kind = "done"
      BY <2>1 DEF PhaseInv, Putting, TypeOK, DataOK, Done, Item
    <3>5. Line' = Append(Line, Done(cur))
      BY <1>18, <2>3, <3>4, LineOffered DEF ThreadFinally, PutDone
    <3>6. total[cur] < Taken + Len(Line) + 1
      BY <3>2, <3>3
    <3>7. LineInOrder'
      BY <2>1, <3>3, <3>4, <3>5, <3>6, FlowAppend
    <3>8. /\ Len(Line') = Len(Line) + 1
          /\ \A j \in 1 .. Len(Line) : Line'[j] = Line[j]
      BY <3>4, <3>5, LineType, AppendProperties
    <3>9. total[cur] <= Taken + Len(Line')
      BY <3>2, <3>6, <3>8
    <3>10. \A j \in 1 .. Len(Line) : j \in 1 .. Len(Line')
      BY <3>2, <3>8
    <3>11. NothingLost'
      BY <2>1, <3>1, <3>3, <3>8, <3>9, <3>10 DEF NothingLost, Busy, Late
    <3>12. CountsInv' /\ Backpressure'
      BY <2>1, <3>1 DEF FlowInv, CountsInv, Backpressure
    <3>13. QED
      BY <3>7, <3>11, <3>12 DEF FlowInv
  <2>4. QED
    BY <2>2, <2>3
<1>19. CASE PutReturns
  BY <1>19, LineSame, FlowFrame DEF PutReturns, script, request, thread, Busy, Late, AfterPut, Putting
<1>20. CASE PutCancelled
  <2>1. /\ UNCHANGED <<script, total, fails, cur, got, ending, made, stop>>
        /\ stop /\ tpc' \in Late /\ tpc # "off"
    BY <1>20 DEF PutCancelled, PutGivesUp, script, request, Late, Putting
  <2>2. /\ Len(Line') = Len(Line) - 1
        /\ \A i \in 1 .. Len(Line') : Line'[i] = Line[i]
    BY <1>20, LineCancelled DEF PutCancelled, PutGivesUp
  <2>3. Taken' = Taken
    BY <2>1 DEF Taken
  <2>4. Len(Line) \in Nat /\ Len(Line') \in Nat
    BY LineType
  <2>5. LineInOrder => LineInOrder'
    <3>1. SUFFICES ASSUME LineInOrder, NEW i \in 1 .. Len(Line') PROVE ItemInOrder(i)'
      BY DEF LineInOrder
    <3>2. i \in 1 .. Len(Line) /\ Line'[i] = Line[i]
      BY <2>2, <2>4
    <3>3. \A j \in 1 .. i - 1 : Line'[j] = Line[j]
      BY <2>2, <2>4
    <3>4. ItemInOrder(i)
      BY <3>1, <3>2 DEF LineInOrder
    <3>5. QED
      BY <2>1, <2>3, <3>2, <3>3, <3>4 DEF ItemInOrder
  <2>6. NothingLost'
    BY <2>1 DEF NothingLost, Busy, Late
  <2>7. CountsInv' /\ Backpressure'
    BY <2>1, <2>3 DEF FlowInv, CountsInv, Backpressure
  <2>8. QED
    BY <2>1, <2>5, <2>6, <2>7 DEF FlowInv
<1>21. CASE PutLands
  BY <1>21, LineLands, FlowFrame DEF PutLands, script, request, thread
<1>22. CASE Finalise
  BY <1>22, LineSame, FlowFrame DEF Finalise, script, request, thread, Busy, Late
<1>23. CASE Finalised
  BY <1>23, LineSame, FlowFrame DEF Finalised, script, request, thread, Busy, Late
<1>24. CASE ClientLeaves
  BY <1>24, LineSame, FlowFrame DEF ClientLeaves, script, request, thread, Busy, Late
<1>25. CASE UNCHANGED vars
  BY <1>25, LineSame, FlowFrame DEF vars, script, request, thread
<1>26. QED
  BY <1>1, <1>2, <1>3, <1>4, <1>5, <1>6, <1>7, <1>8, <1>9, <1>10, <1>11, <1>12, <1>13, <1>14, <1>15, <1>16, <1>17, <1>18, <1>19, <1>20, <1>21, <1>22, <1>23, <1>24, <1>25 DEF Next, Task, Thread, Loop

(* Steps that take nothing and open no sentence. *)
LEMMA ReachFrame ==
  ASSUME ReachInv, UNCHANGED <<script, cur, got, ending>>
  PROVE  ReachInv'
BY DEF ReachInv, script, Promise!Through

LEMMA ReachStep == TypeOK /\ PhaseInv /\ FlowInv /\ ReachInv /\ [Next]_vars => ReachInv'
<1> SUFFICES ASSUME TypeOK, PhaseInv, FlowInv, ReachInv, [Next]_vars PROVE ReachInv'
  OBVIOUS
<1>1. CASE BadRequest
  BY <1>1, ReachFrame DEF BadRequest, script, request, thread
<1>2. CASE Request
  BY <1>2, ReachFrame DEF Request, script, request, thread
<1>3. CASE AfterMeta
  BY <1>3, ReachFrame DEF AfterMeta, script, request, thread
<1>4. CASE MetaFails
  BY <1>4, ReachFrame DEF MetaFails, script, request, thread
<1>5. CASE SlotTimeout
  BY <1>5, ReachFrame DEF SlotTimeout, script, request, thread
<1>6. CASE SlotGranted
  <2>1. cur = 1 /\ ending = "none"
    BY <1>6 DEF SlotGranted, PhaseInv
  <2>2. UNCHANGED <<script, cur, got, ending>>
    BY <1>6, <2>1 DEF SlotGranted, OpenSentence
  <2>3. QED
    BY <2>2, ReachFrame
<1>7. CASE TakeChunk
  <2>1. got' = [s |-> cur, k |-> Taken + 1] /\ ending = "none"
    BY <1>7, ChunkTaken DEF TakeChunk, PhaseInv
  <2>2. UNCHANGED <<total, fails, cur, ending>> /\ cur \in Nat
    BY <1>7 DEF TakeChunk, script, TypeOK, DataOK
  <2>3. QED
    BY <2>1, <2>2 DEF ReachInv
<1>8. CASE TakeEnd
  <2>1. UNCHANGED <<total, fails, cur, got>>
    BY <1>8 DEF TakeEnd, script
  <2>2. /\ Taken = total[cur]
        /\ \/ ending' = "done" /\ ~fails[cur]
           \/ ending' = "exc" /\ fails[cur]
    BY <1>8, EndTaken
  <2>3. cur \in Nat /\ got.s \in Nat /\ got.s <= cur
    BY DEF TypeOK, DataOK, Place, FlowInv, CountsInv
  <2>4. Promise!Through(cur)
    <3>1. CASE got.s = cur
      BY <2>2, <2>3, <3>1 DEF Taken, Promise!Through
    <3>2. CASE got.s < cur
      <4>1. Promise!Through(cur - 1) /\ total[cur] = 0
        BY <2>2, <2>3, <3>2 DEF Taken, ReachInv
      <4>2. \A x \in got.s + 1 .. cur : x \in got.s + 1 .. cur - 1 \/ x = cur
        BY <2>3
      <4>3. QED
        BY <2>3, <4>1, <4>2 DEF Promise!Through
    <3>3. QED
      BY <2>3, <3>1, <3>2
  <2>5. Promise!Through(cur)' /\ (got.s < cur => Promise!Through(cur - 1)')
    BY <2>1, <2>4 DEF ReachInv, Promise!Through
  <2>6. QED
    BY <2>1, <2>2, <2>5 DEF ReachInv
<1>9. CASE AfterBytes
  BY <1>9, ReachFrame DEF AfterBytes, script, request, thread
<1>10. CASE Joined
  <2>1. CASE ending = "done" /\ More
    <3>1. /\ UNCHANGED <<total, fails, got>> /\ cur' = cur + 1 /\ ending' = "none"
          /\ cur \in Nat
      BY <1>10, <2>1 DEF Joined, OpenSentence, script, TypeOK, DataOK
    <3>2. (\A x \in 1 .. cur - 1 : ~fails[x]) /\ ~fails[cur] /\ Promise!Through(cur)
      BY <2>1 DEF ReachInv
    <3>3. \A x \in 1 .. cur : x \in 1 .. cur - 1 \/ x = cur
      BY <3>1
    <3>4. (cur + 1) - 1 = cur
      BY <3>1
    <3>5. Promise!Through(cur - 1)'
      BY <3>1, <3>2, <3>4 DEF Promise!Through
    <3>6. QED
      BY <3>1, <3>2, <3>3, <3>4, <3>5 DEF ReachInv, Promise!Through
  <2>2. CASE ~(ending = "done" /\ More)
    BY <1>10, <2>2, ReachFrame DEF Joined, script
  <2>3. QED
    BY <2>1, <2>2
<1>11. CASE SendFails
  BY <1>11, ReachFrame DEF SendFails, script, request, thread
<1>12. CASE AfterFinal
  BY <1>12, ReachFrame DEF AfterFinal, script, request, thread
<1>13. CASE ThreadStarts
  BY <1>13, ReachFrame DEF ThreadStarts, script, request, thread
<1>14. CASE CheckStop
  BY <1>14, ReachFrame DEF CheckStop, script, request, thread
<1>15. CASE MakeChunk
  BY <1>15, ReachFrame DEF MakeChunk, script, request, thread
<1>16. CASE ModelEnds
  BY <1>16, ReachFrame DEF ModelEnds, script, request, thread
<1>17. CASE ModelRaises
  BY <1>17, ReachFrame DEF ModelRaises, script, request, thread
<1>18. CASE ThreadFinally
  BY <1>18, ReachFrame DEF ThreadFinally, script, request, thread
<1>19. CASE PutReturns
  BY <1>19, ReachFrame DEF PutReturns, script, request, thread
<1>20. CASE PutCancelled
  BY <1>20, ReachFrame DEF PutCancelled, script, request, thread
<1>21. CASE PutLands
  BY <1>21, ReachFrame DEF PutLands, script, request, thread
<1>22. CASE Finalise
  BY <1>22, ReachFrame DEF Finalise, script, request, thread
<1>23. CASE Finalised
  BY <1>23, ReachFrame DEF Finalised, script, request, thread
<1>24. CASE ClientLeaves
  BY <1>24, ReachFrame DEF ClientLeaves, script, request, thread
<1>25. CASE UNCHANGED vars
  BY <1>25, ReachFrame DEF vars, request
<1>26. QED
  BY <1>1, <1>2, <1>3, <1>4, <1>5, <1>6, <1>7, <1>8, <1>9, <1>10, <1>11, <1>12,
     <1>13, <1>14, <1>15, <1>16, <1>17, <1>18, <1>19, <1>20, <1>21, <1>22, <1>23, <1>24,
     <1>25
  DEF Next, Task, Thread, Loop

(* Every step of the stream is a step of the promise or leaves it as it is. *)
LEMMA PromiseStep ==
  TypeOK /\ PhaseInv /\ FlowInv /\ ReachInv /\ [Next]_vars => [Promise!Next]_(Promise!vars)
<1> SUFFICES ASSUME TypeOK, PhaseInv, FlowInv, ReachInv, [Next]_vars
             PROVE  Promise!Next \/ UNCHANGED Promise!vars
  OBVIOUS
<1>1. CASE BadRequest
  BY <1>1 DEF BadRequest, script, PhaseInv, Promise!Next, Promise!Refuse, Promise!plan
<1>2. CASE Request
  BY <1>2 DEF Request, script, request, thread, Promise!vars, Promise!plan
<1>3. CASE AfterMeta
  BY <1>3 DEF AfterMeta, script, request, thread, Promise!vars, Promise!plan
<1>4. CASE MetaFails
  BY <1>4 DEF MetaFails, script, PhaseInv, Promise!Next, Promise!Drop, Promise!plan
<1>5. CASE SlotTimeout
  BY <1>5 DEF SlotTimeout, script, PhaseInv, Promise!Next, Promise!Refuse, Promise!plan
<1>6. CASE SlotGranted
  BY <1>6 DEF SlotGranted, script, request, thread, Promise!vars, Promise!plan
<1>7. CASE TakeChunk
  <2>1. got' = [s |-> cur, k |-> Taken + 1] /\ Taken + 1 <= total[cur]
    BY <1>7, ChunkTaken
  <2>2. UNCHANGED <<total, fails, answer>> /\ answer = "none"
    BY <1>7 DEF TakeChunk, script, PhaseInv
  <2>3. cur \in 1 .. Sentences /\ got \in Place /\ got.s <= cur /\ total[cur] \in Nat
    BY DEF TypeOK, DataOK, FlowInv, CountsInv
  <2>4. CASE got.s = cur
    <3>1. got' = [got EXCEPT !.k = @ + 1] /\ got.k < total[got.s]
      BY <2>1, <2>3, <2>4 DEF Taken, Place
    <3>2. QED
      BY <2>2, <3>1 DEF Promise!Next, Promise!Deliver, Promise!plan
  <2>5. CASE got.s < cur
    <3>1. cur - 1 \in got.s .. Sentences - 1 /\ (cur - 1) + 1 = cur
      BY <2>3, <2>5, StreamAssumption DEF Place, StreamAssumption
    <3>2. Promise!Through(cur - 1) /\ \A x \in 1 .. cur - 1 : ~fails[x]
      BY <2>5 DEF ReachInv
    <3>3. total[(cur - 1) + 1] > 0 /\ got' = [s |-> (cur - 1) + 1, k |-> 1]
      BY <2>1, <2>3, <2>5, <3>1 DEF Taken
    <3>4. QED
      BY <2>2, <3>1, <3>2, <3>3 DEF Promise!Next, Promise!Deliver, Promise!plan
  <2>6. QED
    BY <2>3, <2>4, <2>5 DEF Place
<1>8. CASE TakeEnd
  BY <1>8 DEF TakeEnd, script, request, thread, Promise!vars, Promise!plan
<1>9. CASE AfterBytes
  BY <1>9 DEF AfterBytes, script, request, thread, Promise!vars, Promise!plan
<1>10. CASE Joined
  <2>1. answer = "none" /\ ending \in {"done", "exc"}
    BY <1>10 DEF Joined, PhaseInv, TypeOK, DataOK
  <2>2. CASE ending = "done" /\ More
    BY <1>10, <2>2 DEF Joined, script, Promise!vars, Promise!plan
  <2>3. CASE ending = "done" /\ ~More
    <3>1. UNCHANGED <<total, fails, got>> /\ answer' = "done"
      BY <1>10, <2>3 DEF Joined, script
    <3>2. cur = Sentences /\ cur \in Nat
      BY <2>3, StreamAssumption DEF More, TypeOK, DataOK, StreamAssumption
    <3>3. Promise!Through(Sentences)
      BY <2>3, <3>2 DEF ReachInv
    <3>4. \A x \in 1 .. Sentences : x \in 1 .. cur - 1 \/ x = cur
      BY <3>2
    <3>5. \A x \in 1 .. Sentences : ~fails[x]
      BY <2>3, <3>4 DEF ReachInv
    <3>6. QED
      BY <2>1, <3>1, <3>3, <3>5 DEF Promise!Next, Promise!Complete, Promise!plan
  <2>4. CASE ending = "exc"
    <3>1. UNCHANGED <<total, fails, got>> /\ answer' = "error"
      BY <1>10, <2>4 DEF Joined, script
    <3>2. cur \in 1 .. Sentences /\ fails[cur] /\ Promise!Through(cur)
      BY <2>4 DEF ReachInv, TypeOK, DataOK
    <3>3. QED
      BY <2>1, <3>1, <3>2 DEF Promise!Next, Promise!Fail, Promise!plan
  <2>5. QED
    BY <2>1, <2>2, <2>3, <2>4
<1>11. CASE SendFails
  BY <1>11 DEF SendFails, script, PhaseInv, Promise!Next, Promise!Drop, Promise!plan
<1>12. CASE AfterFinal
  BY <1>12 DEF AfterFinal, script, request, thread, Promise!vars, Promise!plan
<1>13. CASE ThreadStarts
  BY <1>13 DEF ThreadStarts, script, request, thread, Promise!vars, Promise!plan
<1>14. CASE CheckStop
  BY <1>14 DEF CheckStop, script, request, thread, Promise!vars, Promise!plan
<1>15. CASE MakeChunk
  BY <1>15 DEF MakeChunk, script, request, thread, Promise!vars, Promise!plan
<1>16. CASE ModelEnds
  BY <1>16 DEF ModelEnds, script, request, thread, Promise!vars, Promise!plan
<1>17. CASE ModelRaises
  BY <1>17 DEF ModelRaises, script, request, thread, Promise!vars, Promise!plan
<1>18. CASE ThreadFinally
  BY <1>18 DEF ThreadFinally, script, request, thread, Promise!vars, Promise!plan
<1>19. CASE PutReturns
  BY <1>19 DEF PutReturns, script, request, thread, Promise!vars, Promise!plan
<1>20. CASE PutCancelled
  BY <1>20 DEF PutCancelled, script, request, thread, Promise!vars, Promise!plan
<1>21. CASE PutLands
  BY <1>21 DEF PutLands, script, request, thread, Promise!vars, Promise!plan
<1>22. CASE Finalise
  BY <1>22 DEF Finalise, script, request, thread, Promise!vars, Promise!plan
<1>23. CASE Finalised
  BY <1>23 DEF Finalised, script, request, thread, Promise!vars, Promise!plan
<1>24. CASE ClientLeaves
  BY <1>24 DEF ClientLeaves, script, request, thread, Promise!vars, Promise!plan
<1>25. CASE UNCHANGED vars
  BY <1>25 DEF vars, script, request, Promise!vars, Promise!plan
<1>26. QED
  BY <1>1, <1>2, <1>3, <1>4, <1>5, <1>6, <1>7, <1>8, <1>9, <1>10, <1>11, <1>12,
     <1>13, <1>14, <1>15, <1>16, <1>17, <1>18, <1>19, <1>20, <1>21, <1>22, <1>23, <1>24,
     <1>25
  DEF Next, Task, Thread, Loop

LEMMA Invariants == Spec => [](TypeOK /\ PhaseInv /\ FlowInv /\ ReachInv)
<1>1. TypeOK /\ TypeOK' /\ PhaseInv /\ FlowInv /\ ReachInv /\ [Next]_vars
        => PhaseInv' /\ FlowInv' /\ ReachInv'
  BY PhaseStep, FlowStep, ReachStep
<1>2. QED
  BY <1>1, TypeCorrect, PhaseInit, FlowInit, PTL DEF Spec

(* A stream that its caller does not drop holds its TTS slot until its       *)
(* thread has ended.                                                         *)
THEOREM GhostsAreDropped == Spec => []GhostsWereDropped
<1>1. TypeOK /\ PhaseInv => GhostsWereDropped
  BY DEF TypeOK, DataOK, PhaseInv, GhostsWereDropped, Running
<1>2. QED
  BY <1>1, Invariants, PTL

(* The thread is never further ahead of the caller than the queue and one put. *)
THEOREM ThreadHeldBack == Spec => []Backpressure
<1>1. FlowInv => Backpressure
  BY DEF FlowInv
<1>2. QED
  BY <1>1, Invariants, PTL

(* The stream implements the promise of tts_stream. *)
THEOREM StreamKeepsPromise == Spec => KeepsPromise
<1>1. Init => Promise!Init
  BY DEF Init, Promise!Init
<1>2. QED
  BY <1>1, Invariants, PromiseStep, PTL DEF Spec, KeepsPromise, Promise!Spec

=============================================================================
