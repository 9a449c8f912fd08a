------------------------- MODULE ConversationProofs -------------------------
(***************************************************************************)
(* Proofs about Conversation, for every value of its constants.            *)
(***************************************************************************)
EXTENDS Conversation, SequenceTheorems, TLAPS

(* The points of a turn, from the request to the agent to its conclusion. *)
TurnPcs == {"first", "responding", "partial", "nextDelta", "ttsSlot", "meta",
            "nextChunk", "bytes", "errorSent", "cleanup", "verdict"}

(* What TypeOK needs to be inductive: a sentence being synthesised is still  *)
(* counted in todo, a left-over text is counted in full, a turn under way    *)
(* has a number, a turn about to begin has room for one, and the locals of   *)
(* a reply have their first values before it.                                *)
LocalsOK ==
  /\ mpc \in {"ttsSlot", "meta", "nextChunk", "bytes"} => todo > 0
  /\ rest => full > 0
  /\ mpc \in TurnPcs => turn > 0
  /\ mpc \in {"userFinal", "thinking"} => turn < MaxTurns
  /\ mpc \notin ReplyPcs => deltas = 0

TypeInv == TypeOK /\ LocalsOK

(* _truncate returns messages of the list it was given. *)
LEMMA TruncateType ==
  ASSUME NEW ms \in Seq(Message)
  PROVE  Truncate(ms) \in Seq(Message)
<1>1. CASE Len(ms) > 2 * KeepTurns
  <2>1. /\ Len(ms) - 2 * KeepTurns + 1 \in 1 .. Len(ms) + 1
        /\ Len(ms) \in Nat
    BY <1>1, ConstantsAssumption, LenProperties DEF ConstantsAssumption
  <2>2. SubSeq(ms, Len(ms) - 2 * KeepTurns + 1, Len(ms)) \in Seq(Message)
    BY <2>1, SubSeqProperties
  <2>3. QED
    BY <1>1, <2>2 DEF Truncate
<1>2. CASE ~(Len(ms) > 2 * KeepTurns)
  BY <1>2 DEF Truncate
<1>3. QED
  BY <1>1, <1>2

(* The messages _respond appends are messages. *)
LEMMA MessageType ==
  ASSUME NEW t \in Turns, NEW n \in Nat
  PROVE  User(t) \in Message /\ Assistant(t, n) \in Message
BY DEF User, Assistant, Message

LEMMA ItemType ==
  /\ \A t \in 0 .. MaxTurns : Chunk(t) \in Item
  /\ Stop \in Item
BY ConstantsAssumption DEF Chunk, Stop, Item, ConstantsAssumption

(* A delta taken while there is room for one leaves the counters in range    *)
(* and never uncounts the text that was left over.                           *)
LEMMA TakeDeltaType ==
  ASSUME TypeInv, TakeDelta, deltas < MaxDeltas
  PROVE  /\ deltas' \in 0 .. MaxDeltas /\ full' \in Nat /\ todo' \in Nat
         /\ verdict' \in {"ok", "interrupted", "error", "raised"}
         /\ mpc' \in {"cleanup", "partial"}
         /\ rest' => full' > 0
<1> USE ConstantsAssumption DEF ConstantsAssumption, TypeInv, TypeOK, DataOK, LocalsOK
<1>1. CASE interrupt
  BY <1>1 DEF TakeDelta, Leave
<1>2. CASE ~interrupt
  <2>1. PICK popped \in 0 .. PerDelta, left \in BOOLEAN :
          /\ (rest /\ popped = 0) => left
          /\ deltas' = deltas + 1
          /\ full' = (IF rest THEN full - 1 ELSE full)
                       + popped + (IF left THEN 1 ELSE 0)
          /\ rest' = left
          /\ todo' = popped
          /\ mpc' = "partial"
          /\ UNCHANGED verdict
    BY <1>2 DEF TakeDelta
  <2>2. (IF rest THEN full - 1 ELSE full) \in Nat
    OBVIOUS
  <2>3. (IF left THEN 1 ELSE 0) \in Nat /\ (left => (IF left THEN 1 ELSE 0) = 1)
    OBVIOUS
  <2>4. QED
    BY <2>1, <2>2, <2>3
<1>3. QED
  BY <1>1, <1>2

LEMMA TypeInit == Init => TypeInv
<1> SUFFICES ASSUME Init PROVE TypeInv
  OBVIOUS
<1>1. FlagsOK
  BY Zenon DEF Init, FlagsOK
<1>2. DataOK /\ LocalsOK
  BY ConstantsAssumption
     DEF Init, DataOK, LocalsOK, MainPcs, Turns, Outcomes, TurnPcs, ReplyPcs,
         SpeakingPcs, ConstantsAssumption
<1>3. QED
  BY <1>1, <1>2 DEF TypeInv, TypeOK

(* The boolean variables. *)
LEMMA FlagsStep == FlagsOK /\ [Next]_vars => FlagsOK'
<1> SUFFICES ASSUME FlagsOK, [Next]_vars PROVE FlagsOK'
  OBVIOUS
<1> USE DEF FlagsOK, tasks, dialogue, settings, session, reply, history, SafeSend, LoopHead,
            Leave, Speak
<1>1. CASE Unavailable
  BY <1>1, Zenon DEF Unavailable
<1>2. CASE StartSession
  BY <1>2, Zenon DEF StartSession
<1>3. CASE AfterReady
  BY <1>3, Zenon DEF AfterReady
<1>4. CASE Finally
  BY <1>4, Zenon DEF Finally
<1>5. CASE CloseSession
  BY <1>5, Zenon DEF CloseSession
<1>6. CASE BeginListen
  BY <1>6, Zenon DEF BeginListen
<1>7. CASE AsrGranted
  BY <1>7, Zenon DEF AsrGranted
<1>8. CASE AsrBusy
  BY <1>8, Zenon DEF AsrBusy
<1>9. CASE AfterBusy
  BY <1>9, Zenon DEF AfterBusy
<1>10. CASE HearChunk
  BY <1>10, Zenon DEF HearChunk
<1>11. CASE HearStop
  BY <1>11, Zenon DEF HearStop
<1>12. CASE AfterUserPartial
  BY <1>12, Zenon DEF AfterUserPartial
<1>13. CASE AfterUserFinal
  BY <1>13, Zenon DEF AfterUserFinal
<1>14. CASE BeginRespond
  BY <1>14, Zenon DEF BeginRespond
<1>15. CASE FirstToken
  BY <1>15, Zenon DEF FirstToken
<1>16. CASE FirstEmpty
  BY <1>16, Zenon DEF FirstEmpty
<1>17. CASE FirstInterrupted
  BY <1>17, Zenon DEF FirstInterrupted
<1>18. CASE TurnFails
  BY <1>18, Zenon DEF TurnFails
<1>19. CASE BeginReply
  BY <1>19, Zenon DEF BeginReply, TakeDelta
<1>20. CASE AfterPartial
  BY <1>20, Zenon DEF AfterPartial
<1>21. CASE NextDelta
  BY <1>21, Zenon DEF NextDelta, TakeDelta
<1>22. CASE AgentEnds
  BY <1>22, Zenon DEF AgentEnds, FlushBuffer
<1>23. CASE OpenTts
  BY <1>23, Zenon DEF OpenTts
<1>24. CASE AfterMeta
  BY <1>24, Zenon DEF AfterMeta
<1>25. CASE NextChunk
  BY <1>25, Zenon DEF NextChunk
<1>26. CASE AfterBytes
  BY <1>26, Zenon DEF AfterBytes
<1>27. CASE SentenceDone
  BY <1>27, Zenon DEF SentenceDone
<1>28. CASE AfterError
  BY <1>28, Zenon DEF AfterError, ErrorReturn
<1>29. CASE Conclude
  BY <1>29, Zenon DEF Conclude, Tidy, FreshReply
<1>30. CASE Abandon
  BY <1>30, Zenon DEF Abandon, Tidy, FreshReply
<1>31. CASE AfterVerdict
  BY <1>31, Zenon DEF AfterVerdict
<1>32. CASE MainRaises
  <2>1. CASE ListenRaises
    BY <2>1, Zenon DEF ListenRaises
  <2>2. CASE TurnRaises
    BY <2>2, Zenon DEF TurnRaises
  <2>3. CASE BytesFail
    BY <2>3, Zenon DEF BytesFail
  <2>4. QED
    BY <1>32, <2>1, <2>2, <2>3, Zenon DEF MainRaises
<1>33. CASE Reader
  <2>1. CASE ReadAudio
    BY <2>1, Zenon DEF ReadAudio
  <2>2. CASE ReadCancel
    BY <2>2, Zenon DEF ReadCancel
  <2>3. CASE ReadEnd
    BY <2>3, Zenon DEF ReadEnd, ReaderExit, PutSentinels
  <2>4. CASE ReadDisconnect
    BY <2>4, Zenon DEF ReadDisconnect, ReaderExit, PutSentinels
  <2>5. CASE ReaderCancelled
    BY <2>5, Zenon DEF ReaderCancelled, ReaderExit, PutSentinels
  <2>6. QED
    BY <1>33, <2>1, <2>2, <2>3, <2>4, <2>5, Zenon DEF Reader
<1>34. CASE Watcher
  <2>1. CASE WatchGranted
    BY <2>1, Zenon DEF WatchGranted
  <2>2. CASE WatchGivesUp
    BY <2>2, Zenon DEF WatchGivesUp
  <2>3. CASE WatchHear
    BY <2>3, Zenon DEF WatchHear
  <2>4. QED
    BY <1>34, <2>1, <2>2, <2>3, Zenon DEF Watcher
<1>35. CASE ClientLeaves
  BY <1>35, Zenon DEF ClientLeaves
<1>36. CASE UNCHANGED vars
  BY <1>36, Zenon DEF vars
<1>37. QED
  BY <1>1, <1>2, <1>3, <1>4, <1>5, <1>6, <1>7, <1>8, <1>9, <1>10, <1>11, <1>12, <1>13, <1>14, <1>15, <1>16, <1>17, <1>18, <1>19, <1>20, <1>21, <1>22, <1>23, <1>24, <1>25, <1>26, <1>27, <1>28, <1>29, <1>30, <1>31, <1>32, <1>33, <1>34, <1>35, <1>36, Zenon DEF Next, MainStep

LEMMA DataStep == TypeInv /\ [Next]_vars => DataOK' /\ LocalsOK'
<1> SUFFICES ASSUME TypeInv, [Next]_vars PROVE DataOK' /\ LocalsOK'
  OBVIOUS
<1> USE ConstantsAssumption
    DEF ConstantsAssumption, TypeInv, TypeOK, DataOK, LocalsOK, MainPcs, Turns, Outcomes,
        TurnPcs, ReplyPcs, SpeakingPcs, tasks, dialogue, settings, session, reply,
        history
<1>1. CASE Unavailable
  BY <1>1 DEF Unavailable
<1>2. CASE StartSession
  BY <1>2 DEF StartSession
<1>3. CASE AfterReady
  BY <1>3 DEF AfterReady, SafeSend, LoopHead
<1>4. CASE Finally
  BY <1>4 DEF Finally
<1>5. CASE CloseSession
  BY <1>5 DEF CloseSession
<1>6. CASE BeginListen
  BY <1>6 DEF BeginListen, SafeSend, DrainQueue
<1>7. CASE AsrGranted
  BY <1>7 DEF AsrGranted
<1>8. CASE AsrBusy
  BY <1>8 DEF AsrBusy
<1>9. CASE AfterBusy
  BY <1>9 DEF AfterBusy, SafeSend, LoopHead
<1>10. CASE HearChunk
  BY <1>10 DEF HearChunk
<1>11. CASE HearStop
  BY <1>11 DEF HearStop
<1>12. CASE AfterUserPartial
  BY <1>12 DEF AfterUserPartial, SafeSend
<1>13. CASE AfterUserFinal
  BY <1>13 DEF AfterUserFinal, SafeSend
<1>14. CASE BeginRespond
  <2>1. turn + 1 \in Turns
    BY <1>14 DEF BeginRespond
  <2>2. Append(messages, User(turn + 1)) \in Seq(Message)
    BY <2>1, MessageType
  <2>3. messages' \in Seq(Message)
    BY <1>14, <2>2, TruncateType DEF BeginRespond
  <2>4. QED
    BY <1>14, <2>1, <2>3 DEF BeginRespond, SafeSend
<1>15. CASE FirstToken
  BY <1>15 DEF FirstToken
<1>16. CASE FirstEmpty
  BY <1>16 DEF FirstEmpty, Leave
<1>17. CASE FirstInterrupted
  BY <1>17 DEF FirstInterrupted, Leave
<1>18. CASE TurnFails
  BY <1>18 DEF TurnFails
<1>19. CASE BeginReply
  <2>1. deltas < MaxDeltas /\ TakeDelta
    BY <1>19 DEF BeginReply
  <2>2. \/ bargeQ' = <<>> /\ wpc' = "slot"
        \/ UNCHANGED <<bargeQ, wpc>>
    BY <1>19 DEF BeginReply
  <2>3. bargeQ' \in Seq(Item)
    <3>1. <<>> \in Seq(Item)
      OBVIOUS
    <3>2. bargeQ \in Seq(Item)
      OBVIOUS
    <3>3. QED
      BY <2>2, <3>1, <3>2, Zenon
  <2>4. UNCHANGED <<rpc, dialogue, session, pcmQ, spoken, lacking, history>> /\ turn > 0
    BY <1>19 DEF BeginReply
  <2>5. QED
    BY <2>1, <2>2, <2>3, <2>4, TakeDeltaType, ZenonT(60)
<1>20. CASE AfterPartial
  BY <1>20 DEF AfterPartial, SafeSend, Speak, Leave
<1>21. CASE NextDelta
  BY <1>21, TakeDeltaType DEF NextDelta
<1>22. CASE AgentEnds
  BY <1>22 DEF AgentEnds, FlushBuffer, Speak, Leave
<1>23. CASE OpenTts
  BY <1>23 DEF OpenTts, AfterThis
<1>24. CASE AfterMeta
  BY <1>24 DEF AfterMeta, SafeSend
<1>25. CASE NextChunk
  BY <1>25 DEF NextChunk, Leave
<1>26. CASE AfterBytes
  BY <1>26 DEF AfterBytes, AfterThis
<1>27. CASE SentenceDone
  BY <1>27 DEF SentenceDone, AfterThis, Speak, Leave
<1>28. CASE AfterError
  BY <1>28 DEF AfterError, SafeSend, ErrorReturn, Leave
<1>29. CASE Conclude
  <2>1. turn \in Turns /\ HistoryText \in Nat
    BY <1>29 DEF Conclude, Tidy, HistoryText
  <2>2. messages' \in Seq(Message)
    BY <1>29, <2>1, MessageType DEF Conclude
  <2>3. QED
    BY <1>29, <2>1, <2>2 DEF Conclude, Tidy, FreshReply
<1>30. CASE Abandon
  BY <1>30 DEF Abandon, Tidy, FreshReply
<1>31. CASE AfterVerdict
  BY <1>31 DEF AfterVerdict, SafeSend, LoopHead
<1>32. CASE MainRaises
  <2>1. CASE ListenRaises
    BY <2>1 DEF ListenRaises
  <2>2. CASE TurnRaises
    BY <2>2 DEF TurnRaises, Leave
  <2>3. CASE BytesFail
    BY <2>3 DEF BytesFail, Leave
  <2>4. QED
    BY <1>32, <2>1, <2>2, <2>3 DEF MainRaises
<1>33. CASE Reader
  <2>1. CASE ReadAudio
    <3>1. Chunk(turn) \in Item
      BY ItemType
    <3>2. Append(pcmQ, Chunk(turn)) \in Seq(Item) /\ Append(bargeQ, Chunk(turn)) \in Seq(Item)
      BY <3>1, AppendProperties
    <3>3. \/ pcmQ' = Append(pcmQ, Chunk(turn)) /\ UNCHANGED bargeQ
          \/ bargeQ' = Append(bargeQ, Chunk(turn)) /\ UNCHANGED pcmQ
      BY <2>1 DEF ReadAudio
    <3>4. pcmQ' \in Seq(Item) /\ bargeQ' \in Seq(Item)
      BY <3>2, <3>3
    <3>5. QED
      BY <2>1, <3>4 DEF ReadAudio
  <2>2. CASE ReadCancel
    BY <1>33, <2>2 DEF ReadCancel
  <2>3. CASE ReadEnd \/ ReadDisconnect \/ ReaderCancelled
    <3>1. ReaderExit
      BY <2>3 DEF ReadEnd, ReadDisconnect, ReaderCancelled
    <3>2. pcmQ' \in Seq(Item) /\ bargeQ' \in Seq(Item)
      BY <3>1, ItemType, AppendProperties DEF ReaderExit, PutSentinels
    <3>3. QED
      BY <3>1, <3>2 DEF ReaderExit
  <2>4. QED
    BY <1>33, <2>1, <2>2, <2>3 DEF Reader
<1>34. CASE Watcher
  <2>1. CASE WatchGranted
    BY <2>1 DEF WatchGranted
  <2>2. CASE WatchGivesUp
    BY <2>2 DEF WatchGivesUp
  <2>3. CASE WatchHear
    <3>1. bargeQ' \in Seq(Item)
      BY <2>3, HeadTailProperties DEF WatchHear
    <3>2. QED
      BY <2>3, <3>1 DEF WatchHear
  <2>4. QED
    BY <1>34, <2>1, <2>2, <2>3 DEF Watcher
<1>35. CASE ClientLeaves
  BY <1>35 DEF ClientLeaves
<1>36. CASE UNCHANGED vars
  BY <1>36 DEF vars
<1>37. QED
  BY <1>1, <1>2, <1>3, <1>4, <1>5, <1>6, <1>7, <1>8, <1>9, <1>10, <1>11, <1>12,
     <1>13, <1>14, <1>15, <1>16, <1>17, <1>18, <1>19, <1>20, <1>21, <1>22, <1>23,
     <1>24, <1>25, <1>26, <1>27, <1>28, <1>29, <1>30, <1>31, <1>32, <1>33, <1>34,
     <1>35, <1>36
     DEF Next, MainStep

(* The variables of a session keep their types: in particular the counters   *)
(* of a reply never run below zero, whatever interrupts it.                  *)
THEOREM TypeCorrect == Spec => []TypeOK
<1>1. Init => TypeInv
  BY TypeInit
<1>2. TypeInv /\ [Next]_vars => TypeInv'
  BY DataStep, FlagsStep DEF TypeInv, TypeOK
<1>3. TypeInv => TypeOK
  BY DEF TypeInv
<1>4. QED
  BY <1>1, <1>2, <1>3, PTL DEF Spec

(***************************************************************************)
(* Tasks.                                                                  *)
(***************************************************************************)

ScopeInv == TasksScoped /\ (mpc = "start" => rpc = "off")

LEMMA ScopeStep == ScopeInv /\ [Next]_vars => ScopeInv'
<1> SUFFICES ASSUME ScopeInv, [Next]_vars PROVE ScopeInv'
  OBVIOUS
<1> USE DEF ScopeInv, TasksScoped, ReplyPcs, SpeakingPcs, tasks, dialogue, settings
<1>1. CASE Unavailable
  BY <1>1 DEF Unavailable
<1>2. CASE StartSession
  BY <1>2 DEF StartSession
<1>3. CASE AfterReady
  BY <1>3 DEF AfterReady, LoopHead
<1>4. CASE Finally
  BY <1>4 DEF Finally
<1>5. CASE CloseSession
  BY <1>5 DEF CloseSession
<1>6. CASE BeginListen
  BY <1>6 DEF BeginListen
<1>7. CASE AsrGranted
  BY <1>7 DEF AsrGranted
<1>8. CASE AsrBusy
  BY <1>8 DEF AsrBusy
<1>9. CASE AfterBusy
  BY <1>9 DEF AfterBusy, LoopHead
<1>10. CASE HearChunk
  BY <1>10 DEF HearChunk
<1>11. CASE HearStop
  BY <1>11 DEF HearStop
<1>12. CASE AfterUserPartial
  BY <1>12 DEF AfterUserPartial
<1>13. CASE AfterUserFinal
  BY <1>13 DEF AfterUserFinal
<1>14. CASE BeginRespond
  BY <1>14 DEF BeginRespond
<1>15. CASE FirstToken
  BY <1>15 DEF FirstToken
<1>16. CASE FirstEmpty
  BY <1>16 DEF FirstEmpty, Leave
<1>17. CASE FirstInterrupted
  BY <1>17 DEF FirstInterrupted, Leave
<1>18. CASE TurnFails
  BY <1>18 DEF TurnFails
<1>19. CASE BeginReply
  BY <1>19 DEF BeginReply, TakeDelta, Leave
<1>20. CASE AfterPartial
  BY <1>20 DEF AfterPartial, Speak, Leave
<1>21. CASE NextDelta
  BY <1>21 DEF NextDelta, TakeDelta, Leave
<1>22. CASE AgentEnds
  BY <1>22 DEF AgentEnds, Speak, Leave
<1>23. CASE OpenTts
  BY <1>23 DEF OpenTts
<1>24. CASE AfterMeta
  BY <1>24 DEF AfterMeta
<1>25. CASE NextChunk
  BY <1>25 DEF NextChunk, Leave
<1>26. CASE AfterBytes
  BY <1>26 DEF AfterBytes
<1>27. CASE SentenceDone
  BY <1>27 DEF SentenceDone, Speak, Leave
<1>28. CASE AfterError
  BY <1>28 DEF AfterError, ErrorReturn, Leave
<1>29. CASE Conclude
  BY <1>29 DEF Conclude, Tidy
<1>30. CASE Abandon
  BY <1>30 DEF Abandon, Tidy
<1>31. CASE AfterVerdict
  BY <1>31 DEF AfterVerdict, LoopHead
<1>32. CASE MainRaises
  BY <1>32 DEF MainRaises, ListenRaises, TurnRaises, BytesFail, Leave
<1>33. CASE Reader
  BY <1>33 DEF Reader, ReadAudio, ReadCancel, ReadEnd, ReadDisconnect,
               ReaderCancelled, ReaderExit
<1>34. CASE Watcher
  BY <1>34 DEF Watcher, WatchGranted, WatchGivesUp, WatchHear
<1>35. CASE ClientLeaves
  BY <1>35 DEF ClientLeaves
<1>36. CASE UNCHANGED vars
  BY <1>36 DEF vars
<1>37. QED
  BY <1>1, <1>2, <1>3, <1>4, <1>5, <1>6, <1>7, <1>8, <1>9, <1>10, <1>11,
     <1>12, <1>13, <1>14, <1>15, <1>16, <1>17, <1>18, <1>19, <1>20, <1>21, <1>22,
     <1>23, <1>24, <1>25, <1>26, <1>27, <1>28, <1>29, <1>30, <1>31, <1>32, <1>33,
     <1>34, <1>35, <1>36
     DEF Next, MainStep

(* A watcher lives inside the reply it watches and nowhere else, so a session *)
(* never holds two recogniser slots and nothing interrupts a later turn; a    *)
(* closed session has no reader.                                             *)
THEOREM TasksAreScoped == Spec => []TasksScoped
<1>1. Init => ScopeInv
  BY DEF Init, ScopeInv, TasksScoped
<1>2. ScopeInv /\ [Next]_vars => ScopeInv'
  BY ScopeStep
<1>3. ScopeInv => TasksScoped
  BY DEF ScopeInv
<1>4. QED
  BY <1>1, <1>2, <1>3, PTL DEF Spec

(***************************************************************************)
(* Audio.                                                                  *)
(***************************************************************************)

LEMMA FreshEmpty ==
  ASSUME NEW t
  PROVE  FreshFor(<<>>, t)
BY DEF FreshFor

LEMMA FreshTail ==
  ASSUME NEW q \in Seq(Item), q # <<>>, NEW t, FreshFor(q, t)
  PROVE  FreshFor(Tail(q), t)
<1>1. \A i \in 1 .. Len(q) - 1 : i + 1 \in DOMAIN q /\ Tail(q)[i] = q[i + 1]
  BY HeadTailProperties
<1>2. DOMAIN Tail(q) = 1 .. Len(q) - 1
  BY HeadTailProperties
<1>3. QED
  BY <1>1, <1>2 DEF FreshFor

LEMMA FreshAppend ==
  ASSUME NEW q \in Seq(Item), NEW t, FreshFor(q, t),
         NEW x \in Item, x.pcm => x.turn = t
  PROVE  FreshFor(Append(q, x), t)
<1>1. DOMAIN Append(q, x) = 1 .. Len(q) + 1
  BY AppendProperties
<1>2. /\ \A i \in 1 .. Len(q) : i \in DOMAIN q /\ Append(q, x)[i] = q[i]
      /\ Append(q, x)[Len(q) + 1] = x
  BY AppendProperties
<1>3. \A i \in 1 .. Len(q) + 1 : i \in 1 .. Len(q) \/ i = Len(q) + 1
  OBVIOUS
<1>4. QED
  BY <1>1, <1>2, <1>3 DEF FreshFor

LEMMA FreshStep == TypeInv /\ ScopeInv /\ FreshAudio /\ [Next]_vars => FreshAudio'
<1> SUFFICES ASSUME TypeInv, ScopeInv, FreshAudio, [Next]_vars PROVE FreshAudio'
  OBVIOUS
<1> USE DEF FreshAudio, ListenPcs, ScopeInv, TasksScoped, ReplyPcs, SpeakingPcs, tasks,
            dialogue, settings
<1>a. pcmQ \in Seq(Item) /\ bargeQ \in Seq(Item)
  BY DEF TypeInv, TypeOK, DataOK
<1>1. CASE Unavailable
  BY <1>1 DEF Unavailable
<1>2. CASE StartSession
  BY <1>2 DEF StartSession
<1>3. CASE AfterReady
  BY <1>3 DEF AfterReady, LoopHead
<1>4. CASE Finally
  BY <1>4 DEF Finally
<1>5. CASE CloseSession
  BY <1>5 DEF CloseSession
<1>6. CASE BeginListen
  BY <1>6, FreshEmpty DEF BeginListen, DrainQueue
<1>7. CASE AsrGranted
  BY <1>7 DEF AsrGranted
<1>8. CASE AsrBusy
  BY <1>8 DEF AsrBusy
<1>9. CASE AfterBusy
  BY <1>9 DEF AfterBusy, LoopHead
<1>10. CASE HearChunk
  BY <1>10, <1>a, FreshTail DEF HearChunk
<1>11. CASE HearStop
  BY <1>11, <1>a, FreshTail DEF HearStop
<1>12. CASE AfterUserPartial
  BY <1>12 DEF AfterUserPartial
<1>13. CASE AfterUserFinal
  BY <1>13 DEF AfterUserFinal
<1>14. CASE BeginRespond
  BY <1>14 DEF BeginRespond
<1>15. CASE FirstToken
  BY <1>15 DEF FirstToken
<1>16. CASE FirstEmpty
  BY <1>16 DEF FirstEmpty, Leave
<1>17. CASE FirstInterrupted
  BY <1>17 DEF FirstInterrupted, Leave
<1>18. CASE TurnFails
  BY <1>18 DEF TurnFails
<1>19. CASE BeginReply
  BY <1>19, FreshEmpty DEF BeginReply, TakeDelta, Leave
<1>20. CASE AfterPartial
  BY <1>20 DEF AfterPartial, Speak, Leave
<1>21. CASE NextDelta
  BY <1>21 DEF NextDelta, TakeDelta, Leave
<1>22. CASE AgentEnds
  BY <1>22 DEF AgentEnds, Speak, Leave
<1>23. CASE OpenTts
  BY <1>23 DEF OpenTts
<1>24. CASE AfterMeta
  BY <1>24 DEF AfterMeta
<1>25. CASE NextChunk
  BY <1>25 DEF NextChunk, Leave
<1>26. CASE AfterBytes
  BY <1>26 DEF AfterBytes
<1>27. CASE SentenceDone
  BY <1>27 DEF SentenceDone, Speak, Leave
<1>28. CASE AfterError
  BY <1>28 DEF AfterError, ErrorReturn, Leave
<1>29. CASE Conclude
  BY <1>29 DEF Conclude, Tidy
<1>30. CASE Abandon
  BY <1>30 DEF Abandon, Tidy
<1>31. CASE AfterVerdict
  BY <1>31 DEF AfterVerdict, LoopHead
<1>32. CASE MainRaises
  BY <1>32 DEF MainRaises, ListenRaises, TurnRaises, BytesFail, Leave
<1>33. CASE Reader
  <2>1. Chunk(turn) \in Item /\ Stop \in Item
    BY ItemType DEF TypeInv, TypeOK, DataOK
  <2>2. Chunk(turn).turn = turn /\ ~Stop.pcm
    BY DEF Chunk, Stop
  <2>3. CASE ReadAudio
    BY <2>1, <2>2, <2>3, <1>a, FreshAppend DEF ReadAudio
  <2>4. CASE ReadCancel
    BY <2>4 DEF ReadCancel
  <2>5. CASE ReadEnd \/ ReadDisconnect \/ ReaderCancelled
    BY <2>1, <2>2, <2>5, <1>a, FreshAppend
       DEF ReadEnd, ReadDisconnect, ReaderCancelled, ReaderExit, PutSentinels
  <2>6. QED
    BY <1>33, <2>3, <2>4, <2>5 DEF Reader
<1>34. CASE Watcher
  BY <1>34, <1>a, FreshTail DEF Watcher, WatchGranted, WatchGivesUp, WatchHear
<1>35. CASE ClientLeaves
  BY <1>35 DEF ClientLeaves
<1>36. CASE UNCHANGED vars
  BY <1>36 DEF vars
<1>37. QED
  BY <1>1, <1>2, <1>3, <1>4, <1>5, <1>6, <1>7, <1>8, <1>9, <1>10, <1>11,
     <1>12, <1>13, <1>14, <1>15, <1>16, <1>17, <1>18, <1>19, <1>20, <1>21, <1>22,
     <1>23, <1>24, <1>25, <1>26, <1>27, <1>28, <1>29, <1>30, <1>31, <1>32, <1>33,
     <1>34, <1>35, <1>36
     DEF Next, MainStep

(* No recogniser ever hears audio of an earlier round: neither the next       *)
(* question nor barge-in is made of what was captured before it began.        *)
THEOREM AudioIsFresh == Spec => []FreshAudio
<1>1. Init => TypeInv /\ ScopeInv /\ FreshAudio
  BY TypeInit DEF Init, ScopeInv, TasksScoped, FreshAudio, ListenPcs
<1>2. TypeInv /\ [Next]_vars => TypeInv'
  BY DataStep, FlagsStep DEF TypeInv, TypeOK
<1>3. QED
  BY <1>1, <1>2, ScopeStep, FreshStep, PTL DEF Spec

(***************************************************************************)
(* What a conversation leaves behind: how its turns are concluded, what the *)
(* client was sent of them and what the agent is asked with.               *)
(***************************************************************************)

(***************************************************************************)
(* Steps.  All but those of a reply leave the history alone.               *)
(***************************************************************************)

(* The points at which the turn under way is not concluded. *)
OpenPcs == {"first", "responding"} \cup SpeakingPcs

(* Everything the main task does between the request to the agent and the    *)
(* conclusion of the turn.                                                   *)
ReplyStep ==
  \/ BeginRespond \/ FirstToken \/ FirstEmpty \/ FirstInterrupted \/ TurnFails
  \/ BeginReply \/ AfterPartial \/ NextDelta \/ AgentEnds \/ OpenTts
  \/ AfterMeta \/ NextChunk \/ AfterBytes \/ SentenceDone \/ AfterError
  \/ Conclude \/ Abandon \/ TurnRaises \/ BytesFail

(* What the reader, the watcher, the client and the listening main task do:  *)
(* the reply and the history stay, and the main task stays outside of a turn. *)
QuietStep ==
  /\ UNCHANGED <<turn, messages, outcome, heard, full, rest, todo, ended, spoken,
                 lacking, verdict, bySentence>>
  /\ \/ UNCHANGED mpc
     \/ /\ mpc \notin OpenPcs \cup {"errorSent", "cleanup"}
        /\ mpc' \notin OpenPcs \cup {"errorSent", "cleanup"}

LEMMA StepKinds == [Next]_vars => QuietStep \/ ReplyStep
<1> SUFFICES ASSUME [Next]_vars PROVE QuietStep \/ ReplyStep
  OBVIOUS
<1> USE DEF QuietStep, OpenPcs, SpeakingPcs, tasks, dialogue, settings, session,
            reply, history
<1>1. CASE Unavailable
  BY <1>1 DEF Unavailable
<1>2. CASE StartSession
  BY <1>2 DEF StartSession
<1>3. CASE AfterReady
  BY <1>3 DEF AfterReady, LoopHead
<1>4. CASE Finally
  BY <1>4 DEF Finally
<1>5. CASE CloseSession
  BY <1>5 DEF CloseSession
<1>6. CASE BeginListen
  BY <1>6 DEF BeginListen
<1>7. CASE AsrGranted
  BY <1>7 DEF AsrGranted
<1>8. CASE AsrBusy
  BY <1>8 DEF AsrBusy
<1>9. CASE AfterBusy
  BY <1>9 DEF AfterBusy, LoopHead
<1>10. CASE HearChunk
  BY <1>10 DEF HearChunk
<1>11. CASE HearStop
  BY <1>11 DEF HearStop
<1>12. CASE AfterUserPartial
  BY <1>12 DEF AfterUserPartial
<1>13. CASE AfterUserFinal
  BY <1>13 DEF AfterUserFinal
<1>14. CASE AfterVerdict
  BY <1>14 DEF AfterVerdict, LoopHead
<1>15. CASE ListenRaises
  BY <1>15 DEF ListenRaises
<1>16. CASE Reader
  BY <1>16 DEF Reader, ReadAudio, ReadCancel, ReadEnd, ReadDisconnect, ReaderCancelled,
               ReaderExit
<1>17. CASE Watcher
  BY <1>17 DEF Watcher, WatchGranted, WatchGivesUp, WatchHear
<1>18. CASE ClientLeaves
  BY <1>18 DEF ClientLeaves
<1>19. CASE UNCHANGED vars
  BY <1>19 DEF vars
<1>20. QED
  BY <1>1, <1>2, <1>3, <1>4, <1>5, <1>6, <1>7, <1>8, <1>9, <1>10, <1>11, <1>12,
     <1>13, <1>14, <1>15, <1>16, <1>17, <1>18, <1>19 DEF Next, MainStep, MainRaises, ReplyStep

(* The types the proofs below need, in the form they need them.              *)
LEMMA TypeFacts ==
  ASSUME TypeInv
  PROVE  /\ turn \in Nat /\ (mpc \in TurnPcs => turn \in Turns)
         /\ \A t \in Turns : t \in Nat
         /\ full \in Nat /\ spoken \in Nat /\ todo \in Nat /\ lacking \in Nat
         /\ outcome \in [Turns -> Outcomes] /\ heard \in [Turns -> Nat]
         /\ messages \in Seq(Message)
         /\ verdict \in {"ok", "interrupted", "error", "raised"}
         /\ (mpc = "thinking" => turn + 1 \in Turns)
         /\ rest => full > 0
         /\ mpc \in {"ttsSlot", "meta", "nextChunk", "bytes"} => todo > 0
BY ConstantsAssumption DEF ConstantsAssumption, TypeInv, TypeOK, DataOK, LocalsOK, Turns

(***************************************************************************)
(* A turn is concluded once.                                               *)
(***************************************************************************)

(* Who has been concluded: no turn that is still to come, and the present    *)
(* one only when its error frame is out.                                     *)
OutcomeInv ==
  /\ \A t \in Turns : t > turn => outcome[t] = "none"
  /\ mpc \in OpenPcs => outcome[turn] = "none"
  /\ mpc = "cleanup" /\ verdict \in {"ok", "interrupted"} => outcome[turn] = "none"


LEMMA OutcomeStep == TypeInv /\ OutcomeInv /\ [Next]_vars => OutcomeInv'
<1> SUFFICES ASSUME TypeInv, OutcomeInv, [Next]_vars PROVE OutcomeInv'
  OBVIOUS
<1> USE TypeFacts
    DEF OutcomeInv, OpenPcs, SpeakingPcs, TurnPcs, Turns, tasks, dialogue, settings,
        session, reply, history
<1>1. CASE QuietStep
  BY <1>1 DEF QuietStep
<1>2. CASE BeginRespond
  BY <1>2 DEF BeginRespond
<1>3. CASE FirstToken
  BY <1>3 DEF FirstToken
<1>4. CASE FirstEmpty
  BY <1>4 DEF FirstEmpty, Leave
<1>5. CASE FirstInterrupted
  BY <1>5 DEF FirstInterrupted, Leave
<1>6. CASE TurnFails
  BY <1>6 DEF TurnFails
<1>7. CASE BeginReply
  BY <1>7 DEF BeginReply, TakeDelta, Leave
<1>8. CASE AfterPartial
  BY <1>8 DEF AfterPartial, Speak, Leave
<1>9. CASE NextDelta
  BY <1>9 DEF NextDelta, TakeDelta, Leave
<1>10. CASE AgentEnds
  BY <1>10 DEF AgentEnds, FlushBuffer, Speak, Leave
<1>11. CASE OpenTts
  BY <1>11 DEF OpenTts
<1>12. CASE AfterMeta
  BY <1>12 DEF AfterMeta
<1>13. CASE NextChunk
  BY <1>13 DEF NextChunk, Leave
<1>14. CASE AfterBytes
  BY <1>14 DEF AfterBytes
<1>15. CASE SentenceDone
  BY <1>15 DEF SentenceDone, Speak, Leave
<1>16. CASE AfterError
  BY <1>16 DEF AfterError, ErrorReturn, Leave
<1>17. CASE Conclude
  BY <1>17 DEF Conclude, Tidy, FreshReply
<1>18. CASE Abandon
  BY <1>18 DEF Abandon, Tidy, FreshReply
<1>19. CASE TurnRaises
  BY <1>19 DEF TurnRaises, Leave
<1>20. CASE BytesFail
  BY <1>20 DEF BytesFail, Leave
<1>21. QED
  BY <1>1, <1>2, <1>3, <1>4, <1>5, <1>6, <1>7, <1>8, <1>9, <1>10, <1>11, <1>12,
     <1>13, <1>14, <1>15, <1>16, <1>17, <1>18, <1>19, <1>20, StepKinds DEF ReplyStep

(* What a step may do to the frames that concluded the turns.                *)
LEMMA OutcomeMoves ==
  ASSUME TypeInv, OutcomeInv, [Next]_vars
  PROVE  \/ UNCHANGED outcome
         \/ /\ turn \in Turns /\ outcome[turn] = "none"
            /\ \E v \in Outcomes : outcome' = [outcome EXCEPT ![turn] = v]
<1> USE TypeFacts
    DEF OutcomeInv, OpenPcs, SpeakingPcs, TurnPcs, Outcomes, history
<1>1. CASE QuietStep
  BY <1>1 DEF QuietStep
<1>2. CASE TurnFails
  BY <1>2 DEF TurnFails
<1>3. CASE Conclude
  BY <1>3 DEF Conclude, Tidy
<1>4. CASE UNCHANGED outcome
  BY <1>4
<1>5. ReplyStep => TurnFails \/ Conclude \/ UNCHANGED outcome
  BY DEF ReplyStep, BeginRespond, FirstToken, FirstEmpty, FirstInterrupted,
         BeginReply, AfterPartial, NextDelta, AgentEnds, OpenTts, AfterMeta,
         NextChunk, AfterBytes, SentenceDone, AfterError, Abandon, TurnRaises,
         BytesFail
<1>6. QED
  BY <1>1, <1>2, <1>3, <1>4, <1>5, StepKinds

(* A turn is concluded by one frame, whatever fails, is stopped or is left   *)
(* in the middle: once a turn has its error, interrupted or assistant_done   *)
(* frame, no step sends it another.                                          *)
THEOREM TurnsConcludedOnce == Spec => ConcludedOnce
<1>1. Init => TypeInv /\ OutcomeInv
  <2>1. Init => OutcomeInv
    BY DEF Init, OutcomeInv, OpenPcs, SpeakingPcs
  <2>2. QED
    BY <2>1, TypeInit
<1>2. TypeInv /\ [Next]_vars => TypeInv'
  BY DataStep, FlagsStep DEF TypeInv, TypeOK
<1>3. TypeInv /\ OutcomeInv /\ [Next]_vars =>
        [\A t \in Turns : outcome[t] # "none" => outcome'[t] = outcome[t]]_vars
  <2> SUFFICES ASSUME TypeInv, OutcomeInv, [Next]_vars, NEW t \in Turns,
                      outcome[t] # "none"
               PROVE  outcome'[t] = outcome[t]
    OBVIOUS
  <2>1. QED
    BY OutcomeMoves, TypeFacts
<1>4. QED
  BY <1>1, <1>2, <1>3, OutcomeStep, PTL DEF Spec, ConcludedOnce

(***************************************************************************)
(* An interruption is obeyed.                                              *)
(***************************************************************************)

(* With the flag up, nothing but audio that is being sent already is sent,   *)
(* and nothing but a text already handed over is synthesised: every way of   *)
(* _respond to the next chunk and to the next text asks for the flag first.  *)
THEOREM InterruptIsObeyed == Spec => NoAudioAfterInterrupt
<1>1. [Next]_vars =>
        [interrupt => /\ mpc' = "bytes" => mpc = "bytes"
                      /\ mpc' = "ttsSlot" => mpc = "ttsSlot"]_vars
  <2> SUFFICES ASSUME [Next]_vars, interrupt
               PROVE  /\ mpc' = "bytes" => mpc = "bytes"
                      /\ mpc' = "ttsSlot" => mpc = "ttsSlot"
    OBVIOUS
  <2>1. CASE QuietStep
    BY <2>1 DEF QuietStep, OpenPcs, SpeakingPcs
  <2>2. CASE ReplyStep
    BY <2>2 DEF ReplyStep, BeginRespond, FirstToken, FirstEmpty, FirstInterrupted,
         TurnFails, BeginReply, TakeDelta, AfterPartial, NextDelta, AgentEnds, OpenTts,
         AfterMeta, NextChunk, AfterBytes, SentenceDone, AfterError, ErrorReturn,
         Conclude, Abandon, TurnRaises, BytesFail, Speak, Leave
  <2>3. QED
    BY <2>1, <2>2, StepKinds
<1>2. QED
  BY <1>1, PTL DEF Spec, NoAudioAfterInterrupt

(***************************************************************************)
(* The sentences of a reply.                                               *)
(***************************************************************************)

(* The left-over text, counted as a sentence. *)
Left == IF rest THEN 1 ELSE 0

SynthPcs == {"ttsSlot", "meta", "nextChunk", "bytes"}

(* The sentences of the reply: each is spoken, popped or left over. *)
CountInv ==
  /\ mpc \notin ReplyPcs =>
       full = 0 /\ spoken = 0 /\ todo = 0 /\ ~rest /\ ~ended
  /\ mpc \in {"partial", "nextDelta"} => ~ended
  /\ mpc \in SpeakingPcs /\ ended => todo = 1
  /\ mpc = "nextDelta" /\ bySentence => todo = 0
  /\ mpc \in SpeakingPcs /\ bySentence =>
       full = spoken + (IF ended THEN todo ELSE todo + Left)
  /\ mpc \in SpeakingPcs /\ ~bySentence => spoken = 0
  /\ mpc \in SynthPcs /\ ~bySentence => ended


(* A delta adds the sentences it completes and the text it leaves over.      *)
LEMMA TakenDelta ==
  ASSUME TypeInv, TakeDelta, ~interrupt
  PROVE  /\ full' + Left = full + todo' + Left'
         /\ full' \in Nat /\ todo' \in Nat
         /\ mpc' = "partial"
<1> USE TypeFacts, ConstantsAssumption DEF ConstantsAssumption
<1>1. PICK popped \in 0 .. PerDelta, left \in BOOLEAN :
        /\ full' = (IF rest THEN full - 1 ELSE full)
                     + popped + (IF left THEN 1 ELSE 0)
        /\ rest' = left
        /\ todo' = popped
        /\ mpc' = "partial"
  BY DEF TakeDelta
<1>2. QED
  BY <1>1 DEF Left

(* ... so the reply is still the sum of what was spoken and what was not.     *)
LEMMA DeltaCounted ==
  ASSUME TypeInv, CountInv, TakeDelta, ~interrupt, bySentence,
         mpc = "nextDelta" \/ mpc = "responding"
  PROVE  full' = spoken + (todo' + Left')
<1>1. full = spoken + Left
  <2>1. CASE mpc = "nextDelta"
    <3>1. full = spoken + (todo + Left) /\ todo = 0 /\ Left \in Nat
      BY <2>1 DEF CountInv, SpeakingPcs, Left
    <3>2. QED
      BY <3>1
  <2>2. CASE mpc = "responding"
    BY <2>2 DEF CountInv, ReplyPcs, SpeakingPcs, Left
  <2>3. QED
    BY <2>1, <2>2
<1>2. full' + Left = full + todo' + Left'
  BY TakenDelta
<1>3. /\ full \in Nat /\ spoken \in Nat /\ Left \in Nat /\ full' \in Nat
      /\ todo' \in Nat /\ Left' \in Nat
  BY TypeFacts, TakenDelta DEF Left
<1>4. PICK f \in Nat, g \in Nat, k \in Nat, l \in Nat, m \in Nat, t \in Nat :
        f = full /\ g = full' /\ k = spoken /\ l = Left /\ m = Left' /\ t = todo'
  BY <1>3, Zenon
<1>5. f = k + l /\ g + l = f + t + m
  BY <1>1, <1>2, <1>4, Zenon
<1>6. g = k + (t + m)
  BY <1>5
<1>7. QED
  BY <1>4, <1>6, Zenon

LEMMA CountStep == TypeInv /\ CountInv /\ [Next]_vars => CountInv'
<1> SUFFICES ASSUME TypeInv, CountInv, [Next]_vars PROVE CountInv'
  OBVIOUS
<1> USE TypeFacts
    DEF CountInv, ReplyPcs, SpeakingPcs, SynthPcs, Left, AfterThis, tasks, dialogue,
        settings, session, reply, history
<1>1. CASE QuietStep
  BY <1>1 DEF QuietStep, OpenPcs
<1>2. CASE BeginRespond
  BY <1>2 DEF BeginRespond
<1>3. CASE FirstToken
  BY <1>3 DEF FirstToken
<1>4. CASE FirstEmpty
  BY <1>4 DEF FirstEmpty, Leave
<1>5. CASE FirstInterrupted
  BY <1>5 DEF FirstInterrupted, Leave
<1>6. CASE TurnFails
  BY <1>6 DEF TurnFails
<1>7. CASE BeginReply
  <2>1. TakeDelta /\ UNCHANGED <<ended, spoken, bySentence>>
        /\ (mpc = "nextDelta" \/ mpc = "responding")
    BY <1>7 DEF BeginReply
  <2>2. CASE interrupt
    BY <1>7, <2>1, <2>2 DEF TakeDelta, Leave
  <2>3. CASE ~interrupt
    <3>1. ~ended /\ (~bySentence => spoken = 0)
      BY <2>1
    <3>2. mpc' = "partial" /\ (bySentence => full' = spoken + (todo' + Left'))
      BY <2>1, <2>3, TakenDelta, DeltaCounted, Zenon
    <3>3. QED
      BY <2>1, <3>1, <3>2
  <2>4. QED
    BY <2>2, <2>3
<1>8. CASE AfterPartial
  BY <1>8 DEF AfterPartial, Speak, Leave
<1>9. CASE NextDelta
  <2>1. TakeDelta /\ UNCHANGED <<ended, spoken, bySentence>>
        /\ (mpc = "nextDelta" \/ mpc = "responding")
    BY <1>9 DEF NextDelta
  <2>2. CASE interrupt
    BY <1>9, <2>1, <2>2 DEF TakeDelta, Leave
  <2>3. CASE ~interrupt
    <3>1. ~ended /\ (~bySentence => spoken = 0)
      BY <2>1
    <3>2. mpc' = "partial" /\ (bySentence => full' = spoken + (todo' + Left'))
      BY <2>1, <2>3, TakenDelta, DeltaCounted, Zenon
    <3>3. QED
      BY <2>1, <3>1, <3>2
  <2>4. QED
    BY <2>2, <2>3
<1>10. CASE AgentEnds
  BY <1>10 DEF AgentEnds, FlushBuffer, Speak, Leave
<1>11. CASE OpenTts
  BY <1>11 DEF OpenTts
<1>12. CASE AfterMeta
  BY <1>12 DEF AfterMeta
<1>13. CASE NextChunk
  BY <1>13 DEF NextChunk, Leave
<1>14. CASE AfterBytes
  BY <1>14 DEF AfterBytes
<1>15. CASE SentenceDone
  <2>1. /\ mpc = "nextChunk" /\ todo' = todo - 1
        /\ spoken' = (IF bySentence THEN spoken + 1 ELSE full)
        /\ UNCHANGED <<full, rest, ended, bySentence>>
    BY <1>15 DEF SentenceDone
  <2>2. /\ todo > 1 => mpc' \in {"ttsSlot", "cleanup"}
        /\ ~(todo > 1) => mpc' = (IF ended THEN "cleanup" ELSE "nextDelta")
    BY <1>15 DEF SentenceDone, Speak, Leave
  <2>3. todo > 0 /\ (~(todo > 1) => todo' = 0)
    BY <2>1
  <2>4. CASE bySentence
    <3>1. /\ ended => todo = 1
          /\ ~ended => full = spoken + (todo + Left)
      BY <2>1, <2>4
    <3>2. Left \in Nat /\ Left' = Left
      BY <2>1
    <3> HIDE DEF Left
    <3>3. ~ended => full' = spoken' + (todo' + Left')
      <4>1. spoken' = spoken + 1 /\ todo' = todo - 1 /\ full' = full /\ Left' = Left
        BY <2>1, <2>4, <3>2
      <4>2. full \in Nat /\ spoken \in Nat /\ todo \in Nat /\ Left \in Nat
        BY <3>2
      <4>3. QED
        BY <3>1, <4>1, <4>2
    <3>4. QED
      BY <2>1, <2>2, <2>3, <2>4, <3>1, <3>3
  <2>5. CASE ~bySentence
    BY <2>1, <2>2, <2>3, <2>5
  <2>6. QED
    BY <2>4, <2>5
<1>16. CASE AfterError
  BY <1>16 DEF AfterError, ErrorReturn, Leave
<1>17. CASE Conclude
  BY <1>17 DEF Conclude, Tidy, FreshReply
<1>18. CASE Abandon
  BY <1>18 DEF Abandon, Tidy, FreshReply
<1>19. CASE TurnRaises
  BY <1>19 DEF TurnRaises, Leave
<1>20. CASE BytesFail
  BY <1>20 DEF BytesFail, Leave
<1>21. QED
  BY <1>1, <1>2, <1>3, <1>4, <1>5, <1>6, <1>7, <1>8, <1>9, <1>10, <1>11, <1>12,
     <1>13, <1>14, <1>15, <1>16, <1>17, <1>18, <1>19, <1>20, StepKinds DEF ReplyStep

(***************************************************************************)
(* What the client hears of a reply.                                       *)
(***************************************************************************)

(* What the client has heard of the turn under way. *)
HeardInv ==
  /\ \A t \in Turns : t > turn => heard[t] = 0
  /\ mpc \in {"first", "responding", "partial", "nextDelta", "ttsSlot", "bytes"} =>
       heard[turn] = spoken
  /\ mpc \in {"meta", "nextChunk"} =>
       heard[turn] = (IF lacking = 0 THEN AfterThis ELSE spoken)
  /\ mpc = "cleanup" /\ verdict \in {"ok", "interrupted"} => heard[turn] = HistoryText


LEMMA HeardStep ==
  TypeInv /\ CountInv /\ HeardInv /\ [Next]_vars => HeardInv'
<1> SUFFICES ASSUME TypeInv, CountInv, HeardInv, [Next]_vars PROVE HeardInv'
  OBVIOUS
<1> USE TypeFacts
    DEF HeardInv, CountInv, ReplyPcs, SpeakingPcs, SynthPcs, TurnPcs, Left, AfterThis,
        HistoryText, Turns, tasks, dialogue, settings, session, reply, history
<1>1. CASE QuietStep
  BY <1>1 DEF QuietStep, OpenPcs
<1>2. CASE BeginRespond
  BY <1>2 DEF BeginRespond
<1>3. CASE FirstToken
  BY <1>3 DEF FirstToken
<1>4. CASE FirstEmpty
  BY <1>4 DEF FirstEmpty, Leave
<1>5. CASE FirstInterrupted
  BY <1>5 DEF FirstInterrupted, Leave
<1>6. CASE TurnFails
  BY <1>6 DEF TurnFails
<1>7. CASE BeginReply
  BY <1>7 DEF BeginReply, TakeDelta, Leave
<1>8. CASE AfterPartial
  BY <1>8 DEF AfterPartial, Speak, Leave
<1>9. CASE NextDelta
  BY <1>9 DEF NextDelta, TakeDelta, Leave
<1>10. CASE AgentEnds
  BY <1>10 DEF AgentEnds, FlushBuffer, Speak, Leave
<1>11. CASE OpenTts
  BY <1>11 DEF OpenTts
<1>12. CASE AfterMeta
  BY <1>12 DEF AfterMeta
<1>13. CASE NextChunk
  BY <1>13 DEF NextChunk, Leave
<1>14. CASE AfterBytes
  BY <1>14 DEF AfterBytes
<1>15. CASE SentenceDone
  BY <1>15 DEF SentenceDone, Speak, Leave
<1>16. CASE AfterError
  BY <1>16 DEF AfterError, ErrorReturn, Leave
<1>17. CASE Conclude
  BY <1>17 DEF Conclude, Tidy, FreshReply
<1>18. CASE Abandon
  BY <1>18 DEF Abandon, Tidy, FreshReply
<1>19. CASE TurnRaises
  BY <1>19 DEF TurnRaises, Leave
<1>20. CASE BytesFail
  BY <1>20 DEF BytesFail, Leave
<1>21. QED
  BY <1>1, <1>2, <1>3, <1>4, <1>5, <1>6, <1>7, <1>8, <1>9, <1>10, <1>11, <1>12,
     <1>13, <1>14, <1>15, <1>16, <1>17, <1>18, <1>19, <1>20, StepKinds DEF ReplyStep

(***************************************************************************)
(* The messages.                                                           *)
(***************************************************************************)

(* A record of the conversation that agrees with what was concluded and      *)
(* heard: stated of the sequence, so that a suffix of it can be spoken of.   *)
Concluded == {"ok", "interrupted"}

TextsHeard(ms) ==
  \A i \in 1 .. Len(ms) : ms[i].role = "assistant" =>
    ms[i].text = heard[ms[i].turn] /\ outcome[ms[i].turn] \in Concluded

Answered(ms) ==
  \A i \in 1 .. Len(ms) :
    LET t == ms[i].turn
    IN ms[i].role = "user" /\ outcome[t] \in Concluded /\ heard[t] > 0 =>
         i < Len(ms) /\ ms[i + 1] = Assistant(t, heard[t])

InOrder(ms) ==
  \A i \in 1 .. Len(ms) - 1 :
    \/ ms[i].turn < ms[i + 1].turn /\ ms[i + 1].role = "user"
    \/ ms[i] = User(ms[i + 1].turn) /\ ms[i + 1].role = "assistant"

(* No turn of the list is later than t; only its last message is of turn t.  *)
UpTo(ms, t) == \A i \in 1 .. Len(ms) : ms[i].turn <= t

Asked(ms, t) ==
  /\ Len(ms) > 0 /\ ms[Len(ms)] = User(t)
  /\ \A i \in 1 .. Len(ms) - 1 : ms[i].turn < t

MessagesInv ==
  /\ TextsHeard(messages)
  /\ Answered(messages)
  /\ InOrder(messages)
  /\ UpTo(messages, turn)
  /\ mpc \in OpenPcs \cup {"errorSent", "cleanup"} => Asked(messages, turn)

(* What is kept of a sequence when its first k elements are dropped.         *)
SuffixOf(r, ms, k) ==
  /\ Len(r) = Len(ms) - k
  /\ \A i \in 1 .. Len(r) : r[i] = ms[i + k]

(* _truncate drops messages from the front, and never the last one.          *)
LEMMA TruncateSuffix ==
  ASSUME NEW ms \in Seq(Message)
  PROVE  \E k \in 0 .. Len(ms) :
           SuffixOf(Truncate(ms), ms, k) /\ (Len(ms) > 0 => k < Len(ms))
<1>1. CASE Len(ms) > 2 * KeepTurns
  <2> DEFINE k == Len(ms) - 2 * KeepTurns
  <2>1. /\ k \in 0 .. Len(ms) /\ k < Len(ms) /\ Len(ms) - k = 2 * KeepTurns
        /\ k + 1 \in 1 .. Len(ms) + 1 /\ Len(ms) \in Nat
    BY <1>1, ConstantsAssumption, LenProperties DEF ConstantsAssumption
  <2>2. Truncate(ms) = SubSeq(ms, k + 1, Len(ms))
    BY <1>1 DEF Truncate
  <2> HIDE DEF k
  <2>3. /\ Len(SubSeq(ms, k + 1, Len(ms))) = Len(ms) - k
        /\ \A i \in 1 .. Len(ms) - k : SubSeq(ms, k + 1, Len(ms))[i] = ms[i + k]
    <3> DEFINE n == Len(ms)
               r == SubSeq(ms, k + 1, n)
    <3>1. /\ k + 1 \in Int /\ n \in Int /\ k + 1 <= n /\ n - (k + 1) + 1 = n - k
          /\ \A i \in k + 1 .. n : i \in 1 .. n
      BY <2>1
    <3>2. \A i \in k + 1 .. n : ms[i] \in Message
      BY <3>1
    <3>3. /\ Len(r) = IF k + 1 <= n THEN n - (k + 1) + 1 ELSE 0
          /\ \A i \in 1 .. n - (k + 1) + 1 : r[i] = ms[k + 1 + i - 1]
      BY <3>1, <3>2, SubSeqProperties
    <3>4. \A i \in 1 .. n - k : k + 1 + i - 1 = i + k
      BY <2>1, <3>1
    <3>5. QED
      BY <3>1, <3>3, <3>4
  <2>4. QED
    BY <2>1, <2>2, <2>3 DEF SuffixOf
<1>2. CASE ~(Len(ms) > 2 * KeepTurns)
  <2>1. SuffixOf(ms, ms, 0) /\ Truncate(ms) = ms
    BY <1>2, LenProperties DEF SuffixOf, Truncate
  <2>2. QED
    BY <2>1, LenProperties
<1>3. QED
  BY <1>1, <1>2

(* What is true of a record is true of what _truncate keeps of it: an answer *)
(* follows its question, so it is not dropped before it.                     *)
LEMMA SuffixKeeps ==
  ASSUME NEW ms \in Seq(Message), NEW r \in Seq(Message), NEW k \in 0 .. Len(ms),
         SuffixOf(r, ms, k), NEW t \in Nat
  PROVE  /\ TextsHeard(ms) => TextsHeard(r)
         /\ Answered(ms) => Answered(r)
         /\ InOrder(ms) => InOrder(r)
         /\ UpTo(ms, t) => UpTo(r, t)
         /\ Asked(ms, t) /\ k < Len(ms) => Asked(r, t)
<1>1. /\ Len(ms) \in Nat /\ Len(r) = Len(ms) - k /\ k \in Nat
      /\ \A i \in 1 .. Len(r) : i + k \in 1 .. Len(ms) /\ r[i] = ms[i + k]
  BY LenProperties DEF SuffixOf
<1>2. TextsHeard(ms) => TextsHeard(r)
  BY <1>1, Zenon DEF TextsHeard
<1>3. \A i \in 1 .. Len(r) : i + k < Len(ms) =>
        /\ i < Len(r) /\ i + 1 \in 1 .. Len(r) /\ r[i + 1] = ms[(i + k) + 1]
  <2> SUFFICES ASSUME NEW i \in 1 .. Len(r), i + k < Len(ms)
               PROVE  i < Len(r) /\ i + 1 \in 1 .. Len(r) /\ r[i + 1] = ms[(i + k) + 1]
    OBVIOUS
  <2>1. i < Len(r) /\ i + 1 \in 1 .. Len(r) /\ (i + 1) + k = (i + k) + 1
    BY <1>1
  <2>2. QED
    BY <1>1, <2>1
<1>4. Answered(ms) => Answered(r)
  BY <1>1, <1>3, ZenonT(40) DEF Answered
<1>5. \A i \in 1 .. Len(r) - 1 :
        /\ i \in 1 .. Len(r) /\ i + k \in 1 .. Len(ms) - 1 /\ i + k < Len(ms)
  BY <1>1
<1>6. InOrder(ms) => InOrder(r)
  BY <1>1, <1>3, <1>5, Zenon DEF InOrder
<1>7. UpTo(ms, t) => UpTo(r, t)
  BY <1>1, Zenon DEF UpTo
<1>8. Asked(ms, t) /\ k < Len(ms) => Asked(r, t)
  <2> SUFFICES ASSUME Asked(ms, t), k < Len(ms) PROVE Asked(r, t)
    OBVIOUS
  <2>1. Len(r) > 0 /\ Len(r) + k = Len(ms) /\ Len(r) \in 1 .. Len(r)
    BY <1>1
  <2>2. r[Len(r)] = ms[Len(ms)]
    BY <1>1, <2>1
  <2>3. \A i \in 1 .. Len(r) - 1 : r[i].turn < t
    BY <1>1, <1>5, Zenon DEF Asked
  <2>4. QED
    BY <2>1, <2>2, <2>3 DEF Asked
<1>9. QED
  BY <1>2, <1>4, <1>6, <1>7, <1>8

(* A message is what it is made of.                                          *)
LEMMA MessageIs ==
  ASSUME NEW m \in Message, NEW t \in Turns, NEW n \in Nat
  PROVE  /\ m.role \in {"user", "assistant"} /\ m.turn \in Turns /\ m.turn \in Nat
         /\ m = Assistant(t, n) <=> m.role = "assistant" /\ m.turn = t /\ m.text = n
         /\ User(t).role = "user" /\ User(t).turn = t
BY ConstantsAssumption DEF Message, Assistant, User, Turns, ConstantsAssumption

LEMMA MessageTurns ==
  ASSUME NEW ms \in Seq(Message)
  PROVE  \A i \in 1 .. Len(ms) :
           ms[i] \in Message /\ ms[i].turn \in Turns /\ ms[i].turn \in Nat
<1> SUFFICES ASSUME NEW i \in 1 .. Len(ms)
             PROVE  ms[i] \in Message /\ ms[i].turn \in Turns /\ ms[i].turn \in Nat
  OBVIOUS
<1>1. ms[i] \in Message
  BY ElementOfSeq
<1>2. QED
  BY <1>1, ConstantsAssumption DEF Message, Turns, ConstantsAssumption

(* A step that leaves the messages alone, and what was concluded and heard   *)
(* of every turn but an open one, leaves the record true.                    *)
LEMMA RecordKept ==
  ASSUME TypeInv, OutcomeInv, MessagesInv, UNCHANGED <<messages, turn>>,
         \A t \in Turns : outcome[t] \in Concluded =>
            outcome'[t] = outcome[t] /\ heard'[t] = heard[t],
         \A t \in Turns : outcome'[t] \in Concluded => outcome[t] \in Concluded,
         mpc' \in OpenPcs \cup {"errorSent", "cleanup"} =>
            mpc \in OpenPcs \cup {"errorSent", "cleanup"}
  PROVE  MessagesInv'
<1>1. \A i \in 1 .. Len(messages) : messages[i].turn \in Turns
  BY TypeFacts, MessageTurns
<1>2. TextsHeard(messages)'
  BY <1>1 DEF MessagesInv, TextsHeard
<1>3. Answered(messages)'
  BY <1>1 DEF MessagesInv, Answered
<1>4. InOrder(messages)' /\ UpTo(messages, turn)'
  BY DEF MessagesInv, InOrder, UpTo
<1>5. Asked(messages, turn)' <=> Asked(messages, turn)
  BY DEF Asked
<1>6. QED
  BY <1>2, <1>3, <1>4, <1>5 DEF MessagesInv

(* The next question joins the record, before it is cut.                     *)
LEMMA QuestionJoins ==
  ASSUME TypeInv, OutcomeInv, MessagesInv, turn + 1 \in Turns
  PROVE  LET ms == Append(messages, User(turn + 1))
         IN /\ ms \in Seq(Message)
            /\ TextsHeard(ms) /\ Answered(ms) /\ InOrder(ms)
            /\ UpTo(ms, turn + 1) /\ Asked(ms, turn + 1)
<1> DEFINE ms == Append(messages, User(turn + 1))
           n == Len(messages)
<1>1. /\ User(turn + 1) \in Message /\ User(turn + 1).turn = turn + 1
      /\ User(turn + 1).role = "user"
  BY MessageType, MessageIs DEF User
<1>2. messages \in Seq(Message) /\ n \in Nat /\ turn \in Nat
  BY TypeFacts, LenProperties
<1>3. /\ ms \in Seq(Message) /\ Len(ms) = n + 1 /\ ms[n + 1] = User(turn + 1)
      /\ \A i \in 1 .. n : ms[i] = messages[i]
  BY <1>1, <1>2, AppendProperties
<1>4. /\ \A i \in 1 .. n : messages[i] \in Message /\ messages[i].turn <= turn
                          /\ messages[i].turn \in Nat /\ messages[i].turn \in Turns
      /\ n > 0 => n \in 1 .. n
  BY <1>2, MessageIs DEF MessagesInv, UpTo
<1>5. /\ \A i \in 1 .. n + 1 : i \in 1 .. n \/ i = n + 1
      /\ \A i \in 1 .. n : i < n => i + 1 \in 1 .. n
      /\ \A i \in 1 .. n : i < n + 1 /\ (i < n => i \in 1 .. n - 1)
  BY <1>2
<1> HIDE DEF ms, n
<1>6. TextsHeard(ms)
  <2>1. \A i \in 1 .. n : messages[i].role = "assistant" =>
          /\ messages[i].text = heard[messages[i].turn]
          /\ outcome[messages[i].turn] \in Concluded
    BY DEF MessagesInv, TextsHeard, n
  <2>2. QED
    BY <2>1, <1>1, <1>3, <1>5 DEF TextsHeard
<1>7. Answered(ms)
  <2>1. \A i \in 1 .. n :
          messages[i].role = "user" /\ outcome[messages[i].turn] \in Concluded
            /\ heard[messages[i].turn] > 0 =>
          i < n /\ messages[i + 1] = Assistant(messages[i].turn, heard[messages[i].turn])
    BY DEF MessagesInv, Answered, n
  <2>2. outcome[turn + 1] \notin Concluded
    <3>1. turn + 1 > turn
      BY <1>2
    <3>2. outcome[turn + 1] = "none"
      BY <3>1 DEF OutcomeInv
    <3>3. QED
      BY <3>2 DEF Concluded
  <2>3. QED
    BY <2>1, <2>2, <1>1, <1>3, <1>5, Zenon DEF Answered
<1>8. InOrder(ms)
  <2>1. \A i \in 1 .. n - 1 :
          \/ messages[i].turn < messages[i + 1].turn /\ messages[i + 1].role = "user"
          \/ messages[i] = User(messages[i + 1].turn) /\ messages[i + 1].role = "assistant"
    BY DEF MessagesInv, InOrder, n
  <2>2. n > 0 => messages[n].turn < turn + 1
    BY <1>4, <1>2
  <2>3. \A i \in 1 .. Len(ms) - 1 :
          i \in 1 .. n /\ (i \in 1 .. n - 1 \/ (i = n /\ n > 0))
    BY <1>2, <1>3
  <2>4. \A i \in 1 .. n - 1 : i + 1 \in 1 .. n
    BY <1>2
  <2>5. QED
    BY <2>1, <2>2, <2>3, <2>4, <1>1, <1>3, Zenon DEF InOrder
<1>9. UpTo(ms, turn + 1)
  BY <1>1, <1>2, <1>3, <1>4, <1>5 DEF UpTo
<1>10. Asked(ms, turn + 1)
  <2>1. \A i \in 1 .. n : messages[i].turn < turn + 1
    BY <1>2, <1>4
  <2>2. Len(ms) > 0 /\ Len(ms) - 1 = n
    BY <1>2, <1>3
  <2>3. QED
    BY <2>1, <2>2, <1>3 DEF Asked
<1>11. QED
  BY <1>3, <1>6, <1>7, <1>8, <1>9, <1>10 DEF ms

(* The answer joins the record once the turn is concluded: as it was heard.  *)
LEMMA AnswerJoins ==
  ASSUME TypeInv, OutcomeInv, HeardInv, MessagesInv, Conclude
  PROVE  MessagesInv'
<1> DEFINE n == Len(messages)
           h == heard[turn]
<1>1. /\ messages \in Seq(Message) /\ n \in Nat /\ turn \in Turns /\ turn \in Nat
      /\ mpc = "cleanup" /\ verdict \in Concluded /\ outcome[turn] = "none"
      /\ HistoryText = h /\ h \in Nat
      /\ turn' = turn /\ heard' = heard /\ mpc' = "verdict"
      /\ outcome' = [outcome EXCEPT ![turn] = verdict]
      /\ messages' = IF h > 0 THEN Append(messages, Assistant(turn, h)) ELSE messages
  BY TypeFacts, LenProperties
     DEF Conclude, Tidy, OutcomeInv, HeardInv, TurnPcs, dialogue, settings, Concluded
<1>2. /\ outcome'[turn] \in Concluded
      /\ \A t \in Turns : t # turn => outcome'[t] = outcome[t]
      /\ \A t \in Turns : outcome[t] \in Concluded => outcome'[t] \in Concluded
  BY <1>1, TypeFacts DEF Concluded
<1>3. /\ n > 0 /\ n \in 1 .. n /\ messages[n] = User(turn)
      /\ \A i \in 1 .. n : i < n => i \in 1 .. n - 1 /\ messages[i].turn # turn
  <2>1. n > 0 /\ messages[n] = User(turn) /\ \A i \in 1 .. n - 1 : messages[i].turn < turn
    BY <1>1 DEF MessagesInv, Asked
  <2>2. n \in 1 .. n /\ \A i \in 1 .. n : i < n => i \in 1 .. n - 1
    BY <1>1, <2>1
  <2>3. \A i \in 1 .. n - 1 : messages[i].turn # turn
    <3> SUFFICES ASSUME NEW i \in 1 .. n - 1 PROVE messages[i].turn # turn
      OBVIOUS
    <3>1. i \in 1 .. n
      BY <1>1
    <3>2. messages[i].turn \in Nat /\ messages[i].turn < turn
      BY <1>1, <2>1, <3>1, MessageTurns
    <3>3. QED
      BY <1>1, <3>2
  <2>4. QED
    BY <2>1, <2>2, <2>3, Zenon
<1>4. /\ User(turn).turn = turn /\ User(turn).role = "user"
      /\ \A i \in 1 .. n : messages[i].turn \in Turns /\ messages[i].turn <= turn
      /\ \A i \in 1 .. n - 1 : i \in 1 .. n /\ i < n /\ i + 1 \in 1 .. n
      /\ \A i \in 1 .. n : i < n \/ i = n
  <2>1. User(turn).turn = turn /\ User(turn).role = "user"
    BY DEF User
  <2>2. \A i \in 1 .. n : messages[i].turn \in Turns /\ messages[i].turn <= turn
    BY <1>1, MessageTurns DEF MessagesInv, UpTo
  <2>3. /\ \A i \in 1 .. n - 1 : i \in 1 .. n /\ i < n /\ i + 1 \in 1 .. n
        /\ \A i \in 1 .. n : i < n \/ i = n
    BY <1>1
  <2>4. QED
    BY <2>1, <2>2, <2>3, Zenon
<1> HIDE DEF n, h
<1>5. /\ \A i \in 1 .. n : messages[i].role = "assistant" =>
           /\ messages[i].text = heard[messages[i].turn]
           /\ outcome'[messages[i].turn] \in Concluded
      /\ \A i \in 1 .. n - 1 :
           messages[i].role = "user" /\ outcome'[messages[i].turn] \in Concluded
             /\ heard[messages[i].turn] > 0 =>
           messages[i + 1] = Assistant(messages[i].turn, heard[messages[i].turn])
      /\ \A i \in 1 .. n - 1 :
           \/ messages[i].turn < messages[i + 1].turn /\ messages[i + 1].role = "user"
           \/ messages[i] = User(messages[i + 1].turn) /\ messages[i + 1].role = "assistant"
  <2>1. TextsHeard(messages) /\ Answered(messages) /\ InOrder(messages)
    BY DEF MessagesInv
  <2>2. QED
    BY <1>2, <1>3, <1>4, <2>1 DEF TextsHeard, Answered, InOrder, n
<1>6. CASE h > 0
  <2> DEFINE ms == Append(messages, Assistant(turn, h))
  <2>1. /\ Assistant(turn, h) \in Message /\ Assistant(turn, h).turn = turn
        /\ Assistant(turn, h).role = "assistant" /\ Assistant(turn, h).text = h
    BY <1>1, MessageType DEF Assistant
  <2>2. /\ messages' = ms /\ Len(ms) = n + 1 /\ ms[n + 1] = Assistant(turn, h)
        /\ \A i \in 1 .. n : ms[i] = messages[i]
    BY <1>1, <1>6, <2>1, AppendProperties DEF n
  <2>3. /\ \A i \in 1 .. n + 1 : i \in 1 .. n \/ i = n + 1
        /\ \A i \in 1 .. n : i < n + 1 /\ n + 1 > 0
        /\ n + 1 - 1 = n
    BY <1>1
  <2> HIDE DEF ms
  <2>4. TextsHeard(messages)'
    BY <1>1, <1>2, <1>5, <2>1, <2>2, <2>3 DEF TextsHeard, h
  <2>5. Answered(messages)'
    <3>1. \A i \in 1 .. n : ms[i].role = "user" /\ outcome'[ms[i].turn] \in Concluded
             /\ heard[ms[i].turn] > 0 =>
           i < n + 1 /\ ms[i + 1] = Assistant(ms[i].turn, heard[ms[i].turn])
      <4> SUFFICES ASSUME NEW i \in 1 .. n, ms[i].role = "user",
                          outcome'[ms[i].turn] \in Concluded, heard[ms[i].turn] > 0
                   PROVE  i < n + 1 /\ ms[i + 1] = Assistant(ms[i].turn, heard[ms[i].turn])
        OBVIOUS
      <4>1. CASE i < n
        <5>1. i \in 1 .. n - 1 /\ i + 1 \in 1 .. n
          BY <1>3, <1>4, <4>1
        <5>2. QED
          BY <1>5, <2>2, <2>3, <5>1
      <4>2. CASE i = n
        BY <1>3, <1>4, <2>2, <2>3, <4>2 DEF h
      <4>3. QED
        BY <1>4, <4>1, <4>2
    <3>2. QED
      BY <1>1, <2>1, <2>2, <2>3, <3>1 DEF Answered
  <2>6. InOrder(messages)'
    <3>1. \A i \in 1 .. n : i \in 1 .. n - 1 \/ i = n
      BY <1>3, <1>4
    <3>2. QED
      BY <1>3, <1>4, <1>5, <2>1, <2>2, <2>3, <3>1 DEF InOrder
  <2>7. UpTo(messages, turn)'
    <3>1. turn <= turn
      BY <1>1
    <3>2. \A i \in 1 .. n + 1 : ms[i].turn <= turn
      BY <1>4, <2>1, <2>2, <2>3, <3>1, Zenon
    <3>3. QED
      BY <1>1, <2>2, <3>2 DEF UpTo
  <2>8. QED
    BY <1>1, <2>4, <2>5, <2>6, <2>7 DEF MessagesInv, OpenPcs, SpeakingPcs
<1>7. CASE ~(h > 0)
  <2>1. messages' = messages
    BY <1>1, <1>7
  <2>2. TextsHeard(messages)'
    BY <1>1, <1>5, <2>1 DEF TextsHeard, n
  <2>3. Answered(messages)'
    BY <1>1, <1>3, <1>4, <1>5, <1>7, <2>1 DEF Answered, n, h
  <2>4. InOrder(messages)' /\ UpTo(messages, turn)'
    BY <1>1, <2>1 DEF MessagesInv, InOrder, UpTo
  <2>5. QED
    BY <1>1, <2>2, <2>3, <2>4 DEF MessagesInv, OpenPcs, SpeakingPcs
<1>8. QED
  BY <1>6, <1>7

LEMMA MessagesStep ==
  TypeInv /\ OutcomeInv /\ HeardInv /\ MessagesInv /\ [Next]_vars => MessagesInv'
<1> SUFFICES ASSUME TypeInv, OutcomeInv, HeardInv, MessagesInv, [Next]_vars
             PROVE  MessagesInv'
  OBVIOUS
<1>1. CASE QuietStep
  BY <1>1, RecordKept DEF QuietStep
<1>2. CASE BeginRespond
  <2> DEFINE ms == Append(messages, User(turn + 1))
  <2>1. /\ turn' = turn + 1 /\ messages' = Truncate(ms) /\ turn + 1 \in Turns
        /\ outcome' = outcome /\ heard' = heard /\ turn + 1 \in Nat
    BY <1>2, TypeFacts DEF BeginRespond, history
  <2>2. /\ ms \in Seq(Message) /\ Truncate(ms) \in Seq(Message)
        /\ TextsHeard(ms) /\ Answered(ms) /\ InOrder(ms)
        /\ UpTo(ms, turn + 1) /\ Asked(ms, turn + 1)
    BY <2>1, QuestionJoins, TruncateType
  <2> HIDE DEF ms
  <2>3. PICK k \in 0 .. Len(ms) :
          SuffixOf(Truncate(ms), ms, k) /\ (Len(ms) > 0 => k < Len(ms))
    BY <2>2, TruncateSuffix
  <2>4. Len(ms) > 0
    BY <2>2 DEF Asked
  <2>5. /\ TextsHeard(messages') /\ Answered(messages') /\ InOrder(messages')
        /\ UpTo(messages', turn') /\ Asked(messages', turn')
    BY <2>1, <2>2, <2>3, <2>4, SuffixKeeps
  <2>6. QED
    BY <2>1, <2>5 DEF MessagesInv, TextsHeard, Answered, InOrder, UpTo, Asked
<1>3. CASE Conclude
  BY <1>3, AnswerJoins
<1>4. CASE ReplyStep /\ ~BeginRespond /\ ~Conclude
  <2>1. /\ UNCHANGED <<messages, turn>>
        /\ mpc \in OpenPcs \cup {"errorSent", "cleanup"}
    BY <1>4
       DEF ReplyStep, FirstToken, FirstEmpty, FirstInterrupted, TurnFails, BeginReply,
           AfterPartial, NextDelta, AgentEnds, OpenTts, AfterMeta, NextChunk, AfterBytes,
           SentenceDone, AfterError, Abandon, Tidy, TurnRaises, BytesFail, OpenPcs,
           SpeakingPcs, dialogue
  <2>2. \/ UNCHANGED outcome
        \/ mpc \in OpenPcs /\ outcome' = [outcome EXCEPT ![turn] = "error"]
    BY <1>4
       DEF ReplyStep, FirstToken, FirstEmpty, FirstInterrupted, TurnFails, BeginReply,
           AfterPartial, NextDelta, AgentEnds, OpenTts, AfterMeta, NextChunk, AfterBytes,
           SentenceDone, AfterError, Abandon, TurnRaises, BytesFail, OpenPcs,
           SpeakingPcs, history
  <2>3. \/ UNCHANGED heard
        \/ mpc \in OpenPcs /\ heard' = [heard EXCEPT ![turn] = AfterThis]
    BY <1>4
       DEF ReplyStep, FirstToken, FirstEmpty, FirstInterrupted, TurnFails, BeginReply,
           AfterPartial, NextDelta, AgentEnds, OpenTts, AfterMeta, NextChunk, AfterBytes,
           SentenceDone, AfterError, Abandon, TurnRaises, BytesFail, OpenPcs,
           SpeakingPcs, history
  <2>4. mpc \in OpenPcs => turn \in Turns /\ outcome[turn] \notin Concluded
    BY TypeFacts DEF OpenPcs, SpeakingPcs, TurnPcs, OutcomeInv, Concluded
  <2>5. \A t \in Turns : outcome[t] \in Concluded =>
          outcome'[t] = outcome[t] /\ heard'[t] = heard[t]
    BY <2>2, <2>3, <2>4, TypeFacts
  <2>6. \A t \in Turns : outcome'[t] \in Concluded => outcome[t] \in Concluded
    BY <2>2, <2>4, TypeFacts DEF Concluded
  <2>7. QED
    BY <2>1, <2>5, <2>6, RecordKept
<1>5. QED
  BY <1>1, <1>2, <1>3, <1>4, StepKinds

RecordInv == TypeInv /\ OutcomeInv /\ CountInv /\ HeardInv /\ MessagesInv

LEMMA RecordHolds == Spec => []RecordInv
<1>1. Init => RecordInv
  <2> SUFFICES ASSUME Init PROVE RecordInv
    OBVIOUS
  <2>1. OutcomeInv /\ CountInv /\ HeardInv
    BY DEF Init, OutcomeInv, CountInv, HeardInv, OpenPcs, SpeakingPcs, ReplyPcs,
           SynthPcs, Turns
  <2>2. messages = <<>> /\ Len(messages) = 0 /\ mpc = "start"
    BY DEF Init
  <2>3. MessagesInv
    BY <2>2
       DEF MessagesInv, TextsHeard, Answered, InOrder, UpTo, OpenPcs, SpeakingPcs
  <2>4. QED
    BY <2>1, <2>3, TypeInit DEF RecordInv
<1>2. RecordInv /\ [Next]_vars => RecordInv'
  BY DataStep, FlagsStep, OutcomeStep, CountStep, HeardStep, MessagesStep
     DEF RecordInv, TypeInv, TypeOK
<1>3. QED
  BY <1>1, <1>2, PTL DEF Spec

(* The record and the loudspeaker agree: whatever interrupts a reply, in the *)
(* middle of a sentence, between two or before the first, the assistant's    *)
(* message holds the sentences whose audio went out to the last chunk, and   *)
(* stands next to its question for as long as the question is kept.          *)
THEOREM HistoryHeard == Spec => []HistoryIsHeard
<1>1. RecordInv => HistoryIsHeard
  <2> SUFFICES ASSUME RecordInv PROVE HistoryIsHeard
    OBVIOUS
  <2>1. /\ messages \in Seq(Message) /\ DOMAIN messages = 1 .. Len(messages)
        /\ Len(messages) \in Nat /\ TextsHeard(messages) /\ Answered(messages)
    BY TypeFacts, LenProperties DEF RecordInv, MessagesInv
  <2>2. ASSUME NEW i \in DOMAIN messages,
               outcome[messages[i].turn] \in Concluded, heard[messages[i].turn] > 0
        PROVE  \E j \in DOMAIN messages :
                 messages[j] = Assistant(messages[i].turn, heard[messages[i].turn])
    <3> DEFINE t == messages[i].turn
    <3>1. messages[i] \in Message /\ t \in Turns /\ heard[t] \in Nat
      BY <2>1, MessageTurns, TypeFacts DEF RecordInv
    <3>2. CASE messages[i].role = "user"
      <4>1. i < Len(messages) /\ messages[i + 1] = Assistant(t, heard[t])
        BY <2>1, <2>2, <3>2 DEF Answered
      <4>2. i + 1 \in DOMAIN messages
        BY <2>1, <4>1
      <4>3. QED
        BY <4>1, <4>2
    <3>3. CASE messages[i].role = "assistant"
      BY <2>1, <3>1, <3>3, MessageIs DEF TextsHeard
    <3>4. QED
      BY <3>1, <3>2, <3>3, MessageIs
  <2>3. QED
    BY <2>1, <2>2 DEF HistoryIsHeard, TextsHeard, Concluded
<1>2. QED
  BY <1>1, RecordHolds, PTL

(* The agent is asked with the present question last, earlier turns in       *)
(* order and each answer right after its own question, however many turns    *)
(* failed, were interrupted or were cut off by _truncate.                    *)
THEOREM ContextOrdered == Spec => []ContextInOrder
<1>1. RecordInv => ContextInOrder
  BY DEF RecordInv, MessagesInv, InOrder, Asked, ContextInOrder, OpenPcs
<1>2. QED
  BY <1>1, RecordHolds, PTL

=============================================================================
