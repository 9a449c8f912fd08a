------------------------ MODULE NativeSessionProofs ------------------------
(***************************************************************************)
(* Proofs about NativeSession, for every value of its constants.           *)
(***************************************************************************)
EXTENDS NativeSession, FiniteSetTheorems, TLAPS

(* A step of the provider's events leaves the inbox a sequence of events. *)
LEMMA TakeType ==
  ASSUME NEW q \in Seq(Events), q # <<>>
  PROVE  Tail(q) \in Seq(Events)
OBVIOUS

LEMMA FlagsStep ==
  ASSUME FlagsOK, [Next]_vars
  PROVE  FlagsOK'
<1> USE DEF FlagsOK, session, tasks, state, provider, history, World
<1>1. CASE Main
  BY <1>1, Zenon DEF Main, Refuse, Admit, Ready, BootFails, AfterReady, StartTasks,
     GreetingFails, Wake, Left, AfterSorry, Closed, Finally
<1>2. CASE BrowserTask
  <2>1. CASE ReadCancel
    BY <2>1, Zenon DEF ReadCancel
  <2>2. CASE ~ReadCancel
    BY <1>2, <2>2, Zenon DEF BrowserTask, BrowserSends, ReadDisconnect, ReadEnd,
       ReadMalformed, ReadAudio, AfterAppend, AfterCancel, AfterInterrupted, Resume,
       BrowserSendFails
  <2>3. QED
    BY <2>1, <2>2
<1>3. CASE ProviderTask
  <2>1. CASE SpeechInterrupts \/ SpeechStarted \/ SpeechStopped \/ Created
    BY <2>1, Zenon DEF SpeechInterrupts, SpeechStarted, SpeechStopped, Created
  <2>2. CASE AudioFirst \/ DoneInterrupted \/ AfterRest
    BY <2>2, Zenon DEF AudioFirst, DoneInterrupted, AfterRest
  <2>3. CASE AfterSpeechCancel \/ AfterSpeechInterrupted \/ PassOn \/ TextDelta
    BY <2>3, Zenon DEF AfterSpeechCancel, AfterSpeechInterrupted, PassOn, TextDelta
  <2>4. CASE AudioDropped \/ AfterMeta \/ AfterResponding \/ AudioNext \/ Done
    BY <2>4, Zenon DEF AudioDropped, AfterMeta, AfterResponding, AudioNext,
       SendAudio, Done
  <2>5. CASE AfterDone \/ AfterFrame \/ Malformed \/ LinkEnds \/ ProviderSendFails
    BY <2>5, Zenon DEF AfterDone, AfterFrame, Malformed, LinkEnds, ProviderSendFails
  <2>6. QED
    BY <1>3, <2>1, <2>2, <2>3, <2>4, <2>5 DEF ProviderTask
<1>4. CASE Environment
  <2>1. CASE HearSpeech \/ HearSilence \/ Transcribe \/ CreateResponse \/ SayText
    BY <2>1, Zenon DEF HearSpeech, HearSilence, Transcribe, CreateResponse, SayText
  <2>2. CASE SayAudio \/ EndResponse \/ ObeyCancel \/ Garble \/ LinkDrops
    BY <2>2, Zenon DEF SayAudio, EndResponse, ObeyCancel, Garble, LinkDrops
  <2>3. CASE BrowserLeaves
    BY <2>3, Zenon DEF BrowserLeaves
  <2>4. QED
    BY <1>4, <2>1, <2>2, <2>3 DEF Environment
<1>5. CASE UNCHANGED vars
  BY <1>5, Zenon DEF vars
<1>6. QED
  BY <1>1, <1>2, <1>3, <1>4, <1>5 DEF Next

LEMMA ControlStep ==
  ASSUME ControlOK, [Next]_vars
  PROVE  ControlOK'
<1> USE DEF ControlOK, Over, session, tasks, state, provider, World
<1>1. CASE Main
  <2>1. CASE Wake
    BY <2>1 DEF Wake, Keep, Outcomes
  <2>2. CASE ~Wake
    BY <1>1, <2>2 DEF Main, Refuse, Admit, Ready, BootFails, AfterReady, StartTasks,
       GreetingFails, Left, AfterSorry, Closed, Finally
  <2>3. QED
    BY <2>1, <2>2
<1>2. CASE BrowserTask
  BY <1>2 DEF BrowserTask, BrowserSends, ReadDisconnect, ReadEnd, ReadMalformed,
     ReadAudio, ReadCancel, AfterAppend, AfterCancel, AfterInterrupted, Resume,
     BrowserSendFails
<1>3. CASE ProviderTask
  BY <1>3 DEF ProviderTask, SpeechInterrupts, SpeechStarted, AfterSpeechCancel,
     AfterSpeechInterrupted, SpeechStopped, PassOn, Created, TextDelta,
     AudioDropped, AudioFirst, AfterMeta, AfterResponding, AudioNext, SendAudio,
     DoneInterrupted, Done, AfterDone, Rest, AfterRest, AfterFrame, Malformed,
     LinkEnds, ProviderSendFails
<1>4. CASE Environment
  BY <1>4 DEF Environment, HearSpeech, HearSilence, Transcribe,
     CreateResponse, SayText, SayAudio, EndResponse, ObeyCancel, Garble, LinkDrops,
     BrowserLeaves
<1>5. CASE UNCHANGED vars
  BY <1>5 DEF vars
<1>6. QED
  BY <1>1, <1>2, <1>3, <1>4, <1>5 DEF Next

LEMMA NumbersStep ==
  ASSUME NumbersOK, [Next]_vars
  PROVE  NumbersOK'
<1> USE DEF NumbersOK, tasks, state, provider, World
<1>1. CASE Main
  BY <1>1 DEF Main, Refuse, Admit, Ready, BootFails, AfterReady, StartTasks,
     GreetingFails, Wake, Left, AfterSorry, Closed
<1>2. CASE BrowserTask
  <2>1. CASE ReadCancel
    BY <2>1 DEF ReadCancel, Cancel
  <2>2. CASE ~ReadCancel
    BY <1>2, <2>2 DEF BrowserTask, BrowserSends, ReadDisconnect, ReadEnd,
       ReadMalformed, ReadAudio, AfterAppend, AfterCancel, AfterInterrupted, Resume,
       BrowserSendFails
  <2>3. QED
    BY <2>1, <2>2
<1>3. CASE ProviderTask
  <2>0. ASSUME inbox # <<>>
        PROVE  Tail(inbox) \in Seq(Events)
    BY <2>0, TakeType
  <2>1. CASE SpeechInterrupts
    BY <2>0, <2>1 DEF SpeechInterrupts, Take, Cancel
  <2>2. CASE Created
    BY <2>0, <2>2 DEF Created, Take
  <2>3. CASE SpeechStarted \/ SpeechStopped \/ PassOn \/ TextDelta
    BY <2>0, <2>3 DEF SpeechStarted, SpeechStopped, PassOn, TextDelta, Take
  <2>4. CASE AudioDropped \/ AudioFirst \/ AudioNext
    BY <2>0, <2>4 DEF AudioDropped, AudioFirst, AudioNext, SendAudio, Take
  <2>5. CASE DoneInterrupted \/ Done \/ Malformed
    BY <2>0, <2>5 DEF DoneInterrupted, Done, Malformed, Take
  <2>6. CASE \/ AfterSpeechCancel \/ AfterSpeechInterrupted \/ AfterMeta
             \/ AfterResponding \/ AfterDone \/ AfterRest \/ AfterFrame
             \/ LinkEnds \/ ProviderSendFails
    BY <2>6 DEF AfterSpeechCancel, AfterSpeechInterrupted, AfterMeta,
       AfterResponding, SendAudio, AfterDone, AfterRest, AfterFrame, LinkEnds,
       ProviderSendFails
  <2>7. QED
    BY <1>3, <2>1, <2>2, <2>3, <2>4, <2>5, <2>6 DEF ProviderTask
<1>4. CASE Environment
  <2>0. ASSUME NEW kind \in Events
        PROVE  Append(inbox, kind) \in Seq(Events)
    OBVIOUS
  <2>1. CASE HearSpeech \/ HearSilence \/ Transcribe \/ SayText \/ Garble
    <3>1. inbox' \in Seq(Events)
      BY <2>0, <2>1 DEF HearSpeech, HearSilence, Transcribe, SayText, Garble, Emit,
         Events
    <3>2. QED
      BY <2>1, <3>1 DEF HearSpeech, HearSilence, Transcribe, SayText, Garble
  <2>2. CASE CreateResponse
    <3>1. inbox' \in Seq(Events)
      BY <2>0, <2>2 DEF CreateResponse, Emit, Events
    <3>2. QED
      BY <2>2, <3>1, NativeAssumption DEF CreateResponse, NativeAssumption
  <2>3. CASE SayAudio
    <3>1. inbox' \in Seq(Events)
      BY <2>0, <2>3 DEF SayAudio, Emit, Events
    <3>2. QED
      BY <2>3, <3>1, NativeAssumption DEF SayAudio, NativeAssumption
  <2>4. CASE EndResponse
    <3>1. inbox' \in Seq(Events)
      BY <2>0, <2>4 DEF EndResponse, Emit, Events
    <3>2. QED
      BY <2>4, <3>1 DEF EndResponse
  <2>5. CASE ObeyCancel
    <3>1. inbox' \in Seq(Events)
      BY <2>0, <2>5 DEF ObeyCancel, Emit, Events
    <3>2. cancels' \in Nat
      BY <2>5 DEF ObeyCancel
    <3>3. QED
      BY <2>5, <3>1, <3>2 DEF ObeyCancel
  <2>6. CASE LinkDrops \/ BrowserLeaves
    BY <2>6 DEF LinkDrops, BrowserLeaves
  <2>7. QED
    BY <1>4, <2>1, <2>2, <2>3, <2>4, <2>5, <2>6 DEF Environment
<1>5. CASE UNCHANGED vars
  BY <1>5 DEF vars
<1>6. QED
  BY <1>1, <1>2, <1>3, <1>4, <1>5 DEF Next

(* Counting one more keeps a count by response. *)
LEMMA CountType ==
  ASSUME NEW f \in Counts, NEW r
  PROVE  [f EXCEPT ![r] = @ + 1] \in Counts
<1>1. CASE r \in Responses
  BY <1>1 DEF Counts
<1>2. CASE r \notin Responses
  <2>1. \A x \in Responses : [f EXCEPT ![r] = @ + 1][x] = f[x]
    BY <1>2 DEF Counts
  <2>2. QED
    BY <2>1 DEF Counts
<1>3. QED
  BY <1>1, <1>2

LEMMA HistoryStep ==
  ASSUME HistoryOK, NumbersOK, [Next]_vars
  PROVE  HistoryOK'
<1> USE DEF HistoryOK, history, World
<1>1. CASE Main
  BY <1>1 DEF Main, Refuse, Admit, Ready, BootFails, AfterReady, StartTasks,
     GreetingFails, Wake, Left, AfterSorry, Closed
<1>2. CASE BrowserTask
  <2>1. CASE AfterCancel
    BY <2>1, CountType DEF AfterCancel
  <2>2. CASE ~AfterCancel
    BY <1>2, <2>2 DEF BrowserTask, BrowserSends, ReadDisconnect, ReadEnd,
       ReadMalformed, ReadAudio, ReadCancel, AfterAppend, AfterInterrupted, Resume,
       BrowserSendFails
  <2>3. QED
    BY <2>1, <2>2
<1>3. CASE ProviderTask
  <2>1. CASE SpeechInterrupts
    BY <2>1 DEF SpeechInterrupts, NumbersOK
  <2>2. CASE AfterSpeechCancel
    BY <2>2, CountType DEF AfterSpeechCancel
  <2>3. CASE AfterResponding \/ AudioNext
    BY <2>3, CountType DEF AfterResponding, AudioNext, SendAudio
  <2>4. CASE Done
    BY <2>4, CountType DEF Done
  <2>5. CASE \/ SpeechStarted \/ AfterSpeechInterrupted \/ SpeechStopped \/ PassOn
             \/ Created \/ TextDelta \/ AudioDropped \/ AudioFirst \/ AfterMeta
             \/ DoneInterrupted \/ AfterDone \/ AfterRest \/ AfterFrame
             \/ Malformed \/ LinkEnds \/ ProviderSendFails
    BY <2>5 DEF SpeechStarted, AfterSpeechInterrupted, SpeechStopped, PassOn,
       Created, TextDelta, AudioDropped, AudioFirst, AfterMeta, DoneInterrupted,
       AfterDone, AfterRest, AfterFrame, Malformed, LinkEnds, ProviderSendFails
  <2>6. QED
    BY <1>3, <2>1, <2>2, <2>3, <2>4, <2>5 DEF ProviderTask
<1>4. CASE Environment
  BY <1>4 DEF Environment, HearSpeech, HearSilence, Transcribe,
     CreateResponse, SayText, SayAudio, EndResponse, ObeyCancel, Garble, LinkDrops,
     BrowserLeaves
<1>5. CASE UNCHANGED vars
  BY <1>5 DEF vars
<1>6. QED
  BY <1>1, <1>2, <1>3, <1>4, <1>5 DEF Next

LEMMA TypeInit == Init => TypeOK
<1>1. Init => FlagsOK
  BY Zenon DEF Init, FlagsOK
<1>2. Init => ControlOK
  BY DEF Init, ControlOK, Over
<1>3. Init => NumbersOK
  BY NativeAssumption DEF Init, NumbersOK, NativeAssumption
<1>4. Init => HistoryOK
  BY DEF Init, HistoryOK, Counts
<1>5. QED
  BY <1>1, <1>2, <1>3, <1>4 DEF TypeOK

(* Every variable of a session keeps its type. *)
THEOREM TypeCorrect == Spec => []TypeOK
<1>1. TypeOK /\ [Next]_vars => TypeOK'
  BY FlagsStep, ControlStep, NumbersStep, HistoryStep DEF TypeOK
<1>2. QED
  BY TypeInit, <1>1, PTL DEF Spec

-----------------------------------------------------------------------------
(* The permit *)

(* Where run is decides who lives: nobody before wait, both tasks in it, no  *)
(* task after it; and whether the permit is held.                            *)
PermitInv ==
  /\ mpc = "start" => permit = "none"
  /\ mpc = "refused" => permit = "none"
  /\ mpc \in {"boot", "ready", "listening", "wait", "leave", "sorry"} =>
       permit = "held"
  /\ mpc \in {"close", "closed"} => permit # "held"
  /\ mpc # "wait" => bpc \in Over \cup {"off"} /\ ppc \in Over \cup {"off"}

LEMMA PermitInit == Init => PermitInv
BY DEF Init, PermitInv

LEMMA PermitStep ==
  ASSUME TypeOK, PermitInv, [Next]_vars
  PROVE  PermitInv'
<1> USE DEF PermitInv, Over, session, tasks
<1>1. CASE Main
  BY <1>1 DEF Main, Refuse, Admit, Ready, BootFails, AfterReady, StartTasks,
     GreetingFails, Wake, Left, AfterSorry, Closed, Finally, Keep
<1>2. CASE BrowserTask
  <2>1. bpc \notin Over \cup {"off"} /\ UNCHANGED <<session, ppc>>
    BY <1>2 DEF BrowserTask, BrowserSends, ReadDisconnect, ReadEnd, ReadMalformed,
       ReadAudio, ReadCancel, AfterAppend, AfterCancel, AfterInterrupted, Resume,
       BrowserSendFails
  <2>2. QED
    BY <2>1
<1>3. CASE ProviderTask
  <2>1. ppc \notin Over \cup {"off"} /\ UNCHANGED <<session, bpc>>
    BY <1>3 DEF ProviderTask, SpeechInterrupts, SpeechStarted, AfterSpeechCancel,
       AfterSpeechInterrupted, SpeechStopped, PassOn, Created, TextDelta,
       AudioDropped, AudioFirst, AfterMeta, AfterResponding, AudioNext, SendAudio,
       DoneInterrupted, Done, AfterDone, AfterRest, AfterFrame, Malformed, LinkEnds,
       ProviderSendFails, Take
  <2>2. QED
    BY <2>1
<1>4. CASE Environment
  BY <1>4 DEF Environment, World, HearSpeech, HearSilence, Transcribe,
     CreateResponse, SayText, SayAudio, EndResponse, ObeyCancel, Garble, LinkDrops,
     BrowserLeaves
<1>5. CASE UNCHANGED vars
  BY <1>5 DEF vars
<1>6. QED
  BY <1>1, <1>2, <1>3, <1>4, <1>5 DEF Next

LEMMA PermitMeaning == PermitInv => PermitCoversTasks
BY DEF PermitInv, PermitCoversTasks, Over

(* A permit is held as long as a task or the connection to the provider     *)
(* lives, and is given back before the session is closed.                   *)
THEOREM PermitCovers == Spec => []PermitCoversTasks
<1>1. PermitInv /\ TypeOK /\ [Next]_vars => PermitInv'
  BY PermitStep
<1>2. QED
  BY PermitInit, PermitMeaning, TypeCorrect, <1>1, PTL DEF Spec

-----------------------------------------------------------------------------
(* Audio after an interruption *)

(* The flag says whether the interruption of the present response was       *)
(* accepted; while the frames before its first chunk go out, it was not     *)
(* interrupted by speech and has no late chunk.                              *)
FlagInv ==
  /\ active => cur > 0
  /\ ppc \in {"meta", "responding"} => cur \notin spoken
  /\ \A r \in spoken : 0 < r /\ r <= cur
  /\ interrupted <=> Accepted

LateInv ==
  /\ \A r \in Responses : r > cur => late[r] = 0
  /\ \A r \in Responses : r \in spoken => late[r] = 0
  /\ \A r \in Responses : late[r] <= 1
  /\ cur \in Responses /\ (~interrupted \/ ppc \in {"meta", "responding"}) =>
       late[cur] = 0

SilenceInv == FlagInv /\ LateInv

LEMMA SilenceInit == Init => SilenceInv
BY NativeAssumption DEF Init, SilenceInv, FlagInv, LateInv, Accepted, Responses,
   NativeAssumption

(* A step that leaves flag, counts and history alone, and is not about to   *)
(* send the first chunk, keeps both parts.                                   *)
LEMMA SilenceKept ==
  ASSUME SilenceInv, UNCHANGED <<interrupted, cur, target, late, spoken>>,
         active' => active,
         ppc' \in {"meta", "responding"} => ppc \in {"meta", "responding"}
  PROVE  SilenceInv'
BY DEF SilenceInv, FlagInv, LateInv, Accepted, Responses

LEMMA SilenceStep ==
  ASSUME TypeOK, TypeOK', SilenceInv, [Next]_vars
  PROVE  SilenceInv'
<1> USE DEF session, tasks, state, provider, history
<1>t. /\ cur \in Nat /\ target \in 0 .. cur /\ late \in [Responses -> Nat]
      /\ spoken \subseteq Nat
      /\ interrupted \in BOOLEAN /\ active \in BOOLEAN
  BY DEF TypeOK, FlagsOK, NumbersOK, HistoryOK, Counts
<1>1. CASE Main
  <2>1. /\ UNCHANGED <<interrupted, cur, target, late, spoken, active>>
        /\ ppc' \notin {"meta", "responding"} \/ ppc' = ppc
    BY <1>1 DEF Main, Refuse, Admit, Ready, BootFails, AfterReady, StartTasks,
       GreetingFails, Wake, Left, AfterSorry, Closed
  <2>2. QED
    BY <2>1, SilenceKept
<1>2. CASE BrowserTask
  <2>1. CASE ReadCancel
    <3>1. /\ cur > 0 /\ active /\ ~interrupted /\ interrupted' = TRUE
          /\ target' = cur /\ UNCHANGED <<active, cur, ppc, late, spoken>>
      BY <2>1 DEF ReadCancel, Stoppable, SilenceInv, FlagInv
    <3>2. FlagInv'
      BY <3>1 DEF SilenceInv, FlagInv, Accepted
    <3>3. LateInv'
      BY <3>1 DEF SilenceInv, LateInv, Responses
    <3>4. QED
      BY <3>2, <3>3 DEF SilenceInv
  <2>2. CASE ~ReadCancel
    <3>1. UNCHANGED <<interrupted, cur, target, late, spoken, active, ppc>>
      BY <1>2, <2>2 DEF BrowserTask, BrowserSends, ReadDisconnect, ReadEnd,
         ReadMalformed, ReadAudio, AfterAppend, AfterCancel, AfterInterrupted,
         Resume, BrowserSendFails
    <3>2. QED
      BY <3>1, SilenceKept
  <2>3. QED
    BY <2>1, <2>2
<1>3. CASE ProviderTask
  <2>1. CASE SpeechInterrupts
    <3>1. /\ cur > 0 /\ active /\ ~interrupted /\ interrupted' = TRUE
          /\ ppc' = "cancel" /\ spoken' = spoken \cup {cur}
          /\ UNCHANGED <<active, cur, target, late>>
      BY <2>1 DEF SpeechInterrupts, Stoppable, SilenceInv, FlagInv
    <3>2. FlagInv'
      BY <1>t, <3>1 DEF SilenceInv, FlagInv, Accepted
    <3>3. LateInv'
      BY <3>1 DEF SilenceInv, LateInv, Responses
    <3>4. QED
      BY <3>2, <3>3 DEF SilenceInv
  <2>2. CASE Created
    <3>1. /\ cur' = cur + 1 /\ active' /\ interrupted' = FALSE
          /\ ppc = "recv" /\ UNCHANGED <<ppc, target, late, spoken>>
      BY <2>2 DEF Created, Take
    <3>2. FlagInv'
      BY <1>t, <3>1 DEF SilenceInv, FlagInv, Accepted
    <3>3. LateInv'
      BY <1>t, <3>1 DEF SilenceInv, LateInv, Responses
    <3>4. QED
      BY <3>2, <3>3 DEF SilenceInv
  <2>3. CASE AudioFirst
    <3>1. /\ ~interrupted /\ ppc = "recv" /\ ppc' = "meta"
          /\ UNCHANGED <<active, interrupted, cur, target, late, spoken>>
      BY <2>3 DEF AudioFirst, Dropped, Take
    <3>2. FlagInv'
      BY <1>t, <3>1 DEF SilenceInv, FlagInv, Accepted
    <3>3. LateInv'
      BY <3>1 DEF SilenceInv, LateInv, Responses
    <3>4. QED
      BY <3>2, <3>3 DEF SilenceInv
  <2>4. CASE AfterResponding
    <3>1. /\ ppc = "responding" /\ ppc' = "frame"
          /\ late' = IF Accepted THEN [late EXCEPT ![cur] = @ + 1] ELSE late
          /\ UNCHANGED <<active, interrupted, cur, target, spoken>>
      BY <2>4 DEF AfterResponding, SendAudio
    <3>2. FlagInv'
      BY <3>1 DEF SilenceInv, FlagInv, Accepted
    <3>3. /\ cur \notin spoken
          /\ cur \in Responses => late[cur] = 0
      BY <3>1 DEF SilenceInv, FlagInv, LateInv
    <3>4. CASE Accepted
      <4>1. \A r \in Responses : late'[r] = IF r = cur THEN 1 ELSE late[r]
        BY <1>t, <3>1, <3>3, <3>4
      <4>2. interrupted'
        BY <3>1, <3>4 DEF SilenceInv, FlagInv
      <4>3. QED
        BY <1>t, <3>1, <3>2, <3>3, <4>1, <4>2 DEF SilenceInv, LateInv, Responses
    <3>5. CASE ~Accepted
      BY <3>1, <3>2, <3>5 DEF SilenceInv, LateInv, Responses
    <3>6. QED
      BY <3>4, <3>5
  <2>5. CASE AudioNext
    <3>1. ~Accepted
      BY <2>5 DEF AudioNext, Dropped, SilenceInv, FlagInv
    <3>2. /\ UNCHANGED <<interrupted, cur, target, late, spoken, active>>
          /\ ppc' = "frame"
      BY <2>5, <3>1 DEF AudioNext, SendAudio
    <3>3. QED
      BY <3>2, SilenceKept
  <2>6. CASE AfterMeta
    <3>1. /\ ppc = "meta"
          /\ UNCHANGED <<interrupted, cur, target, late, spoken, active>>
      BY <2>6 DEF AfterMeta
    <3>2. QED
      BY <3>1, SilenceKept
  <2>7. CASE \/ SpeechStarted \/ AfterSpeechCancel \/ AfterSpeechInterrupted
             \/ SpeechStopped \/ PassOn \/ TextDelta \/ AudioDropped
             \/ DoneInterrupted \/ Done \/ AfterDone \/ AfterRest \/ AfterFrame
             \/ Malformed \/ LinkEnds \/ ProviderSendFails
    <3>1. /\ UNCHANGED <<interrupted, cur, target, late, spoken>>
          /\ active' => active
          /\ ppc' \notin {"meta", "responding"} \/ ppc' = ppc
      BY <1>t, <2>7 DEF SpeechStarted, AfterSpeechCancel, AfterSpeechInterrupted,
         SpeechStopped, PassOn, TextDelta, AudioDropped, DoneInterrupted, Done,
         AfterDone, AfterRest, AfterFrame, Malformed, LinkEnds, ProviderSendFails
    <3>2. QED
      BY <3>1, SilenceKept
  <2>8. QED
    BY <1>3, <2>1, <2>2, <2>3, <2>4, <2>5, <2>6, <2>7 DEF ProviderTask
<1>4. CASE Environment
  <2>1. UNCHANGED <<interrupted, cur, target, late, spoken, active, ppc>>
    BY <1>4 DEF Environment, World, HearSpeech, HearSilence, Transcribe,
       CreateResponse, SayText, SayAudio, EndResponse, ObeyCancel, Garble,
       LinkDrops, BrowserLeaves
  <2>2. QED
    BY <2>1, SilenceKept
<1>5. CASE UNCHANGED vars
  <2>1. UNCHANGED <<interrupted, cur, target, late, spoken, active, ppc>>
    BY <1>5 DEF vars
  <2>2. QED
    BY <2>1, SilenceKept
<1>6. QED
  BY <1>1, <1>2, <1>3, <1>4, <1>5 DEF Next

LEMMA SilenceMeaning == SilenceInv => LateAudio
BY DEF SilenceInv, LateInv, LateAudio

(* Speech silences a response at once, a stop after one chunk at most. *)
THEOREM LateAudioBounded == Spec => []LateAudio
<1>1. TypeOK /\ TypeOK' /\ SilenceInv /\ [Next]_vars => SilenceInv'
  BY SilenceStep
<1>2. QED
  BY SilenceInit, SilenceMeaning, TypeCorrect, <1>1, PTL DEF Spec

-----------------------------------------------------------------------------
(* A response is interrupted once *)

(* An interruption is accepted once for a response, and its frame is still   *)
(* to be sent while the task that accepted it is at its cancel.              *)
StopInv ==
  /\ \A r \in Responses : (r > cur => stopped[r] = 0) /\ stopped[r] <= 1
  /\ bpc = "cancel" => target > 0 /\ (target \in Responses => stopped[target] = 0)
  /\ ppc = "cancel" => cur \in spoken /\ (cur \in Responses => stopped[cur] = 0)
  /\ bpc = "cancel" /\ ppc = "cancel" => target # cur
  /\ cur \in Responses /\ ~interrupted => stopped[cur] = 0


LEMMA StopInit == Init => StopInv
BY NativeAssumption DEF Init, StopInv, Responses, NativeAssumption

(* A step that leaves the flag, the counts and the targets alone, and takes  *)
(* no task to its cancel.                                                    *)
LEMMA StopKept ==
  ASSUME StopInv, UNCHANGED <<interrupted, cur, target, stopped, spoken>>,
         bpc' = "cancel" => bpc = "cancel", ppc' = "cancel" => ppc = "cancel"
  PROVE  StopInv'
BY DEF StopInv, Responses

LEMMA StopStep ==
  ASSUME TypeOK, SilenceInv, StopInv, [Next]_vars
  PROVE  StopInv'
<1> USE DEF session, tasks, state, provider, history
<1>t. /\ cur \in Nat /\ target \in 0 .. cur /\ stopped \in [Responses -> Nat]
      /\ interrupted \in BOOLEAN /\ Responses \subseteq Nat
  BY NativeAssumption
     DEF TypeOK, FlagsOK, NumbersOK, HistoryOK, Counts, Responses, NativeAssumption
<1>f. /\ active => cur > 0
      /\ interrupted <=> cur \in spoken \/ (cur > 0 /\ target = cur)
      /\ \A r \in spoken : r <= cur
  BY DEF SilenceInv, FlagInv, Accepted
<1>1. CASE Main
  <2>1. /\ UNCHANGED <<interrupted, cur, target, stopped, spoken>>
        /\ bpc' # "cancel" \/ bpc' = bpc
        /\ ppc' # "cancel" \/ ppc' = ppc
    BY <1>1 DEF Main, Refuse, Admit, Ready, BootFails, AfterReady, StartTasks,
       GreetingFails, Wake, Left, AfterSorry, Closed
  <2>2. QED
    BY <2>1, StopKept
<1>2. CASE BrowserTask
  <2>1. CASE ReadCancel
    <3>1. /\ cur > 0 /\ ~interrupted /\ interrupted' = TRUE /\ target' = cur
          /\ bpc' = "cancel" /\ UNCHANGED <<cur, ppc, stopped, spoken>>
      BY <1>f, <2>1 DEF ReadCancel, Stoppable
    <3>2. ppc # "cancel"
      BY <1>f, <3>1 DEF StopInv
    <3>3. QED
      BY <3>1, <3>2 DEF StopInv
  <2>2. CASE AfterCancel
    <3>1. /\ bpc = "cancel" /\ bpc' = "interrupted"
          /\ stopped' = [stopped EXCEPT ![target] = @ + 1]
          /\ UNCHANGED <<interrupted, cur, target, ppc, spoken>>
      BY <2>2 DEF AfterCancel
    <3>2. target > 0 /\ (target \in Responses => stopped[target] = 0)
      BY <3>1 DEF StopInv
    <3>3. \A r \in Responses : stopped'[r] = IF r = target THEN 1 ELSE stopped[r]
      BY <1>t, <3>1, <3>2
    <3>4. target = cur => interrupted
      BY <1>f, <3>2
    <3>5. ppc = "cancel" => target # cur
      BY <3>1 DEF StopInv
    <3>6. QED
      BY <1>t, <3>1, <3>3, <3>4, <3>5 DEF StopInv
  <2>3. CASE ~ReadCancel /\ ~AfterCancel
    <3>1. /\ UNCHANGED <<interrupted, cur, target, stopped, spoken, ppc>>
          /\ bpc' # "cancel"
      BY <1>2, <2>3 DEF BrowserTask, BrowserSends, ReadDisconnect, ReadEnd,
         ReadMalformed, ReadAudio, AfterAppend, AfterInterrupted, Resume,
         BrowserSendFails
    <3>2. QED
      BY <3>1, StopKept
  <2>4. QED
    BY <2>1, <2>2, <2>3
<1>3. CASE ProviderTask
  <2>1. CASE SpeechInterrupts
    <3>1. /\ cur > 0 /\ ~interrupted /\ interrupted' = TRUE /\ ppc' = "cancel"
          /\ spoken' = spoken \cup {cur} /\ UNCHANGED <<cur, target, bpc, stopped>>
      BY <1>f, <2>1 DEF SpeechInterrupts, Stoppable
    <3>2. target # cur
      BY <1>f, <3>1
    <3>3. QED
      BY <3>1, <3>2 DEF StopInv
  <2>2. CASE AfterSpeechCancel
    <3>1. /\ ppc = "cancel" /\ ppc' = "interrupted"
          /\ stopped' = [stopped EXCEPT ![cur] = @ + 1]
          /\ UNCHANGED <<interrupted, cur, target, bpc, spoken>>
      BY <2>2 DEF AfterSpeechCancel
    <3>2. /\ cur \in spoken /\ (cur \in Responses => stopped[cur] = 0)
          /\ bpc = "cancel" => target # cur
      BY <3>1 DEF StopInv
    <3>3. \A r \in Responses : stopped'[r] = IF r = cur THEN 1 ELSE stopped[r]
      BY <1>t, <3>1, <3>2
    <3>4. interrupted
      BY <1>f, <3>2
    <3>5. QED
      BY <1>t, <3>1, <3>2, <3>3, <3>4 DEF StopInv
  <2>3. CASE Created
    <3>1. /\ cur' = cur + 1 /\ ppc = "recv"
          /\ UNCHANGED <<bpc, ppc, target, stopped, spoken>>
      BY <2>3 DEF Created, Take
    <3>2. QED
      BY <1>t, <3>1 DEF StopInv
  <2>4. CASE \/ SpeechStarted \/ AfterSpeechInterrupted \/ SpeechStopped \/ PassOn
             \/ TextDelta \/ AudioDropped \/ AudioFirst \/ AfterMeta
             \/ AfterResponding \/ AudioNext
    <3>1. /\ UNCHANGED <<interrupted, cur, target, stopped, spoken, bpc>>
          /\ ppc' # "cancel" \/ ppc' = ppc
      BY <2>4 DEF SpeechStarted, AfterSpeechInterrupted, SpeechStopped, PassOn,
         TextDelta, AudioDropped, AudioFirst, AfterMeta, AfterResponding, AudioNext,
         SendAudio
    <3>2. QED
      BY <3>1, StopKept
  <2>5. CASE \/ DoneInterrupted \/ Done \/ AfterDone \/ AfterRest \/ AfterFrame
             \/ Malformed \/ LinkEnds \/ ProviderSendFails
    <3>1. /\ UNCHANGED <<interrupted, cur, target, stopped, spoken, bpc>>
          /\ ppc' # "cancel" \/ ppc' = ppc
      BY <2>5 DEF DoneInterrupted, Done, AfterDone, AfterRest, AfterFrame, Malformed,
         LinkEnds, ProviderSendFails
    <3>2. QED
      BY <3>1, StopKept
  <2>6. QED
    BY <1>3, <2>1, <2>2, <2>3, <2>4, <2>5 DEF ProviderTask
<1>4. CASE Environment
  <2>1. UNCHANGED <<interrupted, cur, target, stopped, spoken, bpc, ppc>>
    BY <1>4 DEF Environment, World, HearSpeech, HearSilence, Transcribe,
       CreateResponse, SayText, SayAudio, EndResponse, ObeyCancel, Garble,
       LinkDrops, BrowserLeaves
  <2>2. QED
    BY <2>1, StopKept
<1>5. CASE UNCHANGED vars
  <2>1. UNCHANGED <<interrupted, cur, target, stopped, spoken, bpc, ppc>>
    BY <1>5 DEF vars
  <2>2. QED
    BY <2>1, StopKept
<1>6. QED
  BY <1>1, <1>2, <1>3, <1>4, <1>5 DEF Next

-----------------------------------------------------------------------------
(* The events of a response stand between its creation and its end *)

(* The events that belong to a response.                                     *)
Own == {"audio", "done"}

(* The end of the present response has been handled, and the task that did   *)
(* so goes on.                                                               *)
Handled == ~active \/ ppc \in {"done", "rest"}

(* Between the end of a response and an event that belongs to the next one   *)
(* stands the creation of that one: in the inbox, before its head, and after *)
(* its end.                                                                  *)
Separated ==
  \A i, j \in 1 .. Len(inbox) : i < j /\ inbox[i] = "done" /\ inbox[j] \in Own =>
    \E k \in 1 .. Len(inbox) : i < k /\ k < j /\ inbox[k] = "created"

Announced ==
  Handled => \A j \in 1 .. Len(inbox) : inbox[j] \in Own =>
    \E k \in 1 .. Len(inbox) : k < j /\ inbox[k] = "created"

UnderWay ==
  answer = "active" =>
    /\ \A i \in 1 .. Len(inbox) : inbox[i] = "done" =>
         \E k \in 1 .. Len(inbox) : i < k /\ inbox[k] = "created"
    /\ Handled => \E k \in 1 .. Len(inbox) : inbox[k] = "created"

StreamInv == Separated /\ Announced /\ UnderWay


LEMMA StreamInit == Init => StreamInv
BY DEF Init, StreamInv, Separated, Announced, UnderWay

(* The rest of an inbox whose head was taken.                                *)
LEMMA TailAt ==
  ASSUME NEW q \in Seq(Events), q # <<>>
  PROVE  /\ Len(q) \in Nat /\ Len(Tail(q)) = Len(q) - 1 /\ q[1] = Head(q)
         /\ 1 \in 1 .. Len(q)
         /\ \A i \in 1 .. Len(Tail(q)) :
              i + 1 \in 1 .. Len(q) /\ Tail(q)[i] = q[i + 1]
         /\ \A k \in 1 .. Len(q) : k > 1 =>
              k - 1 \in 1 .. Len(Tail(q)) /\ Tail(q)[k - 1] = q[k] /\ k - 1 + 1 = k
<1>1. /\ Len(q) \in Nat /\ Len(q) > 0 /\ Len(Tail(q)) = Len(q) - 1
      /\ \A i \in 1 .. Len(q) - 1 : Tail(q)[i] = q[i + 1]
  OBVIOUS
<1>2. q[1] = Head(q)
  OBVIOUS
<1>3. \A k \in 1 .. Len(q) : k > 1 => k - 1 \in 1 .. Len(q) - 1 /\ k - 1 + 1 = k
  BY <1>1
<1>4. /\ 1 \in 1 .. Len(q)
      /\ \A i \in 1 .. Len(q) - 1 : i + 1 \in 1 .. Len(q)
  BY <1>1
<1>5. \A k \in 1 .. Len(q) : k > 1 => Tail(q)[k - 1] = q[k]
  BY <1>1, <1>3
<1>6. QED
  BY <1>1, <1>2, <1>3, <1>4, <1>5

LEMMA AppendAt ==
  ASSUME NEW q \in Seq(Events), NEW e \in Events
  PROVE  /\ Len(q) \in Nat /\ Len(Append(q, e)) = Len(q) + 1
         /\ Append(q, e)[Len(q) + 1] = e
         /\ \A i \in 1 .. Len(q) : Append(q, e)[i] = q[i] /\ i < Len(q) + 1
         /\ \A i \in 1 .. Len(q) + 1 : i \in 1 .. Len(q) \/ i = Len(q) + 1
         /\ \A i \in 1 .. Len(q) : i \in 1 .. Len(q) + 1
         /\ Len(q) + 1 \in 1 .. Len(q) + 1
OBVIOUS

(* A step that leaves the inbox and the provider's answer alone, and handles *)
(* no end of a response.                                                     *)
LEMMA StreamKept ==
  ASSUME StreamInv, UNCHANGED <<inbox, answer>>, Handled' => Handled
  PROVE  StreamInv'
BY DEF StreamInv, Separated, Announced, UnderWay

(* The head is taken: a creation opens the next response, an end closes the  *)
(* present one, and any other event is neither.                              *)
LEMMA StreamTaken ==
  ASSUME inbox \in Seq(Events), StreamInv, inbox # <<>>, inbox' = Tail(inbox),
         answer' = answer,
         \/ Head(inbox) = "created" /\ ~Handled'
         \/ Head(inbox) = "done"
         \/ Head(inbox) # "created" /\ (Handled' => Handled)
  PROVE  StreamInv'
<1> DEFINE q == inbox
           r == inbox'
<1>1. /\ Len(q) \in Nat /\ Len(r) = Len(q) - 1 /\ q[1] = Head(q) /\ 1 \in 1 .. Len(q)
      /\ \A i \in 1 .. Len(r) : i + 1 \in 1 .. Len(q) /\ r[i] = q[i + 1]
      /\ \A k \in 1 .. Len(q) : k > 1 =>
           k - 1 \in 1 .. Len(r) /\ r[k - 1] = q[k] /\ k - 1 + 1 = k
  BY TailAt
<1>2. /\ \A i \in 1 .. Len(r), k \in 1 .. Len(q) : i + 1 < k => k > 1 /\ i < k - 1
      /\ \A j \in 1 .. Len(r), k \in 1 .. Len(q) : k < j + 1 => k - 1 < j
      /\ \A i, j \in 1 .. Len(r) : i < j => i + 1 < j + 1
      /\ \A i \in 1 .. Len(r) : 1 < i + 1
      /\ \A k \in 1 .. Len(q) : k > 1 \/ k = 1
  BY <1>1
<1> HIDE DEF q, r
<1>3. \A i, j \in 1 .. Len(r) : i < j /\ r[i] = "done" /\ r[j] \in Own =>
        \E k \in 1 .. Len(r) : i < k /\ k < j /\ r[k] = "created"
  <2> SUFFICES ASSUME NEW i \in 1 .. Len(r), NEW j \in 1 .. Len(r), i < j,
                      r[i] = "done", r[j] \in Own
               PROVE  \E k \in 1 .. Len(r) : i < k /\ k < j /\ r[k] = "created"
    OBVIOUS
  <2>1. PICK k \in 1 .. Len(q) : i + 1 < k /\ k < j + 1 /\ q[k] = "created"
    BY <1>1, <1>2 DEF StreamInv, Separated, q
  <2>2. k - 1 \in 1 .. Len(r) /\ i < k - 1 /\ k - 1 < j /\ r[k - 1] = "created"
    BY <1>1, <1>2, <2>1
  <2>3. QED
    BY <2>2
<1>4. ASSUME Handled', NEW j \in 1 .. Len(r), r[j] \in Own
      PROVE  \E k \in 1 .. Len(r) : k < j /\ r[k] = "created"
  <2>1. PICK k \in 1 .. Len(q) : k > 1 /\ k < j + 1 /\ q[k] = "created"
    <3>1. CASE q[1] = "done"
      BY <1>1, <1>2, <1>4, <3>1 DEF StreamInv, Separated, q
    <3>2. CASE Handled /\ q[1] # "created"
      BY <1>1, <1>2, <1>4, <3>2 DEF StreamInv, Announced, q
    <3>3. QED
      BY <1>1, <1>4, <3>1, <3>2 DEF q
  <2>2. k - 1 \in 1 .. Len(r) /\ k - 1 < j /\ r[k - 1] = "created"
    BY <1>1, <1>2, <2>1
  <2>3. QED
    BY <2>2
<1>5. ASSUME answer = "active", NEW i \in 1 .. Len(r), r[i] = "done"
      PROVE  \E k \in 1 .. Len(r) : i < k /\ r[k] = "created"
  <2>1. PICK k \in 1 .. Len(q) : i + 1 < k /\ q[k] = "created"
    BY <1>1, <1>5 DEF StreamInv, UnderWay, q
  <2>2. k - 1 \in 1 .. Len(r) /\ i < k - 1 /\ r[k - 1] = "created"
    BY <1>1, <1>2, <2>1
  <2>3. QED
    BY <2>2
<1>6. ASSUME answer = "active", Handled'
      PROVE  \E k \in 1 .. Len(r) : r[k] = "created"
  <2>1. PICK k \in 1 .. Len(q) : k > 1 /\ q[k] = "created"
    <3>1. CASE q[1] = "done"
      BY <1>1, <1>6, <3>1 DEF StreamInv, UnderWay, q
    <3>2. CASE Handled /\ q[1] # "created"
      BY <1>1, <1>2, <1>6, <3>2 DEF StreamInv, UnderWay, q
    <3>3. QED
      BY <1>1, <1>6, <3>1, <3>2 DEF q
  <2>2. k - 1 \in 1 .. Len(r) /\ r[k - 1] = "created"
    BY <1>1, <2>1
  <2>3. QED
    BY <2>2
<1>7. QED
  BY <1>3, <1>4, <1>5, <1>6 DEF StreamInv, Separated, Announced, UnderWay, r

(* An event joins: the provider speaks of a response only between its        *)
(* creation and its end.                                                     *)
LEMMA StreamJoined ==
  ASSUME inbox \in Seq(Events), StreamInv, NEW e \in Events, inbox' = Append(inbox, e),
         Handled' => Handled,
         \/ e = "created"
         \/ e = "audio" /\ answer = "active"
         \/ e = "done" /\ answer = "active" /\ answer' # "active"
         \/ e \notin Own /\ (answer' = "active" => answer = "active")
  PROVE  StreamInv'
<1> DEFINE q == inbox
           r == inbox'
           n == Len(inbox)
<1>1. /\ n \in Nat /\ Len(r) = n + 1 /\ r[n + 1] = e
      /\ \A i \in 1 .. n : r[i] = q[i] /\ i < n + 1 /\ i \in 1 .. n + 1
      /\ \A i \in 1 .. n + 1 : i \in 1 .. n \/ i = n + 1
      /\ n + 1 \in 1 .. n + 1
  BY AppendAt
<1>2. /\ \A i, j \in 1 .. n + 1 : i < j => i \in 1 .. n
      /\ e \in Own => e = "audio" \/ e = "done"
      /\ "created" \notin Own
  BY <1>1 DEF Own
<1> HIDE DEF q, r, n
<1>3. \A i, j \in 1 .. n + 1 : i < j /\ r[i] = "done" /\ r[j] \in Own =>
        \E k \in 1 .. n + 1 : i < k /\ k < j /\ r[k] = "created"
  <2> SUFFICES ASSUME NEW i \in 1 .. n + 1, NEW j \in 1 .. n + 1, i < j,
                      r[i] = "done", r[j] \in Own
               PROVE  \E k \in 1 .. n + 1 : i < k /\ k < j /\ r[k] = "created"
    OBVIOUS
  <2>1. i \in 1 .. n /\ q[i] = "done"
    BY <1>1, <1>2
  <2>2. CASE j \in 1 .. n
    <3>1. PICK k \in 1 .. n : i < k /\ k < j /\ q[k] = "created"
      BY <1>1, <2>1, <2>2 DEF StreamInv, Separated, q, n
    <3>2. QED
      BY <1>1, <3>1
  <2>3. CASE j = n + 1
    <3>1. PICK k \in 1 .. n : i < k /\ q[k] = "created"
      BY <1>1, <1>2, <2>1, <2>3 DEF StreamInv, UnderWay, q, n
    <3>2. QED
      BY <1>1, <2>3, <3>1
  <2>4. QED
    BY <1>1, <2>2, <2>3
<1>4. ASSUME Handled', NEW j \in 1 .. n + 1, r[j] \in Own
      PROVE  \E k \in 1 .. n + 1 : k < j /\ r[k] = "created"
  <2>1. CASE j \in 1 .. n
    <3>1. PICK k \in 1 .. n : k < j /\ q[k] = "created"
      BY <1>1, <1>4, <2>1 DEF StreamInv, Announced, q, n
    <3>2. QED
      BY <1>1, <3>1
  <2>2. CASE j = n + 1
    <3>1. PICK k \in 1 .. n : q[k] = "created"
      BY <1>1, <1>2, <1>4, <2>2 DEF StreamInv, UnderWay, q, n
    <3>2. QED
      BY <1>1, <2>2, <3>1
  <2>3. QED
    BY <1>1, <2>1, <2>2
<1>5. ASSUME answer' = "active", NEW i \in 1 .. n + 1, r[i] = "done"
      PROVE  \E k \in 1 .. n + 1 : i < k /\ r[k] = "created"
  <2>1. CASE e = "created"
    <3>1. i \in 1 .. n /\ i < n + 1
      BY <1>1, <1>5, <2>1
    <3>2. QED
      BY <1>1, <2>1, <3>1
  <2>2. CASE e # "created"
    <3>1. answer = "active" /\ i \in 1 .. n /\ q[i] = "done"
      BY <1>1, <1>5, <2>2 DEF Own
    <3>2. PICK k \in 1 .. n : i < k /\ q[k] = "created"
      BY <3>1 DEF StreamInv, UnderWay, q, n
    <3>3. QED
      BY <1>1, <3>2
  <2>3. QED
    BY <2>1, <2>2
<1>6. ASSUME answer' = "active", Handled'
      PROVE  \E k \in 1 .. n + 1 : r[k] = "created"
  <2>1. CASE e = "created"
    BY <1>1, <2>1
  <2>2. CASE e # "created"
    <3>1. PICK k \in 1 .. n : q[k] = "created"
      BY <1>6, <2>2 DEF StreamInv, UnderWay, q, n
    <3>2. QED
      BY <1>1, <3>1
  <2>3. QED
    BY <2>1, <2>2
<1>7. QED
  BY <1>1, <1>3, <1>4, <1>5, <1>6 DEF StreamInv, Separated, Announced, UnderWay, r

LEMMA StreamStep ==
  ASSUME TypeOK, StreamInv, [Next]_vars
  PROVE  StreamInv'
<1> USE DEF session, tasks, state, provider, history
<1>t. inbox \in Seq(Events) /\ active \in BOOLEAN
  BY DEF TypeOK, FlagsOK, NumbersOK
<1>1. CASE Main
  <2>1. /\ UNCHANGED <<inbox, answer, active>>
        /\ ppc' \notin {"done", "rest"} \/ ppc' = ppc
    BY <1>1 DEF Main, Refuse, Admit, Ready, BootFails, AfterReady, StartTasks,
       GreetingFails, Wake, Left, AfterSorry, Closed
  <2>2. QED
    BY <2>1, StreamKept DEF Handled
<1>2. CASE BrowserTask
  <2>1. UNCHANGED <<inbox, answer, active, ppc>>
    BY <1>2 DEF BrowserTask, BrowserSends, ReadDisconnect, ReadEnd, ReadMalformed,
       ReadAudio, ReadCancel, Cancel, AfterAppend, AfterCancel, AfterInterrupted,
       Resume, BrowserSendFails
  <2>2. QED
    BY <2>1, StreamKept DEF Handled
<1>3. CASE ProviderTask
  <2>1. CASE Created
    <3>1. /\ inbox # <<>> /\ Head(inbox) = "created" /\ inbox' = Tail(inbox)
          /\ answer' = answer /\ ~Handled'
      BY <2>1 DEF Created, Take, Handled
    <3>2. QED
      BY <1>t, <3>1, StreamTaken
  <2>2. CASE Done \/ DoneInterrupted
    <3>1. /\ inbox # <<>> /\ Head(inbox) = "done" /\ inbox' = Tail(inbox)
          /\ answer' = answer
      BY <2>2 DEF Done, DoneInterrupted, Take
    <3>2. QED
      BY <1>t, <3>1, StreamTaken
  <2>3. CASE \/ SpeechInterrupts \/ SpeechStarted \/ SpeechStopped \/ PassOn
             \/ TextDelta \/ AudioDropped \/ AudioFirst \/ AudioNext \/ Malformed
    <3>1. /\ inbox # <<>> /\ Head(inbox) # "created" /\ inbox' = Tail(inbox)
          /\ answer' = answer /\ active' = active /\ ppc' \notin {"done", "rest"}
      BY <2>3 DEF SpeechInterrupts, Cancel, SpeechStarted, SpeechStopped, PassOn,
         TextDelta, AudioDropped, AudioFirst, AudioNext, SendAudio, Malformed, Take
    <3>2. QED
      BY <1>t, <3>1, StreamTaken DEF Handled
  <2>4. CASE \/ AfterSpeechCancel \/ AfterSpeechInterrupted \/ AfterMeta
             \/ AfterResponding \/ AfterDone \/ AfterRest \/ AfterFrame
             \/ LinkEnds \/ ProviderSendFails
    <3>1. UNCHANGED <<inbox, answer>> /\ (Handled' => Handled)
      BY <2>4 DEF AfterSpeechCancel, AfterSpeechInterrupted, AfterMeta,
         AfterResponding, SendAudio, AfterDone, AfterRest, AfterFrame, LinkEnds,
         ProviderSendFails, Handled
    <3>2. QED
      BY <3>1, StreamKept
  <2>5. QED
    BY <1>3, <2>1, <2>2, <2>3, <2>4 DEF ProviderTask
<1>4. CASE Environment
  <2>h. Handled' => Handled
    BY <1>4 DEF Environment, World, HearSpeech, HearSilence, Transcribe,
       CreateResponse, SayText, SayAudio, EndResponse, ObeyCancel, Garble,
       LinkDrops, BrowserLeaves, Handled
  <2>1. CASE HearSpeech \/ HearSilence \/ Transcribe \/ SayText \/ Garble
    <3>1. PICK e \in Events \ {"audio", "done"} :
            inbox' = Append(inbox, e) /\ (answer' = "active" => answer = "active")
      BY <2>1 DEF HearSpeech, HearSilence, Transcribe, SayText, Garble, Emit, Events
    <3>2. QED
      BY <1>t, <2>h, <3>1, StreamJoined DEF Own
  <2>2. CASE CreateResponse
    <3>1. inbox' = Append(inbox, "created") /\ "created" \in Events
      BY <2>2 DEF CreateResponse, Emit, Events
    <3>2. QED
      BY <1>t, <2>h, <3>1, StreamJoined
  <2>3. CASE SayAudio
    <3>1. inbox' = Append(inbox, "audio") /\ "audio" \in Events /\ answer = "active"
      BY <2>3 DEF SayAudio, Emit, Events
    <3>2. QED
      BY <1>t, <2>h, <3>1, StreamJoined
  <2>4. CASE EndResponse \/ (ObeyCancel /\ answer = "active")
    <3>1. /\ inbox' = Append(inbox, "done") /\ "done" \in Events
          /\ answer = "active" /\ answer' # "active"
      BY <2>4 DEF EndResponse, ObeyCancel, Emit, Events
    <3>2. QED
      BY <1>t, <2>h, <3>1, StreamJoined
  <2>5. CASE ObeyCancel /\ answer # "active"
    <3>1. /\ inbox' = Append(inbox, "error") /\ "error" \in Events
          /\ answer' = answer
      BY <2>5 DEF ObeyCancel, Emit, Events
    <3>2. QED
      BY <1>t, <2>h, <3>1, StreamJoined DEF Own
  <2>6. CASE LinkDrops \/ BrowserLeaves
    <3>1. UNCHANGED <<inbox, answer>>
      BY <2>6 DEF LinkDrops, BrowserLeaves
    <3>2. QED
      BY <2>h, <3>1, StreamKept
  <2>7. QED
    BY <1>4, <2>1, <2>2, <2>3, <2>4, <2>5, <2>6 DEF Environment
<1>5. CASE UNCHANGED vars
  <2>1. UNCHANGED <<inbox, answer, active, ppc>>
    BY <1>5 DEF vars
  <2>2. QED
    BY <2>1, StreamKept DEF Handled
<1>6. QED
  BY <1>1, <1>2, <1>3, <1>4, <1>5 DEF Next

-----------------------------------------------------------------------------
(* A response is done once *)

(* Nothing has been answered before the tasks are started.                   *)
StartInv ==
  mpc \in {"start", "refused", "boot", "ready", "listening"} =>
    cur = 0 /\ bpc = "off" /\ ppc = "off"

LEMMA StartStep ==
  ASSUME StartInv, [Next]_vars
  PROVE  StartInv'
<1> USE DEF StartInv, session, tasks, state
<1>1. CASE Main
  BY <1>1 DEF Main, Refuse, Admit, Ready, BootFails, AfterReady, StartTasks,
     GreetingFails, Wake, Left, AfterSorry, Closed, Finally
<1>2. CASE BrowserTask
  BY <1>2 DEF BrowserTask, BrowserSends, ReadDisconnect, ReadEnd, ReadMalformed,
     ReadAudio, ReadCancel, AfterAppend, AfterCancel, AfterInterrupted, Resume,
     BrowserSendFails
<1>3. CASE ProviderTask
  BY <1>3 DEF ProviderTask, SpeechInterrupts, SpeechStarted, AfterSpeechCancel,
     AfterSpeechInterrupted, SpeechStopped, PassOn, Created, TextDelta,
     AudioDropped, AudioFirst, AfterMeta, AfterResponding, AudioNext, SendAudio,
     DoneInterrupted, Done, AfterDone, AfterRest, AfterFrame, Malformed, LinkEnds,
     ProviderSendFails, Take
<1>4. CASE Environment
  BY <1>4 DEF Environment, World, HearSpeech, HearSilence, Transcribe,
     CreateResponse, SayText, SayAudio, EndResponse, ObeyCancel, Garble, LinkDrops,
     BrowserLeaves
<1>5. CASE UNCHANGED vars
  BY <1>5 DEF vars
<1>6. QED
  BY <1>1, <1>2, <1>3, <1>4, <1>5 DEF Next

(* A response that is done is past its end.                                  *)
DoneInv ==
  /\ \A r \in Responses : (r > cur => finished[r] = 0) /\ finished[r] <= 1
  /\ cur \in Responses /\ finished[cur] > 0 => Handled \/ ppc \in Over


LEMMA DoneInit == Init => DoneInv
BY NativeAssumption DEF Init, DoneInv, Responses, NativeAssumption

LEMMA DoneKept ==
  ASSUME DoneInv, UNCHANGED <<cur, finished>>,
         Handled \/ ppc \in Over => Handled' \/ ppc' \in Over
  PROVE  DoneInv'
BY DEF DoneInv, Responses

LEMMA DoneStep ==
  ASSUME TypeOK, StartInv, StreamInv, DoneInv, [Next]_vars
  PROVE  DoneInv'
<1> USE DEF session, tasks, state, provider, history
<1>t. /\ cur \in Nat /\ finished \in [Responses -> Nat] /\ Responses \subseteq Nat
      /\ inbox \in Seq(Events) /\ active \in BOOLEAN
  BY NativeAssumption
     DEF TypeOK, FlagsOK, NumbersOK, HistoryOK, Counts, Responses, NativeAssumption
<1>1. CASE Main
  <2>1. UNCHANGED <<cur, finished, active>>
    BY <1>1 DEF Main, Refuse, Admit, Ready, BootFails, AfterReady, StartTasks,
       GreetingFails, Wake, Left, AfterSorry, Closed
  <2>2. CASE StartTasks
    BY <2>1, <2>2 DEF StartTasks, StartInv, DoneInv, Responses
  <2>3. CASE ~StartTasks
    <3>1. ppc' = ppc \/ ppc' \in Over
      BY <1>1, <2>3 DEF Main, Refuse, Admit, Ready, BootFails, AfterReady,
         GreetingFails, Wake, Left, AfterSorry, Closed, Over
    <3>2. QED
      BY <2>1, <3>1, DoneKept DEF Handled
  <2>4. QED
    BY <2>2, <2>3
<1>2. CASE BrowserTask
  <2>1. UNCHANGED <<cur, finished, active, ppc>>
    BY <1>2 DEF BrowserTask, BrowserSends, ReadDisconnect, ReadEnd, ReadMalformed,
       ReadAudio, ReadCancel, AfterAppend, AfterCancel, AfterInterrupted, Resume,
       BrowserSendFails
  <2>2. QED
    BY <2>1, DoneKept DEF Handled
<1>3. CASE ProviderTask
  <2>1. CASE Created
    <3>1. cur' = cur + 1 /\ finished' = finished
      BY <2>1 DEF Created
    <3>2. QED
      BY <1>t, <3>1 DEF DoneInv
  <2>2. CASE Done
    <3>1. /\ ppc = "recv" /\ ppc' = "done" /\ inbox # <<>> /\ Head(inbox) = "done"
          /\ finished' = [finished EXCEPT ![cur] = @ + 1] /\ cur' = cur
      BY <2>2 DEF Done, Take
    <3>2. ~Handled
      <4>1. inbox[1] \in Own /\ 1 \in 1 .. Len(inbox)
        BY <1>t, <3>1, TailAt DEF Own
      <4>2. ~ \E k \in 1 .. Len(inbox) : k < 1
        OBVIOUS
      <4>3. QED
        BY <4>1, <4>2 DEF StreamInv, Announced
    <3>3. cur \in Responses => finished[cur] = 0
      BY <1>t, <3>1, <3>2 DEF DoneInv, Over
    <3>4. \A r \in Responses : finished'[r] = IF r = cur THEN 1 ELSE finished[r]
      BY <1>t, <3>1, <3>3
    <3>5. Handled'
      BY <3>1 DEF Handled
    <3>6. QED
      BY <1>t, <3>1, <3>4, <3>5 DEF DoneInv
  <2>3. CASE DoneInterrupted \/ AfterRest
    <3>1. UNCHANGED <<cur, finished>> /\ Handled'
      BY <2>3 DEF DoneInterrupted, AfterRest, Handled
    <3>2. QED
      BY <3>1, DoneKept
  <2>4. CASE \/ SpeechInterrupts \/ SpeechStarted \/ AfterSpeechCancel
             \/ AfterSpeechInterrupted \/ SpeechStopped \/ PassOn \/ TextDelta
             \/ AudioDropped \/ AudioFirst \/ AfterMeta \/ AfterResponding
             \/ AudioNext \/ AfterFrame
    <3>1. /\ UNCHANGED <<cur, finished, active>>
          /\ ppc \notin {"done", "rest"} \cup Over
      BY <2>4 DEF SpeechInterrupts, SpeechStarted, AfterSpeechCancel,
         AfterSpeechInterrupted, SpeechStopped, PassOn, TextDelta, AudioDropped,
         AudioFirst, AfterMeta, AfterResponding, AudioNext, SendAudio, AfterFrame,
         Take, Over
    <3>2. QED
      BY <3>1, DoneKept DEF Handled
  <2>5. CASE AfterDone \/ Malformed \/ LinkEnds \/ ProviderSendFails
    <3>1. UNCHANGED <<cur, finished, active>> /\ ppc' \in {"rest"} \cup Over
      BY <2>5 DEF AfterDone, Malformed, LinkEnds, ProviderSendFails, Over
    <3>2. QED
      BY <3>1, DoneKept DEF Handled
  <2>6. QED
    BY <1>3, <2>1, <2>2, <2>3, <2>4, <2>5 DEF ProviderTask
<1>4. CASE Environment
  <2>1. UNCHANGED <<cur, finished, active, ppc>>
    BY <1>4 DEF Environment, World, HearSpeech, HearSilence, Transcribe,
       CreateResponse, SayText, SayAudio, EndResponse, ObeyCancel, Garble,
       LinkDrops, BrowserLeaves
  <2>2. QED
    BY <2>1, DoneKept DEF Handled
<1>5. CASE UNCHANGED vars
  <2>1. UNCHANGED <<cur, finished, active, ppc>>
    BY <1>5 DEF vars
  <2>2. QED
    BY <2>1, DoneKept DEF Handled
<1>6. QED
  BY <1>1, <1>2, <1>3, <1>4, <1>5 DEF Next

(* However stops and speech fall together, one interrupted frame at most     *)
(* goes out for a response, and one assistant_done frame at most, for every  *)
(* number of responses and every length of the provider's backlog.           *)
THEOREM ResponseConcludedOnce == Spec => []ConcludedOnce
<1> DEFINE Inv == SilenceInv /\ StopInv /\ StartInv /\ StreamInv /\ DoneInv
<1>1. Init => Inv
  <2>1. Init => StartInv
    BY DEF Init, StartInv
  <2>2. QED
    BY <2>1, SilenceInit, StopInit, StreamInit, DoneInit
<1>2. TypeOK /\ TypeOK' /\ Inv /\ [Next]_vars => Inv'
  BY SilenceStep, StopStep, StartStep, StreamStep, DoneStep
<1>3. Inv => ConcludedOnce
  BY DEF StopInv, DoneInv, ConcludedOnce
<1>4. QED
  BY <1>1, <1>2, <1>3, TypeCorrect, PTL DEF Spec

-----------------------------------------------------------------------------
(* The browser is left in a state it can speak in *)

(* Where the responding state may be left standing.                          *)
ShownInv ==
  /\ ppc \in {"meta", "responding"} => active
  /\ ppc = "rest" => shown # "responding"
  /\ cur \in spoken /\ ppc \notin {"cancel", "interrupted"} \cup Over =>
       shown # "responding"
  /\ shown = "responding" /\ ~active => interrupted /\ cur \notin spoken
  /\ target = cur /\ cur \in Responses /\ bpc \notin {"cancel"} \cup Over =>
       stopped[cur] > 0


LEMMA ShownInit == Init => ShownInv
BY DEF Init, ShownInv, Responses

(* A step that leaves the flags and counts alone and shows no responding.    *)
LEMMA ShownKept ==
  ASSUME ShownInv, UNCHANGED <<active, interrupted, cur, target, stopped, spoken>>,
         shown' = shown \/ shown' # "responding",
         ppc' = ppc \/ ppc' \in Over,
         bpc' = bpc \/ bpc' \in Over \/ bpc \notin {"cancel"} \cup Over
  PROVE  ShownInv'
BY DEF ShownInv, Responses, Over

LEMMA ShownStep ==
  ASSUME TypeOK, SilenceInv, StartInv, StreamInv, ShownInv, [Next]_vars
  PROVE  ShownInv'
<1> USE DEF session, tasks, state, provider, history
<1>t. /\ cur \in Nat /\ target \in 0 .. cur /\ stopped \in [Responses -> Nat]
      /\ Responses \subseteq Nat /\ inbox \in Seq(Events)
      /\ active \in BOOLEAN /\ interrupted \in BOOLEAN
  BY NativeAssumption
     DEF TypeOK, FlagsOK, NumbersOK, HistoryOK, Counts, Responses, NativeAssumption
<1>f. /\ interrupted <=> cur \in spoken \/ (cur > 0 /\ target = cur)
      /\ \A r \in spoken : 0 < r /\ r <= cur
      /\ ppc \in {"meta", "responding"} => cur \notin spoken
  BY DEF SilenceInv, FlagInv, Accepted
<1>1. CASE Main
  <2>1. UNCHANGED <<active, interrupted, cur, target, stopped, spoken>>
        /\ shown' \in {shown, "listening"}
    BY <1>1 DEF Main, Refuse, Admit, Ready, BootFails, AfterReady, StartTasks,
       GreetingFails, Wake, Left, AfterSorry, Closed
  <2>2. CASE StartTasks
    <3>1. cur = 0 /\ cur \notin Responses /\ cur \notin spoken /\ ppc = "off"
      BY <1>f, <2>2 DEF StartTasks, StartInv, Responses
    <3>2. ppc' = "recv" /\ shown' = shown
      BY <2>2 DEF StartTasks
    <3>3. QED
      BY <2>1, <3>1, <3>2 DEF ShownInv, Responses, Over
  <2>3. CASE ~StartTasks
    <3>1. (ppc' = ppc \/ ppc' \in Over) /\ (bpc' = bpc \/ bpc' \in Over)
      BY <1>1, <2>3 DEF Main, Refuse, Admit, Ready, BootFails, AfterReady,
         GreetingFails, Wake, Left, AfterSorry, Closed, Over
    <3>2. QED
      BY <2>1, <3>1, ShownKept
  <2>4. QED
    BY <2>2, <2>3
<1>2. CASE BrowserTask
  <2>1. CASE ReadCancel
    <3>1. /\ ~interrupted /\ interrupted' = TRUE /\ active /\ bpc' = "cancel"
          /\ UNCHANGED <<active, cur, ppc, spoken, shown>>
      BY <2>1 DEF ReadCancel, Stoppable
    <3>2. QED
      BY <3>1 DEF ShownInv
  <2>2. CASE AfterCancel
    <3>1. /\ bpc = "cancel" /\ stopped' = [stopped EXCEPT ![target] = @ + 1]
          /\ UNCHANGED <<active, interrupted, cur, target, ppc, spoken, shown>>
      BY <2>2 DEF AfterCancel
    <3>2. target \in Responses => stopped'[target] > 0
      BY <1>t, <3>1
    <3>3. QED
      BY <3>1, <3>2 DEF ShownInv, Responses
  <2>3. CASE ~ReadCancel /\ ~AfterCancel
    <3>1. /\ UNCHANGED <<active, interrupted, cur, target, stopped, spoken, ppc>>
          /\ shown' \in {shown, "listening"}
          /\ bpc \notin {"cancel"} \cup Over
      BY <1>2, <2>3 DEF BrowserTask, BrowserSends, ReadDisconnect, ReadEnd,
         ReadMalformed, ReadAudio, AfterAppend, AfterInterrupted, Resume,
         BrowserSendFails, Over
    <3>2. QED
      BY <3>1, ShownKept
  <2>4. QED
    BY <2>1, <2>2, <2>3
<1>3. CASE ProviderTask
  <2>1. CASE SpeechInterrupts
    <3>1. /\ active /\ ppc = "recv" /\ ppc' = "cancel" /\ interrupted' = TRUE
          /\ UNCHANGED <<active, cur, target, bpc, stopped, shown>>
      BY <2>1 DEF SpeechInterrupts, Stoppable, Take
    <3>2. QED
      BY <3>1 DEF ShownInv, Responses
  <2>2. CASE Created
    <3>1. /\ cur' = cur + 1 /\ active' /\ ppc = "recv"
          /\ UNCHANGED <<bpc, ppc, target, stopped, spoken, shown>>
      BY <2>2 DEF Created, Take
    <3>2. cur' \notin spoken /\ target # cur'
      BY <1>t, <1>f, <3>1
    <3>3. QED
      BY <3>1, <3>2 DEF ShownInv
  <2>3. CASE AudioFirst
    <3>1. /\ ppc = "recv" /\ ppc' = "meta" /\ inbox # <<>> /\ Head(inbox) = "audio"
          /\ UNCHANGED <<active, interrupted, cur, target, stopped, spoken, bpc, shown>>
      BY <2>3 DEF AudioFirst, Take
    <3>2. ~Handled
      <4>1. inbox[1] \in Own /\ 1 \in 1 .. Len(inbox)
        BY <1>t, <3>1, TailAt DEF Own
      <4>2. ~ \E k \in 1 .. Len(inbox) : k < 1
        OBVIOUS
      <4>3. QED
        BY <4>1, <4>2 DEF StreamInv, Announced
    <3>3. active
      BY <3>2 DEF Handled
    <3>4. QED
      BY <3>1, <3>3 DEF ShownInv, Responses, Over
  <2>4. CASE AfterMeta
    <3>1. /\ ppc = "meta" /\ ppc' = "responding" /\ shown' = "responding"
          /\ UNCHANGED <<active, interrupted, cur, target, stopped, spoken, bpc>>
      BY <2>4 DEF AfterMeta
    <3>2. active /\ cur \notin spoken
      BY <1>f, <3>1 DEF ShownInv
    <3>3. QED
      BY <3>1, <3>2 DEF ShownInv, Responses
  <2>5. CASE AfterSpeechInterrupted \/ AfterDone \/ SpeechStarted \/ SpeechStopped
    <3>1. /\ UNCHANGED <<active, interrupted, cur, target, stopped, spoken, bpc>>
          /\ shown' # "responding" /\ ppc' \in {"frame", "rest"}
      BY <2>5 DEF AfterSpeechInterrupted, AfterDone, Rest, SpeechStarted,
         SpeechStopped
    <3>2. QED
      BY <3>1 DEF ShownInv, Responses
  <2>6. CASE AfterSpeechCancel
    <3>1. /\ ppc = "cancel" /\ ppc' = "interrupted"
          /\ stopped' = [stopped EXCEPT ![cur] = @ + 1]
          /\ UNCHANGED <<active, interrupted, cur, target, spoken, bpc, shown>>
      BY <2>6 DEF AfterSpeechCancel
    <3>2. cur \in Responses => stopped'[cur] > 0
      BY <1>t, <3>1
    <3>3. QED
      BY <3>1, <3>2 DEF ShownInv
  <2>7. CASE AfterRest
    <3>1. /\ ppc = "rest" /\ ppc' = "recv" /\ active' = FALSE
          /\ UNCHANGED <<interrupted, cur, target, spoken, stopped, bpc, shown>>
      BY <2>7 DEF AfterRest
    <3>2. shown # "responding"
      BY <3>1 DEF ShownInv
    <3>3. QED
      BY <3>1, <3>2 DEF ShownInv, Responses
  <2>8. CASE DoneInterrupted
    <3>1. /\ ppc = "recv" /\ interrupted /\ active' = FALSE
          /\ UNCHANGED <<interrupted, cur, target, spoken, stopped, bpc, ppc, shown>>
      BY <2>8 DEF DoneInterrupted, Take
    <3>2. cur \in spoken => shown # "responding"
      BY <3>1 DEF ShownInv, Over
    <3>3. QED
      BY <3>1, <3>2 DEF ShownInv, Responses
  <2>9. CASE \/ PassOn \/ TextDelta \/ AudioDropped \/ AfterResponding
             \/ AudioNext \/ Done \/ AfterFrame
    <3>1. /\ UNCHANGED <<active, interrupted, cur, target, stopped, spoken, bpc, shown>>
          /\ ppc' \in {"recv", "frame", "done"}
          /\ ppc \notin {"cancel", "interrupted"} \cup Over
      BY <2>9 DEF PassOn, TextDelta, AudioDropped, AfterResponding, AudioNext,
         SendAudio, Done, AfterFrame, Take, Over
    <3>2. QED
      BY <3>1 DEF ShownInv, Responses
  <2>10. CASE Malformed \/ LinkEnds \/ ProviderSendFails
    <3>1. /\ UNCHANGED <<active, interrupted, cur, target, stopped, spoken, bpc, shown>>
          /\ ppc' \in Over
      BY <2>10 DEF Malformed, LinkEnds, ProviderSendFails, Over
    <3>2. QED
      BY <3>1, ShownKept
  <2>11. QED
    BY <1>3, <2>1, <2>2, <2>3, <2>4, <2>5, <2>6, <2>7, <2>8, <2>9, <2>10
       DEF ProviderTask
<1>4. CASE Environment
  <2>1. UNCHANGED <<active, interrupted, cur, target, stopped, spoken, shown, bpc, ppc>>
    BY <1>4 DEF Environment, World, HearSpeech, HearSilence, Transcribe,
       CreateResponse, SayText, SayAudio, EndResponse, ObeyCancel, Garble,
       LinkDrops, BrowserLeaves
  <2>2. QED
    BY <2>1, ShownKept
<1>5. CASE UNCHANGED vars
  <2>1. UNCHANGED <<active, interrupted, cur, target, stopped, spoken, shown, bpc, ppc>>
    BY <1>5 DEF vars
  <2>2. QED
    BY <2>1, ShownKept
<1>6. QED
  BY <1>1, <1>2, <1>3, <1>4, <1>5 DEF Next

-----------------------------------------------------------------------------
(* A response that is handled has a number *)

(* Where the creations on their way stand in the inbox.                      *)
BirthsIn(q) == {i \in 1 .. Len(q) : q[i] = "created"}

(* None is handled, and none waits, that the provider did not make.          *)
BirthInv == cur + Cardinality(BirthsIn(inbox)) <= made

LEMMA BirthsFinite ==
  ASSUME NEW q \in Seq(Events)
  PROVE  IsFiniteSet(BirthsIn(q)) /\ Cardinality(BirthsIn(q)) \in Nat
<1>1. Len(q) \in Nat
  OBVIOUS
<1>2. IsFiniteSet(1 .. Len(q))
  BY <1>1, FS_Interval
<1>3. BirthsIn(q) \in SUBSET (1 .. Len(q))
  BY DEF BirthsIn
<1>4. IsFiniteSet(BirthsIn(q))
  BY <1>2, <1>3, FS_Subset
<1>5. QED
  BY <1>4, FS_CardinalityType

(* Taking the head leaves no more creations, and one less when it was one.   *)
LEMMA BirthsTail ==
  ASSUME NEW q \in Seq(Events), q # <<>>
  PROVE  Cardinality(BirthsIn(Tail(q))) <=
           IF Head(q) = "created" THEN Cardinality(BirthsIn(q)) - 1
                                  ELSE Cardinality(BirthsIn(q))
<1> DEFINE S == BirthsIn(Tail(q))
           T == BirthsIn(q) \ {1}
           f == [i \in S |-> i + 1]
<1>1. /\ IsFiniteSet(BirthsIn(q)) /\ Cardinality(BirthsIn(q)) \in Nat
  BY BirthsFinite
<1>2. /\ IsFiniteSet(T)
      /\ Cardinality(T) = IF 1 \in BirthsIn(q) THEN Cardinality(BirthsIn(q)) - 1
                                                ELSE Cardinality(BirthsIn(q))
  BY <1>1, FS_RemoveElement
<1>3. f \in Injection(S, T)
  <2>1. \A i \in S : i + 1 \in T
    <3> SUFFICES ASSUME NEW i \in S PROVE i + 1 \in T
      OBVIOUS
    <3>1. i \in 1 .. Len(Tail(q)) /\ Tail(q)[i] = "created"
      BY DEF BirthsIn
    <3>2. i + 1 \in 1 .. Len(q) /\ q[i + 1] = "created"
      BY <3>1, TailAt
    <3>3. i + 1 # 1
      BY <3>1
    <3>4. QED
      BY <3>2, <3>3 DEF BirthsIn
  <2>2. \A i \in S : i \in Nat
    BY DEF BirthsIn
  <2>3. \A i, j \in S : i + 1 = j + 1 => i = j
    BY <2>2
  <2>4. f \in [S -> T]
    BY <2>1
  <2>5. \A i, j \in S : f[i] = f[j] => i = j
    BY <2>3
  <2>6. QED
    BY <2>4, <2>5, Zenon DEF Injection, IsInjective
<1>4. Cardinality(S) <= Cardinality(T)
  BY <1>2, <1>3, FS_Injection
<1>5. Head(q) = "created" <=> 1 \in BirthsIn(q)
  BY TailAt DEF BirthsIn
<1>6. QED
  BY <1>2, <1>4, <1>5

(* An event that joins adds its place when it is a creation.                 *)
LEMMA BirthsAppend ==
  ASSUME NEW q \in Seq(Events), NEW e \in Events
  PROVE  Cardinality(BirthsIn(Append(q, e))) =
           IF e = "created" THEN Cardinality(BirthsIn(q)) + 1
                            ELSE Cardinality(BirthsIn(q))
<1> DEFINE n == Len(q)
<1>1. /\ n \in Nat /\ Len(Append(q, e)) = n + 1 /\ Append(q, e)[n + 1] = e
      /\ \A i \in 1 .. n : Append(q, e)[i] = q[i] /\ i < n + 1
      /\ \A i \in 1 .. n + 1 : i \in 1 .. n \/ i = n + 1
      /\ \A i \in 1 .. n : i \in 1 .. n + 1
      /\ n + 1 \in 1 .. n + 1
  BY AppendAt
<1> HIDE DEF n
<1>2. BirthsIn(q) = {i \in 1 .. n : q[i] = "created"}
  BY DEF BirthsIn, n
<1>3. BirthsIn(Append(q, e)) = {i \in 1 .. n + 1 : Append(q, e)[i] = "created"}
  BY <1>1 DEF BirthsIn
<1>4. CASE e = "created"
  <2>1. BirthsIn(Append(q, e)) = BirthsIn(q) \cup {n + 1}
    BY <1>1, <1>2, <1>3, <1>4
  <2>2. n + 1 \notin BirthsIn(q)
    BY <1>1, <1>2
  <2>3. QED
    BY <1>4, <2>1, <2>2, BirthsFinite, FS_AddElement
<1>5. CASE e # "created"
  <2>1. BirthsIn(Append(q, e)) = BirthsIn(q)
    BY <1>1, <1>2, <1>3, <1>5
  <2>2. QED
    BY <1>5, <2>1
<1>6. QED
  BY <1>4, <1>5

LEMMA BirthInit == Init => BirthInv
<1>1. BirthsIn(<<>>) = {}
  BY DEF BirthsIn
<1>2. QED
  BY <1>1, FS_EmptySet DEF Init, BirthInv

LEMMA BirthStep ==
  ASSUME TypeOK, BirthInv, [Next]_vars
  PROVE  BirthInv'
<1> USE DEF session, tasks, state, provider, history
<1>t. cur \in Nat /\ made \in Nat /\ inbox \in Seq(Events)
  BY DEF TypeOK, NumbersOK
<1>c. Cardinality(BirthsIn(inbox)) \in Nat
  BY <1>t, BirthsFinite
<1>1. CASE UNCHANGED <<cur, made, inbox>>
  BY <1>1 DEF BirthInv
<1>2. CASE Created
  <2>1. /\ inbox # <<>> /\ Head(inbox) = "created" /\ inbox' = Tail(inbox)
        /\ cur' = cur + 1 /\ made' = made
    BY <1>2 DEF Created, Take
  <2>2. Cardinality(BirthsIn(inbox')) <= Cardinality(BirthsIn(inbox)) - 1
    BY <1>t, <2>1, BirthsTail
  <2>3. Tail(inbox) \in Seq(Events)
    BY <1>t, <2>1, TakeType
  <2>4. Cardinality(BirthsIn(inbox')) \in Nat
    BY <2>1, <2>3, BirthsFinite
  <2>5. cur' + Cardinality(BirthsIn(inbox')) <= made'
    BY <1>t, <1>c, <2>1, <2>2, <2>4 DEF BirthInv
  <2>6. QED
    BY <2>5 DEF BirthInv, BirthsIn
<1>3. CASE /\ inbox # <<>> /\ Head(inbox) # "created" /\ inbox' = Tail(inbox)
           /\ UNCHANGED <<cur, made>>
  <2>1. Cardinality(BirthsIn(inbox')) <= Cardinality(BirthsIn(inbox))
    BY <1>t, <1>3, BirthsTail
  <2>2. Tail(inbox) \in Seq(Events)
    BY <1>t, <1>3, TakeType
  <2>3. Cardinality(BirthsIn(inbox')) \in Nat
    BY <1>3, <2>2, BirthsFinite
  <2>4. cur' + Cardinality(BirthsIn(inbox')) <= made'
    BY <1>t, <1>c, <1>3, <2>1, <2>3 DEF BirthInv
  <2>5. QED
    BY <2>4 DEF BirthInv, BirthsIn
<1>4. CASE \E e \in Events : /\ inbox' = Append(inbox, e) /\ cur' = cur
                              /\ made' = IF e = "created" THEN made + 1 ELSE made
  <2>1. PICK e \in Events : /\ inbox' = Append(inbox, e) /\ cur' = cur
                            /\ made' = IF e = "created" THEN made + 1 ELSE made
    BY <1>4
  <2>2. Cardinality(BirthsIn(inbox')) =
          IF e = "created" THEN Cardinality(BirthsIn(inbox)) + 1
                           ELSE Cardinality(BirthsIn(inbox))
    BY <1>t, <2>1, BirthsAppend
  <2>3. cur' + Cardinality(BirthsIn(inbox')) <= made'
    BY <1>t, <1>c, <2>1, <2>2 DEF BirthInv
  <2>4. QED
    BY <2>3 DEF BirthInv, BirthsIn
<1>5. CASE Main
  BY <1>1, <1>5 DEF Main, Refuse, Admit, Ready, BootFails, AfterReady, StartTasks,
     GreetingFails, Wake, Left, AfterSorry, Closed
<1>6. CASE BrowserTask
  BY <1>1, <1>6 DEF BrowserTask, BrowserSends, ReadDisconnect, ReadEnd, ReadMalformed,
     ReadAudio, ReadCancel, Cancel, AfterAppend, AfterCancel, AfterInterrupted, Resume,
     BrowserSendFails
<1>7. CASE ProviderTask /\ ~Created
  <2>1. CASE \/ SpeechInterrupts \/ SpeechStarted \/ SpeechStopped \/ PassOn
             \/ TextDelta \/ AudioDropped \/ AudioFirst \/ AudioNext
             \/ DoneInterrupted \/ Done \/ Malformed
    BY <1>3, <2>1 DEF SpeechInterrupts, Cancel, SpeechStarted, SpeechStopped, PassOn,
       TextDelta, AudioDropped, AudioFirst, AudioNext, SendAudio, DoneInterrupted,
       Done, Malformed, Take
  <2>2. CASE \/ AfterSpeechCancel \/ AfterSpeechInterrupted \/ AfterMeta
             \/ AfterResponding \/ AfterDone \/ AfterRest \/ AfterFrame
             \/ LinkEnds \/ ProviderSendFails
    BY <1>1, <2>2 DEF AfterSpeechCancel, AfterSpeechInterrupted, AfterMeta,
       AfterResponding, SendAudio, AfterDone, AfterRest, AfterFrame, LinkEnds,
       ProviderSendFails
  <2>3. QED
    BY <1>7, <2>1, <2>2 DEF ProviderTask
<1>8. CASE Environment
  <2>1. CASE LinkDrops \/ BrowserLeaves
    BY <1>1, <2>1 DEF LinkDrops, BrowserLeaves, World
  <2>2. CASE CreateResponse
    <3>1. inbox' = Append(inbox, "created") /\ cur' = cur /\ made' = made + 1
      BY <2>2 DEF CreateResponse, Emit, World
    <3>2. "created" \in Events
      BY DEF Events
    <3>3. QED
      BY <1>4, <3>1, <3>2
  <2>3. CASE \/ HearSpeech \/ HearSilence \/ Transcribe \/ SayText \/ SayAudio
             \/ EndResponse \/ ObeyCancel \/ Garble
    <3>1. PICK e \in Events : e # "created" /\ inbox' = Append(inbox, e)
      BY <2>3 DEF HearSpeech, HearSilence, Transcribe, SayText, SayAudio, EndResponse,
         ObeyCancel, Garble, Emit, Events
    <3>2. UNCHANGED <<cur, made>>
      BY <2>3 DEF HearSpeech, HearSilence, Transcribe, SayText, SayAudio, EndResponse,
         ObeyCancel, Garble, World
    <3>3. QED
      BY <1>4, <3>1, <3>2
  <2>4. QED
    BY <1>8, <2>1, <2>2, <2>3 DEF Environment
<1>9. CASE UNCHANGED vars
  BY <1>1, <1>9 DEF vars
<1>10. QED
  BY <1>2, <1>5, <1>6, <1>7, <1>8, <1>9 DEF Next

(* Once everything a session has under way is settled, the browser is not    *)
(* left in responding by a response that ended by itself or by speech:       *)
(* whatever fell together, it is back where it can speak.                    *)
THEOREM SettlesListening == Spec => []RestsListening
<1> DEFINE Inv == /\ SilenceInv /\ StopInv /\ StartInv /\ StreamInv /\ ShownInv
                  /\ BirthInv
<1>1. Init => Inv
  <2>1. Init => StartInv
    BY DEF Init, StartInv
  <2>2. QED
    BY <2>1, SilenceInit, StopInit, StreamInit, ShownInit, BirthInit
<1>2. TypeOK /\ TypeOK' /\ Inv /\ [Next]_vars => Inv'
  BY SilenceStep, StopStep, StartStep, StreamStep, ShownStep, BirthStep
<1>3. TypeOK /\ Inv => RestsListening
  <2> SUFFICES ASSUME TypeOK, Inv, Quiet, cur > 0, shown = "responding",
                      stopped[cur] = 0 \/ cur \in spoken
               PROVE  FALSE
    BY DEF RestsListening
  <2>1. cur \in Responses
    <3>1. /\ cur \in Nat /\ made \in Nat /\ made <= MaxResponses
          /\ Cardinality(BirthsIn(inbox)) \in Nat
      BY NativeAssumption, BirthsFinite DEF TypeOK, NumbersOK, NativeAssumption
    <3>2. QED
      BY <3>1, NativeAssumption DEF BirthInv, Responses, NativeAssumption
  <2>2. interrupted /\ cur \notin spoken
    BY DEF Quiet, ShownInv
  <2>3. target = cur
    BY <2>2 DEF SilenceInv, FlagInv, Accepted
  <2>4. stopped[cur] > 0
    BY <2>1, <2>3 DEF Quiet, ShownInv, Over
  <2>5. QED
    BY <2>2, <2>4
<1>4. QED
  BY <1>1, <1>2, <1>3, TypeCorrect, PTL DEF Spec

=============================================================================
