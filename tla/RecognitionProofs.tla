------------------------- MODULE RecognitionProofs -------------------------
(***************************************************************************)
(* Live recognition, proved of Recognition for every number of recordings, *)
(* chunks, every window and every choice of the chunks with speech: the    *)
(* microphone is on only for the recording the page shows, and the page    *)
(* shows what was said.                                                    *)
(*                                                                         *)
(* Recognised and CommittedText are recursive functions, so that a proof   *)
(* about them is by induction.  It is stated with sets: a set that has 0,  *)
(* and n + 1 whenever it has n, has every natural number.                  *)
(***************************************************************************)
EXTENDS Recognition, SequenceTheorems, WellFoundedInduction, TLAPS

LEMMA Induction ==
  ASSUME NEW T, 0 \in T, \A n \in Nat : n \in T => n + 1 \in T
  PROVE  Nat \subseteq T
<1> DEFINE B == Nat \ T
           R == OpToRel(<, Nat)
<1> SUFFICES ASSUME B # {} PROVE FALSE
  OBVIOUS
<1>1. IsWellFoundedOn(R, Nat)
  BY NatLessThanWellFounded
<1>2. PICK x \in B : \A y \in B : ~(<<y, x>> \in R)
  <2> HIDE DEF R
  <2> QED BY <1>1, WFMin, Zenon
<1>3. \A y \in B : ~(y < x)
  BY <1>2 DEF OpToRel
<1>4. x # 0 /\ x \in Nat /\ x \notin T
  BY <1>2
<1>5. x - 1 \in T
  BY <1>3, <1>4
<1>6. (x - 1) + 1 \in T /\ (x - 1) + 1 = x
  BY <1>4, <1>5
<1> QED BY <1>4, <1>6, Zenon

-----------------------------------------------------------------------------
(* The same for sequences. *)
LEMMA AppendInduction ==
  ASSUME NEW S, NEW P, <<>> \in P, \A s \in P, x \in S : Append(s, x) \in P
  PROVE  Seq(S) \subseteq P
<1> DEFINE T == {m \in Nat : \A s \in Seq(S) : Len(s) = m => s \in P}
<1>1. 0 \in T
  <2>1. ASSUME NEW s \in Seq(S), Len(s) = 0
        PROVE  s = <<>>
    BY <2>1
  <2> QED BY <2>1
<1>2. ASSUME NEW m \in Nat, m \in T
      PROVE  m + 1 \in T
  <2> SUFFICES ASSUME NEW s \in Seq(S), Len(s) = m + 1
               PROVE  s \in P
    OBVIOUS
  <2>1. s # <<>>
    OBVIOUS
  <2>2. PICK f \in Seq(S), x \in S : s = Append(f, x)
    BY <2>1, SequenceEmptyOrAppend
  <2>3. Len(f) = m
    BY <2>2
  <2> QED BY <1>2, <2>2, <2>3
<1>3. Nat \subseteq T
  <2> HIDE DEF T
  <2> QED BY <1>1, <1>2, Induction
<1> QED BY <1>3

(***************************************************************************)
(* What is recognised of a sequence of chunks.                             *)
(***************************************************************************)

(* f has what is recognised of each of the first m chunks of audio. *)
RecognisedUpTo(f, audio, m) ==
  f = [n \in 0 .. m |->
         IF n = 0 THEN <<>>
         ELSE IF audio[n] \in Voiced THEN Append(f[n - 1], audio[n]) ELSE f[n - 1]]

LEMMA RecognisedExists ==
  ASSUME NEW S, NEW audio \in Seq(S)
  PROVE  \E f : RecognisedUpTo(f, audio, Len(audio))
<1> DEFINE T == {m \in Nat : \E f : RecognisedUpTo(f, audio, m)}
<1>1. 0 \in T
  <2>1. RecognisedUpTo([n \in 0 .. 0 |-> <<>>], audio, 0)
    BY DEF RecognisedUpTo
  <2> QED BY <2>1
<1>2. ASSUME NEW m \in Nat, m \in T
      PROVE  m + 1 \in T
  <2>1. PICK f : RecognisedUpTo(f, audio, m)
    BY <1>2
  <2> DEFINE x == IF audio[m + 1] \in Voiced THEN Append(f[m], audio[m + 1]) ELSE f[m]
             g == [n \in 0 .. m + 1 |-> IF n = m + 1 THEN x ELSE f[n]]
  <2>2. ASSUME NEW n \in 0 .. m + 1
        PROVE  g[n] = IF n = 0 THEN <<>>
                      ELSE IF audio[n] \in Voiced THEN Append(g[n - 1], audio[n]) ELSE g[n - 1]
    <3>1. CASE n = m + 1
      <4>1. g[n] = x /\ g[m] = f[m] /\ n # 0 /\ n - 1 = m
        BY <3>1
      <4> QED BY <3>1, <4>1, Zenon
    <3>2. CASE n # m + 1
      <4>1. n \in 0 .. m /\ g[n] = f[n]
        BY <3>2
      <4>2. f[n] = IF n = 0 THEN <<>>
                   ELSE IF audio[n] \in Voiced THEN Append(f[n - 1], audio[n]) ELSE f[n - 1]
        BY <2>1, <4>1 DEF RecognisedUpTo
      <4>3. n # 0 => g[n - 1] = f[n - 1]
        BY <4>1
      <4> QED BY <4>1, <4>2, <4>3, Zenon
    <3> QED BY <3>1, <3>2
  <2> HIDE DEF x
  <2>3. RecognisedUpTo(g, audio, m + 1)
    <3>1. g = [n \in 0 .. m + 1 |-> g[n]]
      OBVIOUS
    <3> HIDE DEF g
    <3> QED BY <2>2, <3>1, Zenon DEF RecognisedUpTo
  <2> QED BY <2>3
<1>3. Nat \subseteq T
  <2> HIDE DEF T
  <2> QED BY <1>1, <1>2, Induction
<1> QED BY <1>3

LEMMA RecognisedOneMore ==
  ASSUME NEW f, NEW audio, NEW m \in Nat, RecognisedUpTo(f, audio, m)
  PROVE  /\ f[0] = <<>>
         /\ \A i \in Nat : i + 1 <= m =>
              f[i + 1] = IF audio[i + 1] \in Voiced THEN Append(f[i], audio[i + 1]) ELSE f[i]
<1>1. f[0] = <<>>
  BY DEF RecognisedUpTo
<1>2. ASSUME NEW i \in Nat, i + 1 <= m
      PROVE  f[i + 1] = IF audio[i + 1] \in Voiced THEN Append(f[i], audio[i + 1]) ELSE f[i]
  <2>1. PICK n \in 0 .. m : n = i + 1 /\ n # 0 /\ n - 1 = i
    BY <1>2
  <2>2. f[n] = IF n = 0 THEN <<>>
               ELSE IF audio[n] \in Voiced THEN Append(f[n - 1], audio[n]) ELSE f[n - 1]
    BY DEF RecognisedUpTo
  <2> QED BY <2>1, <2>2, Zenon
<1> QED BY <1>1, <1>2

LEMMA RecognisedIs ==
  ASSUME NEW S, NEW audio \in Seq(S)
  PROVE  \E f : RecognisedUpTo(f, audio, Len(audio)) /\ Recognised(audio) = f[Len(audio)]
BY RecognisedExists DEF RecognisedUpTo, Recognised

LEMMA RecognisedNothing == Recognised(<<>>) = <<>>
<1>1. <<>> \in Seq({}) /\ Len(<<>>) = 0
  OBVIOUS
<1>2. PICK f : RecognisedUpTo(f, <<>>, 0) /\ Recognised(<<>>) = f[0]
  BY <1>1, RecognisedIs
<1> QED BY <1>2 DEF RecognisedUpTo

LEMMA RecognisedAppend ==
  ASSUME NEW S, NEW audio \in Seq(S), NEW x \in S
  PROVE  Recognised(Append(audio, x)) =
           IF x \in Voiced THEN Append(Recognised(audio), x) ELSE Recognised(audio)
<1> DEFINE more == Append(audio, x)
           m == Len(audio)
<1>1. more \in Seq(S) /\ Len(more) = m + 1 /\ m \in Nat
  OBVIOUS
<1>2. more[m + 1] = x /\ \A i \in 1 .. m : more[i] = audio[i]
  OBVIOUS
<1> HIDE DEF more
<1>3. PICK f : RecognisedUpTo(f, audio, m) /\ Recognised(audio) = f[m]
  BY RecognisedIs
<1>4. PICK g : RecognisedUpTo(g, more, m + 1) /\ Recognised(more) = g[m + 1]
  BY <1>1, RecognisedIs
<1> DEFINE T == {i \in Nat : i <= m => f[i] = g[i]}
<1>5. 0 \in T
  <2>1. m + 1 \in Nat /\ 0 \in Nat
    BY <1>1
  <2> QED BY <1>1, <1>3, <1>4, <2>1, RecognisedOneMore
<1>6. ASSUME NEW i \in Nat, i \in T
      PROVE  i + 1 \in T
  <2> SUFFICES ASSUME i + 1 <= m PROVE f[i + 1] = g[i + 1]
    OBVIOUS
  <2>1. f[i] = g[i] /\ i + 1 <= m /\ i + 1 <= m + 1 /\ m + 1 \in Nat
    BY <1>1, <1>6
  <2>2. more[i + 1] = audio[i + 1]
    BY <1>1, <1>2
  <2>3. f[i + 1] = IF audio[i + 1] \in Voiced THEN Append(f[i], audio[i + 1]) ELSE f[i]
    BY <1>1, <1>3, <2>1, RecognisedOneMore
  <2>4. g[i + 1] = IF more[i + 1] \in Voiced THEN Append(g[i], more[i + 1]) ELSE g[i]
    BY <1>4, <2>1, RecognisedOneMore
  <2>5. f[i] = g[i]
    BY <2>1
  <2> HIDE DEF T
  <2> QED BY <2>2, <2>3, <2>4, <2>5
<1>7. f[m] = g[m]
  <2>1. Nat \subseteq T
    <3> HIDE DEF T
    <3> QED BY <1>5, <1>6, Induction
  <2> QED BY <1>1, <2>1
<1>8. g[m + 1] = IF more[m + 1] \in Voiced THEN Append(g[m], more[m + 1]) ELSE g[m]
  <2>1. m + 1 \in Nat /\ m + 1 <= m + 1 /\ m \in Nat
    BY <1>1
  <2> HIDE DEF T
  <2> QED BY <1>4, <2>1, RecognisedOneMore
<1> QED BY <1>2, <1>3, <1>4, <1>7, <1>8, Zenon DEF more

LEMMA RecognisedType ==
  ASSUME NEW S, NEW audio \in Seq(S)
  PROVE  Recognised(audio) \in Seq(S)
<1> DEFINE P == {a \in Seq(S) : Recognised(a) \in Seq(S)}
<1>1. <<>> \in P
  <2>1. <<>> \in Seq(S)
    OBVIOUS
  <2> QED BY <2>1, RecognisedNothing
<1>2. ASSUME NEW a \in P, NEW x \in S
      PROVE  Append(a, x) \in P
  <2>1. a \in Seq(S) /\ Recognised(a) \in Seq(S)
    OBVIOUS
  <2>2. Append(a, x) \in Seq(S) /\ Append(Recognised(a), x) \in Seq(S)
    BY <2>1
  <2>3. Recognised(Append(a, x)) =
          IF x \in Voiced THEN Append(Recognised(a), x) ELSE Recognised(a)
    BY <2>1, RecognisedAppend
  <2>4. Recognised(Append(a, x)) \in Seq(S)
    BY <2>1, <2>2, <2>3, Zenon
  <2> QED BY <2>2, <2>4
<1>3. Seq(S) \subseteq P
  <2> HIDE DEF P
  <2> QED BY <1>1, <1>2, AppendInduction
<1> QED BY <1>3

LEMMA RecognisedJoin ==
  ASSUME NEW S, NEW a \in Seq(S), NEW b \in Seq(S)
  PROVE  Recognised(a \o b) = Recognised(a) \o Recognised(b)
<1> DEFINE P == {s \in Seq(S) : Recognised(a \o s) = Recognised(a) \o Recognised(s)}
<1>0. Recognised(a) \in Seq(S)
  BY RecognisedType
<1>1. <<>> \in P
  <2>1. a \o <<>> = a /\ Recognised(a) \o <<>> = Recognised(a)
    BY <1>0, ConcatEmptySeq
  <2>2. <<>> \in Seq(S)
    OBVIOUS
  <2> QED BY <2>1, <2>2, RecognisedNothing
<1>2. ASSUME NEW f \in P, NEW x \in S
      PROVE  Append(f, x) \in P
  <2>1. f \in Seq(S) /\ Recognised(a \o f) = Recognised(a) \o Recognised(f)
    OBVIOUS
  <2>2. a \o f \in Seq(S) /\ Recognised(f) \in Seq(S) /\ Append(f, x) \in Seq(S)
    BY <2>1, RecognisedType
  <2>3. a \o Append(f, x) = Append(a \o f, x)
    BY <2>1
  <2>4. Recognised(a) \o Append(Recognised(f), x) = Append(Recognised(a) \o Recognised(f), x)
    BY <1>0, <2>2
  <2>5. Recognised(Append(f, x)) =
          IF x \in Voiced THEN Append(Recognised(f), x) ELSE Recognised(f)
    BY <2>1, RecognisedAppend
  <2>6. Recognised(Append(a \o f, x)) =
          IF x \in Voiced THEN Append(Recognised(a \o f), x) ELSE Recognised(a \o f)
    BY <2>2, RecognisedAppend
  <2>7. Recognised(a \o Append(f, x)) = Recognised(a) \o Recognised(Append(f, x))
    BY <2>1, <2>3, <2>4, <2>5, <2>6, Zenon
  <2> QED BY <2>2, <2>7
<1>3. Seq(S) \subseteq P
  <2> HIDE DEF P
  <2> QED BY <1>1, <1>2, AppendInduction
<1> QED BY <1>3

-----------------------------------------------------------------------------
(***************************************************************************)
(* Types.                                                                  *)
(***************************************************************************)

LEMMA NewTaskType == NewTask \in ATask
BY DEF NewTask, ATask, Places, Audio

LEMMA MessageTypes ==
  /\ \A kind \in {"ready", "error", "close"} : Plain(kind) \in ToPage
  /\ \A kind \in {"partial", "final"}, id \in Nat, t \in Audio : Text(kind, id, t) \in ToPage
  /\ \A k \in 1 .. Chunks : Pcm(k) \in ToServer
  /\ End \in ToServer /\ Gone \in ToServer
  /\ NoPartial \in Segment
BY RecognitionAssumption DEF Plain, Text, NoPartial, ToPage, ToServer, Segment, Audio

(* What the page does to its recorders and sockets. *)
LEMMA DeviceTypes ==
  ASSUME TypeOK
  PROVE  /\ Stopped(recRef) \in [Conn -> Recs]
         /\ \A c \in Conn : c > last => Stopped(recRef)[c] = "none"
         /\ \A c \in Conn : Close(c) =>
              /\ sock' \in [Conn -> Sockets]
              /\ \A d \in Conn : d > last => sock'[d] = "none"
<1> USE RecognitionAssumption DEF TypeOK, Conn
<1>1. recRef # 0 => recRef \in Conn
  OBVIOUS
<1>2. Stopped(recRef) \in [Conn -> Recs]
  BY <1>1 DEF Stopped, Recs
<1>3. \A c \in Conn : c > last => Stopped(recRef)[c] = "none"
  BY <1>1 DEF Stopped, Recs
<1>4. ASSUME NEW c \in Conn, Close(c)
      PROVE  /\ sock' \in [Conn -> Sockets]
             /\ \A d \in Conn : d > last => sock'[d] = "none"
  BY <1>4 DEF Close, Sockets
<1> QED BY <1>2, <1>3, <1>4

(* A task goes on only where one was started. *)
LEMMA TaskTypes ==
  ASSUME TypeOK, NEW c \in Conn, NEW t \in ATask, srv[c].pc # "none" \/ c <= last, Task(c, t)
  PROVE  srv' \in [Conn -> ATask] /\ \A d \in Conn : d > last => srv'[d] = NewTask
<1> USE RecognitionAssumption DEF TypeOK, Conn
<1>1. ~(c > last)
  BY DEF NewTask
<1>2. srv' = [srv EXCEPT ![c] = t]
  BY DEF Task
<1> QED BY <1>1, <1>2

LEMMA AtTypes ==
  ASSUME TypeOK, NEW c \in Conn, NEW p \in Places, srv[c].pc # "none", At(c, p)
  PROVE  srv' \in [Conn -> ATask] /\ \A d \in Conn : d > last => srv'[d] = NewTask
<1>1. [srv[c] EXCEPT !.pc = p] \in ATask
  BY DEF TypeOK, ATask
<1> QED BY <1>1, TaskTypes DEF At

LEMMA EndsTypes ==
  ASSUME TypeOK, NEW c \in Conn, NEW h \in Hows, srv[c].pc # "none", Ends(c, h)
  PROVE  /\ srv' \in [Conn -> ATask] /\ \A d \in Conn : d > last => srv'[d] = NewTask
         /\ how' \in [Conn -> Hows]
<1>1. [NewTask EXCEPT !.pc = "ended"] \in ATask
  BY NewTaskType DEF ATask, Places
<1>2. how' \in [Conn -> Hows]
  BY DEF Ends, TypeOK
<1> QED BY <1>1, <1>2, TaskTypes DEF Ends

LEMMA PostTypes ==
  ASSUME TypeOK, NEW c \in Conn, NEW ms \in Seq(ToPage), Post(c, ms)
  PROVE  down' \in [Conn -> Seq(ToPage)]
<1>1. down[c] \o ms \in Seq(ToPage)
  BY DEF TypeOK
<1> QED BY <1>1 DEF Post, TypeOK

LEMMA OverTypes ==
  ASSUME TypeOK, NEW c \in Conn, sock[c] # "none", Over(c)
  PROVE  TypeOK'
<1> USE RecognitionAssumption DEF Conn
<1>1. sock' \in [Conn -> Sockets] /\ \A d \in Conn : d > last => sock'[d] = "none"
  BY DEF TypeOK, Over, Sockets
<1>2. down' \in [Conn -> Seq(ToPage)]
  BY DEF TypeOK, Over
<1>3. up' \in [Conn -> Seq(ToServer)]
  <2>1. PICK n \in 0 .. Len(up[c]) : up' = [up EXCEPT ![c] = Append(SubSeq(@, 1, n), Gone)]
    BY DEF Over
  <2>2. SubSeq(up[c], 1, n) \in Seq(ToServer)
    BY DEF TypeOK
  <2>3. Append(SubSeq(up[c], 1, n), Gone) \in Seq(ToServer)
    BY <2>2, MessageTypes
  <2> QED BY <2>1, <2>3 DEF TypeOK
<1>4. /\ rec' \in [Conn -> Recs] /\ \A d \in Conn : d > last => rec'[d] = "none"
      /\ page' \in Pages /\ wsRef' \in 0 .. last /\ recRef' \in 0 .. last
  <2>1. CASE wsRef = c
    <3>1. rec' = Stopped(recRef) /\ recRef' = 0 /\ wsRef' = 0 /\ page' = "idle"
      BY <2>1, Zenon DEF Over, OnClose
    <3>2. rec' \in [Conn -> Recs] /\ \A d \in Conn : d > last => rec'[d] = "none"
      BY <3>1, DeviceTypes, Zenon
    <3>3. 0 \in 0 .. last /\ "idle" \in Pages
      BY DEF TypeOK, Pages
    <3> QED BY <3>1, <3>2, <3>3, Zenon
  <2>2. CASE wsRef # c
    BY <2>2 DEF TypeOK, Over, OnClose
  <2> QED BY <2>1, <2>2
<1>5. UNCHANGED <<last, sent, shown, server>>
  BY DEF Over
<1> QED BY <1>1, <1>2, <1>3, <1>4, <1>5 DEF TypeOK, shown, server

LEMMA FlushedType ==
  ASSUME NEW t \in ATask, NEW p \in Places
  PROVE  Flushed(t, p) \in ATask
<1>1. Recognised(t.buf) \in Audio
  BY RecognisedType DEF ATask, Audio
<1>2. t.text \o Recognised(t.buf) \in Audio /\ t.cache \o t.buf \in Audio
  BY <1>1 DEF ATask, Audio
<1>3. <<>> \in Audio
  BY DEF Audio
<1> QED BY <1>2, <1>3 DEF Flushed, ATask

LEMMA NextSentenceType ==
  ASSUME NEW t \in ATask
  PROVE  NextSentence(t) \in ATask
<1>1. <<>> \in Audio
  BY DEF Audio
<1>2. t.id + 1 \in Nat /\ "receive" \in Places
  BY DEF ATask, Places
<1> QED BY <1>1, <1>2 DEF NextSentence, ATask

LEMMA CorrectionsType ==
  ASSUME NEW t \in ATask, NEW x \in Corrections(t)
  PROVE  x \in Audio
BY RecognisedType DEF Corrections, ATask, Audio

LEMMA Types == TypeOK /\ [Next]_vars => TypeOK'
<1> SUFFICES ASSUME TypeOK, [Next]_vars PROVE TypeOK'
  OBVIOUS
<1> USE RecognitionAssumption DEF Conn, browser, shown, server
<1>1. CASE Start
  <2>1. last + 1 \in Conn
    BY <1>1 DEF Start, TypeOK
  <2>2. sock' \in [Conn -> Sockets] /\ \A c \in Conn : c > last' => sock'[c] = "none"
    BY <1>1, <2>1 DEF Start, TypeOK, Sockets
  <2> QED BY <1>1, <2>1, <2>2, MessageTypes DEF Start, TypeOK, Pages
<1>2. CASE Cancel
  <2>1. wsRef = 0 \/ wsRef \in Conn
    BY DEF TypeOK
  <2>2. sock' \in [Conn -> Sockets] /\ \A d \in Conn : d > last => sock'[d] = "none"
    BY <1>2, <2>1, DeviceTypes DEF Cancel, Close, TypeOK
  <2> QED BY <1>2, <2>2 DEF Cancel, TypeOK, Pages
<1>3. CASE StopRecording
  <2>1. wsRef = 0 \/ wsRef \in Conn
    BY DEF TypeOK
  <2>2. sock' \in [Conn -> Sockets] /\ \A d \in Conn : d > last => sock'[d] = "none"
    BY <1>3, <2>1, DeviceTypes DEF StopRecording, Close, TypeOK
  <2>3. up' \in [Conn -> Seq(ToServer)]
    <3>1. CASE UNCHANGED up
      BY <3>1 DEF TypeOK
    <3>2. CASE up' = [up EXCEPT ![wsRef] = Append(@, End)]
      <4>1. CASE wsRef = 0
        <5> DEFINE x == Append(up[0], End)
        <5>1. up' = [up EXCEPT ![0] = x]
          BY <3>2, <4>1, Zenon
        <5>2. DOMAIN up = Conn /\ \A c \in Conn : c # 0 /\ up[c] \in Seq(ToServer)
          BY DEF TypeOK
        <5> HIDE DEF x
        <5>3. up' = [c \in Conn |-> IF c = 0 THEN x ELSE up[c]]
          BY <5>1, <5>2
        <5> QED BY <5>2, <5>3
      <4>2. CASE wsRef \in Conn
        <5>1. Append(up[wsRef], End) \in Seq(ToServer)
          BY <4>2, MessageTypes DEF TypeOK
        <5> QED BY <3>2, <5>1 DEF TypeOK
      <4> QED BY <2>1, <4>1, <4>2
    <3> QED BY <1>3, <3>1, <3>2 DEF StopRecording
  <2> QED BY <1>3, <2>2, <2>3, DeviceTypes, SMTT(30) DEF StopRecording, TypeOK, Pages
<1>4. ASSUME NEW c \in Conn, Socket(c)
      PROVE  TypeOK'
  <2>1. CASE Opens(c)
    <3>0. c <= last
      <4>1. sock[c] = "connecting"
        BY <2>1 DEF Opens
      <4> QED BY <4>1 DEF TypeOK
    <3>1. [srv[c] EXCEPT !.pc = "start"] \in ATask /\ c <= last
      BY <3>0, ZenonT(60) DEF TypeOK, ATask, Places
    <3>2. srv' \in [Conn -> ATask] /\ \A d \in Conn : d > last => srv'[d] = NewTask
      BY <2>1, <3>1 DEF Opens, TypeOK
    <3>3. sock' \in [Conn -> Sockets] /\ \A d \in Conn : d > last => sock'[d] = "none"
      BY <2>1, <3>1 DEF Opens, TypeOK, Sockets
    <3> QED BY <2>1, <3>2, <3>3 DEF Opens, TypeOK
  <2>2. CASE ConnectTimeout(c)
    BY <2>2, DeviceTypes DEF ConnectTimeout, TypeOK
  <2>3. CASE Closed(c)
    BY <2>3, OverTypes DEF Closed
  <2>4. CASE ConnectionLost(c)
    BY <2>4, OverTypes DEF ConnectionLost
  <2>5. CASE Deliver(c)
    <3> DEFINE m == Head(down[c])
    <3>0. down[c] # <<>> /\ sock[c] = "open" /\ down[c] \in Seq(ToPage)
      BY <2>5 DEF Deliver, TypeOK
    <3>1. m \in ToPage /\ Tail(down[c]) \in Seq(ToPage) /\ c <= last
      BY <3>0 DEF TypeOK
    <3>2. down' \in [Conn -> Seq(ToPage)]
      BY <2>5, <3>1 DEF Deliver, TypeOK
    <3>3. sock' \in [Conn -> Sockets] /\ \A d \in Conn : d > last => sock'[d] = "none"
      BY <2>5, <3>1 DEF Deliver, TypeOK, Sockets
    <3>4. rec' \in [Conn -> Recs] /\ \A d \in Conn : d > last => rec'[d] = "none"
      BY <2>5, <3>1 DEF Deliver, TypeOK, Recs
    <3>5. recRef' \in 0 .. last
      BY <2>5, <3>1 DEF Deliver, TypeOK
    <3>6. committed' \subseteq Segment
      <4>1. [id |-> m.id, text |-> m.text] \in Segment
        BY <3>1 DEF ToPage, Segment
      <4> QED BY <2>5, <4>1 DEF Deliver, TypeOK, Commit
    <3>7. partial' \in Segment
      <4>1. [id |-> m.id, text |-> m.text] \in Segment
        BY <3>1 DEF ToPage, Segment
      <4> QED BY <2>5, <4>1, MessageTypes DEF Deliver, TypeOK
    <3> QED BY <2>5, <3>2, <3>3, <3>4, <3>5, <3>6, <3>7 DEF Deliver, TypeOK
  <2> QED BY <1>4, <2>1, <2>2, <2>3, <2>4, <2>5 DEF Socket
<1>5. ASSUME NEW c \in Conn, Microphone(c)
      PROVE  TypeOK'
  <2>0. c <= last
    BY <1>5 DEF Microphone, MicGranted, MicStarted, MicFails, Speaks, TypeOK
  <2>1. CASE MicGranted(c)
    BY <2>0, <2>1 DEF MicGranted, TypeOK, Recs
  <2>2. CASE MicStarted(c)
    <3>1. rec' \in [Conn -> Recs] /\ \A d \in Conn : d > last => rec'[d] = "none"
      BY <2>0, <2>2 DEF MicStarted, TypeOK, Recs
    <3>2. recRef' \in 0 .. last /\ page' \in Pages
      BY <2>2, SMTT(30) DEF MicStarted, TypeOK, Pages
    <3> QED BY <2>2, <3>1, <3>2 DEF MicStarted, TypeOK
  <2>3. CASE MicFails(c)
    <3>1. rec' \in [Conn -> Recs] /\ \A d \in Conn : d > last => rec'[d] = "none"
      BY <2>0, <2>3 DEF MicFails, TypeOK, Recs
    <3>2. sock' \in [Conn -> Sockets] /\ \A d \in Conn : d > last => sock'[d] = "none"
      BY <2>3, DeviceTypes DEF MicFails, TypeOK
    <3> QED BY <2>3, <3>1, <3>2 DEF MicFails, TypeOK
  <2>4. CASE Speaks(c)
    <3>1. sent[c] + 1 \in 1 .. Chunks
      BY <2>4 DEF Speaks, TypeOK
    <3>2. Append(up[c], Pcm(sent[c] + 1)) \in Seq(ToServer)
      BY <3>1, MessageTypes DEF TypeOK
    <3>3. up' \in [Conn -> Seq(ToServer)]
      BY <2>4, <3>2 DEF Speaks, TypeOK
    <3> QED BY <2>4, <3>1, <3>3 DEF Speaks, TypeOK
  <2> QED BY <1>5, <2>1, <2>2, <2>3, <2>4 DEF Microphone
<1>6. ASSUME NEW c \in Conn, Server(c)
      PROVE  TypeOK'
  <2> DEFINE Rest == /\ srv' \in [Conn -> ATask] /\ how' \in [Conn -> Hows]
                     /\ \A d \in Conn : d > last => srv'[d] = NewTask
                     /\ up' \in [Conn -> Seq(ToServer)] /\ down' \in [Conn -> Seq(ToPage)]
  <2>0. srv[c].pc # "none" /\ srv[c] \in ATask
    BY <1>6 DEF Server, SendFails, BadStart, Started, Ready, SlotGranted, SlotTimeout,
       EngineFails, Finishes, Receive, Flush, SendPartial, SendFinal, FlushTail, SendTail, TypeOK
  <2>a. ASSUME UNCHANGED <<browser, shown>>, Rest
        PROVE  TypeOK'
    BY <2>a DEF TypeOK
  <2>b. <<Plain("error"), Plain("close")>> \in Seq(ToPage) /\ <<Plain("close")>> \in Seq(ToPage)
        /\ <<Plain("ready")>> \in Seq(ToPage)
    BY MessageTypes
  <2>c. \A p \in {"ready", "slot", "receive", "partial", "final", "tailfinal", "close"} :
          p \in Places
    BY DEF Places
  <2>d. \A h \in {"bad_request", "busy", "error", "disconnected", "ok"} : h \in Hows
    BY DEF Hows
  <2>e. ASSUME NEW h \in Hows, Refuse(c, h), UNCHANGED up
        PROVE  Rest
    BY <2>0, <2>b, <2>e, PostTypes, EndsTypes DEF Refuse, TypeOK
  <2> USE <2>0, <2>c, <2>d
  <2>1. CASE SendFails(c)
    BY <2>1, <2>a, EndsTypes DEF SendFails, TypeOK
  <2>2. CASE BadStart(c)
    BY <2>2, <2>a, <2>e DEF BadStart
  <2>3. CASE Started(c)
    BY <2>3, <2>a, AtTypes DEF Started, TypeOK
  <2>4. CASE Ready(c)
    BY <2>4, <2>a, <2>b, AtTypes, PostTypes DEF Ready, TypeOK
  <2>5. CASE SlotGranted(c)
    BY <2>5, <2>a, AtTypes DEF SlotGranted, TypeOK
  <2>6. CASE SlotTimeout(c)
    BY <2>6, <2>a, <2>e DEF SlotTimeout
  <2>7. CASE EngineFails(c)
    BY <2>7, <2>a, <2>e DEF EngineFails
  <2>8. CASE Finishes(c)
    BY <2>8, <2>a, <2>b, EndsTypes, PostTypes DEF Finishes, CloseDown, TypeOK
  <2>9. CASE Receive(c)
    <3> DEFINE m == Head(up[c])
               t == srv[c]
               buf == Append(t.buf, m.k)
               seg == Append(t.seg, m.k)
               heard == [t EXCEPT !.buf = buf, !.seg = seg,
                                  !.pc = IF Len(buf) < Window THEN "receive" ELSE "flush"]
               over == [t EXCEPT !.gone = (m.kind = "disconnect"),
                                 !.pc = IF Unfinished(t) THEN "tail" ELSE "close"]
    <3>1. m \in ToServer /\ Tail(up[c]) \in Seq(ToServer)
      BY <2>9 DEF Receive, TypeOK
    <3>2. up' \in [Conn -> Seq(ToServer)]
      BY <2>9, <3>1 DEF Receive, TypeOK
    <3>3. over \in ATask
      BY DEF ATask, Places
    <3>4. IsAudio(m) => heard \in ATask
      <4>1. IsAudio(m) => m.k \in 1 .. Chunks
        BY <3>1 DEF IsAudio, ToServer, Pcm, End, Gone
      <4>2. IsAudio(m) => buf \in Audio /\ seg \in Audio
        BY <4>1 DEF ATask, Audio
      <4> HIDE DEF buf, seg
      <4> QED BY <4>2 DEF ATask, Places
    <3>5. Task(c, IF IsAudio(m) THEN heard ELSE over)
      BY <2>9 DEF Receive
    <3> HIDE DEF heard, over
    <3>6. srv' \in [Conn -> ATask] /\ \A d \in Conn : d > last => srv'[d] = NewTask
      BY <3>3, <3>4, <3>5, TaskTypes, Zenon
    <3> QED BY <2>9, <2>a, <3>2, <3>6 DEF Receive, TypeOK
  <2>10. CASE Flush(c)
    <3>1. Flushed(srv[c], "partial") \in ATask
      BY FlushedType
    <3> QED BY <2>10, <2>a, <3>1, TaskTypes DEF Flush, TypeOK
  <2>11. CASE SendPartial(c)
    <3>1. <<Text("partial", srv[c].id, srv[c].text)>> \in Seq(ToPage)
      BY MessageTypes DEF ATask
    <3> QED BY <2>11, <2>a, <3>1, AtTypes, PostTypes DEF SendPartial, TypeOK
  <2>12. CASE SendFinal(c)
    <3>1. PICK x \in Corrections(srv[c]) : Post(c, <<Text("final", srv[c].id, x)>>)
      BY <2>12 DEF SendFinal
    <3>2. <<Text("final", srv[c].id, x)>> \in Seq(ToPage)
      BY MessageTypes, CorrectionsType DEF ATask
    <3> QED BY <2>12, <2>a, <3>1, <3>2, TaskTypes, NextSentenceType, PostTypes
            DEF SendFinal, TypeOK
  <2>13. CASE FlushTail(c)
    <3>1. Flushed(srv[c], "tailfinal") \in ATask
      BY FlushedType
    <3> QED BY <2>13, <2>a, <3>1, TaskTypes DEF FlushTail, TypeOK
  <2>14. CASE SendTail(c)
    <3>1. PICK x \in Corrections(srv[c]) :
             IF x = <<>> THEN UNCHANGED down ELSE Post(c, <<Text("final", srv[c].id, x)>>)
      BY <2>14 DEF SendTail
    <3>2. <<Text("final", srv[c].id, x)>> \in Seq(ToPage)
      BY MessageTypes, CorrectionsType DEF ATask
    <3> QED BY <2>14, <2>a, <3>1, <3>2, AtTypes, PostTypes DEF SendTail, TypeOK
  <2> QED BY <1>6, <2>1, <2>2, <2>3, <2>4, <2>5, <2>6, <2>7, <2>8, <2>9, <2>10, <2>11, <2>12,
             <2>13, <2>14 DEF Server
<1>7. CASE UNCHANGED vars
  BY <1>7 DEF TypeOK, vars
<1> QED BY <1>1, <1>2, <1>3, <1>4, <1>5, <1>6, <1>7 DEF Next, Button

(* Every variable keeps its type, whatever the bounds and the window. *)
THEOREM TypeCorrect == Spec => []TypeOK
<1>1. Init => TypeOK
  BY RecognitionAssumption, MessageTypes, NewTaskType
     DEF Init, TypeOK, Conn, Pages, Sockets, Recs, Hows
<1> QED BY <1>1, Types, PTL DEF Spec

-----------------------------------------------------------------------------
(***************************************************************************)
(* Who touches what.                                                       *)
(***************************************************************************)

Same(d) ==
  /\ sock'[d] = sock[d] /\ sent'[d] = sent[d] /\ up'[d] = up[d] /\ down'[d] = down[d]
  /\ srv'[d] = srv[d] /\ how'[d] = how[d]

(* A step of one connection leaves the other connections alone. *)
LEMMA StepsAreLocal ==
  ASSUME TypeOK, NEW c \in Conn, Socket(c) \/ Microphone(c) \/ Server(c)
  PROVE  last' = last /\ \A d \in Conn \ {c} : Same(d)
<1> USE DEF Same, browser, shown, server, TypeOK, Close, Task, Ends, Post, At
<1> SUFFICES ASSUME NEW d \in Conn \ {c} PROVE last' = last /\ Same(d)
  <2> QED BY DEF Socket, Opens, ConnectTimeout, Closed, ConnectionLost, Over, Deliver,
         Microphone, MicGranted, MicStarted, MicFails, Speaks,
         Server, SendFails, BadStart, Started, Ready, SlotGranted, SlotTimeout, EngineFails,
         Refuse, Finishes, Receive, Flush, SendPartial, SendFinal, FlushTail, SendTail
<1>1. CASE Socket(c)
  BY <1>1 DEF Socket, Opens, ConnectTimeout, Closed, ConnectionLost, Over, Deliver
<1>2. CASE Microphone(c)
  BY <1>2 DEF Microphone, MicGranted, MicStarted, MicFails, Speaks
<1>3. CASE Server(c)
  BY <1>3 DEF Server, SendFails, BadStart, Started, Ready, SlotGranted, SlotTimeout,
     EngineFails, Refuse, Finishes, CloseDown, Receive, Flush, SendPartial, SendFinal,
     FlushTail, SendTail
<1> QED BY <1>1, <1>2, <1>3

(* The server leaves the browser alone, and works only while its task runs. *)
LEMMA ServerWorks ==
  ASSUME NEW c \in Conn, Server(c)
  PROVE  UNCHANGED <<browser, shown>> /\ srv[c].pc \notin {"none", "ended"}
BY DEF Server, SendFails, BadStart, Started, Ready, SlotGranted, SlotTimeout,
   EngineFails, Refuse, Finishes, CloseDown, Receive, Flush, SendPartial, SendFinal,
   FlushTail, SendTail, browser, shown

-----------------------------------------------------------------------------
(***************************************************************************)
(* Sockets: the page has at most one that is not closing, and what was not *)
(* opened was not used.                                                    *)
(***************************************************************************)

Untouched(c) ==
  /\ srv[c] = NewTask /\ how[c] = "none" /\ rec[c] = "none"
  /\ up[c] = <<>> /\ down[c] = <<>> /\ sent[c] = 0

SocketInv ==
  /\ wsRef \in {0, last}
  /\ page # "idle" => wsRef # 0
  /\ recRef # 0 => rec[recRef] # "none"
  /\ \A c \in Conn :
       /\ sock[c] \in {"connecting", "open"} => wsRef = c /\ page # "idle"
       /\ sock[c] \in {"none", "connecting"} => Untouched(c)
       /\ sock[c] = "connecting" => committed = {} /\ partial = NoPartial

LEMMA SocketStep == TypeOK /\ SocketInv /\ [Next]_vars => SocketInv'
<1> SUFFICES ASSUME TypeOK, SocketInv, [Next]_vars PROVE SocketInv'
  OBVIOUS
<1> USE RecognitionAssumption DEF Conn, browser, shown, server
<1>a. wsRef \in 0 .. Starts /\ recRef \in 0 .. Starts /\ last \in 0 .. Starts
  BY DEF TypeOK
<1>1. CASE Start
  <2>1. last + 1 \in Conn /\ last + 1 > last
    BY <1>1 DEF Start, TypeOK
  <2>2. Untouched(last + 1)
    BY <2>1 DEF SocketInv, TypeOK
  <2>3. \A c \in Conn : Untouched(c) => Untouched(c)'
    BY <1>1 DEF Start, Untouched
  <2>4. \A c \in Conn : sock'[c] = IF c = last + 1 THEN "connecting" ELSE sock[c]
    BY <1>1, <2>1 DEF Start, TypeOK
  <2>5. \A c \in Conn : sock[c] \notin {"connecting", "open"}
    BY <1>1 DEF Start, SocketInv
  <2>6. wsRef' \in {0, last'} /\ wsRef' # 0 /\ (recRef' # 0 => rec'[recRef'] # "none")
    BY <1>1, <1>a DEF Start, SocketInv
  <2>7. wsRef' = last + 1 /\ page' = "connecting" /\ committed' = {} /\ partial' = NoPartial
    BY <1>1 DEF Start
  <2> QED BY <2>2, <2>3, <2>4, <2>5, <2>6, <2>7 DEF SocketInv
<1>2. CASE Cancel
  <2>1. wsRef \in Conn
    BY <1>2, <1>a DEF Cancel, SocketInv
  <2>2. \A c \in Conn : sock'[c] = IF c = wsRef /\ sock[c] \in {"connecting", "open"}
                                     THEN "closing" ELSE sock[c]
    BY <1>2, <2>1 DEF Cancel, Close, TypeOK
  <2>3. \A c \in Conn : Untouched(c) => Untouched(c)'
    BY <1>2 DEF Cancel, Untouched
  <2>4. \A c \in Conn : sock'[c] \notin {"connecting", "open"}
    BY <2>2 DEF SocketInv
  <2>5. UNCHANGED <<wsRef, recRef, rec, last>> /\ page' = "idle"
    BY <1>2 DEF Cancel
  <2> QED BY <2>2, <2>3, <2>4, <2>5 DEF SocketInv
<1>3. CASE StopRecording
  <2>1. wsRef \in Conn
    BY <1>3, <1>a DEF StopRecording, SocketInv
  <2>2. \A c \in Conn : sock'[c] = IF c = wsRef /\ sock[c] = "connecting"
                                     THEN "closing" ELSE sock[c]
    BY <1>3, <2>1 DEF StopRecording, Close, TypeOK
  <2>3. \A c \in Conn : sock[c] # "open" => up'[c] = up[c]
    BY <1>3, <2>1 DEF StopRecording, TypeOK
  <2>4. \A c \in Conn : rec[c] = "none" => rec'[c] = "none"
    BY <1>3, <1>a DEF StopRecording, Stopped, TypeOK, SocketInv
  <2>5. \A c \in Conn : Untouched(c) /\ sock[c] # "open" => Untouched(c)'
    BY <1>3, <2>3, <2>4 DEF StopRecording, Untouched
  <2>6. UNCHANGED <<wsRef, last, shown>> /\ page' = "finalizing" /\ recRef' = 0
    BY <1>3 DEF StopRecording
  <2>7. page # "idle"
    BY <1>3 DEF StopRecording
  <2> QED BY <2>1, <2>2, <2>5, <2>6, <2>7 DEF SocketInv
<1>4. ASSUME NEW c \in Conn, Socket(c)
      PROVE  SocketInv'
  <2>0. last' = last /\ \A d \in Conn \ {c} : Same(d)
    BY <1>4, StepsAreLocal
  <2>1. CASE Opens(c)
    <3>1. \A d \in Conn \ {c} : Untouched(d) => Untouched(d)'
      BY <2>0, <2>1 DEF Opens, Same, Untouched
    <3>2. sock'[c] = "open" /\ sock[c] = "connecting"
      BY <2>1 DEF Opens, TypeOK
    <3> QED BY <2>0, <2>1, <3>1, <3>2 DEF Opens, SocketInv, Same
  <2>2. CASE ConnectTimeout(c)
    <3>1. \A d \in Conn \ {c} : Untouched(d) => Untouched(d)'
      BY <2>0, <2>2 DEF ConnectTimeout, Same, Untouched
    <3>2. sock'[c] = "closing"
      BY <2>2 DEF ConnectTimeout, Close, TypeOK
    <3> QED BY <2>0, <2>2, <3>1, <3>2 DEF ConnectTimeout, SocketInv, Same
  <2>3. ASSUME Over(c), sock[c] \in {"connecting", "open", "closing"}
        PROVE  SocketInv'
    <3>1. sock'[c] = "closed"
      BY <2>3 DEF Over, TypeOK
    <3>2. \A d \in Conn : rec[d] = "none" => rec'[d] = "none"
      BY <2>3, <1>a DEF Over, OnClose, Stopped, TypeOK, SocketInv
    <3>3. \A d \in Conn \ {c} : Untouched(d) => Untouched(d)'
      BY <2>0, <3>2 DEF Same, Untouched
    <3>4. CASE wsRef = c
      <4>1. wsRef' = 0 /\ recRef' = 0 /\ page' = "idle"
        BY <2>3, <3>4, Zenon DEF Over, OnClose
      <4>2. \A d \in Conn \ {c} : sock[d] \notin {"connecting", "open"}
        BY <3>4 DEF SocketInv
      <4> QED BY <2>0, <3>1, <3>3, <4>1, <4>2 DEF SocketInv, Same
    <3>5. CASE wsRef # c
      <4>1. UNCHANGED <<page, wsRef, recRef, rec, shown>>
        BY <2>3, <3>5 DEF Over, OnClose
      <4> QED BY <2>0, <3>1, <3>3, <4>1 DEF SocketInv, Same
    <3> QED BY <3>4, <3>5
  <2>4. CASE Closed(c) \/ ConnectionLost(c)
    BY <2>3, <2>4 DEF Closed, ConnectionLost
  <2>5. CASE Deliver(c)
    <3>1. sock[c] = "open" /\ sock'[c] \in {"open", "closing"} /\ UNCHANGED <<page, wsRef>>
      BY <2>5 DEF Deliver, TypeOK
    <3>2. \A d \in Conn \ {c} : rec'[d] = rec[d]
      BY <2>5 DEF Deliver, TypeOK
    <3>3. \A d \in Conn \ {c} : Untouched(d) => Untouched(d)'
      BY <2>0, <3>2 DEF Same, Untouched
    <3>4. recRef' # 0 => rec'[recRef'] # "none"
      BY <2>5, <1>a DEF Deliver, SocketInv, TypeOK
    <3>5. \A d \in Conn \ {c} : sock[d] # "connecting"
      BY <3>1 DEF SocketInv
    <3> QED BY <2>0, <3>1, <3>3, <3>4, <3>5 DEF SocketInv, Same
  <2> QED BY <1>4, <2>1, <2>2, <2>4, <2>5 DEF Socket
<1>5. ASSUME NEW c \in Conn, Microphone(c)
      PROVE  SocketInv'
  <2>0. last' = last /\ \A d \in Conn \ {c} : Same(d)
    BY <1>5, StepsAreLocal
  <2>1. rec[c] # "none" /\ rec'[c] # "none" /\ \A d \in Conn \ {c} : rec'[d] = rec[d]
    BY <1>5 DEF Microphone, MicGranted, MicStarted, MicFails, Speaks, TypeOK
  <2>2. \A d \in Conn \ {c} : Untouched(d) => Untouched(d)'
    BY <2>0, <2>1 DEF Same, Untouched
  <2>3. sock[c] \notin {"none", "connecting"}
    BY <2>1 DEF SocketInv, Untouched
  <2>4. sock'[c] = sock[c] \/ sock'[c] = "closing"
    BY <1>5 DEF Microphone, MicGranted, MicStarted, MicFails, Speaks, Close, TypeOK
  <2>5. UNCHANGED <<wsRef, shown>> /\ recRef' \in {recRef, 0}
    BY <1>5 DEF Microphone, MicGranted, MicStarted, MicFails, Speaks
  <2>6. page' = page \/ (page' = "recording" /\ wsRef = c)
    BY <1>5 DEF Microphone, MicGranted, MicStarted, MicFails, Speaks, Kept
  <2>7. recRef' # 0 => rec'[recRef'] # "none"
    BY <2>1, <2>5, <1>a DEF SocketInv
  <2> QED BY <2>0, <2>1, <2>2, <2>3, <2>4, <2>5, <2>6, <2>7 DEF SocketInv, Same
<1>6. ASSUME NEW c \in Conn, Server(c)
      PROVE  SocketInv'
  <2>0. last' = last /\ \A d \in Conn \ {c} : Same(d)
    BY <1>6, StepsAreLocal
  <2>1. UNCHANGED <<browser, shown>> /\ srv[c].pc # "none"
    BY <1>6, ServerWorks
  <2>2. \A d \in Conn : Untouched(d) => Untouched(d)'
    BY <2>0, <2>1 DEF Same, Untouched, NewTask
  <2> QED BY <2>1, <2>2 DEF SocketInv
<1>7. CASE UNCHANGED vars
  BY <1>7 DEF SocketInv, Untouched, vars
<1> QED BY <1>1, <1>2, <1>3, <1>4, <1>5, <1>6, <1>7 DEF Next, Button

-----------------------------------------------------------------------------
(***************************************************************************)
(* The microphone: it is asked for once in a connection, by the ready.     *)
(***************************************************************************)

Before == {"none", "start", "ready"}

ReadyInv ==
  \A c \in Conn :
    /\ srv[c].pc \in Before => rec[c] = "none" /\ down[c] = <<>>
    /\ \A i \in DOMAIN down[c] : down[c][i].kind = "ready" => i = 1 /\ rec[c] = "none"

(* What the server of a connection adds to what goes to its page. *)
LEMMA ServerPosts ==
  ASSUME TypeOK, NEW c \in Conn, Server(c)
  PROVE  \/ down'[c] = down[c]
         \/ \E ms \in Seq(ToPage) :
              /\ down'[c] = down[c] \o ms
              /\ \A i \in DOMAIN ms : ms[i].kind = "ready" =>
                   srv[c].pc = "ready" /\ ms = <<Plain("ready")>>
              /\ \A i \in DOMAIN ms : ms[i].kind = "close" => i = Len(ms) /\ srv'[c].pc = "ended"
<1> DEFINE Added(ms) == down'[c] = down[c] \/ down'[c] = down[c] \o ms
           Goal == \/ down'[c] = down[c]
                   \/ \E ms \in Seq(ToPage) :
                        /\ down'[c] = down[c] \o ms
                        /\ \A i \in DOMAIN ms : ms[i].kind = "ready" =>
                             srv[c].pc = "ready" /\ ms = <<Plain("ready")>>
                        /\ \A i \in DOMAIN ms : ms[i].kind = "close" =>
                             i = Len(ms) /\ srv'[c].pc = "ended"
<1>0. ASSUME NEW ms \in Seq(ToPage), Added(ms),
             \A i \in DOMAIN ms : ms[i].kind # "ready",
             \A i \in DOMAIN ms : ms[i].kind = "close" => i = Len(ms) /\ srv'[c].pc = "ended"
      PROVE  Goal
  BY <1>0
<1>e. ASSUME NEW h, Ends(c, h)
      PROVE  srv'[c].pc = "ended"
  BY <1>e DEF Ends, Task, TypeOK, NewTask
<1>1. \A ms \in Seq(ToPage) : Post(c, ms) => Added(ms)
  BY DEF Post, TypeOK
<1>2. <<Plain("error"), Plain("close")>> \in Seq(ToPage) /\ <<Plain("close")>> \in Seq(ToPage)
      /\ <<Plain("ready")>> \in Seq(ToPage)
  BY MessageTypes
<1>3. \A x \in Corrections(srv[c]) \cup {srv[c].text} :
        /\ <<Text("final", srv[c].id, x)>> \in Seq(ToPage)
        /\ <<Text("partial", srv[c].id, x)>> \in Seq(ToPage)
  <2>1. srv[c] \in ATask /\ srv[c].id \in Nat /\ srv[c].text \in Audio
    BY DEF TypeOK, ATask
  <2> QED BY <2>1, MessageTypes, CorrectionsType
<1> HIDE DEF Added, Goal
<1> SUFFICES Goal
  BY DEF Goal
<1>4. CASE Ready(c)
  <2>1. Added(<<Plain("ready")>>) /\ srv[c].pc = "ready"
    BY <1>1, <1>2, <1>4 DEF Ready
  <2>2. \A i \in DOMAIN <<Plain("ready")>> : <<Plain("ready")>>[i].kind # "close"
    BY DEF Plain
  <2> QED BY <1>2, <2>1, <2>2 DEF Added, Goal
<1>5. CASE SendPartial(c)
  <2>1. Added(<<Text("partial", srv[c].id, srv[c].text)>>)
    BY <1>1, <1>3, <1>5 DEF SendPartial
  <2>2. \A i \in DOMAIN <<Text("partial", srv[c].id, srv[c].text)>> :
          <<Text("partial", srv[c].id, srv[c].text)>>[i].kind \notin {"ready", "close"}
    BY DEF Text
  <2> QED BY <1>0, <1>3, <2>1, <2>2
<1>6. CASE SendFinal(c) \/ SendTail(c)
  <2>1. PICK x \in Corrections(srv[c]) : down' = down \/ Added(<<Text("final", srv[c].id, x)>>)
    BY <1>1, <1>3, <1>6 DEF SendFinal, SendTail
  <2>2. \A i \in DOMAIN <<Text("final", srv[c].id, x)>> :
          <<Text("final", srv[c].id, x)>>[i].kind \notin {"ready", "close"}
    BY DEF Text
  <2>3. CASE down' = down
    BY <2>3 DEF Goal
  <2> QED BY <1>0, <1>3, <2>1, <2>2, <2>3
<1>7. CASE \/ BadStart(c) \/ SlotTimeout(c) \/ EngineFails(c)
  <2>1. Added(<<Plain("error"), Plain("close")>>)
    BY <1>1, <1>2, <1>7 DEF BadStart, SlotTimeout, EngineFails, Refuse
  <2>2. \A i \in DOMAIN <<Plain("error"), Plain("close")>> :
          /\ <<Plain("error"), Plain("close")>>[i].kind # "ready"
          /\ <<Plain("error"), Plain("close")>>[i].kind = "close" => i = 2
    BY DEF Plain
  <2>3. srv'[c].pc = "ended" /\ Len(<<Plain("error"), Plain("close")>>) = 2
    BY <1>e, <1>7 DEF BadStart, SlotTimeout, EngineFails, Refuse
  <2> QED BY <1>0, <1>2, <2>1, <2>2, <2>3
<1>8. CASE Finishes(c)
  <2>1. down' = down \/ Added(<<Plain("close")>>)
    BY <1>1, <1>2, <1>8 DEF Finishes, CloseDown
  <2>2. \A i \in DOMAIN <<Plain("close")>> : <<Plain("close")>>[i].kind # "ready" /\ i = 1
    BY DEF Plain
  <2>4. srv'[c].pc = "ended" /\ Len(<<Plain("close")>>) = 1
    BY <1>e, <1>8 DEF Finishes
  <2>3. CASE down' = down
    BY <2>3 DEF Goal
  <2> QED BY <1>0, <1>2, <2>1, <2>2, <2>3, <2>4
<1>9. CASE \/ SendFails(c) \/ Started(c) \/ SlotGranted(c) \/ Receive(c) \/ Flush(c) \/ FlushTail(c)
  BY <1>9 DEF SendFails, Started, SlotGranted, Receive, Flush, FlushTail, Goal
<1> QED BY <1>4, <1>5, <1>6, <1>7, <1>8, <1>9 DEF Server

LEMMA ServerLeaves ==
  ASSUME TypeOK, NEW c \in Conn, Server(c)
  PROVE  srv'[c].pc \in Before => srv'[c].pc = "ready" /\ srv[c].pc = "start" /\ down' = down
<1> USE DEF Before, Task, At, Ends, TypeOK, ATask
<1>1. CASE SendFails(c)
  BY <1>1 DEF SendFails, NewTask
<1>2. CASE BadStart(c) \/ SlotTimeout(c) \/ EngineFails(c)
  BY <1>2 DEF BadStart, SlotTimeout, EngineFails, Refuse, NewTask
<1>3. CASE Started(c)
  BY <1>3 DEF Started
<1>4. CASE Ready(c) \/ SlotGranted(c) \/ SendPartial(c) \/ SendTail(c)
  BY <1>4 DEF Ready, SlotGranted, SendPartial, SendTail
<1>5. CASE Finishes(c)
  BY <1>5 DEF Finishes, NewTask
<1>6. CASE Receive(c)
  BY <1>6 DEF Receive
<1>7. CASE Flush(c) \/ FlushTail(c)
  <2>1. \A p \in {"partial", "tailfinal"} : Flushed(srv[c], p).pc = p
    BY DEF Flushed
  <2>2. \E p \in {"partial", "tailfinal"} : srv' = [srv EXCEPT ![c] = Flushed(srv[c], p)]
    BY <1>7 DEF Flush, FlushTail
  <2> QED BY <2>1, <2>2
<1>8. CASE SendFinal(c)
  BY <1>8 DEF SendFinal, NextSentence
<1> QED BY <1>1, <1>2, <1>3, <1>4, <1>5, <1>6, <1>7, <1>8 DEF Server

LEMMA ReadyStep == TypeOK /\ SocketInv /\ ReadyInv /\ [Next]_vars => ReadyInv'
<1> SUFFICES ASSUME TypeOK, SocketInv, ReadyInv, [Next]_vars PROVE ReadyInv'
  OBVIOUS
<1> USE RecognitionAssumption DEF Conn, browser, shown, server
<1>a. recRef \in 0 .. Starts
  BY DEF TypeOK
<1>1. CASE Start \/ Cancel
  BY <1>1 DEF Start, Cancel, ReadyInv
<1>2. CASE StopRecording
  <2>1. \A c \in Conn : rec[c] = "none" => rec'[c] = "none"
    BY <1>2, <1>a DEF StopRecording, Stopped, TypeOK, SocketInv
  <2> QED BY <1>2, <2>1 DEF StopRecording, ReadyInv
<1>3. ASSUME NEW c \in Conn, Socket(c)
      PROVE  ReadyInv'
  <2>0. last' = last /\ \A d \in Conn \ {c} : Same(d)
    BY <1>3, StepsAreLocal
  <2>1. CASE Opens(c)
    <3>1. Untouched(c)
      BY <2>1 DEF Opens, SocketInv
    <3> QED BY <2>0, <2>1, <3>1 DEF Opens, ReadyInv, Same, Untouched
  <2>2. CASE ConnectTimeout(c)
    BY <2>2 DEF ConnectTimeout, ReadyInv
  <2>3. CASE Closed(c) \/ ConnectionLost(c)
    <3>1. \A d \in Conn : rec[d] = "none" => rec'[d] = "none"
      BY <2>3, <1>a DEF Closed, ConnectionLost, Over, OnClose, Stopped, TypeOK, SocketInv
    <3>2. down'[c] = <<>> /\ srv' = srv
      BY <2>3 DEF Closed, ConnectionLost, Over, TypeOK
    <3> QED BY <2>0, <3>1, <3>2 DEF ReadyInv, Same
  <2>4. CASE Deliver(c)
    <3>1. down[c] \in Seq(ToPage) /\ down[c] # <<>> /\ down'[c] = Tail(down[c]) /\ srv' = srv
      BY <2>4 DEF Deliver, TypeOK
    <3>2. \A d \in Conn \ {c} : rec'[d] = rec[d]
      BY <2>4 DEF Deliver, TypeOK
    <3>3. \A i \in DOMAIN down'[c] : down'[c][i].kind # "ready"
      <4>1. \A i \in DOMAIN down'[c] : i + 1 \in DOMAIN down[c] /\ i + 1 # 1
                                       /\ down'[c][i] = down[c][i + 1]
        BY <3>1
      <4> QED BY <4>1 DEF ReadyInv
    <3>4. srv[c].pc \notin Before
      BY <3>1 DEF ReadyInv
    <3> QED BY <2>0, <3>1, <3>2, <3>3, <3>4, ZenonT(60) DEF ReadyInv, Same
  <2> QED BY <1>3, <2>1, <2>2, <2>3, <2>4 DEF Socket
<1>4. ASSUME NEW c \in Conn, Microphone(c)
      PROVE  ReadyInv'
  <2>1. rec[c] # "none" /\ (\A d \in Conn \ {c} : rec'[d] = rec[d]) /\ UNCHANGED <<down, srv>>
    BY <1>4 DEF Microphone, MicGranted, MicStarted, MicFails, Speaks, TypeOK
  <2> QED BY <2>1 DEF ReadyInv
<1>5. ASSUME NEW c \in Conn, Server(c)
      PROVE  ReadyInv'
  <2>0. \A d \in Conn \ {c} : Same(d)
    BY <1>5, StepsAreLocal
  <2>1. UNCHANGED rec
    BY <1>5, ServerWorks
  <2>2. \A d \in Conn \ {c} : /\ srv'[d].pc \in Before => rec'[d] = "none" /\ down'[d] = <<>>
                              /\ \A i \in DOMAIN down'[d] : down'[d][i].kind = "ready" => i = 1 /\ rec'[d] = "none"
    BY <2>0, <2>1 DEF Same, ReadyInv
  <2>3. srv'[c].pc \in Before => rec'[c] = "none" /\ down'[c] = <<>>
    BY <1>5, <2>1, ServerLeaves DEF ReadyInv, Before
  <2>4. \A i \in DOMAIN down'[c] : down'[c][i].kind = "ready" => i = 1 /\ rec'[c] = "none"
    <3>1. CASE down'[c] = down[c]
      BY <2>1, <3>1 DEF ReadyInv
    <3>2. ASSUME NEW ms \in Seq(ToPage), down'[c] = down[c] \o ms,
                 \A i \in DOMAIN ms : ms[i].kind = "ready" =>
                   srv[c].pc = "ready" /\ ms = <<Plain("ready")>>,
                 NEW i \in DOMAIN down'[c], down'[c][i].kind = "ready"
          PROVE  i = 1 /\ rec[c] = "none"
      <4>1. down[c] \in Seq(ToPage) /\ Len(down[c]) \in Nat /\ Len(ms) \in Nat
        BY DEF TypeOK
      <4>2. i \in 1 .. Len(down[c]) + Len(ms)
        BY <3>2, <4>1
      <4>3. CASE i <= Len(down[c])
        <5>1. i \in DOMAIN down[c] /\ down'[c][i] = down[c][i]
          BY <3>2, <4>1, <4>2, <4>3
        <5> QED BY <3>2, <5>1 DEF ReadyInv
      <4>4. CASE i > Len(down[c])
        <5>1. i - Len(down[c]) \in DOMAIN ms /\ down'[c][i] = ms[i - Len(down[c])]
          BY <3>2, <4>1, <4>2, <4>4
        <5>2. srv[c].pc = "ready" /\ ms = <<Plain("ready")>>
          BY <3>2, <5>1
        <5>3. rec[c] = "none" /\ down[c] = <<>>
          BY <5>2 DEF ReadyInv, Before
        <5>4. i = 1
          BY <4>2, <5>2, <5>3
        <5> QED BY <5>3, <5>4
      <4> QED BY <4>1, <4>2, <4>3, <4>4
    <3> QED BY <1>5, <2>1, <3>1, <3>2, ServerPosts
  <2> QED BY <2>2, <2>3, <2>4 DEF ReadyInv
<1>6. CASE UNCHANGED vars
  BY <1>6 DEF ReadyInv, vars
<1> QED BY <1>1, <1>2, <1>3, <1>4, <1>5, <1>6 DEF Next, Button

MicInv ==
  /\ page = "recording" => rec[wsRef] = "on"
  /\ page = "finalizing" => rec[wsRef] = "off"
  /\ \A c \in Conn :
       /\ rec[c] = "on" => page = "recording" /\ wsRef = c /\ recRef = c
       /\ rec[c] \in {"asked", "starting"} /\ wsRef = c => recRef = c

LEMMA MicStep == TypeOK /\ SocketInv /\ ReadyInv /\ MicInv /\ [Next]_vars => MicInv'
<1> SUFFICES ASSUME TypeOK, SocketInv, ReadyInv, MicInv, [Next]_vars PROVE MicInv'
  OBVIOUS
<1> USE RecognitionAssumption DEF Conn, browser, shown, server
<1>a. wsRef \in 0 .. Starts /\ recRef \in 0 .. Starts /\ last \in 0 .. Starts
  BY DEF TypeOK
<1>1. CASE Start
  <2>1. \A c \in Conn : rec[c] # "on"
    BY <1>1 DEF Start, MicInv
  <2>2. last + 1 \in Conn /\ rec[last + 1] = "none"
    BY <1>1, <1>a DEF Start, TypeOK
  <2>3. page' = "connecting" /\ wsRef' = last + 1 /\ rec' = rec
    BY <1>1 DEF Start
  <2> QED BY <2>1, <2>2, <2>3 DEF MicInv
<1>2. CASE Cancel
  BY <1>2 DEF Cancel, MicInv
<1>3. CASE StopRecording
  <2>1. wsRef \in Conn /\ recRef = wsRef /\ rec[wsRef] = "on"
    BY <1>3, <1>a DEF StopRecording, SocketInv, MicInv
  <2>2. rec' = [rec EXCEPT ![wsRef] = "off"]
    BY <1>3, <2>1 DEF StopRecording, Stopped
  <2>3. \A c \in Conn : rec'[c] = IF c = wsRef THEN "off" ELSE rec[c]
    BY <2>2 DEF TypeOK
  <2>4. page' = "finalizing" /\ wsRef' = wsRef
    BY <1>3 DEF StopRecording
  <2> QED BY <2>1, <2>3, <2>4 DEF MicInv
<1>4. ASSUME NEW c \in Conn, Socket(c)
      PROVE  MicInv'
  <2>1. CASE Opens(c) \/ ConnectTimeout(c)
    BY <2>1 DEF Opens, ConnectTimeout, MicInv
  <2>2. CASE Closed(c) \/ ConnectionLost(c)
    <3>1. CASE wsRef = c
      <4>1. rec' = Stopped(recRef) /\ wsRef' = 0 /\ page' = "idle"
        BY <2>2, <3>1 DEF Closed, ConnectionLost, Over, OnClose
      <4>2. \A d \in Conn : rec'[d] # "on"
        <5>1. CASE recRef = 0
          BY <4>1, <5>1 DEF Stopped, MicInv
        <5>2. CASE recRef \in Conn
          BY <4>1, <5>2 DEF Stopped, MicInv, TypeOK
        <5> QED BY <5>1, <5>2, <1>a
      <4> QED BY <4>1, <4>2 DEF MicInv
    <3>2. CASE wsRef # c
      BY <2>2, <3>2 DEF Closed, ConnectionLost, Over, OnClose, MicInv
    <3> QED BY <3>1, <3>2
  <2>3. CASE Deliver(c)
    <3>1. CASE Head(down[c]).kind = "ready" /\ wsRef = c
      <4>1. rec[c] = "none"
        <5>1. 1 \in DOMAIN down[c] /\ Head(down[c]) = down[c][1]
          BY <2>3 DEF Deliver, TypeOK
        <5> QED BY <3>1, <5>1 DEF ReadyInv
      <4>2. rec' = [rec EXCEPT ![c] = "asked"] /\ recRef' = c /\ UNCHANGED <<page, wsRef>>
        BY <2>3, <3>1 DEF Deliver
      <4>3. rec'[c] = "asked" /\ \A d \in Conn \ {c} : rec'[d] = rec[d]
        BY <4>2 DEF TypeOK
      <4> QED BY <3>1, <4>1, <4>2, <4>3 DEF MicInv
    <3>2. CASE ~(Head(down[c]).kind = "ready" /\ wsRef = c)
      BY <2>3, <3>2 DEF Deliver, MicInv
    <3> QED BY <3>1, <3>2
  <2> QED BY <1>4, <2>1, <2>2, <2>3 DEF Socket
<1>5. ASSUME NEW c \in Conn, Microphone(c)
      PROVE  MicInv'
  <2>1. CASE Speaks(c)
    BY <2>1 DEF Speaks, MicInv
  <2>2. CASE MicGranted(c)
    <3>1. rec'[c] = "starting" /\ \A d \in Conn \ {c} : rec'[d] = rec[d]
      BY <2>2 DEF MicGranted, TypeOK
    <3> QED BY <2>2, <3>1, <1>a DEF MicGranted, MicInv, SocketInv
  <2>3. CASE MicStarted(c) /\ Kept(c)
    <3>1. rec'[c] = "on" /\ \A d \in Conn \ {c} : rec'[d] = rec[d]
      BY <2>3 DEF MicStarted, TypeOK
    <3>2. wsRef = c /\ recRef = c /\ UNCHANGED <<wsRef, recRef>> /\ page' = "recording"
      BY <2>3 DEF MicStarted, Kept, MicInv
    <3> QED BY <3>1, <3>2 DEF MicInv
  <2>4. CASE MicStarted(c) /\ ~Kept(c)
    <3>1. rec'[c] = "off" /\ \A d \in Conn \ {c} : rec'[d] = rec[d]
      BY <2>4 DEF MicStarted, TypeOK
    <3>2. UNCHANGED <<wsRef, page>> /\ recRef' = IF recRef = c THEN 0 ELSE recRef
      BY <2>4 DEF MicStarted
    <3>3. rec[c] = "starting"
      BY <2>4 DEF MicStarted
    <3> QED BY <3>1, <3>2, <3>3, <1>a DEF MicInv, SocketInv
  <2>5. CASE MicFails(c)
    <3>1. rec'[c] \in {"off", "abandoned"} /\ \A d \in Conn \ {c} : rec'[d] = rec[d]
      BY <2>5 DEF MicFails, TypeOK
    <3>2. UNCHANGED <<wsRef, page, recRef>> /\ rec[c] \in {"asked", "starting"}
      BY <2>5 DEF MicFails
    <3> QED BY <3>1, <3>2, <1>a DEF MicInv, SocketInv
  <2> QED BY <1>5, <2>1, <2>2, <2>3, <2>4, <2>5 DEF Microphone
<1>6. ASSUME NEW c \in Conn, Server(c)
      PROVE  MicInv'
  BY <1>6, ServerWorks DEF MicInv
<1>7. CASE UNCHANGED vars
  BY <1>7 DEF MicInv, vars
<1> QED BY <1>1, <1>2, <1>3, <1>4, <1>5, <1>6, <1>7 DEF Next, Button

PageInv == TypeOK /\ SocketInv /\ ReadyInv /\ MicInv

LEMMA PageHolds == Spec => []PageInv
<1>1. Init => PageInv
  <2> SUFFICES ASSUME Init PROVE PageInv
    OBVIOUS
  <2>1. TypeOK
    BY RecognitionAssumption, MessageTypes, NewTaskType
       DEF Init, TypeOK, Conn, Pages, Sockets, Recs, Hows
  <2>2. SocketInv /\ ReadyInv /\ MicInv
    BY DEF Init, SocketInv, Untouched, ReadyInv, MicInv, Before, NewTask, Conn
  <2> QED BY <2>1, <2>2 DEF PageInv
<1>2. PageInv /\ [Next]_vars => PageInv'
  BY Types, SocketStep, ReadyStep, MicStep DEF PageInv
<1> QED BY <1>1, <1>2, PTL DEF Spec

(* A recorder runs only for the connection the page holds, and while the    *)
(* page shows that it records, however late a permission is granted, and    *)
(* whatever was cancelled, lost or started anew in the meantime.            *)
THEOREM MicrophoneScoped == Spec => []MicScoped
<1>1. PageInv => MicScoped
  BY DEF PageInv, MicInv, MicScoped
<1> QED BY <1>1, PageHolds, PTL

-----------------------------------------------------------------------------
(***************************************************************************)
(* The server's task: the sentence it is in, and what its models have had  *)
(* of it.                                                                  *)
(***************************************************************************)

TaskInv(t) ==
  /\ t.cache \o t.buf = t.seg /\ t.text = Recognised(t.cache)
  /\ t.pc \in {"partial", "final", "tailfinal", "close"} => t.buf = <<>>
  /\ t.pc \in {"flush", "partial", "final", "tail", "tailfinal"} => t.seg # <<>>
  /\ t.pc \in {"none", "start", "ready", "slot", "ended"} =>
       t.id = 0 /\ t.seg = <<>> /\ t.text = <<>>

Closing == {"tail", "tailfinal", "close"}

ServerInv ==
  \A c \in Conn :
    /\ TaskInv(srv[c])
    /\ how[c] # "none" => srv[c].pc = "ended"
    /\ srv[c].gone => srv[c].pc \in Closing /\ sock[c] = "closed"
    /\ \A i \in DOMAIN up[c] : up[c][i] = Gone => sock[c] = "closed"

LEMMA NewTaskInv == TaskInv(NewTask) /\ TaskInv([NewTask EXCEPT !.pc = "ended"])
<1>1. <<>> \o <<>> = <<>>
  OBVIOUS
<1> QED BY <1>1, RecognisedNothing DEF TaskInv, NewTask

LEMMA FlushedInv ==
  ASSUME NEW t \in ATask, TaskInv(t), NEW p \in {"partial", "tailfinal"}, t.seg # <<>>
  PROVE  TaskInv(Flushed(t, p))
<1> DEFINE u == Flushed(t, p)
<1>0. t.cache \in Audio /\ t.buf \in Audio /\ t.seg \in Audio
  BY DEF ATask
<1>1. /\ u.cache = t.cache \o t.buf /\ u.buf = <<>> /\ u.seg = t.seg /\ u.id = t.id
      /\ u.text = t.text \o Recognised(t.buf) /\ u.pc = p
  BY DEF Flushed, ATask
<1>2. u.text = Recognised(u.cache)
  <2>1. Recognised(t.cache \o t.buf) = Recognised(t.cache) \o Recognised(t.buf)
    BY <1>0, RecognisedJoin DEF Audio
  <2> QED BY <1>1, <2>1 DEF TaskInv
<1>3. u.cache \o u.buf = u.seg
  <2>1. (t.cache \o t.buf) \o <<>> = t.cache \o t.buf
    BY <1>0, ConcatEmptySeq DEF Audio
  <2> QED BY <1>1, <2>1 DEF TaskInv
<1> HIDE DEF u
<1>4. TaskInv(u)
  BY <1>1, <1>2, <1>3 DEF TaskInv
<1> QED BY <1>4 DEF u

LEMMA ReceivedInv ==
  ASSUME NEW t \in ATask, TaskInv(t), NEW k \in 1 .. Chunks, NEW p \in {"receive", "flush"}
  PROVE  TaskInv([t EXCEPT !.buf = Append(@, k), !.seg = Append(@, k), !.pc = p])
<1> DEFINE u == [t EXCEPT !.buf = Append(@, k), !.seg = Append(@, k), !.pc = p]
<1>0. t.cache \in Audio /\ t.buf \in Audio /\ t.seg \in Audio
  BY DEF ATask
<1>1. /\ u.cache = t.cache /\ u.text = t.text /\ u.pc = p /\ u.id = t.id
      /\ u.buf = Append(t.buf, k) /\ u.seg = Append(t.seg, k)
  BY DEF ATask
<1>2. \A a, b \in Seq(1 .. Chunks) : a \o Append(b, k) = Append(a \o b, k)
  OBVIOUS
<1>d. t.cache \o Append(t.buf, k) = Append(t.cache \o t.buf, k)
  BY <1>0, <1>2 DEF Audio
<1>3. Append(t.seg, k) # <<>>
  BY <1>0 DEF Audio
<1> HIDE DEF u
<1>4. TaskInv(u)
  BY <1>1, <1>d, <1>3 DEF TaskInv
<1> QED BY <1>4 DEF u

(* The task goes on with the same sentence. *)
LEMMA MovedInv ==
  ASSUME NEW t \in ATask, NEW u \in ATask, TaskInv(t),
         u.cache = t.cache, u.text = t.text, u.buf = t.buf, u.seg = t.seg, u.id = t.id,
         u.pc \in {"partial", "final", "tailfinal", "close"} => t.buf = <<>>,
         u.pc \in {"flush", "partial", "final", "tail", "tailfinal"} => t.seg # <<>>,
         u.pc \in {"none", "start", "ready", "slot", "ended"} =>
           t.pc \in {"none", "start", "ready", "slot", "ended"}
  PROVE  TaskInv(u)
BY DEF TaskInv

LEMMA NextSentenceInv ==
  ASSUME NEW t \in ATask, TaskInv(t), t.pc = "final"
  PROVE  TaskInv(NextSentence(t))
<1> DEFINE u == NextSentence(t)
<1>1. /\ u.cache = <<>> /\ u.text = <<>> /\ u.seg = <<>> /\ u.buf = t.buf /\ u.pc = "receive"
  BY DEF NextSentence, ATask
<1>2. t.buf = <<>> /\ <<>> \o <<>> = <<>>
  BY DEF TaskInv
<1> HIDE DEF u
<1>3. TaskInv(u)
  BY <1>1, <1>2, RecognisedNothing DEF TaskInv
<1> QED BY <1>3 DEF u

LEMMA ServerTaskStep ==
  ASSUME TypeOK, ServerInv, NEW c \in Conn, Server(c)
  PROVE  TaskInv(srv'[c])
<1> DEFINE t == srv[c]
<1>0. t \in ATask /\ TaskInv(t) /\ \A u : Task(c, u) => srv'[c] = u
  BY DEF TypeOK, ServerInv, Task
<1>a. ASSUME NEW h, Ends(c, h)
      PROVE  TaskInv(srv'[c])
  BY <1>0, <1>a, NewTaskInv DEF Ends
<1>b. ASSUME NEW p \in Places, At(c, p),
             p \in {"partial", "final", "tailfinal", "close"} => t.buf = <<>>,
             p \in {"flush", "partial", "final", "tail", "tailfinal"} => t.seg # <<>>,
             p \in {"none", "start", "ready", "slot", "ended"} =>
               t.pc \in {"none", "start", "ready", "slot", "ended"}
      PROVE  TaskInv(srv'[c])
  <2> DEFINE u == [t EXCEPT !.pc = p]
  <2>1. srv'[c] = u
    BY <1>0, <1>b DEF At
  <2>2. u \in ATask /\ u.cache = t.cache /\ u.text = t.text /\ u.buf = t.buf /\ u.seg = t.seg
        /\ u.id = t.id /\ u.pc = p
    BY <1>0 DEF ATask
  <2> HIDE DEF u, t
  <2>3. TaskInv(u)
    BY <1>0, <1>b, <2>2, MovedInv
  <2> QED BY <2>1, <2>3
<1>p. \A p \in {"ready", "slot", "receive", "final", "close"} : p \in Places
  BY DEF Places
<1>1. CASE SendFails(c)
  BY <1>1, <1>a DEF SendFails
<1>2. CASE BadStart(c) \/ SlotTimeout(c) \/ EngineFails(c)
  BY <1>2, <1>a DEF BadStart, SlotTimeout, EngineFails, Refuse
<1>3. CASE Finishes(c)
  BY <1>3, <1>a DEF Finishes
<1>4. CASE Started(c) \/ Ready(c) \/ SlotGranted(c)
  BY <1>4, <1>b, <1>p DEF Started, Ready, SlotGranted
<1>5. CASE SendPartial(c)
  <2>1. t.buf = <<>> /\ t.seg # <<>>
    BY <1>0, <1>5 DEF SendPartial, TaskInv
  <2> QED BY <1>5, <1>b, <1>p, <2>1 DEF SendPartial
<1>6. CASE SendTail(c)
  <2>1. t.buf = <<>>
    BY <1>0, <1>6 DEF SendTail, TaskInv
  <2> QED BY <1>6, <1>b, <1>p, <2>1 DEF SendTail
<1>7. CASE Flush(c) \/ FlushTail(c)
  <2>1. t.seg # <<>>
    BY <1>0, <1>7 DEF Flush, FlushTail, TaskInv
  <2>2. \E p \in {"partial", "tailfinal"} : srv'[c] = Flushed(t, p)
    BY <1>0, <1>7 DEF Flush, FlushTail
  <2> QED BY <1>0, <2>1, <2>2, FlushedInv
<1>8. CASE SendFinal(c)
  <2>1. srv'[c] = NextSentence(t) /\ t.pc = "final"
    BY <1>0, <1>8 DEF SendFinal
  <2> QED BY <1>0, <2>1, NextSentenceInv
<1>9. CASE Receive(c)
  <2> DEFINE m == Head(up[c])
             buf == Append(t.buf, m.k)
             p == IF Len(buf) < Window THEN "receive" ELSE "flush"
             q == IF Unfinished(t) THEN "tail" ELSE "close"
  <2>0. m \in ToServer /\ t.pc = "receive"
    BY <1>9 DEF Receive, TypeOK
  <2>1. CASE IsAudio(m)
    <3>1. srv'[c] = [t EXCEPT !.buf = Append(@, m.k), !.seg = Append(@, m.k), !.pc = p]
      BY <1>0, <1>9, <2>1 DEF Receive
    <3>2. m.k \in 1 .. Chunks
      BY <2>0, <2>1 DEF IsAudio, ToServer, Pcm, End, Gone
    <3>3. p \in {"receive", "flush"}
      OBVIOUS
    <3> HIDE DEF p, t, m
    <3>4. TaskInv([t EXCEPT !.buf = Append(@, m.k), !.seg = Append(@, m.k), !.pc = p])
      BY <1>0, <3>2, <3>3, ReceivedInv
    <3> QED BY <3>1, <3>4, Zenon
  <2>2. CASE ~IsAudio(m)
    <3> DEFINE u == [t EXCEPT !.gone = (m.kind = "disconnect"), !.pc = q]
    <3>1. srv'[c] = u
      BY <1>0, <1>9, <2>2 DEF Receive
    <3>2. u \in ATask /\ u.cache = t.cache /\ u.text = t.text /\ u.buf = t.buf
          /\ u.seg = t.seg /\ u.id = t.id /\ u.pc = q
      BY <1>0 DEF ATask, Places
    <3>3. q = "tail" => t.seg # <<>>
      <4>1. t.cache \o t.buf = t.seg /\ t.cache \in Audio /\ t.buf \in Audio
        BY <1>0 DEF TaskInv, ATask
      <4>2. t.seg = <<>> => t.buf = <<>>
        BY <4>1, ConcatEqualIffEmpty DEF Audio
      <4> QED BY <4>2 DEF Unfinished
    <3>4. q = "close" => t.buf = <<>>
      BY DEF Unfinished
    <3>5. q \in {"tail", "close"}
      OBVIOUS
    <3> HIDE DEF u, t, q
    <3>6. TaskInv(u)
      BY <1>0, <3>2, <3>3, <3>4, <3>5, MovedInv
    <3> QED BY <3>1, <3>6
  <2> QED BY <2>1, <2>2
<1> QED BY <1>1, <1>2, <1>3, <1>4, <1>5, <1>6, <1>7, <1>8, <1>9 DEF Server

(* How the flags of a task move with its place. *)
LEMMA ServerEnds ==
  ASSUME TypeOK, NEW c \in Conn, Server(c)
  PROVE  /\ how'[c] # how[c] => srv'[c].pc = "ended"
         /\ how'[c] = "ok" /\ how[c] # "ok" => srv[c].pc = "close" /\ ~srv[c].gone
         /\ srv'[c].pc = "ended" => ~srv'[c].gone
         /\ srv'[c].gone => srv[c].gone \/ (Receive(c) /\ Head(up[c]).kind = "disconnect")
         /\ srv[c].gone /\ srv[c].pc \in Closing => srv'[c].pc \in Closing \cup {"ended"}
         /\ Receive(c) /\ srv'[c].gone /\ ~srv[c].gone => srv'[c].pc \in Closing
         /\ srv'[c].pc \in Closing /\ ~srv'[c].gone =>
              \/ srv[c].pc \in Closing /\ ~srv[c].gone
              \/ Receive(c) /\ Head(up[c]).kind = "end"
         /\ ~Receive(c) => up' = up
         /\ Receive(c) => up[c] # <<>> /\ up'[c] = Tail(up[c])
<1> DEFINE t == srv[c]
           u == srv'[c]
<1>0. t \in ATask /\ (Receive(c) => t.pc = "receive")
  BY DEF TypeOK, Receive
<1>a. ASSUME NEW h, Ends(c, h), UNCHANGED up, t.pc # "receive",
             h = "ok" => t.pc = "close" /\ ~t.gone
      PROVE  /\ u.pc = "ended" /\ ~u.gone /\ ~Receive(c) /\ up' = up
             /\ how'[c] = "ok" => t.pc = "close" /\ ~t.gone
  <2>1. u = [NewTask EXCEPT !.pc = "ended"] /\ how'[c] = h
    BY <1>a DEF Ends, Task, TypeOK
  <2> QED BY <1>0, <1>a, <2>1 DEF NewTask
<1>b. ASSUME NEW p \in Places \ {"ended"}, u.pc = p, u.gone = t.gone, UNCHANGED <<up, how>>, t.pc # "receive",
             p \in Closing <=> t.pc \in Closing
      PROVE  /\ how' = how /\ up' = up /\ ~Receive(c) /\ u.gone = t.gone /\ u.pc # "ended"
             /\ u.pc \in Closing <=> t.pc \in Closing
  BY <1>0, <1>b
<1>c. ASSUME NEW p, At(c, p)
      PROVE  u.pc = p /\ u.gone = t.gone
  BY <1>0, <1>c DEF At, Task, TypeOK, ATask
<1>p. "ready" \in Places /\ "slot" \in Places /\ "receive" \in Places /\ "final" \in Places
      /\ "close" \in Places /\ "partial" \in Places /\ "tailfinal" \in Places
  BY DEF Places
<1>1. CASE SendFails(c)
  <2>1. Ends(c, "disconnected") /\ UNCHANGED up /\ t.pc # "receive"
    BY <1>1 DEF SendFails
  <2> HIDE DEF t, u
  <2>2. u.pc = "ended" /\ ~u.gone /\ ~Receive(c) /\ up' = up /\ how'[c] # "ok"
    BY <1>a, <2>1 DEF Ends, TypeOK
  <2> QED BY <2>2 DEF t, u, Closing
<1>2. CASE BadStart(c) \/ SlotTimeout(c) \/ EngineFails(c)
  <2>1. /\ \E h \in {"bad_request", "busy", "error"} : Ends(c, h)
        /\ UNCHANGED up /\ t.pc # "receive"
    BY <1>2 DEF BadStart, SlotTimeout, EngineFails, Refuse
  <2> HIDE DEF t, u
  <2>2. u.pc = "ended" /\ ~u.gone /\ ~Receive(c) /\ up' = up /\ how'[c] # "ok"
    BY <1>a, <2>1 DEF Ends, TypeOK
  <2> QED BY <2>2 DEF t, u, Closing
<1>3. CASE Finishes(c)
  <2>1. /\ \E h \in {"disconnected", "ok"} : Ends(c, h) /\ (h = "ok" => t.pc = "close" /\ ~t.gone)
        /\ UNCHANGED up /\ t.pc = "close"
    BY <1>3 DEF Finishes
  <2> HIDE DEF t, u
  <2>2. /\ u.pc = "ended" /\ ~u.gone /\ ~Receive(c) /\ up' = up
        /\ how'[c] = "ok" => t.pc = "close" /\ ~t.gone
    BY <1>a, <2>1
  <2> QED BY <2>2 DEF t, u, Closing
<1> DEFINE Moved == /\ how' = how /\ up' = up /\ ~Receive(c) /\ u.gone = t.gone
                    /\ u.pc # "ended" /\ (u.pc \in Closing <=> t.pc \in Closing)
<1>4. ASSUME \/ Started(c) \/ Ready(c) \/ SlotGranted(c) \/ SendPartial(c) \/ SendTail(c)
             \/ Flush(c) \/ FlushTail(c) \/ SendFinal(c)
      PROVE  Moved
  <2>1. CASE Started(c)
    BY <1>b, <1>c, <1>p, <2>1 DEF Started, Closing
  <2>2. CASE Ready(c)
    BY <1>b, <1>c, <1>p, <2>2 DEF Ready, Closing
  <2>3. CASE SlotGranted(c)
    BY <1>b, <1>c, <1>p, <2>3 DEF SlotGranted, Closing
  <2>4. CASE SendPartial(c)
    <3>1. (u.pc = "final" \/ u.pc = "receive") /\ u.gone = t.gone
      BY <1>c, <2>4 DEF SendPartial
    <3> QED BY <1>b, <1>p, <2>4, <3>1 DEF SendPartial, Closing
  <2>5. CASE SendTail(c)
    BY <1>b, <1>c, <1>p, <2>5 DEF SendTail, Closing
  <2>6. CASE Flush(c)
    <3>1. u = Flushed(t, "partial")
      BY <2>6 DEF Flush, Task, TypeOK
    <3>2. u.pc = "partial" /\ u.gone = t.gone
      BY <1>0, <3>1 DEF Flushed, ATask
    <3> QED BY <1>b, <1>p, <2>6, <3>2 DEF Flush, Closing
  <2>7. CASE FlushTail(c)
    <3>1. u = Flushed(t, "tailfinal")
      BY <2>7 DEF FlushTail, Task, TypeOK
    <3>2. u.pc = "tailfinal" /\ u.gone = t.gone
      BY <1>0, <3>1 DEF Flushed, ATask
    <3> QED BY <1>b, <1>p, <2>7, <3>2 DEF FlushTail, Closing
  <2>8. CASE SendFinal(c)
    <3>1. u = NextSentence(t)
      BY <2>8 DEF SendFinal, Task, TypeOK
    <3>2. u.pc = "receive" /\ u.gone = t.gone
      BY <1>0, <3>1 DEF NextSentence, ATask
    <3> QED BY <1>b, <1>p, <2>8, <3>2 DEF SendFinal, Closing
  <2> QED BY <1>4, <2>1, <2>2, <2>3, <2>4, <2>5, <2>6, <2>7, <2>8
<1>5. ASSUME Moved
      PROVE  /\ how'[c] # how[c] => FALSE
             /\ u.pc # "ended" /\ ~Receive(c) /\ up' = up
             /\ u.gone => t.gone
             /\ t.gone /\ t.pc \in Closing => u.pc \in Closing
             /\ u.pc \in Closing /\ ~u.gone => t.pc \in Closing /\ ~t.gone
  BY <1>5
<1>9. CASE Receive(c)
  <2> DEFINE m == Head(up[c])
  <2>1. m \in ToServer /\ up[c] # <<>> /\ up'[c] = Tail(up[c]) /\ t.pc = "receive" /\ how' = how
    BY <1>9 DEF Receive, TypeOK
  <2>2. IsAudio(m) => u.pc \in {"receive", "flush"} /\ u.gone = t.gone
    BY <1>0, <1>9 DEF Receive, Task, TypeOK, ATask
  <2>3. ~IsAudio(m) => u.pc \in {"tail", "close"} /\ u.gone = (m.kind = "disconnect")
    BY <1>0, <1>9 DEF Receive, Task, TypeOK, ATask
  <2>4. m.kind \in {"pcm", "end", "disconnect"} /\ (IsAudio(m) <=> m.kind = "pcm")
    BY <2>1 DEF IsAudio, ToServer, Pcm, End, Gone
  <2> HIDE DEF t, u, m
  <2>5. /\ how' = how /\ up[c] # <<>> /\ up'[c] = Tail(up[c]) /\ u.pc # "ended"
        /\ u.gone => t.gone \/ m.kind = "disconnect"
        /\ t.pc \notin Closing
        /\ u.pc \in Closing /\ ~u.gone => m.kind = "end"
        /\ u.gone /\ ~t.gone => u.pc \in Closing
    BY <2>1, <2>2, <2>3, <2>4 DEF Closing
  <2> QED BY <1>9, <2>5 DEF t, u, m
<1> HIDE DEF Moved
<1> QED BY <1>1, <1>2, <1>3, <1>4, <1>5, <1>9 DEF Server

LEMMA ServerStep == TypeOK /\ SocketInv /\ ServerInv /\ [Next]_vars => ServerInv'
<1> SUFFICES ASSUME TypeOK, SocketInv, ServerInv, [Next]_vars PROVE ServerInv'
  OBVIOUS
<1> USE RecognitionAssumption DEF Conn, browser, shown, server
<1>1. CASE Start
  <2>1. \A c \in Conn : sock[c] = "closed" => sock'[c] = "closed"
    <3>1. sock[last + 1] = "none"
      BY <1>1 DEF Start, TypeOK
    <3> QED BY <1>1, <3>1 DEF Start, TypeOK
  <2> QED BY <1>1, <2>1 DEF Start, ServerInv
<1>2. CASE Cancel
  <2>1. \A c \in Conn : sock[c] = "closed" => sock'[c] = "closed"
    BY <1>2 DEF Cancel, Close, TypeOK
  <2> QED BY <1>2, <2>1 DEF Cancel, ServerInv
<1>3. CASE StopRecording
  <2>1. \A c \in Conn : sock[c] = "closed" => sock'[c] = "closed"
    BY <1>3 DEF StopRecording, Close, TypeOK
  <2>2. \A c \in Conn : up'[c] = up[c] \/ up'[c] = Append(up[c], End)
    BY <1>3 DEF StopRecording, TypeOK
  <2>3. \A c \in Conn : \A i \in DOMAIN up'[c] : up'[c][i] = Gone => i \in DOMAIN up[c] /\ up[c][i] = Gone
    <3> SUFFICES ASSUME NEW c \in Conn, up'[c] = Append(up[c], End), NEW i \in DOMAIN up'[c], up'[c][i] = Gone
                 PROVE  i \in DOMAIN up[c] /\ up[c][i] = Gone
      BY <2>2
    <3>1. up[c] \in Seq(ToServer) /\ End # Gone
      BY DEF TypeOK, End, Gone
    <3> QED BY <3>1, AppendProperties, MessageTypes
  <2> QED BY <1>3, <2>1, <2>3 DEF StopRecording, ServerInv
<1>4. ASSUME NEW c \in Conn, Socket(c)
      PROVE  ServerInv'
  <2>0. \A d \in Conn \ {c} : Same(d)
    BY <1>4, StepsAreLocal
  <2>1. CASE Opens(c)
    <3>1. Untouched(c)
      BY <2>1 DEF Opens, SocketInv
    <3>2. srv'[c] = [NewTask EXCEPT !.pc = "start"] /\ up' = up /\ how' = how
      BY <2>1, <3>1 DEF Opens, Untouched, TypeOK
    <3>3. TaskInv([NewTask EXCEPT !.pc = "start"])
      BY NewTaskInv DEF NewTask, TaskInv
    <3> QED BY <2>0, <3>1, <3>2, <3>3 DEF ServerInv, Same, Untouched, NewTask
  <2>2. CASE ConnectTimeout(c)
    <3>1. \A d \in Conn : sock[d] = "closed" => sock'[d] = "closed"
      BY <2>2 DEF ConnectTimeout, Close, TypeOK
    <3> QED BY <2>2, <3>1 DEF ConnectTimeout, ServerInv
  <2>3. CASE Closed(c) \/ ConnectionLost(c)
    <3>1. sock'[c] = "closed" /\ UNCHANGED <<srv, how>>
      BY <2>3 DEF Closed, ConnectionLost, Over, TypeOK
    <3> QED BY <2>0, <3>1 DEF ServerInv, Same
  <2>4. CASE Deliver(c)
    <3>1. sock[c] = "open" /\ UNCHANGED <<srv, how, up>>
      BY <2>4 DEF Deliver
    <3> QED BY <2>0, <3>1 DEF ServerInv, Same
  <2> QED BY <1>4, <2>1, <2>2, <2>3, <2>4 DEF Socket
<1>5. ASSUME NEW c \in Conn, Microphone(c)
      PROVE  ServerInv'
  <2>0. \A d \in Conn \ {c} : Same(d)
    BY <1>5, StepsAreLocal
  <2>1. UNCHANGED <<srv, how>> /\ (sock[c] = "closed" => sock'[c] = "closed")
    BY <1>5 DEF Microphone, MicGranted, MicStarted, MicFails, Speaks, Close, TypeOK
  <2>2. up'[c] = up[c] \/ (Speaks(c) /\ up'[c] = Append(up[c], Pcm(sent[c] + 1)))
    BY <1>5 DEF Microphone, MicGranted, MicStarted, MicFails, Speaks, TypeOK
  <2>3. \A i \in DOMAIN up'[c] : up'[c][i] = Gone => i \in DOMAIN up[c] /\ up[c][i] = Gone
    <3> SUFFICES ASSUME Speaks(c), up'[c] = Append(up[c], Pcm(sent[c] + 1)),
                        NEW i \in DOMAIN up'[c], up'[c][i] = Gone
                 PROVE  i \in DOMAIN up[c] /\ up[c][i] = Gone
      BY <2>2
    <3>1. up[c] \in Seq(ToServer) /\ Pcm(sent[c] + 1) # Gone /\ sent[c] + 1 \in 1 .. Chunks
      BY DEF TypeOK, Pcm, Gone, Speaks
    <3> QED BY <3>1, AppendProperties, MessageTypes
  <2> QED BY <2>0, <2>1, <2>3 DEF ServerInv, Same
<1>6. ASSUME NEW c \in Conn, Server(c)
      PROVE  ServerInv'
  <2>0. \A d \in Conn \ {c} : Same(d)
    BY <1>6, StepsAreLocal
  <2>1. UNCHANGED sock /\ srv[c].pc # "ended"
    BY <1>6, ServerWorks
  <2>2. TaskInv(srv'[c])
    BY <1>6, ServerTaskStep
  <2>3. how'[c] # "none" => srv'[c].pc = "ended"
    BY <1>6, <2>1, ServerEnds DEF ServerInv
  <2>4. \A i \in DOMAIN up'[c] : up'[c][i] = Gone => sock'[c] = "closed"
    <3>1. CASE Receive(c)
      <4>1. up[c] \in Seq(ToServer) /\ up[c] # <<>> /\ up'[c] = Tail(up[c])
        BY <3>1 DEF Receive, TypeOK
      <4>2. \A i \in DOMAIN up'[c] : i + 1 \in DOMAIN up[c] /\ up'[c][i] = up[c][i + 1]
        BY <4>1
      <4> QED BY <2>1, <4>2 DEF ServerInv
    <3>2. CASE ~Receive(c)
      BY <1>6, <2>1, <3>2, ServerEnds DEF ServerInv
    <3> QED BY <3>1, <3>2
  <2>5. srv'[c].gone => srv'[c].pc \in Closing /\ sock'[c] = "closed"
    <3>1. CASE srv[c].gone
      BY <1>6, <2>1, <3>1, ServerEnds DEF ServerInv
    <3>2. CASE ~srv[c].gone /\ srv'[c].gone
      <4>1. Receive(c) /\ Head(up[c]).kind = "disconnect" /\ srv'[c].pc \in Closing
        BY <1>6, <3>2, ServerEnds
      <4>2. up[c] \in Seq(ToServer) /\ up[c] # <<>> /\ Head(up[c]) = up[c][1] /\ 1 \in DOMAIN up[c]
            /\ up[c][1] \in ToServer
        BY <4>1 DEF Receive, TypeOK
      <4>3. up[c][1] = Gone
        BY <4>1, <4>2 DEF ToServer, Pcm, End, Gone
      <4> QED BY <2>1, <4>1, <4>2, <4>3 DEF ServerInv
    <3> QED BY <3>1, <3>2
  <2> QED BY <2>0, <2>1, <2>2, <2>3, <2>4, <2>5 DEF ServerInv, Same
<1>7. CASE UNCHANGED vars
  BY <1>7 DEF ServerInv, vars
<1> QED BY <1>1, <1>2, <1>3, <1>4, <1>5, <1>6, <1>7 DEF Next, Button

-----------------------------------------------------------------------------
(***************************************************************************)
(* The end of a recording, and the last frame of its connection.           *)
(***************************************************************************)

EndReceived(c) == (srv[c].pc \in Closing /\ ~srv[c].gone) \/ how[c] = "ok"

EndUnderWay(c) == \E i \in DOMAIN up[c] : up[c][i] = End

EndSent(c) == EndReceived(c) \/ EndUnderWay(c)

(* Once the page has ended a recording it sends nothing more, and only the  *)
(* server closes the connection, or it is lost.                             *)
EndInv ==
  \A c \in Conn :
    /\ EndSent(c) => /\ rec[c] = "off"
                     /\ wsRef = c => page = "finalizing"
                     /\ sock[c] = "closing" => srv[c].pc = "ended"
    /\ sock[c] = "open" => /\ EndReceived(c) => up[c] = <<>>
                           /\ \A i \in DOMAIN up[c] : up[c][i] = End => i = Len(up[c])

(* The server sends its close frame last. *)
CloseInv ==
  \A c \in Conn :
    \A i \in DOMAIN down[c] :
      down[c][i].kind = "close" => srv[c].pc = "ended" /\ i = Len(down[c])

LEMMA CloseStep == TypeOK /\ SocketInv /\ CloseInv /\ [Next]_vars => CloseInv'
<1> SUFFICES ASSUME TypeOK, SocketInv, CloseInv, [Next]_vars PROVE CloseInv'
  OBVIOUS
<1> USE RecognitionAssumption DEF Conn, browser, shown, server
<1>1. CASE Button
  BY <1>1 DEF Button, Start, Cancel, StopRecording, CloseInv
<1>2. ASSUME NEW c \in Conn, Socket(c)
      PROVE  CloseInv'
  <2>0. \A d \in Conn \ {c} : Same(d)
    BY <1>2, StepsAreLocal
  <2>1. CASE Opens(c)
    <3>1. Untouched(c) /\ down' = down
      BY <2>1 DEF Opens, SocketInv
    <3> QED BY <2>0, <3>1 DEF CloseInv, Same, Untouched
  <2>2. CASE ConnectTimeout(c)
    BY <2>2 DEF ConnectTimeout, CloseInv
  <2>3. CASE Closed(c) \/ ConnectionLost(c)
    <3>1. down'[c] = <<>> /\ srv' = srv
      BY <2>3 DEF Closed, ConnectionLost, Over, TypeOK
    <3> QED BY <2>0, <3>1 DEF CloseInv, Same
  <2>4. CASE Deliver(c)
    <3>1. down[c] \in Seq(ToPage) /\ down[c] # <<>> /\ down'[c] = Tail(down[c]) /\ srv' = srv
      BY <2>4 DEF Deliver, TypeOK
    <3>2. \A i \in DOMAIN down'[c] : /\ i + 1 \in DOMAIN down[c] /\ down'[c][i] = down[c][i + 1]
                                     /\ i + 1 = Len(down[c]) => i = Len(down'[c])
      BY <3>1
    <3>3. \A i \in DOMAIN down'[c] : down'[c][i].kind = "close" =>
            srv'[c].pc = "ended" /\ i = Len(down'[c])
      BY <3>1, <3>2 DEF CloseInv
    <3>4. \A d \in Conn \ {c} : \A i \in DOMAIN down'[d] : down'[d][i].kind = "close" =>
            srv'[d].pc = "ended" /\ i = Len(down'[d])
      BY <2>0 DEF CloseInv, Same
    <3> QED BY <3>3, <3>4 DEF CloseInv
  <2> QED BY <1>2, <2>1, <2>2, <2>3, <2>4 DEF Socket
<1>3. ASSUME NEW c \in Conn, Microphone(c)
      PROVE  CloseInv'
  BY <1>3 DEF Microphone, MicGranted, MicStarted, MicFails, Speaks, CloseInv
<1>4. ASSUME NEW c \in Conn, Server(c)
      PROVE  CloseInv'
  <2>0. \A d \in Conn \ {c} : Same(d)
    BY <1>4, StepsAreLocal
  <2>1. srv[c].pc # "ended"
    BY <1>4, ServerWorks
  <2>2. \A i \in DOMAIN down[c] : down[c][i].kind # "close"
    BY <2>1 DEF CloseInv
  <2>3. ASSUME NEW i \in DOMAIN down'[c], down'[c][i].kind = "close"
        PROVE  srv'[c].pc = "ended" /\ i = Len(down'[c])
    <3>1. PICK ms \in Seq(ToPage) :
             /\ down'[c] = down[c] \o ms
             /\ \A j \in DOMAIN ms : ms[j].kind = "close" => j = Len(ms) /\ srv'[c].pc = "ended"
      BY <1>4, <2>2, <2>3, ServerPosts
    <3>2. down[c] \in Seq(ToPage) /\ Len(down[c]) \in Nat /\ Len(ms) \in Nat
      BY DEF TypeOK
    <3>3. /\ i \in 1 .. Len(down[c]) + Len(ms) /\ Len(down'[c]) = Len(down[c]) + Len(ms)
          /\ down'[c][i] = IF i <= Len(down[c]) THEN down[c][i] ELSE ms[i - Len(down[c])]
      BY <3>1, <3>2
    <3>4. ~(i <= Len(down[c]))
      BY <2>2, <2>3, <3>2, <3>3
    <3>5. i - Len(down[c]) \in DOMAIN ms /\ ms[i - Len(down[c])].kind = "close"
      BY <2>3, <3>2, <3>3, <3>4
    <3>6. i - Len(down[c]) = Len(ms) /\ srv'[c].pc = "ended"
      BY <3>1, <3>5
    <3>7. i = Len(down[c]) + Len(ms)
      BY <3>2, <3>3, <3>6
    <3> QED BY <3>3, <3>6, <3>7
  <2> QED BY <2>0, <2>3 DEF CloseInv, Same
<1>5. CASE UNCHANGED vars
  BY <1>5 DEF CloseInv, vars
<1> QED BY <1>1, <1>2, <1>3, <1>4, <1>5 DEF Next

LEMMA EndStep ==
  PageInv /\ ServerInv /\ CloseInv /\ EndInv /\ [Next]_vars => EndInv'
<1> SUFFICES ASSUME PageInv, ServerInv, CloseInv, EndInv, [Next]_vars PROVE EndInv'
  OBVIOUS
<1> USE RecognitionAssumption DEF Conn, browser, shown, server
<1>0. TypeOK /\ SocketInv /\ ReadyInv /\ MicInv
  BY DEF PageInv
<1>a. wsRef \in 0 .. Starts /\ recRef \in 0 .. Starts /\ last \in 0 .. Starts
  BY <1>0 DEF TypeOK
<1> DEFINE Inv(c) ==
      /\ EndSent(c) => /\ rec[c] = "off"
                       /\ wsRef = c => page = "finalizing"
                       /\ sock[c] = "closing" => srv[c].pc = "ended"
      /\ sock[c] = "open" => /\ EndReceived(c) => up[c] = <<>>
                             /\ \A i \in DOMAIN up[c] : up[c][i] = End => i = Len(up[c])
<1>b. \A c \in Conn : Inv(c)
  BY DEF EndInv
<1>c. SUFFICES \A c \in Conn : Inv(c)'
  BY DEF EndInv
<1>d. ASSUME NEW c \in Conn, srv'[c] = srv[c], how'[c] = how[c], up'[c] = up[c]
      PROVE  /\ EndReceived(c)' <=> EndReceived(c)
             /\ EndUnderWay(c)' <=> EndUnderWay(c)
             /\ EndSent(c)' <=> EndSent(c)
  BY <1>d DEF EndReceived, EndUnderWay, EndSent
<1>e. \A c \in Conn : Untouched(c) => ~EndSent(c)
  BY DEF Untouched, EndSent, EndReceived, EndUnderWay, NewTask, Closing
<1>1. CASE Start
  <2>1. last + 1 \in Conn /\ Untouched(last + 1)
    BY <1>0, <1>1 DEF Start, SocketInv, TypeOK
  <2>2. UNCHANGED <<rec, up, srv, how>> /\ wsRef' = last + 1 /\ sock'[last + 1] = "connecting"
        /\ \A c \in Conn \ {last + 1} : sock'[c] = sock[c]
    BY <1>0, <1>1, <2>1 DEF Start, TypeOK
  <2>3. \A c \in Conn \ {last + 1} : Inv(c)'
    BY <1>b, <1>d, <2>2 DEF EndReceived
  <2>4. ASSUME NEW c \in Conn, c = last + 1
        PROVE  Inv(c)'
    <3>1. ~EndSent(c) /\ up'[c] = <<>> /\ sock'[c] = "connecting"
      BY <1>e, <2>1, <2>2, <2>4 DEF Untouched
    <3>2. ~EndSent(c)'
      BY <1>d, <2>2, <3>1
    <3> QED BY <3>1, <3>2
  <2> HIDE DEF Inv
  <2> QED BY <2>3, <2>4
<1>2. CASE Cancel
  <2>1. wsRef \in Conn
    BY <1>0, <1>2, <1>a DEF Cancel, SocketInv
  <2>2. UNCHANGED <<wsRef, rec, up, srv, how>> /\ sock'[wsRef] # "open"
        /\ \A c \in Conn \ {wsRef} : sock'[c] = sock[c]
    BY <1>0, <1>2, <2>1 DEF Cancel, Close, TypeOK
  <2>3. ~EndSent(wsRef)
    BY <1>2, <1>b, <2>1 DEF Cancel
  <2>4. \A c \in Conn \ {wsRef} : Inv(c)'
    BY <1>b, <1>d, <2>2 DEF EndReceived
  <2>5. ASSUME NEW c \in Conn, c = wsRef
        PROVE  Inv(c)'
    BY <1>d, <2>2, <2>3, <2>5 DEF EndReceived
  <2> HIDE DEF Inv
  <2> QED BY <2>4, <2>5
<1>3. CASE StopRecording
  <2>1. wsRef \in Conn /\ recRef = wsRef /\ rec[wsRef] = "on"
    BY <1>0, <1>3, <1>a DEF StopRecording, SocketInv, MicInv
  <2>2. ~EndSent(wsRef) /\ sock[wsRef] \notin {"none", "connecting"}
    BY <1>0, <1>b, <2>1 DEF SocketInv, Untouched
  <2>3. /\ rec'[wsRef] = "off" /\ \A c \in Conn \ {wsRef} : rec'[c] = rec[c]
    BY <1>0, <1>3, <2>1 DEF StopRecording, Stopped, TypeOK
  <2>4. /\ sock'[wsRef] = sock[wsRef]
        /\ \A c \in Conn \ {wsRef} : sock'[c] = sock[c] /\ up'[c] = up[c]
    BY <1>0, <1>3, <2>1, <2>2 DEF StopRecording, Close, TypeOK
  <2>5. UNCHANGED <<srv, how, wsRef>> /\ page' = "finalizing"
    BY <1>3 DEF StopRecording
  <2>6. \A c \in Conn \ {wsRef} : Inv(c)'
    BY <1>b, <1>d, <2>3, <2>4, <2>5 DEF EndReceived
  <2>7. ASSUME NEW c \in Conn, c = wsRef
        PROVE  Inv(c)'
    <3>0. rec'[c] = "off" /\ page' = "finalizing" /\ sock'[c] = sock[c] /\ ~EndSent(c)
          /\ UNCHANGED <<srv, how>>
      BY <2>2, <2>3, <2>4, <2>5, <2>7
    <3>1. CASE sock[c] = "open"
      <4>1. up'[c] = Append(up[c], End) /\ up[c] \in Seq(ToServer)
        BY <1>0, <1>3, <2>7, <3>1 DEF StopRecording, TypeOK
      <4>2. \A i \in DOMAIN up'[c] : up'[c][i] = End => i = Len(up'[c])
        <5> SUFFICES ASSUME NEW i \in DOMAIN up'[c], up'[c][i] = End, i # Len(up'[c])
                     PROVE  FALSE
          OBVIOUS
        <5>1. i \in DOMAIN up[c] /\ up'[c][i] = up[c][i]
          BY <4>1, MessageTypes
        <5> QED BY <3>0, <5>1 DEF EndSent, EndUnderWay
      <4>3. ~EndReceived(c)'
        BY <3>0 DEF EndSent, EndReceived
      <4> QED BY <3>0, <3>1, <4>2, <4>3
    <3>2. CASE sock[c] # "open"
      <4>1. up'[c] = up[c]
        BY <1>3, <2>7, <3>2 DEF StopRecording
      <4> QED BY <1>d, <3>0, <3>2, <4>1
    <3> QED BY <3>1, <3>2
  <2> HIDE DEF Inv
  <2> QED BY <2>6, <2>7
<1>4. ASSUME NEW c \in Conn, Socket(c)
      PROVE  \A d \in Conn : Inv(d)'
  <2>0. \A d \in Conn \ {c} : Same(d)
    BY <1>0, <1>4, StepsAreLocal
  <2>1. CASE Opens(c)
    <3>1. Untouched(c) /\ UNCHANGED <<rec, up, how, wsRef, page>>
      BY <1>0, <2>1 DEF Opens, SocketInv
    <3>2. srv'[c] = [NewTask EXCEPT !.pc = "start"]
      BY <1>0, <2>1, <3>1 DEF Opens, Untouched, TypeOK
    <3>3. ~EndSent(c)' /\ up'[c] = <<>>
      BY <3>1, <3>2 DEF EndSent, EndReceived, EndUnderWay, Untouched, NewTask, Closing
    <3>4. \A d \in Conn \ {c} : Inv(d)'
      BY <1>b, <1>d, <2>0, <3>1 DEF Same
    <3>5. Inv(c)'
      BY <3>3
    <3> HIDE DEF Inv
    <3> QED BY <3>4, <3>5
  <2>2. CASE ConnectTimeout(c)
    <3>1. ~EndSent(c) /\ UNCHANGED <<rec, up, srv, how, wsRef, page>>
      BY <1>0, <1>e, <2>2 DEF ConnectTimeout, SocketInv
    <3>2. sock'[c] # "open"
      BY <1>0, <2>2 DEF ConnectTimeout, Close, TypeOK
    <3>3. \A d \in Conn \ {c} : Inv(d)'
      BY <1>b, <1>d, <2>0, <3>1 DEF Same
    <3>4. Inv(c)'
      BY <1>d, <3>1, <3>2
    <3> HIDE DEF Inv
    <3> QED BY <3>3, <3>4
  <2>3. CASE Closed(c) \/ ConnectionLost(c)
    <3>1. sock'[c] = "closed" /\ UNCHANGED <<srv, how>>
      BY <1>0, <2>3 DEF Closed, ConnectionLost, Over, TypeOK
    <3>2. \A d \in Conn : rec[d] = "off" => rec'[d] = "off"
      BY <1>0, <1>a, <2>3 DEF Closed, ConnectionLost, Over, OnClose, Stopped, TypeOK
    <3>3. wsRef' = 0 \/ (wsRef' = wsRef /\ page' = page)
      BY <2>3 DEF Closed, ConnectionLost, Over, OnClose
    <3>4. EndSent(c)' => EndSent(c)
      <4>1. PICK n \in 0 .. Len(up[c]) : up'[c] = Append(SubSeq(up[c], 1, n), Gone)
        BY <1>0, <2>3 DEF Closed, ConnectionLost, Over, TypeOK
      <4>2. /\ up[c] \in Seq(ToServer) /\ SubSeq(up[c], 1, n) \in Seq(ToServer)
            /\ Len(SubSeq(up[c], 1, n)) = n /\ \A i \in 1 .. n : SubSeq(up[c], 1, n)[i] = up[c][i]
        BY <1>0 DEF TypeOK
      <4>3. \A i \in DOMAIN up'[c] : up'[c][i] = End => i \in DOMAIN up[c] /\ up[c][i] = End
        <5> SUFFICES ASSUME NEW i \in DOMAIN up'[c], up'[c][i] = End
                     PROVE  i \in DOMAIN up[c] /\ up[c][i] = End
          OBVIOUS
        <5>1. i \in 1 .. n + 1 /\ (i = n + 1 => up'[c][i] = Gone)
          BY <4>1, <4>2, MessageTypes
        <5>2. i # n + 1
          BY <5>1 DEF Gone, End
        <5>3. up'[c][i] = SubSeq(up[c], 1, n)[i]
          BY <4>1, <4>2, <5>1, <5>2, MessageTypes
        <5> QED BY <4>2, <5>1, <5>2, <5>3
      <4> QED BY <3>1, <4>3 DEF EndSent, EndReceived, EndUnderWay
    <3>5. \A d \in Conn \ {c} : Inv(d)'
      BY <1>a, <1>b, <1>d, <2>0, <3>2, <3>3 DEF Same
    <3>6. Inv(c)'
      BY <1>a, <1>b, <3>1, <3>2, <3>3, <3>4
    <3> HIDE DEF Inv
    <3> QED BY <3>5, <3>6
  <2>4. CASE Deliver(c)
    <3>1. sock[c] = "open" /\ UNCHANGED <<srv, how, up, wsRef, page>>
      BY <2>4 DEF Deliver
    <3>2. \A d \in Conn : rec[d] = "off" => rec'[d] = "off"
      <4> SUFFICES ASSUME rec[c] = "off" PROVE rec' = rec
        BY <1>0, <2>4 DEF Deliver, TypeOK
      <4>1. 1 \in DOMAIN down[c] /\ Head(down[c]) = down[c][1]
        BY <1>0, <2>4 DEF Deliver, TypeOK
      <4>2. Head(down[c]).kind # "ready"
        BY <1>0, <4>1 DEF ReadyInv
      <4> QED BY <2>4, <4>2 DEF Deliver
    <3>3. sock'[c] = "closing" => srv'[c].pc = "ended"
      <4>1. 1 \in DOMAIN down[c] /\ Head(down[c]) = down[c][1]
        BY <1>0, <2>4 DEF Deliver, TypeOK
      <4>2. sock'[c] = "closing" => Head(down[c]).kind = "close"
        BY <1>0, <2>4 DEF Deliver, TypeOK
      <4> QED BY <3>1, <4>1, <4>2 DEF CloseInv
    <3>4. \A d \in Conn \ {c} : Inv(d)'
      BY <1>b, <1>d, <2>0, <3>1, <3>2 DEF Same
    <3>5. Inv(c)'
      BY <1>b, <1>d, <3>1, <3>2, <3>3
    <3> HIDE DEF Inv
    <3> QED BY <3>4, <3>5
  <2> QED BY <1>4, <2>1, <2>2, <2>3, <2>4 DEF Socket
<1>5. ASSUME NEW c \in Conn, Microphone(c)
      PROVE  \A d \in Conn : Inv(d)'
  <2>0. \A d \in Conn \ {c} : Same(d)
    BY <1>0, <1>5, StepsAreLocal
  <2>1. UNCHANGED <<srv, how, wsRef>> /\ (\A d \in Conn \ {c} : rec'[d] = rec[d]) /\ rec[c] # "off"
    BY <1>0, <1>5 DEF Microphone, MicGranted, MicStarted, MicFails, Speaks, TypeOK
  <2>2. ~EndSent(c)
    BY <1>b, <2>1
  <2>3. page' = page \/ (page' = "recording" /\ wsRef = c)
    BY <1>5 DEF Microphone, MicGranted, MicStarted, MicFails, Speaks, Kept
  <2>4. up'[c] = up[c] \/ (Speaks(c) /\ up'[c] = Append(up[c], Pcm(sent[c] + 1)))
    BY <1>0, <1>5 DEF Microphone, MicGranted, MicStarted, MicFails, Speaks, TypeOK
  <2>5. \A i \in DOMAIN up'[c] : up'[c][i] # End
    <3>1. \A i \in DOMAIN up[c] : up[c][i] # End
      BY <2>2 DEF EndSent, EndUnderWay
    <3>2. CASE Speaks(c) /\ up'[c] = Append(up[c], Pcm(sent[c] + 1))
      <4>1. up[c] \in Seq(ToServer) /\ Pcm(sent[c] + 1) # End /\ sent[c] + 1 \in 1 .. Chunks
        BY <1>0, <3>2 DEF TypeOK, Pcm, End, Speaks
      <4> QED BY <3>1, <3>2, <4>1, AppendProperties, MessageTypes
    <3> QED BY <2>4, <3>1, <3>2
  <2>6. ~EndSent(c)'
    BY <2>1, <2>2, <2>5 DEF EndSent, EndReceived, EndUnderWay
  <2>7. \A d \in Conn \ {c} : Inv(d)'
    BY <1>b, <1>d, <2>0, <2>1, <2>3 DEF Same
  <2>8. Inv(c)'
    BY <2>5, <2>6 DEF EndSent
  <2> HIDE DEF Inv
  <2> QED BY <2>7, <2>8
<1>6. ASSUME NEW c \in Conn, Server(c)
      PROVE  \A d \in Conn : Inv(d)'
  <2>0. \A d \in Conn \ {c} : Same(d)
    BY <1>0, <1>6, StepsAreLocal
  <2>1. UNCHANGED <<sock, rec, wsRef, page>> /\ srv[c].pc # "ended"
    BY <1>6, ServerWorks
  <2>2. \A d \in Conn \ {c} : Inv(d)'
    BY <1>b, <1>d, <2>0, <2>1 DEF Same
  <2>3. how[c] # "ok"
    BY <1>0, <2>1 DEF ServerInv
  <2>4. EndReceived(c)' => EndReceived(c) \/ (Receive(c) /\ Head(up[c]).kind = "end")
    BY <1>0, <1>6, <2>3, ServerEnds DEF EndReceived, Closing
  <2>5. CASE Receive(c)
    <3>1. up[c] \in Seq(ToServer) /\ up[c] # <<>> /\ up'[c] = Tail(up[c]) /\ srv[c].pc = "receive"
      BY <1>0, <2>5 DEF Receive, TypeOK
    <3>2. \A i \in DOMAIN up'[c] : /\ i + 1 \in DOMAIN up[c] /\ up'[c][i] = up[c][i + 1]
                                   /\ i + 1 = Len(up[c]) => i = Len(up'[c])
      BY <3>1
    <3>3. Head(up[c]) = up[c][1] /\ 1 \in DOMAIN up[c] /\ up[c][1] \in ToServer
      BY <3>1
    <3>4. ~EndReceived(c)
      BY <2>3, <3>1 DEF EndReceived, Closing
    <3>5. EndReceived(c)' => up[c][1] = End
      BY <2>4, <3>3, <3>4 DEF ToServer, Pcm, End, Gone
    <3>6. EndUnderWay(c)' => EndUnderWay(c)
      BY <3>2 DEF EndUnderWay
    <3>7. EndSent(c)' => EndSent(c)
      BY <3>3, <3>5, <3>6 DEF EndSent, EndUnderWay
    <3>8. sock[c] = "open" /\ EndReceived(c)' => up'[c] = <<>>
      <4> SUFFICES ASSUME sock[c] = "open", EndReceived(c)' PROVE up'[c] = <<>>
        OBVIOUS
      <4>1. 1 = Len(up[c])
        BY <1>b, <3>3, <3>5
      <4>2. up'[c] \in Seq(ToServer) /\ Len(up'[c]) = 0
        BY <3>1, <4>1
      <4> QED BY <4>2
    <3>9. sock[c] # "closing" \/ ~EndSent(c)
      BY <1>b, <2>1
    <3> QED BY <1>b, <2>1, <2>2, <3>2, <3>7, <3>8, <3>9
  <2>6. CASE ~Receive(c)
    <3>1. up'[c] = up[c]
      BY <1>0, <1>6, <2>6, ServerEnds
    <3>2. EndReceived(c)' => EndReceived(c)
      BY <2>4, <2>6
    <3>3. EndSent(c)' => EndSent(c)
      BY <3>1, <3>2 DEF EndSent, EndUnderWay
    <3>4. sock[c] # "closing" \/ ~EndSent(c)
      BY <1>b, <2>1
    <3> QED BY <1>b, <2>1, <2>2, <3>1, <3>2, <3>3, <3>4
  <2> QED BY <2>5, <2>6
<1>7. CASE UNCHANGED vars
  BY <1>7, <1>b DEF EndSent, EndReceived, EndUnderWay, vars
<1> QED BY <1>1, <1>2, <1>3, <1>4, <1>5, <1>6, <1>7 DEF Next, Button

-----------------------------------------------------------------------------
(***************************************************************************)
(* The chunks from one to another, and what is recognised of them.         *)
(***************************************************************************)

Piece(a, b) == [k \in 1 .. b - a |-> a + k]

Heard(a, b) == Recognised(Piece(a, b))

LEMMA PieceIs ==
  ASSUME NEW a \in Nat, NEW b \in Nat, a <= b
  PROVE  /\ Piece(a, b) \in Seq(Nat) /\ Len(Piece(a, b)) = b - a
         /\ \A k \in 1 .. b - a : Piece(a, b)[k] = a + k
BY DEF Piece

LEMMA PieceNone == ASSUME NEW a \in Nat PROVE Piece(a, a) = <<>>
BY PieceIs

LEMMA PieceMore ==
  ASSUME NEW a \in Nat, NEW b \in Nat, a <= b
  PROVE  Append(Piece(a, b), b + 1) = Piece(a, b + 1)
<1>1. /\ Piece(a, b) \in Seq(Nat) /\ Len(Piece(a, b)) = b - a
      /\ \A k \in 1 .. b - a : Piece(a, b)[k] = a + k
  BY PieceIs
<1>2. /\ Piece(a, b + 1) \in Seq(Nat) /\ Len(Piece(a, b + 1)) = b + 1 - a
      /\ \A k \in 1 .. b + 1 - a : Piece(a, b + 1)[k] = a + k
  BY PieceIs
<1> DEFINE s == Append(Piece(a, b), b + 1)
<1>3. s \in Seq(Nat) /\ Len(s) = b + 1 - a
  BY <1>1
<1>4. ASSUME NEW k \in 1 .. b + 1 - a
      PROVE  s[k] = Piece(a, b + 1)[k]
  <2>1. CASE k = b + 1 - a
    <3>1. k = Len(Piece(a, b)) + 1
      BY <1>1, <2>1
    <3>3. s[k] = b + 1
      BY <1>1, <3>1, AppendProperties
    <3>2. Piece(a, b + 1)[k] = b + 1
      BY <1>2, <2>1
    <3> QED BY <3>3, <3>2
  <2>2. CASE k # b + 1 - a
    <3>1. k \in 1 .. b - a
      BY <2>2
    <3> QED BY <1>1, <1>2, <3>1
  <2> QED BY <2>1, <2>2
<1> HIDE DEF s
<1>5. s = Piece(a, b + 1)
  BY <1>2, <1>3, <1>4, SeqEqual
<1> QED BY <1>5 DEF s

LEMMA PieceJoin ==
  ASSUME NEW a \in Nat, NEW b \in Nat, NEW c \in Nat, a <= b, b <= c
  PROVE  Piece(a, b) \o Piece(b, c) = Piece(a, c)
<1> DEFINE s == Piece(a, b) \o Piece(b, c)
<1>1. /\ Piece(a, b) \in Seq(Nat) /\ Len(Piece(a, b)) = b - a
      /\ \A k \in 1 .. b - a : Piece(a, b)[k] = a + k
  BY PieceIs
<1>2. /\ Piece(b, c) \in Seq(Nat) /\ Len(Piece(b, c)) = c - b
      /\ \A k \in 1 .. c - b : Piece(b, c)[k] = b + k
  BY PieceIs
<1>3. /\ Piece(a, c) \in Seq(Nat) /\ Len(Piece(a, c)) = c - a
      /\ \A k \in 1 .. c - a : Piece(a, c)[k] = a + k
  BY PieceIs
<1>4. /\ s \in Seq(Nat) /\ Len(s) = c - a
      /\ \A k \in 1 .. c - a : s[k] = IF k <= b - a THEN Piece(a, b)[k] ELSE Piece(b, c)[k - (b - a)]
  <2>1. Len(Piece(a, b)) + Len(Piece(b, c)) = c - a
    BY <1>1, <1>2
  <2>2. /\ s \in Seq(Nat) /\ Len(s) = Len(Piece(a, b)) + Len(Piece(b, c))
        /\ \A k \in 1 .. Len(Piece(a, b)) + Len(Piece(b, c)) :
             s[k] = IF k <= Len(Piece(a, b)) THEN Piece(a, b)[k]
                                             ELSE Piece(b, c)[k - Len(Piece(a, b))]
    BY <1>1, <1>2, ConcatProperties
  <2>3. Len(Piece(a, b)) = b - a
    BY <1>1
  <2> QED BY <2>1, <2>2, <2>3, Zenon
<1>5. ASSUME NEW k \in 1 .. c - a
      PROVE  s[k] = Piece(a, c)[k]
  <2>1. CASE k <= b - a
    <3>1. k \in 1 .. b - a
      BY <2>1
    <3> QED BY <1>1, <1>3, <1>4, <2>1, <3>1
  <2>2. CASE ~(k <= b - a)
    <3>1. k - (b - a) \in 1 .. c - b /\ b + (k - (b - a)) = a + k
      BY <2>2
    <3>2. Piece(b, c)[k - (b - a)] = a + k
      BY <1>2, <3>1
    <3> QED BY <1>3, <1>4, <2>2, <3>2
  <2> QED BY <2>1, <2>2
<1> HIDE DEF s
<1>6. s = Piece(a, c)
  BY <1>3, <1>4, <1>5, SeqEqual
<1> QED BY <1>6 DEF s

LEMMA HeardType ==
  ASSUME NEW a \in Nat, NEW b \in Nat, a <= b
  PROVE  Heard(a, b) \in Seq(Nat)
BY PieceIs, RecognisedType DEF Heard

LEMMA HeardNone == ASSUME NEW a \in Nat PROVE Heard(a, a) = <<>>
BY PieceNone, RecognisedNothing DEF Heard

LEMMA HeardJoin ==
  ASSUME NEW a \in Nat, NEW b \in Nat, NEW c \in Nat, a <= b, b <= c
  PROVE  Heard(a, b) \o Heard(b, c) = Heard(a, c)
<1>1. Piece(a, b) \in Seq(Nat) /\ Piece(b, c) \in Seq(Nat)
  BY PieceIs
<1>2. Piece(a, b) \o Piece(b, c) = Piece(a, c)
  BY PieceJoin
<1>3. Recognised(Piece(a, b) \o Piece(b, c)) = Recognised(Piece(a, b)) \o Recognised(Piece(b, c))
  BY <1>1, RecognisedJoin
<1> QED BY <1>2, <1>3 DEF Heard

-----------------------------------------------------------------------------
(***************************************************************************)
(* Texts in the order of their segments.                                   *)
(***************************************************************************)

TextOf(segments, i) ==
  IF \E x \in segments : x.id = i THEN (CHOOSE x \in segments : x.id = i).text ELSE <<>>

InOrderUpTo(f, segments, m) ==
  f = [n \in 0 .. m |-> IF n = 0 THEN <<>> ELSE f[n - 1] \o TextOf(segments, n - 1)]

LEMMA InOrderExists ==
  ASSUME NEW segments, NEW k \in Nat
  PROVE  \E f : InOrderUpTo(f, segments, k)
<1> DEFINE T == {m \in Nat : \E f : InOrderUpTo(f, segments, m)}
<1>1. 0 \in T
  <2>1. InOrderUpTo([n \in 0 .. 0 |-> <<>>], segments, 0)
    BY DEF InOrderUpTo
  <2> QED BY <2>1
<1>2. ASSUME NEW m \in Nat, m \in T
      PROVE  m + 1 \in T
  <2>1. PICK f : InOrderUpTo(f, segments, m)
    BY <1>2
  <2> DEFINE x == f[m] \o TextOf(segments, m)
             g == [n \in 0 .. m + 1 |-> IF n = m + 1 THEN x ELSE f[n]]
  <2>2. ASSUME NEW n \in 0 .. m + 1
        PROVE  g[n] = IF n = 0 THEN <<>> ELSE g[n - 1] \o TextOf(segments, n - 1)
    <3>1. CASE n = m + 1
      <4>1. g[n] = x /\ g[m] = f[m] /\ n # 0 /\ n - 1 = m
        BY <3>1
      <4> QED BY <3>1, <4>1, Zenon
    <3>2. CASE n # m + 1
      <4>1. n \in 0 .. m /\ g[n] = f[n]
        BY <3>2
      <4>2. f[n] = IF n = 0 THEN <<>> ELSE f[n - 1] \o TextOf(segments, n - 1)
        BY <2>1, <4>1 DEF InOrderUpTo
      <4>3. n # 0 => g[n - 1] = f[n - 1]
        BY <4>1
      <4> QED BY <4>1, <4>2, <4>3, Zenon
    <3> QED BY <3>1, <3>2
  <2> HIDE DEF x
  <2>3. InOrderUpTo(g, segments, m + 1)
    <3>1. g = [n \in 0 .. m + 1 |-> g[n]]
      OBVIOUS
    <3> HIDE DEF g
    <3> QED BY <2>2, <3>1, Zenon DEF InOrderUpTo
  <2> QED BY <2>3
<1>3. Nat \subseteq T
  <2> HIDE DEF T
  <2> QED BY <1>1, <1>2, Induction
<1> QED BY <1>3

LEMMA InOrderIs ==
  ASSUME NEW segments
  PROVE  \E f : InOrderUpTo(f, segments, Chunks + 1) /\ InOrder(segments) = f[Chunks + 1]
<1>1. Chunks + 1 \in Nat
  BY RecognitionAssumption
<1>2. \E f : InOrderUpTo(f, segments, Chunks + 1)
  BY <1>1, InOrderExists
<1> QED BY <1>2 DEF InOrderUpTo, InOrder, TextOf

(* The recursion of InOrder, one segment at a time. *)
LEMMA InOrderOneMore ==
  ASSUME NEW segments
  PROVE  \E f : /\ f[0] = <<>>
                /\ \A n \in Nat : n <= Chunks => f[n + 1] = f[n] \o TextOf(segments, n)
                /\ InOrder(segments) = f[Chunks + 1]
<1> USE RecognitionAssumption
<1>1. PICK f : InOrderUpTo(f, segments, Chunks + 1) /\ InOrder(segments) = f[Chunks + 1]
  BY InOrderIs
<1>2. f[0] = <<>>
  BY <1>1 DEF InOrderUpTo
<1>3. ASSUME NEW n \in Nat, n <= Chunks
      PROVE  f[n + 1] = f[n] \o TextOf(segments, n)
  <2>1. PICK x \in 0 .. Chunks + 1 : x = n + 1 /\ x # 0 /\ x - 1 = n
    BY <1>3
  <2>2. f[x] = IF x = 0 THEN <<>> ELSE f[x - 1] \o TextOf(segments, x - 1)
    BY <1>1, <2>1 DEF InOrderUpTo
  <2> QED BY <2>1, <2>2, Zenon
<1> QED BY <1>1, <1>2, <1>3

(* Segments of which no two have the same place. *)
Ranked(segments) ==
  /\ segments \subseteq Segment
  /\ \A x, y \in segments : x.id = y.id => x = y

LEMMA AudioIs == \A s \in Audio : s \in Seq(Nat)
<1> SUFFICES ASSUME NEW s \in Audio PROVE s \in Seq(Nat)
  OBVIOUS
<1>1. Len(s) \in Nat /\ \A i \in 1 .. Len(s) : s[i] \in Nat
  BY RecognitionAssumption DEF Audio
<1>2. s = [i \in 1 .. Len(s) |-> s[i]]
  BY DEF Audio
<1>3. [i \in 1 .. Len(s) |-> s[i]] \in Seq(Nat)
  BY <1>1
<1> QED BY <1>2, <1>3

LEMMA TextOfIs ==
  ASSUME NEW segments, Ranked(segments), NEW i \in Nat
  PROVE  /\ TextOf(segments, i) \in Seq(Nat)
         /\ \A x \in segments : x.id = i => TextOf(segments, i) = x.text
         /\ (\A x \in segments : x.id # i) => TextOf(segments, i) = <<>>
<1>1. \A x \in segments : x.text \in Seq(Nat)
  <2>1. \A x \in segments : x.text \in Audio
    BY DEF Ranked, Segment
  <2> QED BY <2>1, AudioIs
<1>2. ASSUME NEW x \in segments, x.id = i
      PROVE  TextOf(segments, i) = x.text
  <2> DEFINE y == CHOOSE z \in segments : z.id = i
  <2>1. y \in segments /\ y.id = i
    BY <1>2
  <2>2. y = x
    BY <1>2, <2>1 DEF Ranked
  <2>3. TextOf(segments, i) = y.text
    BY <1>2 DEF TextOf
  <2> QED BY <2>2, <2>3
<1>3. (\A x \in segments : x.id # i) => TextOf(segments, i) = <<>>
  BY DEF TextOf
<1>4. <<>> \in Seq(Nat)
  OBVIOUS
<1> QED BY <1>1, <1>2, <1>3, <1>4

(* A sequence begins with another. *)
Begins(t, s) == s \in Seq(Nat) /\ \E u \in Seq(Nat) : t = s \o u

LEMMA BeginsBoth ==
  ASSUME NEW s \in Seq(Nat), NEW t, NEW r, Begins(t, s), Begins(r, t)
  PROVE  Begins(r, s)
<1>1. PICK u \in Seq(Nat) : t = s \o u
  BY DEF Begins
<1>2. PICK v \in Seq(Nat) : r = t \o v
  BY DEF Begins
<1>3. r = s \o (u \o v)
  BY <1>1, <1>2, ConcatAssociative, SMTT(30)
<1>4. u \o v \in Seq(Nat)
  BY <1>1, <1>2
<1> QED BY <1>3, <1>4 DEF Begins

LEMMA BeginsItself == ASSUME NEW s \in Seq(Nat) PROVE Begins(s, s)
<1>1. s = s \o <<>> /\ <<>> \in Seq(Nat)
  BY ConcatEmptySeq
<1> QED BY <1>1 DEF Begins

LEMMA BeginsIs ==
  ASSUME NEW s, NEW t, Begins(t, s)
  PROVE  s = SubSeq(t, 1, Len(s))
<1>1. PICK u \in Seq(Nat) : s \in Seq(Nat) /\ t = s \o u
  BY DEF Begins
<1>2. /\ SubSeq(s \o u, 1, Len(s)) \in Seq(Nat) /\ Len(SubSeq(s \o u, 1, Len(s))) = Len(s)
      /\ \A i \in 1 .. Len(s) : SubSeq(s \o u, 1, Len(s))[i] = s[i]
  BY <1>1
<1> QED BY <1>1, <1>2, SeqEqual

LEMMA InOrderType ==
  ASSUME NEW S, Ranked(S)
  PROVE  InOrder(S) \in Seq(Nat)
<1> USE RecognitionAssumption
<1>1. PICK f : /\ f[0] = <<>>
               /\ \A n \in Nat : n <= Chunks => f[n + 1] = f[n] \o TextOf(S, n)
               /\ InOrder(S) = f[Chunks + 1]
  BY InOrderOneMore
<1> DEFINE P == {n \in Nat : n <= Chunks + 1 => f[n] \in Seq(Nat)}
<1>2. 0 \in P
  <2>1. <<>> \in Seq(Nat)
    OBVIOUS
  <2> QED BY <1>1, <2>1
<1>3. ASSUME NEW n \in Nat, n \in P
      PROVE  n + 1 \in P
  <2> SUFFICES ASSUME n + 1 <= Chunks + 1 PROVE f[n + 1] \in Seq(Nat)
    OBVIOUS
  <2>1. f[n] \in Seq(Nat)
    BY <1>3
  <2>2. TextOf(S, n) \in Seq(Nat)
    BY TextOfIs
  <2>0. n <= Chunks
    BY RecognitionAssumption
  <2>3. f[n + 1] = f[n] \o TextOf(S, n)
    BY <1>1, <2>0, Zenon
  <2> HIDE DEF P
  <2> QED BY <2>1, <2>2, <2>3
<1>4. Nat \subseteq P
  <2> HIDE DEF P
  <2> QED BY <1>2, <1>3, Induction
<1>5. Chunks + 1 \in P
  <2> HIDE DEF P
  <2> QED BY <1>4
<1> QED BY <1>1, <1>5

LEMMA InOrderNothing == InOrder({}) = <<>>
<1> USE RecognitionAssumption
<1>1. PICK f : /\ f[0] = <<>>
               /\ \A n \in Nat : n <= Chunks => f[n + 1] = f[n] \o TextOf({}, n)
               /\ InOrder({}) = f[Chunks + 1]
  BY InOrderOneMore
<1> DEFINE P == {n \in Nat : n <= Chunks + 1 => f[n] = <<>>}
<1>2. 0 \in P
  BY <1>1
<1>3. ASSUME NEW n \in Nat, n \in P
      PROVE  n + 1 \in P
  <2> SUFFICES ASSUME n + 1 <= Chunks + 1 PROVE f[n + 1] = <<>>
    OBVIOUS
  <2>1. f[n] = <<>>
    BY <1>3
  <2>2. TextOf({}, n) = <<>>
    BY DEF TextOf
  <2>3. f[n + 1] = f[n] \o TextOf({}, n)
    BY <1>1
  <2> HIDE DEF P
  <2>4. <<>> \o <<>> = <<>>
    OBVIOUS
  <2> QED BY <2>1, <2>2, <2>3, <2>4
<1>4. Nat \subseteq P
  <2> HIDE DEF P
  <2> QED BY <1>2, <1>3, Induction
<1>5. Chunks + 1 \in P
  <2> HIDE DEF P
  <2> QED BY <1>4
<1> QED BY <1>1, <1>5

(* A segment after all the others adds its text at the end. *)
LEMMA InOrderAdds ==
  ASSUME NEW S, NEW x \in Segment, Ranked(S), x.id <= Chunks, \A y \in S : y.id < x.id
  PROVE  Ranked(S \cup {x}) /\ InOrder(S \cup {x}) = InOrder(S) \o x.text
<1> USE RecognitionAssumption
<1> DEFINE R == S \cup {x}
<1>1. Ranked(R)
  <2>1. \A y \in S : y.id # x.id
    BY DEF Ranked, Segment
  <2> QED BY <2>1 DEF Ranked
<1>2. PICK f : /\ f[0] = <<>>
               /\ \A n \in Nat : n <= Chunks => f[n + 1] = f[n] \o TextOf(S, n)
               /\ InOrder(S) = f[Chunks + 1]
  BY InOrderOneMore
<1>3. PICK g : /\ g[0] = <<>>
               /\ \A n \in Nat : n <= Chunks => g[n + 1] = g[n] \o TextOf(R, n)
               /\ InOrder(R) = g[Chunks + 1]
  BY InOrderOneMore
<1>4. PICK k \in Nat : k = x.id
  BY DEF Segment
<1>5. x.text \in Seq(Nat)
  <2>1. x.text \in Audio
    BY DEF Segment
  <2> QED BY <2>1, AudioIs
<1> DEFINE P == {n \in Nat : n <= Chunks + 1 =>
                   /\ f[n] \in Seq(Nat)
                   /\ g[n] = IF n <= k THEN f[n] ELSE f[n] \o x.text}
<1>6. 0 \in P
  <2>1. <<>> \in Seq(Nat)
    OBVIOUS
  <2>2. 0 <= k
    OBVIOUS
  <2>3. g[0] = IF 0 <= k THEN f[0] ELSE f[0] \o x.text
    BY <1>2, <1>3, <2>2
  <2> QED BY <1>2, <2>1, <2>3
<1>7. ASSUME NEW n \in Nat, n \in P
      PROVE  n + 1 \in P
  <2> SUFFICES ASSUME n + 1 <= Chunks + 1
               PROVE  /\ f[n + 1] \in Seq(Nat)
                      /\ g[n + 1] = IF n + 1 <= k THEN f[n + 1] ELSE f[n + 1] \o x.text
    OBVIOUS
  <2>1. f[n] \in Seq(Nat) /\ g[n] = IF n <= k THEN f[n] ELSE f[n] \o x.text
    BY <1>7
  <2> HIDE DEF P, R
  <2>0. n <= Chunks
    BY RecognitionAssumption
  <2>2. f[n + 1] = f[n] \o TextOf(S, n) /\ g[n + 1] = g[n] \o TextOf(R, n)
    BY <1>2, <1>3, <2>0, Zenon
  <2>3. TextOf(S, n) \in Seq(Nat)
    BY TextOfIs
  <2>4. f[n + 1] \in Seq(Nat)
    BY <2>1, <2>2, <2>3
  <2>5. CASE n < k
    <3>1. TextOf(R, n) = TextOf(S, n)
      <4>1. CASE \E y \in S : y.id = n
        <5>1. PICK y \in S : y.id = n
          BY <4>1
        <5>2. y \in R
          BY DEF R
        <5>3. TextOf(S, n) = y.text
          BY <5>1, TextOfIs
        <5>4. TextOf(R, n) = y.text
          BY <1>1, <5>1, <5>2, TextOfIs
        <5> QED BY <5>3, <5>4
      <4>2. CASE \A y \in S : y.id # n
        <5>1. \A y \in R : y.id # n
          BY <1>4, <2>5, <4>2 DEF R
        <5>2. TextOf(S, n) = <<>>
          BY <4>2, TextOfIs
        <5>3. TextOf(R, n) = <<>>
          BY <1>1, <5>1, TextOfIs
        <5> QED BY <5>2, <5>3
      <4> QED BY <4>1, <4>2
    <3>2. n <= k /\ n + 1 <= k
      BY <2>5
    <3> QED BY <2>1, <2>2, <2>4, <3>1, <3>2, Zenon
  <2>6. CASE n = k
    <3>1. TextOf(R, n) = x.text
      <4>1. x \in R /\ x.id = n
        BY <1>4, <2>6 DEF R
      <4> QED BY <1>1, <4>1, TextOfIs
    <3>2. \A y \in S : y.id # n
      BY <1>4, <2>6 DEF Ranked, Segment
    <3>3. TextOf(S, n) = <<>>
      BY <3>2, TextOfIs
    <3>4. f[n + 1] = f[n]
      BY <2>1, <2>2, <3>3, ConcatEmptySeq
    <3>5. n <= k /\ ~(n + 1 <= k)
      BY <2>6
    <3> QED BY <2>1, <2>2, <2>4, <3>1, <3>4, <3>5, Zenon
  <2>7. CASE n > k
    <3>1. \A y \in R : y.id # n
      BY <1>4, <2>7 DEF R, Ranked, Segment
    <3>2. TextOf(R, n) = <<>>
      BY <1>1, <3>1, TextOfIs
    <3>3. TextOf(S, n) = <<>>
      BY <3>1, TextOfIs DEF R
    <3>4. f[n + 1] = f[n]
      BY <2>1, <2>2, <3>3, ConcatEmptySeq
    <3>5. ~(n <= k) /\ ~(n + 1 <= k)
      BY <2>7
    <3>6. g[n] = f[n] \o x.text
      BY <2>1, <3>5
    <3>7. g[n] \in Seq(Nat)
      BY <1>5, <2>1, <3>6
    <3>8. g[n + 1] = g[n]
      BY <2>2, <3>2, <3>7, ConcatEmptySeq
    <3> QED BY <2>4, <3>4, <3>5, <3>6, <3>8, Zenon
  <2> QED BY <2>5, <2>6, <2>7
<1>8. Nat \subseteq P
  <2> HIDE DEF P
  <2> QED BY <1>6, <1>7, Induction
<1>9. g[Chunks + 1] = f[Chunks + 1] \o x.text
  <2>1. Chunks + 1 \in P
    <3> HIDE DEF P
    <3> QED BY <1>8
  <2>2. g[Chunks + 1] = IF Chunks + 1 <= k THEN f[Chunks + 1] ELSE f[Chunks + 1] \o x.text
    BY <2>1
  <2>3. ~(Chunks + 1 <= k)
    BY <1>4
  <2> QED BY <2>2, <2>3
<1> QED BY <1>1, <1>2, <1>3, <1>9

(* The text of all segments begins with that of the first of them. *)
LEMMA InOrderBegins ==
  ASSUME NEW S, NEW R, Ranked(R), S \subseteq R,
         \A x \in S, y \in R : y \in S \/ x.id < y.id
  PROVE  Ranked(S) /\ Begins(InOrder(R), InOrder(S))
<1> USE RecognitionAssumption
<1>1. Ranked(S)
  BY DEF Ranked
<1>2. PICK f : /\ f[0] = <<>>
               /\ \A n \in Nat : n <= Chunks => f[n + 1] = f[n] \o TextOf(S, n)
               /\ InOrder(S) = f[Chunks + 1]
  BY InOrderOneMore
<1>3. PICK g : /\ g[0] = <<>>
               /\ \A n \in Nat : n <= Chunks => g[n + 1] = g[n] \o TextOf(R, n)
               /\ InOrder(R) = g[Chunks + 1]
  BY InOrderOneMore
<1> DEFINE Late(n) == \E y \in R : y \notin S /\ y.id < n
           P == {n \in Nat : n <= Chunks + 1 =>
                   /\ f[n] \in Seq(Nat)
                   /\ Begins(g[n], f[n])
                   /\ g[n] = f[n] \/ Late(n)}
<1>4. 0 \in P
  <2>1. <<>> \in Seq(Nat)
    OBVIOUS
  <2>2. Begins(<<>>, <<>>)
    BY <2>1, BeginsItself
  <2> QED BY <1>2, <1>3, <2>1, <2>2
<1>5. ASSUME NEW n \in Nat, n \in P
      PROVE  n + 1 \in P
  <2> SUFFICES ASSUME n + 1 <= Chunks + 1
               PROVE  /\ f[n + 1] \in Seq(Nat)
                      /\ Begins(g[n + 1], f[n + 1])
                      /\ g[n + 1] = f[n + 1] \/ Late(n + 1)
    OBVIOUS
  <2>1. f[n] \in Seq(Nat) /\ Begins(g[n], f[n]) /\ (g[n] = f[n] \/ Late(n))
    BY <1>5
  <2>0. n <= Chunks
    BY RecognitionAssumption
  <2>2. f[n + 1] = f[n] \o TextOf(S, n) /\ g[n + 1] = g[n] \o TextOf(R, n)
    BY <1>2, <1>3, <2>0, Zenon
  <2>3. TextOf(S, n) \in Seq(Nat) /\ TextOf(R, n) \in Seq(Nat)
    BY <1>1, TextOfIs
  <2> HIDE DEF P
  <2>4. f[n + 1] \in Seq(Nat)
    BY <2>1, <2>2, <2>3
  <2>5. CASE ~Late(n + 1)
    <3>1. g[n] = f[n]
      <4>1. ASSUME Late(n) PROVE Late(n + 1)
        <5>1. PICK y \in R : y \notin S /\ y.id < n
          BY <4>1
        <5>2. y.id < n + 1
          BY <5>1 DEF Ranked, Segment
        <5> QED BY <5>1, <5>2
      <4> QED BY <2>1, <2>5, <4>1
    <3>2. \A y \in R : y.id = n => y \in S
      BY <2>5
    <3>3. TextOf(R, n) = TextOf(S, n)
      <4>1. CASE \E y \in S : y.id = n
        <5>1. PICK y \in S : y.id = n
          BY <4>1
        <5>2. TextOf(S, n) = y.text /\ TextOf(R, n) = y.text
          BY <1>1, <5>1, TextOfIs
        <5> QED BY <5>2
      <4>2. CASE \A y \in S : y.id # n
        <5>1. \A y \in R : y.id # n
          BY <3>2, <4>2
        <5>2. TextOf(S, n) = <<>>
          BY <1>1, <4>2, TextOfIs
        <5>3. TextOf(R, n) = <<>>
          BY <5>1, TextOfIs
        <5> QED BY <5>2, <5>3
      <4> QED BY <4>1, <4>2
    <3>4. g[n + 1] = f[n + 1]
      BY <2>2, <3>1, <3>3
    <3> QED BY <2>4, <3>4, BeginsItself
  <2>6. CASE Late(n + 1)
    <3>1. PICK y \in R : y \notin S /\ y.id < n + 1
      BY <2>6
    <3>2. \A x \in S : x.id # n
      BY <3>1 DEF Ranked, Segment
    <3>3. TextOf(S, n) = <<>>
      BY <1>1, <3>2, TextOfIs
    <3>4. f[n + 1] = f[n]
      BY <2>1, <2>2, <3>3, ConcatEmptySeq
    <3>5. Begins(g[n + 1], g[n])
      <4>1. g[n] \in Seq(Nat)
        BY <2>1 DEF Begins
      <4> QED BY <2>2, <2>3, <4>1 DEF Begins
    <3>6. Begins(g[n + 1], f[n])
      BY <2>1, <3>5, BeginsBoth
    <3> QED BY <2>4, <2>6, <3>4, <3>6
  <2> QED BY <2>5, <2>6
<1>6. Nat \subseteq P
  <2> HIDE DEF P
  <2> QED BY <1>4, <1>5, Induction
<1>7. Begins(g[Chunks + 1], f[Chunks + 1])
  <2>1. Chunks + 1 \in P
    <3> HIDE DEF P
    <3> QED BY <1>6
  <2> QED BY <2>1
<1> QED BY <1>1, <1>2, <1>3, <1>7

-----------------------------------------------------------------------------
(***************************************************************************)
(* Audio on its way: n chunks were sent, u are the frames under way.       *)
(***************************************************************************)

Ending(u) == \E i \in DOMAIN u : u[i] = End

Got(n, u) == n + (IF Ending(u) THEN 1 ELSE 0) - Len(u)

Arriving(n, u) ==
  /\ Got(n, u) \in 0 .. n
  /\ \A i \in DOMAIN u : u[i] = End \/ u[i] = Pcm(Got(n, u) + i)

LEMMA ArrivingNothing ==
  ASSUME NEW n \in Nat
  PROVE  Arriving(n, <<>>) /\ Got(n, <<>>) = n
<1>1. ~Ending(<<>>) /\ Len(<<>>) = 0
  BY DEF Ending
<1>2. Got(n, <<>>) = n
  BY <1>1 DEF Got
<1> QED BY <1>2 DEF Arriving

LEMMA ArrivingAppend ==
  ASSUME NEW n \in Nat, NEW u \in Seq(ToServer), Arriving(n, u), ~Ending(u)
  PROVE  /\ Arriving(n, Append(u, End)) /\ Got(n, Append(u, End)) = Got(n, u)
         /\ Arriving(n + 1, Append(u, Pcm(n + 1))) /\ Got(n + 1, Append(u, Pcm(n + 1))) = Got(n, u)
<1> DEFINE v == Append(u, End)
           w == Append(u, Pcm(n + 1))
<1>1. PICK k \in Nat : k = Len(u) /\ DOMAIN u = 1 .. k
  OBVIOUS
<1>2. /\ Len(v) = k + 1 /\ DOMAIN v = 1 .. k + 1
      /\ v[k + 1] = End /\ \A i \in 1 .. k : v[i] = u[i]
  BY <1>1
<1>3. /\ Len(w) = k + 1 /\ DOMAIN w = 1 .. k + 1
      /\ w[k + 1] = Pcm(n + 1) /\ \A i \in 1 .. k : w[i] = u[i]
  BY <1>1
<1>4. \A i \in 1 .. k : u[i] # End
  BY <1>1 DEF Ending
<1> HIDE DEF v, w
<1>5. Ending(v)
  BY <1>2 DEF Ending
<1>6. ~Ending(w)
  BY <1>3, <1>4 DEF Ending, Pcm, End
<1>7. PICK g \in 0 .. n : g = Got(n, u)
  BY DEF Arriving
<1>8. g = n - k
  BY <1>1, <1>7 DEF Got
<1>9. Got(n, v) = g
  <2>1. Got(n, v) = n + 1 - Len(v)
    BY <1>5 DEF Got
  <2> QED BY <1>2, <1>8, <2>1
<1>10. Got(n + 1, w) = g
  <2>1. Got(n + 1, w) = n + 1 + 0 - Len(w)
    BY <1>6 DEF Got
  <2> QED BY <1>3, <1>8, <2>1
<1>11. \A i \in 1 .. k : u[i] = Pcm(g + i)
  BY <1>1, <1>4, <1>7 DEF Arriving
<1>12. Arriving(n, v)
  <2>1. \A i \in 1 .. k + 1 : v[i] = End \/ v[i] = Pcm(g + i)
    BY <1>2, <1>11
  <2> QED BY <1>2, <1>9, <2>1 DEF Arriving
<1>13. Arriving(n + 1, w)
  <2>1. w[k + 1] = Pcm(g + (k + 1))
    BY <1>3, <1>8
  <2>2. \A i \in 1 .. k : w[i] = Pcm(g + i)
    BY <1>3, <1>11
  <2>3. \A i \in 1 .. k + 1 : w[i] = Pcm(g + i)
    BY <2>1, <2>2
  <2> QED BY <1>3, <1>10, <2>3 DEF Arriving
<1> QED BY <1>7, <1>9, <1>10, <1>12, <1>13 DEF v, w

LEMMA ArrivingTail ==
  ASSUME NEW n \in Nat, NEW u \in Seq(ToServer), Arriving(n, u), u # <<>>,
         \A i \in DOMAIN u : u[i] = End => i = Len(u)
  PROVE  /\ Arriving(n, Tail(u))
         /\ Head(u) = End => Got(n, Tail(u)) = Got(n, u)
         /\ Head(u) # End => Head(u) = Pcm(Got(n, u) + 1) /\ Got(n, Tail(u)) = Got(n, u) + 1
<1> DEFINE v == Tail(u)
<1>1. PICK k \in Nat : k + 1 = Len(u) /\ DOMAIN u = 1 .. k + 1
  <2>1. Len(u) \in Nat /\ Len(u) # 0 /\ DOMAIN u = 1 .. Len(u)
    OBVIOUS
  <2>2. PICK k \in Nat : k + 1 = Len(u)
    <3>1. Len(u) - 1 \in Nat /\ (Len(u) - 1) + 1 = Len(u)
      BY <2>1
    <3> QED BY <3>1
  <2> QED BY <2>1, <2>2
<1>2. Len(v) = k /\ DOMAIN v = 1 .. k /\ \A i \in 1 .. k : v[i] = u[i + 1]
  BY <1>1
<1>3. Head(u) = u[1]
  BY <1>1
<1>4. PICK g \in 0 .. n : g = Got(n, u)
  BY DEF Arriving
<1>5. \A i \in 1 .. k + 1 : u[i] = End \/ u[i] = Pcm(g + i)
  BY <1>1, <1>4 DEF Arriving
<1>6. CASE Head(u) = End
  <2>1. k = 0
    BY <1>1, <1>3, <1>6
  <2>2. v = <<>>
    <3>1. v \in Seq(ToServer)
      OBVIOUS
    <3> HIDE DEF v
    <3> QED BY <1>2, <2>1, <3>1
  <2>3. Ending(u)
    BY <1>1, <1>3, <1>6 DEF Ending
  <2>4. Got(n, u) = n
    <3>1. Got(n, u) = n + 1 - Len(u)
      BY <2>3 DEF Got
    <3>2. Len(u) = 1
      BY <1>1, <2>1
    <3>3. n + 1 - 1 = n
      OBVIOUS
    <3> QED BY <3>1, <3>2, <3>3
  <2> QED BY <1>6, <2>2, <2>4, ArrivingNothing
<1>7. CASE Head(u) # End
  <2>1. Head(u) = Pcm(g + 1)
    BY <1>3, <1>5, <1>7
  <2> HIDE DEF v
  <2>2. Ending(v) <=> Ending(u)
    <3>1. ASSUME Ending(v) PROVE Ending(u)
      <4>1. PICK i \in 1 .. k : v[i] = End
        BY <1>2, <3>1 DEF Ending
      <4>2. i + 1 \in DOMAIN u /\ u[i + 1] = End
        BY <1>1, <1>2, <4>1
      <4> QED BY <4>2 DEF Ending
    <3>2. ASSUME Ending(u) PROVE Ending(v)
      <4>1. PICK i \in 1 .. k + 1 : u[i] = End
        BY <1>1, <3>2 DEF Ending
      <4>2. i # 1
        BY <1>3, <1>7, <4>1
      <4>3. PICK j \in 1 .. k : j + 1 = i
        BY <4>2
      <4> QED BY <1>2, <4>1, <4>3 DEF Ending
    <3> QED BY <3>1, <3>2
  <2>3. Got(n, v) = g + 1
    <3>1. CASE Ending(u)
      BY <1>1, <1>2, <1>4, <2>2, <3>1 DEF Got
    <3>2. CASE ~Ending(u)
      BY <1>1, <1>2, <1>4, <2>2, <3>2, SMTT(30) DEF Got
    <3> QED BY <3>1, <3>2
  <2>4. g + 1 \in 0 .. n
    <3>1. CASE Ending(u)
      <4>1. g = n + 1 - (k + 1)
        BY <1>1, <1>4, <3>1 DEF Got
      <4>2. k # 0
        BY <1>1, <1>3, <1>7, <3>1 DEF Ending
      <4> QED BY <4>1, <4>2
    <3>2. CASE ~Ending(u)
      <4>1. g = n - (k + 1)
        BY <1>1, <1>4, <3>2 DEF Got
      <4> QED BY <4>1
    <3> QED BY <3>1, <3>2
  <2>5. \A i \in 1 .. k : v[i] = End \/ v[i] = Pcm((g + 1) + i)
    <3>1. \A i \in 1 .. k : i + 1 \in 1 .. k + 1 /\ g + (i + 1) = (g + 1) + i
      OBVIOUS
    <3> QED BY <1>2, <1>5, <3>1
  <2>6. Arriving(n, v)
    BY <1>2, <2>3, <2>4, <2>5 DEF Arriving
  <2> QED BY <1>4, <1>7, <2>1, <2>3, <2>6 DEF v
<1> QED BY <1>6, <1>7

-----------------------------------------------------------------------------
(***************************************************************************)
(* Final texts on their way: d are the frames, C what is committed.        *)
(***************************************************************************)

Finals(d) == {i \in DOMAIN d : d[i].kind = "final"}

SegmentOf(m) == [id |-> m.id, text |-> m.text]

Coming(d) == {SegmentOf(d[i]) : i \in Finals(d)}

Ordered(C, d) ==
  /\ Ranked(C)
  /\ \A x \in C, i \in Finals(d) : x.id < d[i].id
  /\ \A i, j \in Finals(d) : i < j => d[i].id < d[j].id

LEMMA ComingType ==
  ASSUME NEW d \in Seq(ToPage)
  PROVE  /\ Coming(d) \subseteq Segment
         /\ \A i \in DOMAIN d : d[i].id \in Nat /\ d[i].text \in Audio
<1>1. \A i \in DOMAIN d : d[i] \in ToPage
  OBVIOUS
<1>2. \A i \in DOMAIN d : d[i].id \in Nat /\ d[i].text \in Audio
  BY <1>1 DEF ToPage
<1> QED BY <1>2 DEF Coming, Finals, SegmentOf, Segment

LEMMA OrderedRanked ==
  ASSUME NEW C, NEW d \in Seq(ToPage), Ordered(C, d)
  PROVE  Ranked(C \cup Coming(d))
<1>1. C \cup Coming(d) \subseteq Segment
  BY ComingType DEF Ordered, Ranked
<1>2. ASSUME NEW x \in C \cup Coming(d), NEW y \in C \cup Coming(d), x.id = y.id
      PROVE  x = y
  <2>1. x.id \in Nat
    BY <1>1 DEF Segment
  <2>2. CASE x \in C /\ y \in C
    BY <1>2, <2>2 DEF Ordered, Ranked
  <2>3. CASE x \in C /\ y \in Coming(d)
    <3>1. PICK i \in Finals(d) : y = SegmentOf(d[i])
      BY <2>3 DEF Coming
    <3>2. x.id < y.id
      BY <2>3, <3>1 DEF Ordered, SegmentOf
    <3> QED BY <1>2, <2>1, <3>2
  <2>4. CASE x \in Coming(d) /\ y \in C
    <3>1. PICK i \in Finals(d) : x = SegmentOf(d[i])
      BY <2>4 DEF Coming
    <3>2. y.id < x.id
      BY <2>4, <3>1 DEF Ordered, SegmentOf
    <3> QED BY <1>2, <2>1, <3>2
  <2>5. CASE x \in Coming(d) /\ y \in Coming(d)
    <3>1. PICK i \in Finals(d) : x = SegmentOf(d[i])
      BY <2>5 DEF Coming
    <3>2. PICK j \in Finals(d) : y = SegmentOf(d[j])
      BY <2>5 DEF Coming
    <3>3. d[i].id = d[j].id /\ d[i].id \in Nat
      BY <1>2, <2>1, <3>1, <3>2 DEF SegmentOf
    <3>4. i \in Nat /\ j \in Nat
      BY DEF Finals
    <3>5. i = j
      BY <3>3, <3>4 DEF Ordered
    <3> QED BY <3>1, <3>2, <3>5
  <2> QED BY <2>2, <2>3, <2>4, <2>5
<1> QED BY <1>1, <1>2 DEF Ranked

LEMMA FinalsPosted ==
  ASSUME NEW d \in Seq(ToPage), NEW ms \in Seq(ToPage), \A i \in DOMAIN ms : ms[i].kind # "final"
  PROVE  /\ Finals(d \o ms) = Finals(d) /\ Coming(d \o ms) = Coming(d)
         /\ \A C : Ordered(C, d) => Ordered(C, d \o ms)
<1> DEFINE e == d \o ms
<1>1. /\ DOMAIN d = 1 .. Len(d) /\ DOMAIN ms = 1 .. Len(ms) /\ DOMAIN e = 1 .. Len(d) + Len(ms)
      /\ Len(d) \in Nat /\ Len(ms) \in Nat
      /\ \A i \in 1 .. Len(d) : e[i] = d[i]
      /\ \A i \in 1 .. Len(d) + Len(ms) : i > Len(d) => e[i] = ms[i - Len(d)]
  OBVIOUS
<1> HIDE DEF e
<1>2. \A i \in DOMAIN e : i \in DOMAIN d \/ (i - Len(d) \in DOMAIN ms /\ e[i] = ms[i - Len(d)])
  BY <1>1
<1>3. \A i \in DOMAIN d : i \in DOMAIN e /\ e[i] = d[i]
  BY <1>1
<1>4. Finals(e) = Finals(d) /\ \A i \in Finals(d) : e[i] = d[i]
  BY <1>2, <1>3 DEF Finals
<1>5. Coming(e) = Coming(d)
  BY <1>4 DEF Coming
<1>6. \A C : Ordered(C, d) => Ordered(C, e)
  BY <1>4 DEF Ordered
<1> QED BY <1>4, <1>5, <1>6 DEF e

LEMMA FinalPosted ==
  ASSUME NEW C, NEW d \in Seq(ToPage), Ordered(C, d), NEW id \in Nat, NEW t \in Audio,
         \A x \in C \cup Coming(d) : x.id < id
  PROVE  /\ Coming(d \o <<Text("final", id, t)>>) = Coming(d) \cup {[id |-> id, text |-> t]}
         /\ Ordered(C, d \o <<Text("final", id, t)>>)
<1> DEFINE m == Text("final", id, t)
           e == d \o <<m>>
<1>1. PICK k \in Nat : k = Len(d) /\ DOMAIN d = 1 .. k
  OBVIOUS
<1>2. m.kind = "final" /\ m.id = id /\ m.text = t /\ m \in ToPage
  BY DEF Text, ToPage
<1> HIDE DEF m
<1>3. DOMAIN e = 1 .. k + 1 /\ e[k + 1] = m /\ \A i \in 1 .. k : e[i] = d[i]
  BY <1>1, <1>2
<1> HIDE DEF e
<1>4. Finals(e) = Finals(d) \cup {k + 1}
  BY <1>1, <1>2, <1>3 DEF Finals
<1>5. \A i \in Finals(d) : i \in 1 .. k /\ e[i] = d[i]
  BY <1>1, <1>3 DEF Finals
<1>6. Coming(e) = Coming(d) \cup {SegmentOf(m)}
  BY <1>3, <1>4, <1>5 DEF Coming
<1>7. \A i \in Finals(d) : d[i].id < id
  <2>1. \A i \in Finals(d) : SegmentOf(d[i]) \in Coming(d) /\ SegmentOf(d[i]).id = d[i].id
    BY DEF Coming, SegmentOf
  <2> QED BY <2>1
<1>8. \A x \in C : x.id < id
  OBVIOUS
<1>9. Ordered(C, e)
  <2>1. \A x \in C, i \in Finals(e) : x.id < e[i].id
    BY <1>2, <1>3, <1>4, <1>5, <1>8 DEF Ordered
  <2>2. ASSUME NEW i \in Finals(e), NEW j \in Finals(e), i < j
        PROVE  e[i].id < e[j].id
    <3>1. i \in Finals(d)
      BY <1>4, <1>5, <2>2
    <3>2. CASE j \in Finals(d)
      BY <1>5, <2>2, <3>1, <3>2 DEF Ordered
    <3>3. CASE j = k + 1
      BY <1>2, <1>3, <1>5, <1>7, <3>1, <3>3
    <3> QED BY <1>4, <3>2, <3>3
  <2> QED BY <2>1, <2>2 DEF Ordered
<1> QED BY <1>2, <1>6, <1>9 DEF SegmentOf, m, e

(* The page takes the first frame. *)
LEMMA FinalTaken ==
  ASSUME NEW C, NEW d \in Seq(ToPage), Ordered(C, d), d # <<>>
  PROVE  /\ Head(d).kind # "final" => Ordered(C, Tail(d)) /\ Coming(Tail(d)) = Coming(d)
         /\ Head(d).kind = "final" =>
              LET B == {x \in C : x.id # Head(d).id} \cup {SegmentOf(Head(d))}
              IN Ordered(B, Tail(d)) /\ B \cup Coming(Tail(d)) = C \cup Coming(d)
<1> DEFINE e == Tail(d)
<1>1. PICK k \in Nat : k + 1 = Len(d) /\ DOMAIN d = 1 .. k + 1
  <2>1. Len(d) \in Nat /\ Len(d) # 0 /\ DOMAIN d = 1 .. Len(d)
    OBVIOUS
  <2>2. PICK k \in Nat : k + 1 = Len(d)
    <3>1. Len(d) - 1 \in Nat /\ (Len(d) - 1) + 1 = Len(d)
      BY <2>1
    <3> QED BY <3>1
  <2> QED BY <2>1, <2>2
<1>2. DOMAIN e = 1 .. k /\ \A i \in 1 .. k : e[i] = d[i + 1]
  BY <1>1
<1>3. Head(d) = d[1] /\ 1 \in DOMAIN d
  BY <1>1
<1> HIDE DEF e
<1>4. \A i \in Finals(e) : i \in 1 .. k /\ i + 1 \in Finals(d) /\ e[i] = d[i + 1]
  BY <1>1, <1>2 DEF Finals
<1>5. \A j \in Finals(d) : j # 1 => \E i \in Finals(e) : i + 1 = j
  <2> SUFFICES ASSUME NEW j \in Finals(d), j # 1 PROVE \E i \in Finals(e) : i + 1 = j
    OBVIOUS
  <2>1. PICK i \in 1 .. k : i + 1 = j
    <3>1. j - 1 \in 1 .. k /\ (j - 1) + 1 = j
      BY <1>1 DEF Finals
    <3> QED BY <3>1
  <2> QED BY <1>2, <2>1 DEF Finals
<1>6. \A i, j \in Finals(e) : i < j => e[i].id < e[j].id
  <2> SUFFICES ASSUME NEW i \in Finals(e), NEW j \in Finals(e), i < j PROVE e[i].id < e[j].id
    OBVIOUS
  <2>1. i + 1 < j + 1
    BY <1>4
  <2> QED BY <1>4, <2>1 DEF Ordered
<1>7. Coming(e) \subseteq Coming(d)
  BY <1>4 DEF Coming
<1>8. \A x \in C, i \in Finals(e) : x.id < e[i].id
  BY <1>4 DEF Ordered
<1>9. CASE Head(d).kind # "final"
  <2>1. Coming(d) \subseteq Coming(e)
    <3> SUFFICES ASSUME NEW x \in Coming(d) PROVE x \in Coming(e)
      OBVIOUS
    <3>1. PICK j \in Finals(d) : x = SegmentOf(d[j])
      BY DEF Coming
    <3>2. j # 1
      BY <1>3, <1>9 DEF Finals
    <3>3. PICK i \in Finals(e) : i + 1 = j
      BY <1>5, <3>2
    <3> QED BY <1>4, <3>1, <3>3 DEF Coming
  <2>2. Ordered(C, e)
    BY <1>6, <1>8 DEF Ordered
  <2> QED BY <1>7, <1>9, <2>1, <2>2 DEF e
<1>10. CASE Head(d).kind = "final"
  <2> DEFINE h == Head(d)
             B == {x \in C : x.id # h.id} \cup {SegmentOf(h)}
  <2>1. 1 \in Finals(d) /\ h = d[1] /\ h.id \in Nat
    BY <1>3, <1>10, ComingType DEF Finals
  <2> HIDE DEF h
  <2>2. \A x \in C : x.id < h.id /\ x.id \in Nat
    BY <2>1 DEF Ordered, Ranked, Segment
  <2>3. B = C \cup {SegmentOf(h)}
    BY <2>1, <2>2
  <2>4. SegmentOf(h) \in Coming(d)
    BY <2>1 DEF Coming
  <2>5. SegmentOf(h) \in Segment
    BY <2>4, ComingType
  <2>6. Ranked(B)
    <3>1. SegmentOf(h).id = h.id
      BY DEF SegmentOf
    <3>2. \A x \in C : x.id # h.id
      BY <2>1, <2>2
    <3> HIDE DEF B
    <3> QED BY <2>3, <2>5, <3>1, <3>2 DEF Ordered, Ranked
  <2>7. \A x \in B, i \in Finals(e) : x.id < e[i].id
    <3>1. ASSUME NEW i \in Finals(e)
          PROVE  h.id < e[i].id
      <4>1. 1 < i + 1
        BY <1>4
      <4> QED BY <1>4, <2>1, <4>1 DEF Ordered
    <3>2. SegmentOf(h).id = h.id
      BY DEF SegmentOf
    <3> HIDE DEF B
    <3> QED BY <1>8, <2>3, <3>1, <3>2
  <2>8. Coming(d) \subseteq Coming(e) \cup {SegmentOf(h)}
    <3> SUFFICES ASSUME NEW x \in Coming(d), x # SegmentOf(h) PROVE x \in Coming(e)
      OBVIOUS
    <3>1. PICK j \in Finals(d) : x = SegmentOf(d[j])
      BY DEF Coming
    <3>2. j # 1
      BY <2>1, <3>1
    <3>3. PICK i \in Finals(e) : i + 1 = j
      BY <1>5, <3>2
    <3> QED BY <1>4, <3>1, <3>3 DEF Coming
  <2>9. B \cup Coming(e) = C \cup Coming(d)
    <3> HIDE DEF B
    <3> QED BY <1>7, <2>3, <2>4, <2>8
  <2>10. Ordered(B, e)
    <3> HIDE DEF B
    <3> QED BY <1>6, <2>6, <2>7 DEF Ordered
  <2> QED BY <1>10, <2>9, <2>10 DEF e, h
<1> QED BY <1>9, <1>10

-----------------------------------------------------------------------------
(***************************************************************************)
(* The text so far: n chunks were sent and g received, S are the final     *)
(* texts of the connection, shown or on their way, t is its task.          *)
(***************************************************************************)

AtEnd == {"close", "ended"}

Rest(S, g, t) ==
  /\ \A x \in S : x.id < t.id
  /\ t.id + Len(t.seg) <= g
  /\ InOrder(S) \o Recognised(t.seg) = Heard(0, g)

TextSoFar(S, n, g, t, h) ==
  /\ \A x \in S : x.id <= Chunks
  /\ t.pc \notin AtEnd => Rest(S, g, t)
  /\ t.pc = "close" \/ h = "ok" => InOrder(S) = Heard(0, g)
  /\ Begins(Heard(0, n), InOrder(S))

LEMMA HeardBegins ==
  ASSUME NEW a \in Nat, NEW b \in Nat, a <= b
  PROVE  Heard(0, a) \in Seq(Nat) /\ Begins(Heard(0, b), Heard(0, a))
<1>1. 0 \in Nat /\ 0 <= a
  OBVIOUS
<1>2. Heard(0, a) \in Seq(Nat) /\ Heard(a, b) \in Seq(Nat)
  BY <1>1, HeardType
<1>3. Heard(0, a) \o Heard(a, b) = Heard(0, b)
  BY <1>1, HeardJoin, Zenon
<1> QED BY <1>2, <1>3 DEF Begins

LEMMA HeardMore ==
  ASSUME NEW g \in Nat
  PROVE  Heard(0, g + 1) = IF g + 1 \in Voiced THEN Append(Heard(0, g), g + 1) ELSE Heard(0, g)
<1>1. 0 \in Nat /\ 0 <= g /\ g + 1 \in Nat
  OBVIOUS
<1>2. Piece(0, g) \in Seq(Nat)
  BY <1>1, PieceIs
<1>3. Append(Piece(0, g), g + 1) = Piece(0, g + 1)
  BY <1>1, PieceMore, Zenon
<1>4. Recognised(Append(Piece(0, g), g + 1)) =
        IF g + 1 \in Voiced THEN Append(Recognised(Piece(0, g)), g + 1) ELSE Recognised(Piece(0, g))
  BY <1>1, <1>2, RecognisedAppend
<1> QED BY <1>3, <1>4, Zenon DEF Heard

LEMMA SoFarSent ==
  ASSUME NEW S, Ranked(S), NEW n \in Nat, NEW g, NEW t, NEW h, TextSoFar(S, n, g, t, h)
  PROVE  TextSoFar(S, n + 1, g, t, h)
<1>1. n <= n + 1 /\ n + 1 \in Nat
  OBVIOUS
<1>2. Begins(Heard(0, n + 1), Heard(0, n))
  BY <1>1, HeardBegins, Zenon
<1>3. Begins(Heard(0, n + 1), InOrder(S))
  BY <1>2, InOrderType, BeginsBoth DEF TextSoFar
<1> QED BY <1>3, Zenon DEF TextSoFar

LEMMA SoFarReceived ==
  ASSUME NEW S, Ranked(S), NEW n \in 0 .. Chunks, NEW g \in 0 .. n, g + 1 <= n,
         NEW t \in ATask, NEW u \in ATask, NEW h, TextSoFar(S, n, g, t, h),
         t.pc \notin AtEnd, u.pc \notin AtEnd, h # "ok",
         u.seg = Append(t.seg, g + 1), u.id = t.id
  PROVE  TextSoFar(S, n, g + 1, u, h)
<1> USE RecognitionAssumption
<1>1. t.seg \in Seq(Nat) /\ t.id \in Nat /\ g \in Nat /\ g + 1 \in Nat
  BY AudioIs DEF ATask
<1>2. Recognised(u.seg) =
        IF g + 1 \in Voiced THEN Append(Recognised(t.seg), g + 1) ELSE Recognised(t.seg)
  <2>1. Recognised(Append(t.seg, g + 1)) =
          IF g + 1 \in Voiced THEN Append(Recognised(t.seg), g + 1) ELSE Recognised(t.seg)
    BY <1>1, RecognisedAppend, Zenon
  <2> QED BY <2>1, Zenon
<1>3. Recognised(t.seg) \in Seq(Nat) /\ InOrder(S) \in Seq(Nat)
  BY <1>1, RecognisedType, InOrderType
<1>4. InOrder(S) \o Append(Recognised(t.seg), g + 1) = Append(InOrder(S) \o Recognised(t.seg), g + 1)
  <2>1. \A a, b \in Seq(Nat), k \in Nat : a \o Append(b, k) = Append(a \o b, k)
    OBVIOUS
  <2> QED BY <1>1, <1>3, <2>1
<1>5. InOrder(S) \o Recognised(t.seg) = Heard(0, g)
  BY DEF TextSoFar, Rest
<1>6. InOrder(S) \o Recognised(u.seg) = Heard(0, g + 1)
  BY <1>1, <1>2, <1>4, <1>5, HeardMore
<1>7. u.id + Len(u.seg) <= g + 1
  <2>1. Len(u.seg) = Len(t.seg) + 1 /\ Len(t.seg) \in Nat
    BY <1>1
  <2>2. t.id + Len(t.seg) <= g
    BY DEF TextSoFar, Rest
  <2> QED BY <1>1, <2>1, <2>2
<1>8. \A x \in S : x.id < u.id
  BY DEF TextSoFar, Rest
<1> QED BY <1>6, <1>7, <1>8 DEF TextSoFar, Rest, AtEnd

LEMMA SoFarMoved ==
  ASSUME NEW S, NEW n, NEW g, NEW t, NEW u, NEW h, TextSoFar(S, n, g, t, h),
         t.pc \notin AtEnd, u.pc \notin AtEnd, u.seg = t.seg, u.id = t.id
  PROVE  TextSoFar(S, n, g, u, h)
BY DEF TextSoFar, Rest, AtEnd

(* Nothing was heard since the last final text. *)
LEMMA SoFarSilent ==
  ASSUME NEW S, Ranked(S), NEW n, NEW g, NEW t, NEW u, NEW h, TextSoFar(S, n, g, t, h),
         t.pc \notin AtEnd, u.pc = "close", Recognised(t.seg) = <<>>
  PROVE  TextSoFar(S, n, g, u, h)
<1>1. InOrder(S) \o <<>> = InOrder(S)
  BY InOrderType, ConcatEmptySeq
<1>2. InOrder(S) = Heard(0, g)
  BY <1>1 DEF TextSoFar, Rest
<1> QED BY <1>2 DEF TextSoFar, AtEnd

LEMMA SoFarEnded ==
  ASSUME NEW S, NEW n, NEW g, NEW t, NEW u, NEW h, NEW i, TextSoFar(S, n, g, t, h),
         u.pc = "ended", i = "ok" => t.pc = "close"
  PROVE  TextSoFar(S, n, g, u, i)
BY DEF TextSoFar, AtEnd

LEMMA SoFarFinal ==
  ASSUME NEW S, Ranked(S), NEW n \in 0 .. Chunks, NEW g \in 0 .. n, NEW t \in ATask, NEW u \in ATask,
         NEW h, TextSoFar(S, n, g, t, h), t.pc \notin AtEnd, h # "ok", t.seg # <<>>,
         NEW x \in Segment, x.id = t.id, x.text = Recognised(t.seg),
         u.pc = "close" \/ (u.pc \notin AtEnd /\ u.id = t.id + 1 /\ u.seg = <<>>)
  PROVE  TextSoFar(S \cup {x}, n, g, u, h)
<1> USE RecognitionAssumption
<1> DEFINE R == S \cup {x}
<1>1. t.id \in Nat /\ t.seg \in Seq(Nat) /\ Len(t.seg) \in Nat /\ Len(t.seg) # 0
  BY AudioIs DEF ATask
<1>2. t.id + Len(t.seg) <= g /\ InOrder(S) \o Recognised(t.seg) = Heard(0, g)
      /\ \A y \in S : y.id < t.id
  BY DEF TextSoFar, Rest
<1>3. t.id + 1 <= g /\ t.id <= Chunks
  BY <1>1, <1>2
<1>4. Ranked(R) /\ InOrder(R) = Heard(0, g)
  BY <1>2, <1>3, InOrderAdds
<1>5. \A y \in R : y.id < t.id + 1 /\ y.id <= Chunks
  <2>1. \A y \in S : y.id \in Nat
    BY DEF Ranked, Segment
  <2> QED BY <1>1, <1>2, <1>3, <2>1
<1>6. Begins(Heard(0, n), InOrder(R))
  <2>1. g \in Nat /\ n \in Nat /\ g <= n
    OBVIOUS
  <2> QED BY <1>4, <2>1, HeardBegins
<1> HIDE DEF R
<1>7. u.pc \notin AtEnd => Rest(R, g, u)
  <2> SUFFICES ASSUME u.pc \notin AtEnd PROVE Rest(R, g, u)
    OBVIOUS
  <2>1. u.id = t.id + 1 /\ u.seg = <<>>
    BY DEF AtEnd
  <2>2. InOrder(R) \o Recognised(u.seg) = InOrder(R)
    BY <1>4, <2>1, RecognisedNothing, InOrderType, ConcatEmptySeq
  <2>3. u.id + Len(u.seg) <= g
    BY <1>1, <1>3, <2>1
  <2> QED BY <1>4, <1>5, <2>1, <2>2, <2>3 DEF Rest
<1>8. TextSoFar(R, n, g, u, h)
  BY <1>4, <1>5, <1>6, <1>7 DEF TextSoFar
<1> QED BY <1>8 DEF R

-----------------------------------------------------------------------------
(***************************************************************************)
(* While a socket is open, the final texts shown and on their way, what is *)
(* heard of the open sentence, and the chunks on their way, make up all    *)
(* that was sent.                                                          *)
(***************************************************************************)

Transcribed(C, n, u, d, t, h) ==
  /\ Ordered(C, d) /\ Arriving(n, u)
  /\ TextSoFar(C \cup Coming(d), n, Got(n, u), t, h)

TextInv ==
  \A c \in Conn : sock[c] = "open" =>
    Transcribed(committed, sent[c], up[c], down[c], srv[c], how[c])

LEMMA PostsPlain ==
  ASSUME TypeOK, NEW c \in Conn, sock[c] = "open", Ordered(committed, down[c]),
         NEW ms \in Seq(ToPage), \A i \in DOMAIN ms : ms[i].kind # "final", Post(c, ms)
  PROVE  Ordered(committed, down'[c]) /\ Coming(down'[c]) = Coming(down[c])
<1>1. down[c] \in Seq(ToPage) /\ down'[c] = down[c] \o ms
  BY DEF TypeOK, Post, Reaches
<1> QED BY <1>1, FinalsPosted

LEMMA PlainPosts ==
  /\ \A kind \in {"ready", "close"} :
       /\ <<Plain(kind)>> \in Seq(ToPage)
       /\ \A i \in DOMAIN <<Plain(kind)>> : <<Plain(kind)>>[i].kind # "final"
  /\ <<Plain("error"), Plain("close")>> \in Seq(ToPage)
  /\ \A i \in DOMAIN <<Plain("error"), Plain("close")>> :
       <<Plain("error"), Plain("close")>>[i].kind # "final"
  /\ \A id \in Nat, t \in Audio :
       /\ <<Text("partial", id, t)>> \in Seq(ToPage)
       /\ \A i \in DOMAIN <<Text("partial", id, t)>> : <<Text("partial", id, t)>>[i].kind # "final"
<1>1. \A kind \in {"ready", "close"} : Plain(kind) \in ToPage /\ Plain(kind).kind # "final"
  BY MessageTypes DEF Plain
<1>2. Plain("error") \in ToPage /\ Plain("error").kind # "final"
  BY MessageTypes DEF Plain
<1>3. \A id \in Nat, t \in Audio :
        Text("partial", id, t) \in ToPage /\ Text("partial", id, t).kind # "final"
  BY MessageTypes DEF Text
<1>4. \A m \in ToPage : m.kind # "final" =>
        <<m>> \in Seq(ToPage) /\ \A i \in DOMAIN <<m>> : <<m>>[i].kind # "final"
  OBVIOUS
<1>5. \A m, o \in ToPage : m.kind # "final" /\ o.kind # "final" =>
        <<m, o>> \in Seq(ToPage) /\ \A i \in DOMAIN <<m, o>> : <<m, o>>[i].kind # "final"
  OBVIOUS
<1>6. <<Plain("error"), Plain("close")>> \in Seq(ToPage)
      /\ \A i \in DOMAIN <<Plain("error"), Plain("close")>> :
           <<Plain("error"), Plain("close")>>[i].kind # "final"
  BY <1>1, <1>2, <1>5
<1> QED BY <1>1, <1>3, <1>4, <1>6

(* What is sent as the final text of a sentence is what was recognised of   *)
(* its audio, whether the correction or the streaming text goes out.        *)
LEMMA CorrectionIs ==
  ASSUME NEW t \in ATask, TaskInv(t), t.buf = <<>>, NEW x \in Corrections(t)
  PROVE  x = Recognised(t.seg)
<1>1. t.cache \o <<>> = t.cache
  BY ConcatEmptySeq DEF ATask, Audio
<1>2. t.seg = t.cache
  BY <1>1 DEF TaskInv
<1> QED BY <1>2 DEF TaskInv, Corrections

LEMMA ServerTranscribes ==
  ASSUME TypeOK, ServerInv, EndInv, NEW c \in Conn, sock[c] = "open",
         Transcribed(committed, sent[c], up[c], down[c], srv[c], how[c]), Server(c)
  PROVE  Transcribed(committed, sent[c], up'[c], down'[c], srv'[c], how'[c])
<1> DEFINE n == sent[c]
           t == srv[c]
           S == committed \cup Coming(down[c])
           g == Got(n, up[c])
           Quiet == Ordered(committed, down'[c]) /\ Coming(down'[c]) = Coming(down[c])
<1>1. n \in 0 .. Chunks /\ t \in ATask /\ up[c] \in Seq(ToServer) /\ down[c] \in Seq(ToPage)
  BY DEF TypeOK
<1>2. Ordered(committed, down[c]) /\ Arriving(n, up[c]) /\ TextSoFar(S, n, g, t, how[c])
  BY DEF Transcribed
<1>3. g \in 0 .. n
  BY <1>2 DEF Arriving
<1>4. Ranked(S)
  BY <1>1, <1>2, OrderedRanked
<1>5. TaskInv(t) /\ ~t.gone /\ (how[c] # "none" => t.pc = "ended")
      /\ \A i \in DOMAIN up[c] : up[c][i] # Gone
  BY DEF ServerInv
<1>6. srv \in [Conn -> ATask] /\ how \in [Conn -> Hows] /\ down \in [Conn -> Seq(ToPage)]
      /\ up \in [Conn -> Seq(ToServer)]
  BY DEF TypeOK
<1>7. Reaches(c)
  BY DEF Reaches
<1>q. down' = down => Quiet
  BY <1>2
<1>r. \A ms \in Seq(ToPage) : (\A i \in DOMAIN ms : ms[i].kind # "final") /\ Post(c, ms) => Quiet
  BY <1>2, PostsPlain
<1> SUFFICES Transcribed(committed, n, up'[c], down'[c], srv'[c], how'[c])
  OBVIOUS
<1> HIDE DEF n, t, S, g, Quiet
<1>a. ASSUME Quiet, up' = up, TextSoFar(S, n, g, srv'[c], how'[c])
      PROVE  Transcribed(committed, n, up'[c], down'[c], srv'[c], how'[c])
  BY <1>2, <1>a DEF Transcribed, Quiet, S, g
<1>m. ASSUME Quiet, up' = up, how' = how, t.pc \notin AtEnd, srv'[c].pc \notin AtEnd,
             srv'[c].seg = t.seg, srv'[c].id = t.id
      PROVE  Transcribed(committed, n, up'[c], down'[c], srv'[c], how'[c])
  BY <1>2, <1>a, <1>m, SoFarMoved
<1>e. ASSUME Quiet, up' = up, NEW h, Ends(c, h), h = "ok" => t.pc = "close"
      PROVE  Transcribed(committed, n, up'[c], down'[c], srv'[c], how'[c])
  <2>1. srv'[c].pc = "ended" /\ how'[c] = h
    BY <1>6, <1>e DEF Ends, Task, NewTask
  <2> QED BY <1>2, <1>a, <1>e, <2>1, SoFarEnded
<1>t. \A p : At(c, p) => srv'[c].pc = p /\ srv'[c].seg = t.seg /\ srv'[c].id = t.id
  BY <1>6 DEF At, Task, ATask, t
<1>p. t.pc \notin AtEnd => how[c] # "ok"
  BY <1>5 DEF AtEnd
<1>8. CASE SendFails(c)
  BY <1>7, <1>8 DEF SendFails
<1>9. CASE BadStart(c) \/ SlotTimeout(c) \/ EngineFails(c)
  <2>1. up' = up /\ Post(c, <<Plain("error"), Plain("close")>>)
    BY <1>9 DEF BadStart, SlotTimeout, EngineFails, Refuse
  <2>2. \E h : Ends(c, h) /\ h # "ok"
    BY <1>9 DEF BadStart, SlotTimeout, EngineFails, Refuse
  <2> QED BY <1>r, <1>e, <2>1, <2>2, PlainPosts
<1>10. CASE Started(c) \/ SlotGranted(c)
  <2>1. down' = down /\ up' = up /\ how' = how /\ t.pc \notin AtEnd
        /\ \E p : At(c, p) /\ p \notin AtEnd
    BY <1>10 DEF Started, SlotGranted, AtEnd, t
  <2> QED BY <1>q, <1>m, <1>t, <2>1
<1>11. CASE Ready(c)
  <2>1. up' = up /\ how' = how /\ t.pc \notin AtEnd /\ At(c, "slot") /\ "slot" \notin AtEnd
        /\ Post(c, <<Plain("ready")>>)
    BY <1>11 DEF Ready, AtEnd, t
  <2> QED BY <1>r, <1>m, <1>t, <2>1, PlainPosts
<1>12. CASE Finishes(c)
  <2>1. up' = up /\ t.pc = "close" /\ Ends(c, "ok") /\ Post(c, <<Plain("close")>>)
    BY <1>5, <1>12 DEF Finishes, CloseDown, t
  <2> QED BY <1>r, <1>e, <2>1, PlainPosts
<1>13. CASE Receive(c)
  <2> DEFINE m == Head(up[c])
  <2>1. t.pc = "receive" /\ up[c] # <<>> /\ up'[c] = Tail(up[c]) /\ down' = down /\ how' = how
    BY <1>6, <1>13 DEF Receive, t
  <2>2. up[c][1] = m /\ 1 \in DOMAIN up[c]
    BY <1>1, <2>1
  <2>3. m # Gone /\ t.pc \notin AtEnd
    BY <1>5, <2>1, <2>2 DEF AtEnd
  <2>4. \A i \in DOMAIN up[c] : up[c][i] = End => i = Len(up[c])
    BY DEF EndInv
  <2>5. n \in Nat
    BY <1>1
  <2>6. /\ Arriving(n, Tail(up[c]))
        /\ m = End => Got(n, Tail(up[c])) = g
        /\ m # End => m = Pcm(g + 1) /\ Got(n, Tail(up[c])) = g + 1
    BY <1>1, <1>2, <2>1, <2>4, <2>5, ArrivingTail DEF g
  <2>7. srv'[c] = IF IsAudio(m)
                    THEN [t EXCEPT !.buf = Append(@, m.k), !.seg = Append(@, m.k),
                            !.pc = IF Len(Append(t.buf, m.k)) < Window THEN "receive" ELSE "flush"]
                    ELSE [t EXCEPT !.gone = (m.kind = "disconnect"),
                            !.pc = IF Unfinished(t) THEN "tail" ELSE "close"]
    BY <1>6, <1>13 DEF Receive, Task, t
  <2> HIDE DEF m
  <2>8. CASE m = End
    <3>1. ~IsAudio(m)
      BY <2>8 DEF IsAudio, End
    <3>2. srv'[c].pc = (IF Unfinished(t) THEN "tail" ELSE "close")
          /\ srv'[c].seg = t.seg /\ srv'[c].id = t.id
      BY <1>1, <2>7, <3>1 DEF ATask
    <3>3. TextSoFar(S, n, g, srv'[c], how[c])
      <4>1. CASE Unfinished(t)
        BY <1>2, <2>3, <3>2, <4>1, SoFarMoved DEF AtEnd
      <4>2. CASE ~Unfinished(t)
        <5>1. Recognised(t.seg) = <<>>
          BY <4>2, RecognisedNothing DEF Unfinished
        <5> QED BY <1>2, <1>4, <2>3, <3>2, <4>2, <5>1, SoFarSilent
      <4> QED BY <4>1, <4>2
    <3> QED BY <1>2, <2>1, <2>6, <2>8, <3>3 DEF Transcribed, S
  <2>9. CASE m # End
    <3>1. m = Pcm(g + 1) /\ Got(n, Tail(up[c])) = g + 1
      BY <2>6, <2>9
    <3>2. IsAudio(m) /\ m.k = g + 1
      BY <3>1 DEF IsAudio, Pcm
    <3>3. srv'[c].pc \notin AtEnd /\ srv'[c].seg = Append(t.seg, g + 1) /\ srv'[c].id = t.id
      BY <1>1, <2>7, <3>2 DEF ATask, AtEnd
    <3>4. g + 1 <= n
      BY <2>6, <3>1 DEF Arriving
    <3>5. srv'[c] \in ATask
      <4>1. g + 1 \in 1 .. Chunks
        BY <1>1, <1>3, <3>4, RecognitionAssumption
      <4>2. Append(t.buf, g + 1) \in Audio /\ Append(t.seg, g + 1) \in Audio
        BY <1>1, <4>1 DEF ATask, Audio
      <4> QED BY <1>1, <2>7, <3>2, <4>2, ZenonT(60) DEF ATask, Places
    <3>6. TextSoFar(S, n, g + 1, srv'[c], how[c])
      BY <1>1, <1>2, <1>3, <1>4, <1>p, <2>3, <3>3, <3>4, <3>5, SoFarReceived
    <3> QED BY <1>2, <2>1, <2>6, <3>1, <3>6 DEF Transcribed, S
  <2> QED BY <2>8, <2>9
<1>14. CASE Flush(c) \/ FlushTail(c)
  <2>1. /\ down' = down /\ up' = up /\ how' = how /\ t.pc \notin AtEnd
        /\ \E p \in {"partial", "tailfinal"} : srv'[c] = Flushed(t, p)
    BY <1>6, <1>14 DEF Flush, FlushTail, AtEnd, Task, t
  <2>2. srv'[c].pc \notin AtEnd /\ srv'[c].seg = t.seg /\ srv'[c].id = t.id
    BY <1>1, <2>1 DEF Flushed, ATask, AtEnd
  <2> QED BY <1>q, <1>m, <2>1, <2>2
<1>15. CASE SendPartial(c)
  <2>1. /\ up' = up /\ how' = how /\ t.pc \notin AtEnd
        /\ Post(c, <<Text("partial", t.id, t.text)>>)
        /\ \E p : At(c, p) /\ p \notin AtEnd
    BY <1>15 DEF SendPartial, AtEnd, t
  <2>2. t.id \in Nat /\ t.text \in Audio
    BY <1>1 DEF ATask
  <2>3. Quiet
    BY <1>r, <2>1, <2>2, PlainPosts
  <2> QED BY <1>m, <1>t, <2>1, <2>3
<1>16. CASE SendFinal(c) \/ (SendTail(c) /\ down' # down)
  <2>1. /\ t.pc \in {"final", "tailfinal"} /\ up' = up /\ how' = how
        /\ \E text \in Corrections(t) : Post(c, <<Text("final", t.id, text)>>)
        /\ srv'[c].pc = "close" \/ srv'[c] = NextSentence(t)
    BY <1>6, <1>16 DEF SendFinal, SendTail, At, Task, ATask, t
  <2>2. PICK text \in Corrections(t) : Post(c, <<Text("final", t.id, text)>>)
    BY <2>1
  <2>3. t.buf = <<>> /\ t.seg # <<>> /\ t.pc \notin AtEnd
    BY <1>5, <2>1 DEF TaskInv, AtEnd
  <2>4. text \in Audio /\ text = Recognised(t.seg)
    BY <1>1, <1>5, <2>3, CorrectionsType, CorrectionIs
  <2>5. t.id \in Nat
    BY <1>1 DEF ATask
  <2> DEFINE x == [id |-> t.id, text |-> text]
  <2>6. x \in Segment
    BY <2>4, <2>5 DEF Segment
  <2>7. down'[c] = down[c] \o <<Text("final", t.id, text)>>
    BY <1>6, <1>7, <2>2 DEF Post
  <2>8. \A y \in S : y.id < t.id
    BY <1>2, <2>3 DEF TextSoFar, Rest
  <2>9. Ordered(committed, down'[c]) /\ Coming(down'[c]) = Coming(down[c]) \cup {x}
    BY <1>1, <1>2, <2>4, <2>5, <2>7, <2>8, FinalPosted, SMTT(30) DEF S
  <2>10. srv'[c] \in ATask /\ (srv'[c].pc = "close" \/
           (srv'[c].pc \notin AtEnd /\ srv'[c].id = t.id + 1 /\ srv'[c].seg = <<>>))
    <3>1. CASE srv'[c] = NextSentence(t)
      BY <1>1, <3>1, NextSentenceType DEF NextSentence, ATask, AtEnd
    <3>2. CASE srv'[c] # NextSentence(t)
      <4>1. SendTail(c)
        BY <1>6, <1>16, <3>2 DEF SendFinal, Task, t
      <4>2. srv'[c] = [t EXCEPT !.pc = "close"]
        BY <1>6, <4>1 DEF SendTail, At, Task, t
      <4> QED BY <1>1, <4>2 DEF ATask, Places
    <3> QED BY <3>1, <3>2
  <2>11. x.id = t.id /\ x.text = Recognised(t.seg)
    BY <2>4
  <2> HIDE DEF x
  <2>12. TextSoFar(S \cup {x}, n, g, srv'[c], how[c])
    BY <1>1, <1>2, <1>3, <1>4, <1>p, <2>3, <2>6, <2>10, <2>11, SoFarFinal
  <2>13. S \cup {x} = committed \cup Coming(down'[c])
    BY <2>9 DEF S
  <2> QED BY <1>2, <2>1, <2>9, <2>12, <2>13 DEF Transcribed, g
<1>17. CASE SendTail(c) /\ down' = down
  <2>1. t.pc = "tailfinal" /\ up' = up /\ how' = how /\ srv'[c].pc = "close"
    BY <1>6, <1>17 DEF SendTail, At, Task, ATask, t
  <2>2. t.buf = <<>> /\ t.pc \notin AtEnd
    BY <1>5, <2>1 DEF TaskInv, AtEnd
  <2>3. Recognised(t.seg) = <<>>
    <3>1. PICK text \in Corrections(t) :
            text = <<>> \/ Post(c, <<Text("final", t.id, text)>>)
      BY <1>17 DEF SendTail, t
    <3>2. text \in Audio /\ text = Recognised(t.seg)
      BY <1>1, <1>5, <2>2, CorrectionsType, CorrectionIs
    <3>3. CASE text # <<>>
      <4>1. down'[c] = down[c] \o <<Text("final", t.id, text)>>
        BY <1>6, <1>7, <3>1, <3>3 DEF Post
      <4>2. Len(down[c] \o <<Text("final", t.id, text)>>) = Len(down[c]) + 1 /\ Len(down[c]) \in Nat
        <5>1. Text("final", t.id, text) \in ToPage
          BY <1>1, <3>2, MessageTypes DEF ATask
        <5> QED BY <1>1, <5>1
      <4> QED BY <1>17, <4>1, <4>2
    <3> QED BY <3>2, <3>3
  <2>4. TextSoFar(S, n, g, srv'[c], how'[c])
    BY <1>2, <1>4, <2>1, <2>2, <2>3, SoFarSilent
  <2> QED BY <1>17, <1>q, <1>a, <2>1, <2>4
<1> QED
  BY <1>8, <1>9, <1>10, <1>11, <1>12, <1>13, <1>14, <1>15, <1>16, <1>17 DEF Server

(* What a step does to a connection that is open after it. *)
LEMMA OpenSteps ==
  ASSUME PageInv, ServerInv, EndInv, [Next]_vars, NEW c \in Conn, sock'[c] = "open"
  PROVE  \/ Opens(c)
         \/ /\ sock[c] = "open" /\ UNCHANGED shown
            /\ sent'[c] = sent[c] /\ down'[c] = down[c] /\ srv'[c] = srv[c] /\ how'[c] = how[c]
            /\ \/ up'[c] = up[c]
               \/ up'[c] = Append(up[c], End) /\ ~Ending(up[c])
         \/ Speaks(c) /\ ~Ending(up[c])
         \/ Deliver(c)
         \/ sock[c] = "open" /\ Server(c)
<1> USE RecognitionAssumption DEF browser, shown, server
<1>0. TypeOK /\ SocketInv /\ MicInv
  BY DEF PageInv
<1>1. sock \in [Conn -> Sockets] /\ up \in [Conn -> Seq(ToServer)] /\ sent \in [Conn -> 0 .. Chunks]
      /\ wsRef \in 0 .. Starts
  BY <1>0 DEF TypeOK
<1> DEFINE Still == /\ sock[c] = "open" /\ UNCHANGED shown /\ Same(c)
<1>2. Ending(up[c]) => EndSent(c)
  BY DEF Ending, EndSent, EndUnderWay
<1>3. CASE Start
  <2>1. last + 1 \in Conn
    BY <1>0, <1>3 DEF Start, TypeOK, Conn
  <2>2. sock'[c] # "open" \/ sock[c] = "open"
    BY <1>1, <1>3, <2>1 DEF Start
  <2> QED BY <1>0, <1>3, <2>2 DEF Start, SocketInv
<1>4. CASE Cancel
  <2>1. wsRef \in Conn
    BY <1>0, <1>1, <1>4 DEF Cancel, SocketInv, Conn
  <2>2. sock[c] = "open"
    BY <1>1, <1>4, <2>1 DEF Cancel, Close
  <2> QED BY <1>4, <2>2 DEF Cancel
<1>5. CASE StopRecording
  <2>1. wsRef \in Conn
    BY <1>0, <1>1, <1>5 DEF StopRecording, SocketInv, Conn
  <2>2. sock[c] = "open"
    BY <1>1, <1>5, <2>1 DEF StopRecording, Close
  <2>3. c = wsRef
    BY <1>0, <2>2 DEF SocketInv
  <2>4. ~Ending(up[c])
    BY <1>2, <1>5, <2>3 DEF EndInv, StopRecording
  <2>5. up'[c] = Append(up[c], End)
    BY <1>1, <1>5, <2>2, <2>3 DEF StopRecording
  <2> QED BY <1>5, <2>2, <2>4, <2>5 DEF StopRecording
<1>6. ASSUME NEW d \in Conn, d # c, Socket(d) \/ Microphone(d) \/ Server(d)
      PROVE  Still
  <2>1. Same(c)
    BY <1>0, <1>6, StepsAreLocal
  <2>2. sock[c] = "open" /\ c = wsRef
    BY <1>0, <2>1 DEF Same, SocketInv
  <2>3. sock[d] # "open"
    BY <1>0, <1>6, <2>2 DEF SocketInv
  <2>4. UNCHANGED shown
    BY <1>6, <2>3, ServerWorks DEF Socket, Opens, ConnectTimeout, Closed, ConnectionLost, Over,
       Deliver, Microphone, MicGranted, MicStarted, MicFails, Speaks
  <2> QED BY <2>1, <2>2, <2>4
<1>7. CASE Socket(c)
  <2>1. CASE Opens(c)
    BY <2>1
  <2>2. CASE ConnectTimeout(c)
    BY <1>1, <2>2 DEF ConnectTimeout, Close
  <2>3. CASE Closed(c) \/ ConnectionLost(c)
    BY <1>1, <2>3 DEF Closed, ConnectionLost, Over
  <2>4. CASE Deliver(c)
    BY <2>4
  <2> QED BY <1>7, <2>1, <2>2, <2>3, <2>4 DEF Socket
<1>8. CASE Microphone(c)
  <2>1. CASE MicGranted(c) \/ MicStarted(c)
    BY <2>1 DEF MicGranted, MicStarted
  <2>2. CASE MicFails(c)
    <3>1. sock[c] = "open"
      BY <1>1, <2>2 DEF MicFails, Close
    <3> QED BY <2>2, <3>1 DEF MicFails
  <2>3. CASE Speaks(c)
    <3>1. ~EndSent(c)
      BY <2>3 DEF EndInv, Speaks
    <3> QED BY <1>2, <2>3, <3>1
  <2> QED BY <1>8, <2>1, <2>2, <2>3 DEF Microphone
<1>9. CASE Server(c)
  BY <1>9, ServerWorks
<1>10. CASE UNCHANGED vars
  BY <1>10 DEF vars
<1>11. Still =>
         /\ sock[c] = "open" /\ UNCHANGED shown
         /\ sent'[c] = sent[c] /\ down'[c] = down[c] /\ srv'[c] = srv[c] /\ how'[c] = how[c]
         /\ up'[c] = up[c]
  BY DEF Same
<1> HIDE DEF Still
<1>12. CASE \E d \in Conn : Socket(d) \/ Microphone(d) \/ Server(d)
  BY <1>6, <1>7, <1>8, <1>9, <1>11, <1>12
<1> QED BY <1>3, <1>4, <1>5, <1>10, <1>12 DEF Next, Button

LEMMA TextStep ==
  PageInv /\ ServerInv /\ CloseInv /\ EndInv /\ TextInv /\ [Next]_vars => TextInv'
<1> SUFFICES ASSUME PageInv, ServerInv, CloseInv, EndInv, TextInv, [Next]_vars,
                    NEW c \in Conn, sock'[c] = "open"
             PROVE  Transcribed(committed', sent'[c], up'[c], down'[c], srv'[c], how'[c])
  BY DEF TextInv
<1> USE DEF browser, shown, server
<1>0. TypeOK /\ SocketInv
  BY DEF PageInv
<1>1. /\ sent \in [Conn -> 0 .. Chunks] /\ srv \in [Conn -> ATask] /\ sock \in [Conn -> Sockets]
      /\ up \in [Conn -> Seq(ToServer)] /\ down \in [Conn -> Seq(ToPage)]
  BY <1>0 DEF TypeOK
<1>2. sent[c] \in Nat /\ up[c] \in Seq(ToServer) /\ down[c] \in Seq(ToPage) /\ 0 \in Nat
  BY <1>1, RecognitionAssumption
<1>3. sock[c] = "open" => Transcribed(committed, sent[c], up[c], down[c], srv[c], how[c])
  BY DEF TextInv
<1>4. CASE Opens(c)
  <2>1. Untouched(c) /\ committed = {}
    BY <1>0, <1>4 DEF Opens, SocketInv
  <2>2. /\ committed' = {} /\ sent'[c] = 0 /\ up'[c] = <<>> /\ down'[c] = <<>> /\ how'[c] = "none"
        /\ srv'[c] = [NewTask EXCEPT !.pc = "start"]
    BY <1>1, <1>4, <2>1 DEF Opens, Untouched
  <2>3. Finals(<<>>) = {} /\ Coming(<<>>) = {}
    BY DEF Finals, Coming
  <2>4. Ordered({}, <<>>)
    BY <2>3 DEF Ordered, Ranked
  <2>5. Arriving(0, <<>>) /\ Got(0, <<>>) = 0
    BY ArrivingNothing
  <2>6. Heard(0, 0) = <<>>
    BY HeardNone
  <2> DEFINE t == [NewTask EXCEPT !.pc = "start"]
  <2>7. t.pc = "start" /\ t.id = 0 /\ t.seg = <<>>
    BY DEF NewTask
  <2> HIDE DEF t
  <2>8. Rest({}, 0, t)
    <3>1. <<>> \o <<>> = <<>> /\ Len(<<>>) = 0
      OBVIOUS
    <3>2. InOrder({}) \o Recognised(t.seg) = Heard(0, 0)
      BY <2>6, <2>7, <3>1, InOrderNothing, RecognisedNothing, Zenon
    <3>3. t.id + Len(t.seg) <= 0
      BY <2>7, <3>1
    <3> QED BY <3>2, <3>3 DEF Rest
  <2>9. Begins(Heard(0, 0), InOrder({}))
    <3>1. <<>> \in Seq(Nat)
      OBVIOUS
    <3> QED BY <2>6, <3>1, InOrderNothing, BeginsItself
  <2>10. TextSoFar({}, 0, 0, t, "none")
    BY <2>7, <2>8, <2>9 DEF TextSoFar
  <2> QED BY <2>2, <2>3, <2>4, <2>5, <2>10 DEF Transcribed, t
<1>5. ASSUME sock[c] = "open", UNCHANGED shown, sent'[c] = sent[c], down'[c] = down[c],
             srv'[c] = srv[c], how'[c] = how[c],
             up'[c] = up[c] \/ (up'[c] = Append(up[c], End) /\ ~Ending(up[c]))
      PROVE  Transcribed(committed', sent'[c], up'[c], down'[c], srv'[c], how'[c])
  <2>1. Arriving(sent[c], up'[c]) /\ Got(sent[c], up'[c]) = Got(sent[c], up[c])
    BY <1>2, <1>3, <1>5, ArrivingAppend DEF Transcribed
  <2> QED BY <1>3, <1>5, <2>1 DEF Transcribed
<1>6. CASE Speaks(c) /\ ~Ending(up[c])
  <2>1. /\ sock[c] = "open" /\ UNCHANGED shown /\ down' = down /\ srv' = srv /\ how' = how
        /\ sent'[c] = sent[c] + 1 /\ up'[c] = Append(up[c], Pcm(sent[c] + 1))
    BY <1>1, <1>6 DEF Speaks
  <2>2. Ordered(committed, down[c]) /\ Arriving(sent[c], up[c])
        /\ TextSoFar(committed \cup Coming(down[c]), sent[c], Got(sent[c], up[c]), srv[c], how[c])
    BY <1>3, <2>1 DEF Transcribed
  <2>3. /\ Arriving(sent[c] + 1, Append(up[c], Pcm(sent[c] + 1)))
        /\ Got(sent[c] + 1, Append(up[c], Pcm(sent[c] + 1))) = Got(sent[c], up[c])
    BY <1>2, <1>6, <2>2, ArrivingAppend
  <2>4. TextSoFar(committed \cup Coming(down[c]), sent[c] + 1, Got(sent[c], up[c]), srv[c], how[c])
    BY <1>2, <2>2, OrderedRanked, SoFarSent
  <2> QED BY <2>1, <2>2, <2>3, <2>4 DEF Transcribed
<1>7. CASE Deliver(c)
  <2> DEFINE m == Head(down[c])
  <2>1. /\ sock[c] = "open" /\ down[c] # <<>> /\ down'[c] = Tail(down[c])
        /\ sent' = sent /\ up' = up /\ srv' = srv /\ how' = how
        /\ committed' = IF m.kind = "final" THEN Commit(m.id, m.text) ELSE committed
    BY <1>1, <1>7 DEF Deliver
  <2>2. Commit(m.id, m.text) = {x \in committed : x.id # m.id} \cup {SegmentOf(m)}
    BY DEF Commit, SegmentOf
  <2>3. Ordered(committed, down[c])
    BY <1>3, <2>1 DEF Transcribed
  <2>4. /\ Ordered(committed', down'[c])
        /\ committed' \cup Coming(down'[c]) = committed \cup Coming(down[c])
    <3>1. CASE m.kind = "final"
      BY <1>2, <2>1, <2>2, <2>3, <3>1, FinalTaken, ZenonT(60)
    <3>2. CASE m.kind # "final"
      BY <1>2, <2>1, <2>3, <3>2, FinalTaken
    <3> QED BY <3>1, <3>2
  <2> HIDE DEF m
  <2> QED BY <1>3, <2>1, <2>4 DEF Transcribed
<1>8. CASE sock[c] = "open" /\ Server(c)
  <2>1. sent' = sent /\ committed' = committed
    BY <1>8, ServerWorks
  <2> QED BY <1>0, <1>3, <1>8, <2>1, ServerTranscribes
<1> QED BY <1>4, <1>5, <1>6, <1>7, <1>8, OpenSteps

-----------------------------------------------------------------------------
(***************************************************************************)
(* A provisional text, shown or on its way, is that of the open sentence,  *)
(* or its final text follows it.                                           *)
(***************************************************************************)

Settled(p, i, t, d) ==
  \/ p.text = <<>>
  \/ p.id = t.id /\ t.text # <<>> /\ t.pc # "close"
  \/ \E j \in Finals(d) : i < j /\ d[j].id = p.id

Provisional(p, d, t) ==
  /\ Settled(p, 0, t, d)
  /\ \A i \in DOMAIN d : d[i].kind = "partial" => Settled(d[i], i, t, d)

PartialInv ==
  \A c \in Conn : sock[c] = "open" /\ how[c] \in {"none", "ok"} =>
    Provisional(partial, down[c], srv[c])

LEMMA ProvisionalMoves ==
  ASSUME NEW p, NEW d \in Seq(ToPage), NEW ms \in Seq(ToPage), NEW t, NEW u, Provisional(p, d, t),
         \/ t.text = <<>> \/ t.pc = "close"
         \/ u.id = t.id /\ u.text # <<>> /\ u.pc # "close"
         \/ \E k \in DOMAIN ms : ms[k].kind = "final" /\ ms[k].id = t.id,
         \A k \in DOMAIN ms : ms[k].kind = "partial" =>
           ms[k].text = <<>> \/ (ms[k].id = u.id /\ u.text # <<>> /\ u.pc # "close")
  PROVE  Provisional(p, d \o ms, u)
<1> DEFINE e == d \o ms
<1>1. /\ DOMAIN d = 1 .. Len(d) /\ DOMAIN ms = 1 .. Len(ms) /\ DOMAIN e = 1 .. Len(d) + Len(ms)
      /\ Len(d) \in Nat /\ Len(ms) \in Nat
      /\ \A i \in 1 .. Len(d) : e[i] = d[i]
      /\ \A i \in 1 .. Len(d) + Len(ms) : i > Len(d) => e[i] = ms[i - Len(d)]
  OBVIOUS
<1> HIDE DEF e
<1>2. \A i \in DOMAIN d : i \in DOMAIN e /\ e[i] = d[i]
  BY <1>1
<1>3. \A i \in DOMAIN e : i \in DOMAIN d \/ (i - Len(d) \in DOMAIN ms /\ e[i] = ms[i - Len(d)])
  BY <1>1
<1>4. \A k \in DOMAIN ms : k + Len(d) \in DOMAIN e /\ k + Len(d) > Len(d) /\ e[k + Len(d)] = ms[k]
  <2> SUFFICES ASSUME NEW k \in DOMAIN ms
               PROVE  k + Len(d) \in DOMAIN e /\ k + Len(d) > Len(d) /\ e[k + Len(d)] = ms[k]
    OBVIOUS
  <2>1. k + Len(d) \in 1 .. Len(d) + Len(ms) /\ k + Len(d) > Len(d) /\ (k + Len(d)) - Len(d) = k
    BY <1>1
  <2> QED BY <1>1, <2>1
<1>5. ASSUME NEW q, NEW i \in 0 .. Len(d), Settled(q, i, t, d)
      PROVE  Settled(q, i, u, e)
  <2>1. CASE q.text = <<>>
    BY <2>1 DEF Settled
  <2>2. CASE \E j \in Finals(d) : i < j /\ d[j].id = q.id
    BY <1>2, <2>2 DEF Settled, Finals
  <2>3. CASE q.id = t.id /\ t.text # <<>> /\ t.pc # "close"
    <3>1. CASE u.id = t.id /\ u.text # <<>> /\ u.pc # "close"
      BY <2>3, <3>1 DEF Settled
    <3>2. CASE \E k \in DOMAIN ms : ms[k].kind = "final" /\ ms[k].id = t.id
      <4>1. PICK k \in DOMAIN ms : ms[k].kind = "final" /\ ms[k].id = t.id
        BY <3>2
      <4>2. k + Len(d) \in Finals(e) /\ i < k + Len(d) /\ e[k + Len(d)].id = q.id
        BY <1>1, <1>4, <2>3, <4>1 DEF Finals
      <4> QED BY <4>2 DEF Settled
    <3> QED BY <2>3, <3>1, <3>2
  <2> QED BY <1>5, <2>1, <2>2, <2>3 DEF Settled
<1>6. Settled(p, 0, u, e)
  <2>1. 0 \in 0 .. Len(d)
    BY <1>1
  <2> QED BY <1>5, <2>1 DEF Provisional
<1>7. ASSUME NEW i \in DOMAIN e, e[i].kind = "partial"
      PROVE  Settled(e[i], i, u, e)
  <2>1. CASE i \in DOMAIN d
    <3>1. i \in 0 .. Len(d) /\ e[i] = d[i] /\ Settled(d[i], i, t, d)
      BY <1>1, <1>7, <2>1 DEF Provisional
    <3> QED BY <1>5, <3>1
  <2>2. CASE i \notin DOMAIN d
    BY <1>3, <1>7, <2>2 DEF Settled
  <2> QED BY <2>1, <2>2
<1>8. Provisional(p, e, u)
  BY <1>6, <1>7 DEF Provisional
<1> QED BY <1>8 DEF e

LEMMA ProvisionalTaken ==
  ASSUME NEW p, NEW q, NEW t, NEW d \in Seq(ToPage), d # <<>>, Provisional(p, d, t),
         \/ q.text = <<>>
         \/ q.id = Head(d).id /\ q.text = Head(d).text /\ Head(d).kind = "partial"
         \/ q = p /\ (Head(d).kind = "final" => Head(d).id # p.id)
  PROVE  Provisional(q, Tail(d), t)
<1> DEFINE e == Tail(d)
<1>1. PICK k \in Nat : k + 1 = Len(d) /\ DOMAIN d = 1 .. k + 1
  <2>1. Len(d) \in Nat /\ Len(d) # 0 /\ DOMAIN d = 1 .. Len(d)
    OBVIOUS
  <2>2. PICK k \in Nat : k + 1 = Len(d)
    <3>1. Len(d) - 1 \in Nat /\ (Len(d) - 1) + 1 = Len(d)
      BY <2>1
    <3> QED BY <3>1
  <2> QED BY <2>1, <2>2
<1>2. DOMAIN e = 1 .. k /\ \A i \in 1 .. k : e[i] = d[i + 1]
  BY <1>1
<1>3. Head(d) = d[1] /\ 1 \in DOMAIN d
  BY <1>1
<1> HIDE DEF e
<1>4. ASSUME NEW r, NEW i \in Nat, Settled(r, i, t, d), i # 0 \/ (Head(d).kind = "final" => Head(d).id # r.id)
      PROVE  /\ i = 0 => Settled(r, 0, t, e)
             /\ i # 0 => \A l \in Nat : l + 1 = i => Settled(r, l, t, e)
  <2>1. CASE r.text = <<>> \/ (r.id = t.id /\ t.text # <<>> /\ t.pc # "close")
    BY <2>1 DEF Settled
  <2>2. CASE \E j \in Finals(d) : i < j /\ d[j].id = r.id
    <3>1. PICK j \in Finals(d) : i < j /\ d[j].id = r.id
      BY <2>2
    <3>2. j # 1
      BY <1>3, <1>4, <3>1 DEF Finals
    <3>3. PICK l \in 1 .. k : l + 1 = j
      <4>1. j - 1 \in 1 .. k /\ (j - 1) + 1 = j
        BY <1>1, <3>2 DEF Finals
      <4> QED BY <4>1
    <3>4. l \in Finals(e) /\ e[l].id = r.id
      BY <1>2, <3>1, <3>3 DEF Finals
    <3>5. 0 < l /\ \A o \in Nat : o + 1 = i => o < l
      BY <3>1, <3>3
    <3> QED BY <3>4, <3>5 DEF Settled
  <2> QED BY <1>4, <2>1, <2>2 DEF Settled
<1>5. ASSUME NEW i \in DOMAIN e, e[i].kind = "partial"
      PROVE  Settled(e[i], i, t, e)
  <2>1. i + 1 \in DOMAIN d /\ e[i] = d[i + 1] /\ i \in Nat /\ i + 1 \in Nat /\ i + 1 # 0
    BY <1>1, <1>2
  <2>2. Settled(e[i], i + 1, t, d)
    BY <1>5, <2>1 DEF Provisional
  <2> QED BY <1>4, <2>1, <2>2
<1>6. Settled(q, 0, t, e)
  <2>1. CASE q.text = <<>>
    BY <2>1 DEF Settled
  <2>2. CASE q.id = Head(d).id /\ q.text = Head(d).text /\ Head(d).kind = "partial"
    <3>1. Settled(d[1], 1, t, d)
      BY <1>3, <2>2 DEF Provisional
    <3>2. 1 \in Nat /\ 0 \in Nat /\ 0 + 1 = 1 /\ 1 # 0
      OBVIOUS
    <3>3. Settled(d[1], 0, t, e)
      BY <1>4, <3>1, <3>2
    <3> QED BY <1>3, <2>2, <3>3 DEF Settled
  <2>3. CASE q = p /\ (Head(d).kind = "final" => Head(d).id # p.id)
    <3>1. Settled(p, 0, t, d) /\ 0 \in Nat
      BY DEF Provisional
    <3> QED BY <1>4, <2>3, <3>1
  <2> QED BY <2>1, <2>2, <2>3
<1>7. Provisional(q, e, t)
  BY <1>5, <1>6 DEF Provisional
<1> QED BY <1>7 DEF e

LEMMA ServerSettles ==
  ASSUME TypeOK, ServerInv, NEW c \in Conn, sock[c] = "open",
         Provisional(partial, down[c], srv[c]), Server(c), how'[c] \in {"none", "ok"}
  PROVE  Provisional(partial, down'[c], srv'[c])
<1> DEFINE t == srv[c]
           u == srv'[c]
           d == down[c]
           Lasts == u.id = t.id /\ u.text # <<>> /\ u.pc # "close"
           Quiet(ms) == ms \in Seq(ToPage) /\ \A k \in DOMAIN ms : ms[k].kind # "partial"
<1>1. t \in ATask /\ d \in Seq(ToPage)
  BY DEF TypeOK
<1>2. TaskInv(t)
  BY DEF ServerInv
<1>3. srv \in [Conn -> ATask] /\ how \in [Conn -> Hows] /\ down \in [Conn -> Seq(ToPage)]
  BY DEF TypeOK
<1>4. Reaches(c)
  BY DEF Reaches
<1>5. Quiet(<<>>) /\ d \o <<>> = d
  BY <1>1, ConcatEmptySeq
<1>6. \A ms : Post(c, ms) => down'[c] = d \o ms
  BY <1>3, <1>4 DEF Post
<1> SUFFICES Provisional(partial, down'[c], u)
  OBVIOUS
<1>7. Provisional(partial, d, t)
  OBVIOUS
<1> HIDE DEF t, u, d
<1>m. ASSUME NEW ms, Quiet(ms), down'[c] = d \o ms,
             t.text = <<>> \/ t.pc = "close" \/ Lasts
      PROVE  Provisional(partial, down'[c], u)
  BY <1>1, <1>7, <1>m, ProvisionalMoves
<1>s. ASSUME down' = down, t.text = <<>> \/ t.pc = "close" \/ Lasts
      PROVE  Provisional(partial, down'[c], u)
  <2>1. down'[c] = d \o <<>>
    BY <1>5, <1>s DEF d
  <2> QED BY <1>5, <1>m, <1>s, <2>1
<1>f. ASSUME NEW text \in Audio, Post(c, <<Text("final", t.id, text)>>)
      PROVE  Provisional(partial, down'[c], u)
  <2> DEFINE m == Text("final", t.id, text)
  <2>1. m \in ToPage /\ m.kind = "final" /\ m.id = t.id
    BY <1>1, MessageTypes DEF Text, ATask
  <2>2. down'[c] = d \o <<m>>
    BY <1>6, <1>f
  <2> HIDE DEF m
  <2>3. <<m>> \in Seq(ToPage) /\ 1 \in DOMAIN <<m>> /\ <<m>>[1] = m
        /\ \A k \in DOMAIN <<m>> : <<m>>[k].kind # "partial"
    BY <2>1
  <2>4. \E k \in DOMAIN <<m>> : <<m>>[k].kind = "final" /\ <<m>>[k].id = t.id
    BY <2>1, <2>3
  <2> QED BY <1>1, <1>7, <2>2, <2>3, <2>4, ProvisionalMoves
<1>t. ASSUME NEW p, At(c, p), p # "close"
      PROVE  t.text = <<>> \/ Lasts
  <2>1. u = [t EXCEPT !.pc = p]
    BY <1>3, <1>t DEF At, Task, t, u
  <2> QED BY <1>1, <1>t, <2>1 DEF ATask
<1>8. CASE SendFails(c)
  BY <1>4, <1>8 DEF SendFails
<1>9. CASE BadStart(c) \/ SlotTimeout(c) \/ EngineFails(c)
  BY <1>3, <1>9 DEF BadStart, SlotTimeout, EngineFails, Refuse, Ends
<1>10. CASE Started(c) \/ SlotGranted(c)
  <2>1. down' = down /\ \E p : At(c, p) /\ p # "close"
    BY <1>10 DEF Started, SlotGranted
  <2> QED BY <1>s, <1>t, <2>1
<1>11. CASE Ready(c)
  <2>1. Post(c, <<Plain("ready")>>) /\ At(c, "slot") /\ "slot" # "close"
    BY <1>11 DEF Ready
  <2>2. Quiet(<<Plain("ready")>>)
    <3>1. Plain("ready") \in ToPage /\ Plain("ready").kind # "partial"
      BY MessageTypes DEF Plain
    <3> QED BY <3>1
  <2> HIDE DEF Quiet, Lasts
  <2> QED BY <1>6, <1>m, <1>t, <2>1, <2>2
<1>12. CASE Finishes(c)
  <2>1. t.pc = "close" /\ (down' = down \/ Post(c, <<Plain("close")>>))
    BY <1>12 DEF Finishes, CloseDown, t
  <2>2. Quiet(<<Plain("close")>>)
    <3>1. Plain("close") \in ToPage /\ Plain("close").kind # "partial"
      BY MessageTypes DEF Plain
    <3> QED BY <3>1
  <2> HIDE DEF Quiet, Lasts
  <2> QED BY <1>6, <1>m, <1>s, <2>1, <2>2
<1>13. CASE Receive(c)
  <2> DEFINE m == Head(up[c])
  <2>1. down' = down
    BY <1>13 DEF Receive
  <2>2. u = IF IsAudio(m)
              THEN [t EXCEPT !.buf = Append(@, m.k), !.seg = Append(@, m.k),
                      !.pc = IF Len(Append(t.buf, m.k)) < Window THEN "receive" ELSE "flush"]
              ELSE [t EXCEPT !.gone = (m.kind = "disconnect"),
                      !.pc = IF Unfinished(t) THEN "tail" ELSE "close"]
    BY <1>3, <1>13 DEF Receive, Task, t, u
  <2> HIDE DEF m
  <2>3. u.id = t.id /\ u.text = t.text /\ (u.pc = "close" => ~Unfinished(t))
    BY <1>1, <2>2 DEF ATask
  <2>4. ASSUME ~Unfinished(t) PROVE t.text = <<>>
    <3>1. t.buf = <<>> /\ t.seg = <<>>
      BY <2>4 DEF Unfinished
    <3>2. t.cache \o <<>> = t.cache
      BY <1>1, ConcatEmptySeq DEF ATask, Audio
    <3>3. t.cache = <<>>
      BY <1>2, <3>1, <3>2 DEF TaskInv
    <3> QED BY <1>2, <3>3, RecognisedNothing DEF TaskInv
  <2>5. t.text = <<>> \/ Lasts
    BY <2>3, <2>4
  <2> QED BY <1>s, <2>1, <2>5
<1>14. CASE Flush(c) \/ FlushTail(c)
  <2>1. down' = down /\ \E p \in {"partial", "tailfinal"} : u = Flushed(t, p)
    BY <1>3, <1>14 DEF Flush, FlushTail, Task, t, u
  <2>2. u.id = t.id /\ u.pc # "close" /\ u.text = t.text \o Recognised(t.buf)
    BY <1>1, <2>1 DEF Flushed, ATask
  <2>3. t.text # <<>> => u.text # <<>>
    <3>1. t.text \in Audio /\ Recognised(t.buf) \in Audio
      BY <1>1, RecognisedType DEF ATask, Audio
    <3> QED BY <2>2, <3>1, ConcatEqualIffEmpty DEF Audio
  <2> QED BY <1>s, <2>1, <2>2, <2>3
<1>15. CASE SendPartial(c)
  <2> DEFINE m == Text("partial", t.id, t.text)
  <2>1. Post(c, <<m>>) /\ \E p : At(c, p) /\ p # "close"
    BY <1>15 DEF SendPartial, t
  <2>2. m \in ToPage /\ m.id = t.id /\ m.text = t.text /\ m.kind = "partial"
    BY <1>1, MessageTypes DEF Text, ATask
  <2>3. down'[c] = d \o <<m>>
    BY <1>6, <2>1
  <2> HIDE DEF m
  <2>4. <<m>> \in Seq(ToPage) /\ \A k \in DOMAIN <<m>> : <<m>>[k] = m
    BY <2>2
  <2>5. t.text = <<>> \/ Lasts
    BY <1>t, <2>1
  <2>6. \A k \in DOMAIN <<m>> : <<m>>[k].kind = "partial" =>
          <<m>>[k].text = <<>> \/ (<<m>>[k].id = u.id /\ u.text # <<>> /\ u.pc # "close")
    BY <2>2, <2>4, <2>5
  <2> QED BY <1>1, <1>7, <2>3, <2>4, <2>5, <2>6, ProvisionalMoves
<1>16. CASE SendFinal(c) \/ SendTail(c)
  <2>1. t.pc \in {"final", "tailfinal"}
    BY <1>16 DEF SendFinal, SendTail, t
  <2>2. \E text \in Corrections(t) :
          (text = <<>> /\ down' = down) \/ Post(c, <<Text("final", t.id, text)>>)
    BY <1>16 DEF SendFinal, SendTail, t
  <2>3. PICK text \in Corrections(t) :
          (text = <<>> /\ down' = down) \/ Post(c, <<Text("final", t.id, text)>>)
    BY <2>2
  <2>4. t.buf = <<>>
    BY <1>2, <2>1 DEF TaskInv
  <2>5. text \in Audio /\ text = Recognised(t.seg) /\ t.text = Recognised(t.seg)
    <3>1. t.text \in Corrections(t)
      BY DEF Corrections
    <3> QED BY <1>1, <1>2, <2>4, <3>1, CorrectionsType, CorrectionIs
  <2> HIDE DEF Lasts
  <2> QED BY <1>s, <1>f, <2>3, <2>5
<1> HIDE DEF Quiet, Lasts
<1> QED
  BY <1>8, <1>9, <1>10, <1>11, <1>12, <1>13, <1>14, <1>15, <1>16 DEF Server

LEMMA PartialStep ==
  PageInv /\ ServerInv /\ EndInv /\ PartialInv /\ [Next]_vars => PartialInv'
<1> SUFFICES ASSUME PageInv, ServerInv, EndInv, PartialInv, [Next]_vars,
                    NEW c \in Conn, sock'[c] = "open", how'[c] \in {"none", "ok"}
             PROVE  Provisional(partial', down'[c], srv'[c])
  BY DEF PartialInv
<1> USE DEF browser, shown, server
<1>0. TypeOK /\ SocketInv
  BY DEF PageInv
<1>1. /\ srv \in [Conn -> ATask] /\ sock \in [Conn -> Sockets] /\ how \in [Conn -> Hows]
      /\ down \in [Conn -> Seq(ToPage)]
  BY <1>0 DEF TypeOK
<1>2. sock[c] = "open" /\ how[c] \in {"none", "ok"} => Provisional(partial, down[c], srv[c])
  BY DEF PartialInv
<1>3. CASE Opens(c)
  <2>1. Untouched(c) /\ partial = NoPartial
    BY <1>0, <1>3 DEF Opens, SocketInv
  <2>2. partial' = NoPartial /\ down'[c] = <<>>
    BY <1>1, <1>3, <2>1 DEF Opens, Untouched
  <2> QED BY <2>2 DEF Provisional, Settled, NoPartial
<1>4. ASSUME sock[c] = "open", UNCHANGED shown, down'[c] = down[c], srv'[c] = srv[c], how'[c] = how[c]
      PROVE  Provisional(partial', down'[c], srv'[c])
  BY <1>2, <1>4
<1>5. CASE Speaks(c)
  BY <1>4, <1>5 DEF Speaks
<1>6. CASE Deliver(c)
  <2> DEFINE m == Head(down[c])
  <2>1. /\ sock[c] = "open" /\ down[c] # <<>> /\ down'[c] = Tail(down[c]) /\ srv' = srv /\ how' = how
        /\ partial' = CASE m.kind = "partial" -> [id |-> m.id, text |-> m.text]
                        [] m.kind = "final" /\ m.id = partial.id -> NoPartial
                        [] OTHER -> partial
    BY <1>1, <1>6 DEF Deliver
  <2>2. Provisional(partial, down[c], srv[c]) /\ down[c] \in Seq(ToPage)
    BY <1>1, <1>2, <2>1
  <2>3. \/ partial'.text = <<>>
        \/ partial'.id = m.id /\ partial'.text = m.text /\ m.kind = "partial"
        \/ partial' = partial /\ (m.kind = "final" => m.id # partial.id)
    <3>1. CASE m.kind = "partial"
      BY <2>1, <3>1
    <3>2. CASE m.kind # "partial" /\ m.kind = "final" /\ m.id = partial.id
      BY <2>1, <3>2 DEF NoPartial
    <3>3. CASE m.kind # "partial" /\ ~(m.kind = "final" /\ m.id = partial.id)
      BY <2>1, <3>3
    <3> QED BY <3>1, <3>2, <3>3
  <2> QED BY <2>1, <2>2, <2>3, ProvisionalTaken
<1>7. CASE sock[c] = "open" /\ Server(c)
  <2>1. partial' = partial
    BY <1>7, ServerWorks
  <2>2. how[c] \in {"none", "ok"}
    <3>1. srv[c].pc # "ended"
      BY <1>7, ServerWorks
    <3> QED BY <3>1 DEF ServerInv
  <2> QED BY <1>0, <1>2, <1>7, <2>1, <2>2, ServerSettles
<1> QED BY <1>3, <1>4, <1>5, <1>6, <1>7, OpenSteps

-----------------------------------------------------------------------------
(***************************************************************************)
(* What the page shows.                                                    *)
(***************************************************************************)

ShownInv ==
  last # 0 =>
    /\ Begins(Heard(0, sent[last]), CommittedText)
    /\ how[last] = "ok" /\ sock[last] = "closing" =>
         CommittedText = Heard(0, sent[last]) /\ partial.text = <<>>

LEMMA BeginsShown ==
  ASSUME NEW C, NEW d \in Seq(ToPage), Ordered(C, d), NEW s, Begins(s, InOrder(C \cup Coming(d)))
  PROVE  InOrder(C) \in Seq(Nat) /\ Begins(s, InOrder(C))
<1> DEFINE R == C \cup Coming(d)
<1>1. Ranked(R) /\ Ranked(C)
  BY OrderedRanked DEF Ordered
<1>2. \A x \in C, y \in R : y \in C \/ x.id < y.id
  BY DEF Ordered, Coming, SegmentOf
<1>3. C \subseteq R
  OBVIOUS
<1> HIDE DEF R
<1>4. Begins(InOrder(R), InOrder(C))
  BY <1>1, <1>2, <1>3, InOrderBegins
<1>5. InOrder(C) \in Seq(Nat) /\ InOrder(R) \in Seq(Nat)
  BY <1>1, InOrderType
<1> QED BY <1>4, <1>5, BeginsBoth DEF R

LEMMA ShownStep ==
  PageInv /\ ServerInv /\ CloseInv /\ EndInv /\ TextInv /\ PartialInv /\ ShownInv /\ [Next]_vars
    => ShownInv'
<1> SUFFICES ASSUME PageInv, ServerInv, CloseInv, EndInv, TextInv, PartialInv, ShownInv, [Next]_vars,
                    last' # 0
             PROVE  /\ Begins(Heard(0, sent'[last']), InOrder(committed'))
                    /\ how'[last'] = "ok" /\ sock'[last'] = "closing" =>
                         InOrder(committed') = Heard(0, sent'[last']) /\ partial'.text = <<>>
  BY DEF ShownInv, CommittedText
<1> USE RecognitionAssumption DEF browser, shown, server
<1>0. TypeOK /\ SocketInv /\ MicInv
  BY DEF PageInv
<1>1. /\ sent \in [Conn -> 0 .. Chunks] /\ srv \in [Conn -> ATask] /\ sock \in [Conn -> Sockets]
      /\ up \in [Conn -> Seq(ToServer)] /\ down \in [Conn -> Seq(ToPage)]
      /\ wsRef \in {0, last} /\ last \in 0 .. Starts
  BY <1>0 DEF TypeOK, SocketInv
<1>2. CASE Start
  <2>1. last + 1 \in Conn /\ last' = last + 1 /\ sent' = sent /\ committed' = {}
        /\ sock'[last + 1] = "connecting"
    <3>1. last + 1 \in Conn
      BY <1>1, <1>2 DEF Start, Conn
    <3> QED BY <1>1, <1>2, <3>1 DEF Start
  <2>2. sent[last + 1] \in Nat
    BY <1>1, <2>1
  <2>3. <<>> \in Seq(Nat) /\ \A s \in Seq(Nat) : s = <<>> \o s
    OBVIOUS
  <2>4. Heard(0, sent[last + 1]) \in Seq(Nat)
    <3>1. 0 \in Nat /\ 0 <= sent[last + 1]
      BY <2>2
    <3> QED BY <2>2, <3>1, HeardType
  <2>5. Begins(Heard(0, sent[last + 1]), <<>>)
    BY <2>3, <2>4 DEF Begins
  <2> QED BY <2>1, <2>5, InOrderNothing
<1>3. ASSUME ~Start
      PROVE  last' = last /\ last \in Conn
  <2>1. last' = last
    <3>1. CASE \E d \in Conn : Socket(d) \/ Microphone(d) \/ Server(d)
      BY <1>0, <3>1, StepsAreLocal
    <3>2. CASE Cancel \/ StopRecording \/ UNCHANGED vars
      BY <3>2 DEF Cancel, StopRecording, vars
    <3> QED BY <1>3, <3>1, <3>2 DEF Next, Button
  <2> QED BY <1>1, <2>1 DEF Conn
<1> DEFINE c == last
<1>4. c \in Conn => /\ Begins(Heard(0, sent[c]), InOrder(committed))
                    /\ how[c] = "ok" /\ sock[c] = "closing" =>
                         InOrder(committed) = Heard(0, sent[c]) /\ partial.text = <<>>
  BY DEF ShownInv, CommittedText, Conn
<1> HIDE DEF c
<1>5. \A d \in Conn : sock[d] \in {"connecting", "open"} => d = c
  BY <1>0, <1>1 DEF SocketInv, c, Conn
<1>6. ASSUME ~Start, sent'[c] = sent[c], UNCHANGED shown,
             how'[c] = "ok" /\ sock'[c] = "closing" => how[c] = "ok" /\ sock[c] = "closing"
      PROVE  /\ Begins(Heard(0, sent'[last']), InOrder(committed'))
             /\ how'[last'] = "ok" /\ sock'[last'] = "closing" =>
                  InOrder(committed') = Heard(0, sent'[last']) /\ partial'.text = <<>>
  BY <1>3, <1>4, <1>6 DEF c
<1>7. \A d \in Conn : ~EndSent(d) => how[d] # "ok"
  BY DEF EndSent, EndReceived
<1>8. CASE Cancel /\ ~Start
  <2>1. wsRef = c /\ wsRef \in Conn
    BY <1>0, <1>1, <1>3, <1>8 DEF Cancel, SocketInv, c
  <2>2. how[c] # "ok"
    BY <1>7, <1>8, <2>1 DEF Cancel, EndInv
  <2> QED BY <1>6, <1>8, <2>2 DEF Cancel
<1>9. CASE StopRecording /\ ~Start
  <2>1. wsRef = c /\ wsRef \in Conn
    BY <1>0, <1>1, <1>3, <1>9 DEF StopRecording, SocketInv, c
  <2>2. how[c] # "ok" \/ sock[c] # "connecting"
    BY <1>0, <2>1 DEF SocketInv, Untouched
  <2>3. sock'[c] = "closing" => sock[c] \in {"closing", "connecting"}
    BY <1>1, <1>9, <2>1 DEF StopRecording, Close
  <2>4. how' = how /\ sent' = sent /\ UNCHANGED shown
    BY <1>9 DEF StopRecording
  <2> QED BY <1>6, <1>9, <2>2, <2>3, <2>4
<1>10. ASSUME ~Start, NEW d \in Conn, d # c, Socket(d) \/ Microphone(d) \/ Server(d)
       PROVE  /\ sent'[c] = sent[c] /\ UNCHANGED shown
              /\ how'[c] = how[c] /\ sock'[c] = sock[c]
  <2>1. Same(c)
    BY <1>0, <1>3, <1>10, StepsAreLocal DEF c
  <2>2. sock[d] # "open"
    BY <1>5, <1>10
  <2>3. UNCHANGED shown
    BY <1>10, <2>2, ServerWorks DEF Socket, Opens, ConnectTimeout, Closed, ConnectionLost, Over,
       Deliver, Microphone, MicGranted, MicStarted, MicFails, Speaks
  <2> QED BY <2>1, <2>3 DEF Same
<1>11. CASE Socket(c) /\ ~Deliver(c) /\ ~Start
  <2>1. CASE Opens(c)
    BY <1>1, <1>3, <1>6, <1>11, <2>1 DEF Opens, c
  <2>2. CASE ConnectTimeout(c)
    <3>1. how[c] = "none"
      BY <1>0, <1>3, <1>11, <2>2 DEF ConnectTimeout, SocketInv, Untouched, c
    <3> QED BY <1>6, <1>11, <2>2, <3>1 DEF ConnectTimeout
  <2>3. CASE Closed(c) \/ ConnectionLost(c)
    BY <1>1, <1>3, <1>6, <1>11, <2>3 DEF Closed, ConnectionLost, Over, c
  <2> QED BY <1>11, <2>1, <2>2, <2>3 DEF Socket
<1>12. CASE Deliver(c) /\ ~Start
  <2> DEFINE m == Head(down[c])
             n == sent[c]
  <2>0. c \in Conn /\ last' = c
    BY <1>3, <1>12 DEF c
  <2>1. /\ sock[c] = "open" /\ down[c] # <<>> /\ down'[c] = Tail(down[c])
        /\ sent' = sent /\ how' = how /\ sock'[c] = IF m.kind = "close" THEN "closing" ELSE sock[c]
        /\ committed' = IF m.kind = "final" THEN Commit(m.id, m.text) ELSE committed
        /\ partial' = CASE m.kind = "partial" -> [id |-> m.id, text |-> m.text]
                        [] m.kind = "final" /\ m.id = partial.id -> NoPartial
                        [] OTHER -> partial
    BY <1>1, <1>12, <2>0 DEF Deliver
  <2>2. Commit(m.id, m.text) = {x \in committed : x.id # m.id} \cup {SegmentOf(m)}
    BY DEF Commit, SegmentOf
  <2>3. /\ Ordered(committed, down[c]) /\ Begins(Heard(0, n), InOrder(committed \cup Coming(down[c])))
        /\ how[c] = "ok" => InOrder(committed \cup Coming(down[c])) = Heard(0, Got(n, up[c]))
    BY <2>0, <2>1 DEF TextInv, Transcribed, TextSoFar
  <2>4. down[c] \in Seq(ToPage) /\ down'[c] \in Seq(ToPage) /\ n \in Nat
    BY <1>1, <2>0, <2>1
  <2>5. /\ Ordered(committed', down'[c])
        /\ committed' \cup Coming(down'[c]) = committed \cup Coming(down[c])
    <3>1. CASE m.kind = "final"
      <4> DEFINE B == {x \in committed : x.id # m.id} \cup {SegmentOf(m)}
      <4>1. Ordered(B, Tail(down[c])) /\ B \cup Coming(Tail(down[c])) = committed \cup Coming(down[c])
        BY <2>1, <2>3, <2>4, <3>1, FinalTaken
      <4>2. committed' = B
        BY <2>1, <2>2, <3>1
      <4> HIDE DEF B
      <4> QED BY <2>1, <4>1, <4>2
    <3>2. CASE m.kind # "final"
      BY <2>1, <2>3, <2>4, <3>2, FinalTaken
    <3> QED BY <3>1, <3>2
  <2>6. Begins(Heard(0, n), InOrder(committed'))
    BY <2>3, <2>4, <2>5, BeginsShown
  <2>7. ASSUME how'[c] = "ok", sock'[c] = "closing"
        PROVE  InOrder(committed') = Heard(0, n) /\ partial'.text = <<>>
    <3>1. m.kind = "close" /\ how[c] = "ok"
      BY <2>1, <2>7
    <3>2. down[c][1] = m /\ 1 \in DOMAIN down[c]
      BY <2>1, <2>4
    <3>3. srv[c].pc = "ended" /\ Len(down[c]) = 1
      BY <2>0, <3>1, <3>2 DEF CloseInv
    <3>4. Finals(down[c]) = {}
      BY <2>4, <3>1, <3>2, <3>3 DEF Finals
    <3>5. up[c] = <<>>
      BY <2>0, <2>1, <3>1 DEF EndInv, EndReceived
    <3>6. Got(n, <<>>) = n
      BY <2>4, ArrivingNothing
    <3>7. committed \cup Coming(down[c]) = committed
      BY <3>4 DEF Coming
    <3>8. InOrder(committed) = Heard(0, n)
      BY <2>3, <3>1, <3>5, <3>6, <3>7
    <3>9. committed' = committed /\ partial' = partial
      BY <2>1, <3>1
    <3>10. Settled(partial, 0, srv[c], down[c])
      BY <2>0, <2>1, <3>1 DEF PartialInv, Provisional
    <3>11. srv[c].text = <<>>
      BY <2>0, <3>3 DEF ServerInv, TaskInv
    <3>12. partial.text = <<>>
      BY <3>4, <3>10, <3>11 DEF Settled
    <3> QED BY <3>8, <3>9, <3>12
  <2> QED BY <2>0, <2>1, <2>6, <2>7
<1>13. CASE Microphone(c) /\ ~Start
  <2>1. CASE MicGranted(c) \/ MicStarted(c)
    BY <1>6, <1>13, <2>1 DEF MicGranted, MicStarted
  <2>2. CASE MicFails(c)
    <3>1. how[c] # "ok"
      BY <1>3, <1>7, <1>13, <2>2 DEF MicFails, EndInv, c
    <3> QED BY <1>6, <1>13, <2>2, <3>1 DEF MicFails
  <2>3. CASE Speaks(c)
    <3>1. c \in Conn /\ last' = c
      BY <1>3, <1>13 DEF c
    <3>2. sent'[c] = sent[c] + 1 /\ UNCHANGED shown /\ sock'[c] = "open" /\ sent[c] \in Nat
      BY <1>1, <2>3, <3>1 DEF Speaks
    <3>3. Ranked(committed)
      BY <2>3, <3>1 DEF Speaks, TextInv, Transcribed, Ordered
    <3>4. Begins(Heard(0, sent[c] + 1), Heard(0, sent[c]))
      <4>1. sent[c] + 1 \in Nat /\ sent[c] <= sent[c] + 1
        BY <3>2
      <4> QED BY <3>2, <4>1, HeardBegins, Zenon
    <3>5. Begins(Heard(0, sent[c] + 1), InOrder(committed))
      BY <1>4, <3>1, <3>3, <3>4, InOrderType, BeginsBoth
    <3> QED BY <3>1, <3>2, <3>5
  <2> QED BY <1>13, <2>1, <2>2, <2>3 DEF Microphone
<1>14. CASE Server(c) /\ ~Start
  <2>0. c \in Conn
    BY <1>3, <1>14 DEF c
  <2>1. UNCHANGED <<browser, shown>> /\ srv[c].pc # "ended"
    BY <2>0, <1>14, ServerWorks
  <2>2. ASSUME how'[c] = "ok", sock[c] = "closing"
        PROVE  how[c] = "ok"
    <3>1. CASE how[c] # "ok"
      <4>1. srv[c].pc = "close" /\ ~srv[c].gone
        BY <1>0, <1>14, <2>0, <2>2, <3>1, ServerEnds
      <4>2. EndSent(c)
        BY <4>1 DEF EndSent, EndReceived, Closing
      <4> QED BY <2>0, <2>1, <2>2, <4>2 DEF EndInv
    <3> QED BY <3>1
  <2> QED BY <1>6, <1>14, <2>1, <2>2
<1>15. CASE UNCHANGED vars /\ ~Start
  BY <1>6, <1>15 DEF vars
<1>16. CASE (\E d \in Conn : Socket(d) \/ Microphone(d) \/ Server(d)) /\ ~Start
  <2>1. PICK d \in Conn : Socket(d) \/ Microphone(d) \/ Server(d)
    BY <1>16
  <2>2. CASE d # c
    <3>1. /\ sent'[c] = sent[c] /\ UNCHANGED shown
          /\ how'[c] = how[c] /\ sock'[c] = sock[c]
      BY <1>10, <1>16, <2>1, <2>2
    <3> QED BY <1>6, <1>16, <3>1
  <2>3. CASE d = c
    BY <1>11, <1>12, <1>13, <1>14, <1>16, <2>1, <2>3
  <2> QED BY <2>2, <2>3
<1> QED BY <1>2, <1>8, <1>9, <1>15, <1>16 DEF Next, Button

LEMMA SpokenIs == ASSUME TypeOK, last # 0 PROVE Spoken = Heard(0, sent[last])
<1>1. PICK n \in Nat : n = sent[last]
  BY RecognitionAssumption DEF TypeOK, Conn
<1>2. [k \in 1 .. n |-> k] = [k \in 1 .. n - 0 |-> 0 + k]
  OBVIOUS
<1> QED BY <1>1, <1>2 DEF Spoken, Heard, Piece

TranscriptInv ==
  PageInv /\ ServerInv /\ CloseInv /\ EndInv /\ TextInv /\ PartialInv /\ ShownInv

(* What the page of live recognition shows is what was said: the server's   *)
(* caches and text belong to the open sentence, committed text is a prefix  *)
(* of the recognised speech in its order, and once the server has closed in *)
(* its own time it is all of it, with nothing left as provisional           *)
(* (transcribe_stream, /ws/asr, AsrPage.onmessage).                         *)
THEOREM TranscriptHolds == Spec => []TranscriptExact
<1> USE RecognitionAssumption
<1>1. Spec => []PageInv
  BY PageHolds
<1>2. Init => ServerInv /\ CloseInv /\ EndInv /\ TextInv /\ PartialInv /\ ShownInv
  <2> SUFFICES ASSUME Init
               PROVE  ServerInv /\ CloseInv /\ EndInv /\ TextInv /\ PartialInv /\ ShownInv
    OBVIOUS
  <2>1. ServerInv
    BY NewTaskInv DEF Init, ServerInv, NewTask
  <2>2. CloseInv /\ EndInv
    BY DEF Init, CloseInv, EndInv, EndSent, EndReceived, EndUnderWay, NewTask, Closing
  <2>3. TextInv /\ PartialInv
    BY DEF Init, TextInv, PartialInv
  <2>4. ShownInv
    BY DEF Init, ShownInv
  <2> QED BY <2>1, <2>2, <2>3, <2>4
<1>3. TranscriptInv /\ [Next]_vars /\ PageInv' => TranscriptInv'
  BY ServerStep, CloseStep, EndStep, TextStep, PartialStep, ShownStep DEF TranscriptInv, PageInv
<1>4. TranscriptInv => TranscriptExact
  <2> SUFFICES ASSUME TranscriptInv PROVE TranscriptExact
    OBVIOUS
  <2>1. \A c \in Conn : srv[c].cache \o srv[c].buf = srv[c].seg /\ srv[c].text = Recognised(srv[c].cache)
    BY DEF TranscriptInv, ServerInv, TaskInv
  <2>2. ASSUME last # 0
        PROVE  /\ CommittedText = SubSeq(Spoken, 1, Len(CommittedText))
               /\ how[last] = "ok" /\ sock[last] = "closing" =>
                    CommittedText = Spoken /\ partial.text = <<>>
    <3>1. Spoken = Heard(0, sent[last])
      BY <2>2, SpokenIs DEF TranscriptInv, PageInv
    <3>2. Begins(Spoken, CommittedText)
      BY <2>2, <3>1 DEF TranscriptInv, ShownInv
    <3>3. CommittedText = SubSeq(Spoken, 1, Len(CommittedText))
      BY <3>2, BeginsIs
    <3> QED BY <2>2, <3>1, <3>3 DEF TranscriptInv, ShownInv
  <2> QED BY <2>1, <2>2 DEF TranscriptExact
<1> QED BY <1>1, <1>2, <1>3, <1>4, PTL DEF Spec, TranscriptInv
=============================================================================
