----------------------------- MODULE TextSplit -----------------------------
(***************************************************************************)
(* How the text of a reply is cut into pieces for the synthesiser:         *)
(* split_sentences (utils/text_split.py), which Dispatcher.tts_stream      *)
(* applies to a whole text, and ConversationOrchestrator._pop_complete     *)
(* (orchestration/conversation.py), which applies it to a buffer that      *)
(* grows with every delta of the agent.                                    *)
(*                                                                         *)
(* A text is a sequence of characters, one for each class the code tells   *)
(* apart: "x" for a letter, "." for a mark that ends a sentence, "," and   *)
(* the space " " for one that may cut a long one, and "nl", the line break *)
(* that ends a sentence and is a blank to strip as well.                   *)
(***************************************************************************)
EXTENDS Naturals, Sequences, SequencesExt, FiniteSetsExt

CONSTANTS
  Alphabet,   \* the characters a reply is made of
  MaxText,    \* bound: characters of a reply
  MaxDelta,   \* bound: characters of one delta
  MaxChars,   \* settings.tts_max_sentence_chars
  MinChars    \* settings.tts_min_sentence_chars

ASSUME SplitAssumption ==
  /\ Alphabet \subseteq {"x", ".", ",", " ", "nl"}
  /\ MaxChars \in Nat \ {0} /\ MinChars \in 0 .. MaxChars
  /\ MaxText \in Nat /\ MaxDelta \in Nat

Primary   == {".", "nl"}
Secondary == {",", " "}
Blank     == {" ", "nl"}

-----------------------------------------------------------------------------
(* Pieces one after the other. *)
Joined(pieces) ==
  LET upto[n \in 0 .. Len(pieces)] ==
        IF n = 0 THEN <<>> ELSE upto[n - 1] \o pieces[n]
  IN upto[Len(pieces)]

-----------------------------------------------------------------------------
(* split_sentences *)

Strip(s) ==
  LET solid == {i \in DOMAIN s : s[i] \notin Blank}
  IN IF solid = {} THEN <<>> ELSE SubSeq(s, Min(solid), Max(solid))

Keep(pieces, s) == IF Strip(s) = <<>> THEN pieces ELSE Append(pieces, Strip(s))

Scanned(acc, ch, marks, least) ==
  LET buf == Append(acc.buf, ch)
  IN IF ch \in marks /\ Len(buf) >= least
       THEN [pieces |-> Keep(acc.pieces, buf), buf |-> <<>>]
       ELSE [pieces |-> acc.pieces, buf |-> buf]

(* Both scans: the buffer takes a character at a time, and is cut wherever  *)
(* it is at least so long and ends with a mark; what is blank is dropped.   *)
ScanUpTo(text, marks, least) ==
  LET upto[n \in 0 .. Len(text)] ==
        IF n = 0 THEN [pieces |-> <<>>, buf |-> <<>>]
        ELSE Scanned(upto[n - 1], text[n], marks, least)
  IN upto[Len(text)]

Scan(text, marks, least) ==
  LET end == ScanUpTo(text, marks, least) IN Keep(end.pieces, end.buf)

Sliced(slices, ch) ==
  IF slices = <<>> \/ Len(Last(slices)) = MaxChars
    THEN Append(slices, <<ch>>)
    ELSE Append(Front(slices), Append(Last(slices), ch))

(* The slices of MaxChars that are left of a piece without a good place. *)
Chop(p) ==
  LET upto[n \in 0 .. Len(p)] ==
        IF n = 0 THEN <<>> ELSE Sliced(upto[n - 1], p[n])
  IN upto[Len(p)]

Cap(s) ==
  IF Len(s) <= MaxChars THEN <<s>>
  ELSE LET pieces == Scan(s, Secondary, MaxChars)
       IN Joined([i \in DOMAIN pieces |-> Chop(pieces[i])])

MergeTail_Dropped(out, buf) == out

MergeTail_Apart(out, buf) == IF buf = <<>> THEN out ELSE Append(out, buf)

(* The last, short piece goes back into the one before it if it fits. *)
MergeTail(out, buf) ==
  IF buf = <<>> THEN out
  ELSE IF out # <<>> /\ Len(Last(out)) + Len(buf) <= MaxChars
         THEN Append(Front(out), Last(out) \o buf)
         ELSE Append(out, buf)

Flushed(out, buf) ==
  IF Len(buf) >= MinChars THEN [out |-> Append(out, buf), buf |-> <<>>]
  ELSE [out |-> out, buf |-> buf]

Merged(acc, s) ==
  IF acc.buf = <<>> \/ Len(acc.buf) + Len(s) <= MaxChars
    THEN Flushed(acc.out, acc.buf \o s)
    ELSE Flushed(Append(acc.out, acc.buf), s)

MergeUpTo(segs) ==
  LET upto[n \in 0 .. Len(segs)] ==
        IF n = 0 THEN [out |-> <<>>, buf |-> <<>>] ELSE Merged(upto[n - 1], segs[n])
  IN upto[Len(segs)]

MergeShort(segs) == LET end == MergeUpTo(segs) IN MergeTail(end.out, end.buf)

Split(text, min) ==
  LET sents == Scan(Strip(text), Primary, 1)
      fine  == Joined([i \in DOMAIN sents |-> Cap(sents[i])])
  IN IF min > 0 THEN MergeShort(fine) ELSE fine

-----------------------------------------------------------------------------
(* A reply that arrives in deltas *)

VARIABLES
  received,   \* assistant_full
  buffer,     \* what is not spoken yet
  spoken,     \* the pieces handed to the synthesiser
  over        \* the agent has finished

vars == <<received, buffer, spoken, over>>

Init == received = <<>> /\ buffer = <<>> /\ spoken = <<>> /\ over = FALSE

EndsSentence(s) == Strip(s) # <<>> /\ Last(Strip(s)) \in Primary

PopComplete(buf) ==
  LET segs == Split(buf, 0)
  IN IF segs = <<>> THEN [ready |-> <<>>, rest |-> buf]
     ELSE IF EndsSentence(buf) THEN [ready |-> segs, rest |-> <<>>]
     ELSE [ready |-> Front(segs), rest |-> Last(segs)]

Delta(d) ==
  /\ ~over /\ Len(received) + Len(d) <= MaxText
  /\ received' = received \o d
  /\ LET p == PopComplete(buffer \o d)
     IN spoken' = spoken \o p.ready /\ buffer' = p.rest
  /\ UNCHANGED over

Finish ==
  /\ ~over
  /\ over' = TRUE
  /\ spoken' = IF Strip(buffer) = <<>> THEN spoken ELSE Append(spoken, buffer)
  /\ buffer' = <<>>
  /\ UNCHANGED received

Deltas == UNION {[1 .. n -> Alphabet] : n \in 1 .. MaxDelta}

Next == (\E d \in Deltas : Delta(d)) \/ Finish

Spec == Init /\ [][Next]_vars

-----------------------------------------------------------------------------
(* Properties.  Each is stated for the pieces spoken so far, cut delta by   *)
(* delta, and for the text received so far, split as a whole.               *)

Solid(s) ==
  LET upto[n \in 0 .. Len(s)] ==
        IF n = 0 THEN <<>>
        ELSE IF s[n] \in Blank THEN upto[n - 1] ELSE Append(upto[n - 1], s[n])
  IN upto[Len(s)]

(* Nothing but blanks is lost, doubled or moved, however the deltas fall:   *)
(* what was spoken and what waits in the buffer is the text.                *)
NothingLost ==
  /\ Solid(Joined(spoken) \o buffer) = Solid(received)
  /\ Solid(Joined(Split(received, MinChars))) = Solid(received)

(* No piece is longer than the bound or has nothing to say, and merging     *)
(* leaves one under the minimum only where it has no room: not with the     *)
(* piece after it, nor, if it is the last, with the one before.             *)
PiecesFit ==
  /\ \A p \in Range(spoken) \cup Range(Split(received, MinChars)) :
       Len(p) <= MaxChars /\ Solid(p) # <<>>
  /\ LET m == Split(received, MinChars)
         Room(i) == Len(m[i]) + Len(m[i + 1]) <= MaxChars
     IN \A i \in DOMAIN m :
          Len(m[i]) < MinChars => /\ i < Len(m) => ~Room(i)
                                  /\ i = Len(m) /\ i > 1 => ~Room(i - 1)

(* Wherever the reply has a mark that ends a sentence, or ends a line, one  *)
(* piece ends and the next begins, as the docstring of _pop_complete has it. *)
SentencesApart ==
  LET Upto(s)  == Len(Solid(s))
      marks == {Upto(SubSeq(received, 1, i)) :
                  i \in {j \in DOMAIN received : received[j] \in Primary}}
      ends  == {Upto(Joined(SubSeq(spoken, 1, k))) : k \in 0 .. Len(spoken)}
  IN over => marks \subseteq ends
=============================================================================
