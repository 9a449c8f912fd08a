-------------------------- MODULE SynthesisPromise --------------------------
(***************************************************************************)
(* What Dispatcher.tts_stream promises the code that iterates over it: the *)
(* chunks of the sentences in order, none lost and none twice; the end     *)
(* only after the last chunk; an error only after all the audio that was   *)
(* synthesised before it.  The caller may be refused, and may drop out.    *)
(***************************************************************************)
EXTENDS Naturals

CONSTANTS
  Sentences,   \* sentences the text is split into
  MaxChunks    \* bound: chunks synthesised of one sentence

VARIABLES
  total,       \* chunks the synthesiser makes of each sentence
  fails,       \* whether it raises once it has made them
  at,          \* the last chunk delivered: number k of sentence s
  result

plan == <<total, fails>>
vars == <<plan, at, result>>

Places == [s : 1 .. Sentences, k : 0 .. MaxChunks]

(* The chunks of sentences 1 to s have all been delivered, and no other. *)
Through(s) ==
  /\ at.s <= s
  /\ at.k = total[at.s]
  /\ \A x \in at.s + 1 .. s : total[x] = 0

Init ==
  /\ total \in [1 .. Sentences -> 0 .. MaxChunks]
  /\ fails \in [1 .. Sentences -> BOOLEAN]
  /\ at = [s |-> 1, k |-> 0]
  /\ result = "open"

Deliver ==
  /\ result = "open"
  /\ \/ at.k < total[at.s] /\ at' = [at EXCEPT !.k = @ + 1]
     \/ \E s \in at.s .. Sentences - 1 :
          /\ Through(s)
          /\ \A x \in 1 .. s : ~fails[x]
          /\ total[s + 1] > 0
          /\ at' = [s |-> s + 1, k |-> 1]
  /\ UNCHANGED <<plan, result>>

Complete ==
  /\ result = "open"
  /\ Through(Sentences)
  /\ \A x \in 1 .. Sentences : ~fails[x]
  /\ result' = "done"
  /\ UNCHANGED <<plan, at>>

Fail ==
  /\ result = "open"
  /\ \E s \in 1 .. Sentences : fails[s] /\ Through(s)
  /\ result' = "error"
  /\ UNCHANGED <<plan, at>>

Refuse ==
  /\ result = "open"
  /\ at = [s |-> 1, k |-> 0]
  /\ result' \in {"bad_request", "busy"}
  /\ UNCHANGED <<plan, at>>

Drop ==
  /\ result = "open"
  /\ result' = "dropped"
  /\ UNCHANGED <<plan, at>>

Next == Deliver \/ Complete \/ Fail \/ Refuse \/ Drop

Spec == Init /\ [][Next]_vars

=============================================================================
