-------------------------- MODULE TextSplitProofs --------------------------
(***************************************************************************)
(* Sentence splitting, proved of TextSplit for every text, every division  *)
(* of it into deltas and every pair of bounds: nothing but blanks is lost,  *)
(* and every piece fits.                                                   *)
(*                                                                         *)
(* The functions of split_sentences are recursive functions over a         *)
(* sequence, each a fold: what they compute of Append(s, x) follows from    *)
(* what they compute of s and from x.  Induction is stated with sets: a     *)
(* set that has <<>>, and Append(s, x) whenever it has s, has every         *)
(* sequence.                                                               *)
(***************************************************************************)
EXTENDS TextSplit, SequenceTheorems, WellFoundedInduction, TLAPS

LEMMA Induction ==
  ASSUME NEW T, 0 \in T, \A n \in Nat : n \in T => n + 1 \in T
  PROVE  Nat \subseteq T
<1> DEFINE B == Nat \ T
           R == OpToRel(<, Nat)
<1> SUFFICES ASSUME B # {} PROVE FALSE
  OBVIOUS
<1>1. IsWellFoundedOn(R, Nat)
  BY NatLessThanWellFounded
<1>2. PICK x \in B : \A y \in B : ~(<<y, x>> \in R)
  <2> HIDE DEF R
  <2> QED BY <1>1, WFMin, Zenon
<1>3. \A y \in B : ~(y < x)
  BY <1>2 DEF OpToRel
<1>4. x # 0 /\ x \in Nat /\ x \notin T
  BY <1>2
<1>5. x - 1 \in T
  BY <1>3, <1>4
<1>6. (x - 1) + 1 \in T /\ (x - 1) + 1 = x
  BY <1>4, <1>5
<1> QED BY <1>4, <1>6, Zenon

-----------------------------------------------------------------------------
(* The same for sequences. *)
LEMMA AppendInduction ==
  ASSUME NEW S, NEW P, <<>> \in P, \A s \in P, x \in S : Append(s, x) \in P
  PROVE  Seq(S) \subseteq P
<1> DEFINE T == {m \in Nat : \A s \in Seq(S) : Len(s) = m => s \in P}
<1>1. 0 \in T
  <2>1. ASSUME NEW s \in Seq(S), Len(s) = 0
        PROVE  s = <<>>
    BY <2>1
  <2> QED BY <2>1
<1>2. ASSUME NEW m \in Nat, m \in T
      PROVE  m + 1 \in T
  <2> SUFFICES ASSUME NEW s \in Seq(S), Len(s) = m + 1
               PROVE  s \in P
    OBVIOUS
  <2>1. s # <<>>
    OBVIOUS
  <2>2. PICK f \in Seq(S), x \in S : s = Append(f, x)
    BY <2>1, SequenceEmptyOrAppend
  <2>3. Len(f) = m
    BY <2>2
  <2> QED BY <1>2, <2>2, <2>3
<1>3. Nat \subseteq T
  <2> HIDE DEF T
  <2> QED BY <1>1, <1>2, Induction
<1> QED BY <1>3

(***************************************************************************)
(* Folds.                                                                  *)
(***************************************************************************)

(* f has, for each n, the fold by g of the first n elements of s, from a;  *)
(* A is where its values are.                                              *)
FoldsTo(f, A, g, a, s) ==
  /\ f[0] = a
  /\ \A n \in 1 .. Len(s) : f[n - 1] \in A => f[n] = g[<<f[n - 1], s[n]>>]

LEMMA FoldExists ==
  ASSUME NEW A, NEW S, NEW g \in [A \X S -> A], NEW a \in A, NEW s \in Seq(S)
  PROVE  \E f \in [0 .. Len(s) -> A] : FoldsTo(f, A, g, a, s)
<1> DEFINE P == {t \in Seq(S) : \E f \in [0 .. Len(t) -> A] : FoldsTo(f, A, g, a, t)}
<1>1. <<>> \in P
  <2>1. [n \in 0 .. 0 |-> a] \in [0 .. 0 -> A] /\ FoldsTo([n \in 0 .. 0 |-> a], A, g, a, <<>>)
    BY DEF FoldsTo
  <2>2. <<>> \in Seq(S) /\ Len(<<>>) = 0
    OBVIOUS
  <2> QED BY <2>1, <2>2
<1>2. ASSUME NEW t \in Seq(S), t \in P, NEW x \in S
      PROVE  Append(t, x) \in P
  <2> DEFINE u == Append(t, x)
             m == Len(t)
  <2>1. PICK f \in [0 .. m -> A] : FoldsTo(f, A, g, a, t)
    BY <1>2
  <2>2. /\ u \in Seq(S) /\ m \in Nat /\ Len(u) = m + 1 /\ u[m + 1] = x
        /\ \A n \in 1 .. m : u[n] = t[n]
    OBVIOUS
  <2>3. PICK y \in A : y = g[<<f[m], x>>]
    <3>1. f[m] \in A
      BY <2>1, <2>2
    <3> QED BY <3>1
  <2> HIDE DEF u, m
  <2> DEFINE h == [n \in 0 .. m + 1 |-> IF n = m + 1 THEN y ELSE f[n]]
  <2>4. h \in [0 .. m + 1 -> A] /\ h[0] = f[0] /\ h[m + 1] = y /\ \A n \in 0 .. m : h[n] = f[n]
    BY <2>1, <2>2
  <2> HIDE DEF h
  <2>5. ASSUME NEW n \in 1 .. m + 1, h[n - 1] \in A
        PROVE  h[n] = g[<<h[n - 1], u[n]>>]
    <3>1. CASE n = m + 1
      <4>1. n - 1 = m /\ h[m] = f[m] /\ u[n] = x /\ h[n] = y
        BY <2>2, <2>4, <3>1
      <4> QED BY <2>3, <4>1, Zenon
    <3>2. CASE n # m + 1
      <4>1. n \in 1 .. m /\ n - 1 \in 0 .. m /\ n \in 0 .. m
        BY <2>2, <3>2
      <4>2. h[n] = f[n] /\ h[n - 1] = f[n - 1] /\ u[n] = t[n]
        BY <2>2, <2>4, <4>1
      <4>3. f[n - 1] \in A
        BY <2>5, <4>2, Zenon
      <4>4. f[n] = g[<<f[n - 1], t[n]>>]
        BY <2>1, <4>1, <4>3, Zenon DEF FoldsTo, m
      <4> QED BY <4>2, <4>4, Zenon
    <3> QED BY <3>1, <3>2
  <2>6. FoldsTo(h, A, g, a, u)
    BY <2>1, <2>2, <2>4, <2>5, Zenon DEF FoldsTo
  <2>7. h \in [0 .. Len(u) -> A]
    BY <2>2, <2>4
  <2> QED BY <2>2, <2>6, <2>7 DEF u
<1>3. Seq(S) \subseteq P
  <2> HIDE DEF P
  <2>1. ASSUME NEW t \in P, NEW x \in S
        PROVE  Append(t, x) \in P
    <3>1. t \in Seq(S)
      BY <2>1 DEF P
    <3> QED BY <1>2, <3>1
  <2> QED BY <1>1, <2>1, AppendInduction
<1> QED BY <1>3

(* There is one fold only. *)
LEMMA FoldUnique ==
  ASSUME NEW A, NEW S, NEW g \in [A \X S -> A], NEW a \in A, NEW s \in Seq(S),
         NEW f, FoldsTo(f, A, g, a, s), NEW h, FoldsTo(h, A, g, a, s)
  PROVE  \A n \in 0 .. Len(s) : f[n] = h[n] /\ f[n] \in A
<1> DEFINE T == {n \in Nat : n <= Len(s) => f[n] = h[n] /\ f[n] \in A}
<1>1. 0 \in T
  BY DEF FoldsTo
<1>2. ASSUME NEW n \in Nat, n \in T
      PROVE  n + 1 \in T
  <2> SUFFICES ASSUME n + 1 <= Len(s) PROVE f[n + 1] = h[n + 1] /\ f[n + 1] \in A
    OBVIOUS
  <2>1. f[n] = h[n] /\ f[n] \in A
    BY <1>2
  <2>2. PICK k \in 1 .. Len(s) : k = n + 1 /\ k - 1 = n /\ s[k] \in S
    OBVIOUS
  <2>3. f[k] = g[<<f[n], s[k]>>] /\ h[k] = g[<<h[n], s[k]>>]
    BY <2>1, <2>2 DEF FoldsTo
  <2>4. g[<<f[n], s[k]>>] \in A
    BY <2>1, <2>2
  <2> QED BY <2>1, <2>2, <2>3, <2>4, Zenon
<1>3. Nat \subseteq T
  <2> HIDE DEF T
  <2> QED BY <1>1, <1>2, Induction
<1> QED BY <1>3

(* f and h have the folds of s and of s with one element more. *)
OneMore(f, h, A, S, g, a, s, x) ==
  /\ g \in [A \X S -> A] /\ a \in A /\ s \in Seq(S) /\ x \in S
  /\ FoldsTo(f, A, g, a, s) /\ FoldsTo(h, A, g, a, Append(s, x))

LEMMA FoldMore ==
  ASSUME NEW A, NEW S, NEW g, NEW a, NEW s, NEW x, NEW f, NEW h,
         OneMore(f, h, A, S, g, a, s, x)
  PROVE  f[Len(s)] \in A /\ h[Len(Append(s, x))] = g[<<f[Len(s)], x>>]
<1> DEFINE u == Append(s, x)
           m == Len(s)
<1>0. /\ g \in [A \X S -> A] /\ a \in A /\ s \in Seq(S) /\ x \in S
      /\ FoldsTo(f, A, g, a, s) /\ FoldsTo(h, A, g, a, u)
  BY DEF OneMore
<1>1. /\ u \in Seq(S) /\ m \in Nat /\ Len(u) = m + 1 /\ u[m + 1] = x
      /\ \A n \in 1 .. m : u[n] = s[n] /\ n \in 1 .. Len(u)
  BY <1>0
<1> HIDE DEF u, m
<1>2. FoldsTo(h, A, g, a, s)
  BY <1>0, <1>1, Zenon DEF FoldsTo, m
<1>3. f[m] = h[m] /\ f[m] \in A
  <2>1. m \in 0 .. m
    BY <1>1
  <2> QED BY <1>0, <1>2, <2>1, FoldUnique, Zenon DEF m
<1>4. h[m + 1] = g[<<h[m], x>>]
  <2>1. m + 1 \in 1 .. Len(u) /\ (m + 1) - 1 = m
    BY <1>1
  <2> QED BY <1>0, <1>1, <1>3, <2>1, Zenon DEF FoldsTo
<1> QED BY <1>1, <1>3, <1>4, Zenon DEF m, u

(***************************************************************************)
(* The characters that are heard.                                          *)
(***************************************************************************)

SolidStep(S) ==
  [p \in Seq(S) \X S |-> IF p[2] \in Blank THEN p[1] ELSE Append(p[1], p[2])]

LEMMA SolidStepIs ==
  ASSUME NEW S
  PROVE  /\ SolidStep(S) \in [Seq(S) \X S -> Seq(S)]
         /\ \A t \in Seq(S), x \in S :
              SolidStep(S)[<<t, x>>] = IF x \in Blank THEN t ELSE Append(t, x)
BY DEF SolidStep

LEMMA SolidIs ==
  ASSUME NEW S, NEW s \in Seq(S)
  PROVE  \E f : FoldsTo(f, Seq(S), SolidStep(S), <<>>, s) /\ Solid(s) = f[Len(s)]
<1> DEFINE Upto(f) == f = [n \in 0 .. Len(s) |->
                             IF n = 0 THEN <<>>
                             ELSE IF s[n] \in Blank THEN f[n - 1] ELSE Append(f[n - 1], s[n])]
           g == SolidStep(S)
<1>0. /\ <<>> \in Seq(S) /\ g \in [Seq(S) \X S -> Seq(S)]
      /\ \A t \in Seq(S), x \in S : g[<<t, x>>] = IF x \in Blank THEN t ELSE Append(t, x)
  <2>1. <<>> \in Seq(S)
    OBVIOUS
  <2> QED BY <2>1, SolidStepIs, Zenon
<1> HIDE DEF g
<1>1. PICK h \in [0 .. Len(s) -> Seq(S)] : FoldsTo(h, Seq(S), g, <<>>, s)
  BY <1>0, FoldExists
<1>2. Upto(h)
  <2>1. ASSUME NEW n \in 0 .. Len(s), n # 0
        PROVE  h[n] = IF s[n] \in Blank THEN h[n - 1] ELSE Append(h[n - 1], s[n])
    <3>1. n \in 1 .. Len(s) /\ s[n] \in S /\ h[n - 1] \in Seq(S)
      BY <2>1
    <3> QED BY <1>0, <1>1, <3>1, Zenon DEF FoldsTo
  <2>2. h[0] = <<>>
    BY <1>1 DEF FoldsTo
  <2>3. h = [n \in 0 .. Len(s) |-> h[n]]
    OBVIOUS
  <2> QED BY <2>1, <2>2, <2>3, Zenon
<1>3. PICK f : Upto(f) /\ Solid(s) = f[Len(s)]
  BY <1>2 DEF Solid
<1>4. FoldsTo(f, Seq(S), g, <<>>, s)
  <2>1. f[0] = <<>>
    BY <1>3
  <2>2. ASSUME NEW n \in 1 .. Len(s), f[n - 1] \in Seq(S)
        PROVE  f[n] = g[<<f[n - 1], s[n]>>]
    <3>1. n \in 0 .. Len(s) /\ n # 0 /\ s[n] \in S
      BY <2>2
    <3>2. f[n] = IF s[n] \in Blank THEN f[n - 1] ELSE Append(f[n - 1], s[n])
      BY <1>3, <3>1
    <3> QED BY <1>0, <2>2, <3>1, <3>2, Zenon
  <2> QED BY <2>1, <2>2, Zenon DEF FoldsTo
<1> QED BY <1>3, <1>4 DEF g

LEMMA SolidNothing == Solid(<<>>) = <<>>
<1>1. <<>> \in Seq({}) /\ Len(<<>>) = 0
  OBVIOUS
<1>2. PICK f : FoldsTo(f, Seq({}), SolidStep({}), <<>>, <<>>) /\ Solid(<<>>) = f[Len(<<>>)]
  BY <1>1, SolidIs
<1> QED BY <1>1, <1>2 DEF FoldsTo

LEMMA SolidAppend ==
  ASSUME NEW S, NEW s \in Seq(S), NEW x \in S
  PROVE  /\ Solid(s) \in Seq(S)
         /\ Solid(Append(s, x)) = IF x \in Blank THEN Solid(s) ELSE Append(Solid(s), x)
<1>1. Append(s, x) \in Seq(S) /\ Len(Append(s, x)) = Len(s) + 1 /\ <<>> \in Seq(S)
  OBVIOUS
<1>2. PICK f : FoldsTo(f, Seq(S), SolidStep(S), <<>>, s) /\ Solid(s) = f[Len(s)]
  BY SolidIs
<1>3. PICK h : /\ FoldsTo(h, Seq(S), SolidStep(S), <<>>, Append(s, x))
               /\ Solid(Append(s, x)) = h[Len(Append(s, x))]
  BY <1>1, SolidIs
<1>4. SolidStep(S) \in [Seq(S) \X S -> Seq(S)]
  BY SolidStepIs, Zenon
<1>5. /\ f[Len(s)] \in Seq(S)
      /\ h[Len(Append(s, x))] = SolidStep(S)[<<f[Len(s)], x>>]
  <2>1. OneMore(f, h, Seq(S), S, SolidStep(S), <<>>, s, x)
    BY <1>1, <1>2, <1>3, <1>4, Zenon DEF OneMore
  <2> QED BY <2>1, FoldMore
<1>6. SolidStep(S)[<<f[Len(s)], x>>] = IF x \in Blank THEN f[Len(s)] ELSE Append(f[Len(s)], x)
  BY <1>5, SolidStepIs, Zenon
<1> QED BY <1>2, <1>3, <1>5, <1>6, Zenon

LEMMA SolidType ==
  ASSUME NEW S, NEW s \in Seq(S)
  PROVE  Solid(s) \in Seq(S)
<1>1. CASE s = <<>>
  BY <1>1, SolidNothing
<1>2. CASE s # <<>>
  <2>1. PICK x \in S : TRUE
    <3>1. s[1] \in S
      BY <1>2
    <3> QED BY <3>1
  <2> QED BY <2>1, SolidAppend
<1> QED BY <1>1, <1>2

(* What is heard of two texts, one after the other. *)
LEMMA SolidJoin ==
  ASSUME NEW S, NEW s \in Seq(S), NEW t \in Seq(S)
  PROVE  Solid(s \o t) = Solid(s) \o Solid(t)
<1> DEFINE P == {u \in Seq(S) : Solid(s \o u) = Solid(s) \o Solid(u)}
<1>1. <<>> \in P
  <2>1. s \o <<>> = s /\ Solid(s) \o <<>> = Solid(s) /\ <<>> \in Seq(S)
    BY SolidType
  <2> QED BY <2>1, SolidNothing
<1>2. ASSUME NEW u \in P, NEW x \in S
      PROVE  Append(u, x) \in P
  <2>1. u \in Seq(S) /\ Append(u, x) \in Seq(S) /\ s \o u \in Seq(S)
    BY <1>2
  <2>2. s \o Append(u, x) = Append(s \o u, x)
    BY <2>1, SMTT(30)
  <2>3. /\ Solid(s) \in Seq(S) /\ Solid(u) \in Seq(S)
        /\ Solid(Append(u, x)) = IF x \in Blank THEN Solid(u) ELSE Append(Solid(u), x)
        /\ Solid(Append(s \o u, x)) = IF x \in Blank THEN Solid(s \o u) ELSE Append(Solid(s \o u), x)
    BY <2>1, SolidType, SolidAppend
  <2>4. Solid(s) \o Append(Solid(u), x) = Append(Solid(s) \o Solid(u), x)
    BY <2>3, SMTT(30)
  <2>5. Solid(s \o u) = Solid(s) \o Solid(u)
    BY <1>2
  <2>6. Solid(s \o Append(u, x)) = Solid(s) \o Solid(Append(u, x))
    BY <2>2, <2>3, <2>4, <2>5, Zenon
  <2> QED BY <2>1, <2>6
<1>3. Seq(S) \subseteq P
  <2> HIDE DEF P
  <2> QED BY <1>1, <1>2, AppendInduction
<1> QED BY <1>3

(* Nothing is heard of a text just if it is blank. *)
Blanks(s) == \A i \in 1 .. Len(s) : s[i] \in Blank

LEMMA SolidBlanks ==
  ASSUME NEW S, NEW s \in Seq(S)
  PROVE  Solid(s) = <<>> <=> Blanks(s)
<1> DEFINE P == {t \in Seq(S) : Solid(t) = <<>> <=> Blanks(t)}
<1>1. <<>> \in P
  BY SolidNothing DEF Blanks
<1>2. ASSUME NEW t \in P, NEW x \in S
      PROVE  Append(t, x) \in P
  <2> DEFINE u == Append(t, x)
             m == Len(t)
  <2>0. t \in Seq(S) /\ (Solid(t) = <<>> <=> Blanks(t))
    BY <1>2
  <2>1. /\ u \in Seq(S) /\ m \in Nat /\ Len(u) = m + 1 /\ u[m + 1] = x
        /\ \A n \in 1 .. m : u[n] = t[n]
    BY <2>0
  <2>2. Solid(t) \in Seq(S) /\ Solid(u) = IF x \in Blank THEN Solid(t) ELSE Append(Solid(t), x)
    BY <2>0, SolidAppend
  <2> HIDE DEF u, m
  <2>3. Blanks(u) <=> Blanks(t) /\ x \in Blank
    <3>1. \A i : i \in 1 .. m + 1 <=> i \in 1 .. m \/ i = m + 1
      BY <2>1
    <3>2. /\ Blanks(u) <=> \A i \in 1 .. m + 1 : u[i] \in Blank
          /\ Blanks(t) <=> \A i \in 1 .. m : t[i] \in Blank
      BY <2>1 DEF Blanks, m
    <3> QED BY <2>1, <3>1, <3>2, Zenon
  <2>4. CASE x \in Blank
    BY <2>0, <2>1, <2>2, <2>3, <2>4 DEF u
  <2>5. CASE x \notin Blank
    <3>1. Append(Solid(t), x) # <<>>
      BY <2>2
    <3> QED BY <2>1, <2>2, <2>3, <2>5, <3>1 DEF u
  <2> QED BY <2>4, <2>5
<1>3. Seq(S) \subseteq P
  <2> HIDE DEF P
  <2> QED BY <1>1, <1>2, AppendInduction
<1> QED BY <1>3

(***************************************************************************)
(* Pieces one after the other.                                             *)
(***************************************************************************)

JoinStep(S) == [p \in Seq(S) \X Seq(S) |-> p[1] \o p[2]]

LEMMA JoinStepIs ==
  ASSUME NEW S
  PROVE  /\ JoinStep(S) \in [Seq(S) \X Seq(S) -> Seq(S)]
         /\ \A t \in Seq(S), x \in Seq(S) : JoinStep(S)[<<t, x>>] = t \o x
<1> DEFINE T == Seq(S)
<1>1. \A p \in T \X T : p[1] \in T /\ p[2] \in T
  OBVIOUS
<1>2. \A t, x \in T : t \o x \in T
  OBVIOUS
<1> HIDE DEF T
<1>3. JoinStep(S) = [p \in T \X T |-> p[1] \o p[2]]
  BY DEF JoinStep, T
<1>4. JoinStep(S) \in [T \X T -> T]
  BY <1>1, <1>2, <1>3
<1>5. \A t, x \in T : JoinStep(S)[<<t, x>>] = t \o x
  BY <1>3
<1> QED BY <1>4, <1>5 DEF T

LEMMA JoinedIs ==
  ASSUME NEW S, NEW ps \in Seq(Seq(S))
  PROVE  \E f : FoldsTo(f, Seq(S), JoinStep(S), <<>>, ps) /\ Joined(ps) = f[Len(ps)]
<1> DEFINE Upto(f) == f = [n \in 0 .. Len(ps) |-> IF n = 0 THEN <<>> ELSE f[n - 1] \o ps[n]]
           g == JoinStep(S)
<1>0. /\ <<>> \in Seq(S) /\ g \in [Seq(S) \X Seq(S) -> Seq(S)]
      /\ \A t \in Seq(S), x \in Seq(S) : g[<<t, x>>] = t \o x
  <2>1. <<>> \in Seq(S)
    OBVIOUS
  <2> QED BY <2>1, JoinStepIs, Zenon
<1> HIDE DEF g
<1>1. PICK h \in [0 .. Len(ps) -> Seq(S)] : FoldsTo(h, Seq(S), g, <<>>, ps)
  BY <1>0, FoldExists
<1>2. Upto(h)
  <2>1. ASSUME NEW n \in 0 .. Len(ps), n # 0
        PROVE  h[n] = h[n - 1] \o ps[n]
    <3>0. n \in 1 .. Len(ps) /\ n - 1 \in 0 .. Len(ps)
      BY <2>1
    <3>1. n \in 1 .. Len(ps) /\ ps[n] \in Seq(S) /\ h[n - 1] \in Seq(S)
      <4> DEFINE T == Seq(S)
      <4>1. ps \in Seq(T) /\ h \in [0 .. Len(ps) -> T]
        OBVIOUS
      <4> HIDE DEF T
      <4>2. ps[n] \in T
        BY <3>0, <4>1, ElementOfSeq
      <4>3. h[n - 1] \in T
        BY <3>0, <4>1, Zenon
      <4> QED BY <3>0, <4>2, <4>3 DEF T
    <3> QED BY <1>0, <1>1, <3>1, Zenon DEF FoldsTo
  <2>2. h[0] = <<>>
    BY <1>1 DEF FoldsTo
  <2>3. h = [n \in 0 .. Len(ps) |-> h[n]]
    OBVIOUS
  <2> QED BY <2>1, <2>2, <2>3, Zenon
<1>3. PICK f : Upto(f) /\ Joined(ps) = f[Len(ps)]
  BY <1>2 DEF Joined
<1>4. FoldsTo(f, Seq(S), g, <<>>, ps)
  <2>1. f[0] = <<>>
    BY <1>3
  <2>2. ASSUME NEW n \in 1 .. Len(ps), f[n - 1] \in Seq(S)
        PROVE  f[n] = g[<<f[n - 1], ps[n]>>]
    <3>1. n \in 0 .. Len(ps) /\ n # 0 /\ ps[n] \in Seq(S)
      BY <2>2
    <3>2. f[n] = f[n - 1] \o ps[n]
      BY <1>3, <3>1
    <3> QED BY <1>0, <2>2, <3>1, <3>2, Zenon
  <2> QED BY <2>1, <2>2, Zenon DEF FoldsTo
<1> QED BY <1>3, <1>4 DEF g

LEMMA JoinedNothing == Joined(<<>>) = <<>>
<1>1. <<>> \in Seq(Seq({})) /\ Len(<<>>) = 0
  OBVIOUS
<1>2. PICK f : FoldsTo(f, Seq({}), JoinStep({}), <<>>, <<>>) /\ Joined(<<>>) = f[Len(<<>>)]
  BY <1>1, JoinedIs
<1> QED BY <1>1, <1>2 DEF FoldsTo

LEMMA JoinedAppend ==
  ASSUME NEW S, NEW ps \in Seq(Seq(S)), NEW p \in Seq(S)
  PROVE  Joined(ps) \in Seq(S) /\ Joined(Append(ps, p)) = Joined(ps) \o p
<1>1. Append(ps, p) \in Seq(Seq(S)) /\ <<>> \in Seq(S)
  OBVIOUS
<1>2. PICK f : FoldsTo(f, Seq(S), JoinStep(S), <<>>, ps) /\ Joined(ps) = f[Len(ps)]
  BY JoinedIs
<1>3. PICK h : /\ FoldsTo(h, Seq(S), JoinStep(S), <<>>, Append(ps, p))
               /\ Joined(Append(ps, p)) = h[Len(Append(ps, p))]
  BY <1>1, JoinedIs
<1>4. JoinStep(S) \in [Seq(S) \X Seq(S) -> Seq(S)]
  BY JoinStepIs, Zenon
<1>5. /\ f[Len(ps)] \in Seq(S)
      /\ h[Len(Append(ps, p))] = JoinStep(S)[<<f[Len(ps)], p>>]
  <2>1. OneMore(f, h, Seq(S), Seq(S), JoinStep(S), <<>>, ps, p)
    BY <1>1, <1>2, <1>3, <1>4, Zenon DEF OneMore
  <2> QED BY <2>1, FoldMore
<1>6. JoinStep(S)[<<f[Len(ps)], p>>] = f[Len(ps)] \o p
  BY <1>5, JoinStepIs, Zenon
<1> QED BY <1>2, <1>3, <1>5, <1>6, Zenon

LEMMA JoinedType ==
  ASSUME NEW S, NEW ps \in Seq(Seq(S))
  PROVE  Joined(ps) \in Seq(S)
<1>1. <<>> \in Seq(S)
  OBVIOUS
<1> QED BY <1>1, JoinedAppend

LEMMA JoinedOne ==
  ASSUME NEW S, NEW p \in Seq(S)
  PROVE  Joined(<<p>>) = p
<1>1. <<>> \in Seq(Seq(S)) /\ Append(<<>>, p) = <<p>> /\ <<>> \o p = p
  OBVIOUS
<1> QED BY <1>1, JoinedNothing, JoinedAppend

LEMMA JoinedJoin ==
  ASSUME NEW S, NEW ps \in Seq(Seq(S)), NEW qs \in Seq(Seq(S))
  PROVE  Joined(ps \o qs) = Joined(ps) \o Joined(qs)
<1> DEFINE P == {u \in Seq(Seq(S)) : Joined(ps \o u) = Joined(ps) \o Joined(u)}
<1>1. <<>> \in P
  <2>1. ps \o <<>> = ps /\ Joined(ps) \o <<>> = Joined(ps) /\ <<>> \in Seq(Seq(S))
    BY JoinedType
  <2> QED BY <2>1, JoinedNothing
<1>2. ASSUME NEW u \in P, NEW x \in Seq(S)
      PROVE  Append(u, x) \in P
  <2>1. u \in Seq(Seq(S)) /\ Append(u, x) \in Seq(Seq(S)) /\ ps \o u \in Seq(Seq(S))
    BY <1>2
  <2>2. ps \o Append(u, x) = Append(ps \o u, x)
    BY <2>1, SMTT(30)
  <2>3. /\ Joined(ps) \in Seq(S) /\ Joined(u) \in Seq(S)
        /\ Joined(Append(u, x)) = Joined(u) \o x
        /\ Joined(Append(ps \o u, x)) = Joined(ps \o u) \o x
    BY <2>1, JoinedAppend
  <2>4. Joined(ps) \o (Joined(u) \o x) = (Joined(ps) \o Joined(u)) \o x
    <3>1. PICK a \in Seq(S), b \in Seq(S) : a = Joined(ps) /\ b = Joined(u)
      BY <2>3
    <3>2. a \o (b \o x) = (a \o b) \o x
      BY SMTT(30)
    <3> QED BY <3>1, <3>2, Zenon
  <2>5. Joined(ps \o u) = Joined(ps) \o Joined(u)
    BY <1>2
  <2>6. Joined(ps \o Append(u, x)) = Joined(ps) \o Joined(Append(u, x))
    BY <2>2, <2>3, <2>4, <2>5, Zenon
  <2> QED BY <2>1, <2>6
<1>3. Seq(Seq(S)) \subseteq P
  <2> HIDE DEF P
  <2> QED BY <1>1, <1>2, AppendInduction
<1> QED BY <1>3

(* A sequence of pieces that has one is the others and its last. *)
LEMMA FrontLast ==
  ASSUME NEW S, NEW ps \in Seq(S), ps # <<>>
  PROVE  Front(ps) \in Seq(S) /\ Last(ps) \in S /\ ps = Append(Front(ps), Last(ps))
<1>1. PICK q \in Seq(S), x \in S : ps = Append(q, x)
  BY SequenceEmptyOrAppend
<1>2. Len(ps) = Len(q) + 1 /\ Len(q) \in Nat /\ ps[Len(q) + 1] = x
  BY <1>1
<1>3. Last(ps) = x
  BY <1>2 DEF Last
<1>4. Front(ps) = q
  <2>1. SubSeq(ps, 1, Len(ps) - 1) \in Seq(S) /\ Len(SubSeq(ps, 1, Len(ps) - 1)) = Len(q)
    BY <1>2
  <2>2. \A i \in 1 .. Len(q) : SubSeq(ps, 1, Len(ps) - 1)[i] = q[i]
    BY <1>1, <1>2
  <2>3. SubSeq(ps, 1, Len(ps) - 1) = q
    BY <2>1, <2>2, SeqEqual
  <2> QED BY <2>3 DEF Front
<1> QED BY <1>1, <1>3, <1>4

LEMMA JoinedFrontLast ==
  ASSUME NEW S, NEW ps \in Seq(Seq(S)), ps # <<>>
  PROVE  Joined(ps) = Joined(Front(ps)) \o Last(ps)
<1>1. Front(ps) \in Seq(Seq(S)) /\ Last(ps) \in Seq(S) /\ ps = Append(Front(ps), Last(ps))
  BY FrontLast
<1>2. Joined(Append(Front(ps), Last(ps))) = Joined(Front(ps)) \o Last(ps)
  BY <1>1, JoinedAppend
<1> QED BY <1>1, <1>2, Zenon

(* Each piece replaced by several that are heard as it is. *)
LEMMA JoinedParts ==
  ASSUME NEW S, NEW qs \in Seq(Seq(Seq(S)))
  PROVE  \A ss \in Seq(Seq(S)) :
           Len(ss) = Len(qs) /\ (\A i \in 1 .. Len(ss) : Solid(Joined(qs[i])) = Solid(ss[i]))
             => Solid(Joined(Joined(qs))) = Solid(Joined(ss))
<1> DEFINE Same(q, t) == /\ Len(t) = Len(q)
                         /\ \A i \in 1 .. Len(t) : Solid(Joined(q[i])) = Solid(t[i])
           P == {q \in Seq(Seq(Seq(S))) : \A t \in Seq(Seq(S)) :
                    Same(q, t) => Solid(Joined(Joined(q))) = Solid(Joined(t))}
<1>1. <<>> \in P
  <2>1. <<>> \in Seq(Seq(Seq(S)))
    OBVIOUS
  <2>2. \A t \in Seq(Seq(S)) : Len(t) = Len(<<>>) => t = <<>>
    OBVIOUS
  <2> QED BY <2>1, <2>2, JoinedNothing
<1>2. ASSUME NEW q \in P, NEW x \in Seq(Seq(S))
      PROVE  Append(q, x) \in P
  <2>1. q \in Seq(Seq(Seq(S))) /\ Append(q, x) \in Seq(Seq(Seq(S)))
    BY <1>2
  <2>2. ASSUME NEW t \in Seq(Seq(S)), Same(Append(q, x), t)
        PROVE  Solid(Joined(Joined(Append(q, x)))) = Solid(Joined(t))
    <3>1. Len(t) = Len(q) + 1 /\ Len(q) \in Nat /\ t # <<>>
      BY <2>1, <2>2
    <3>2. PICK r \in Seq(Seq(S)), y \in Seq(S) : t = Append(r, y)
      BY <3>1, SequenceEmptyOrAppend
    <3>3. /\ Len(r) = Len(q) /\ t[Len(q) + 1] = y /\ Append(q, x)[Len(q) + 1] = x
          /\ \A i \in 1 .. Len(r) : t[i] = r[i] /\ Append(q, x)[i] = q[i] /\ i \in 1 .. Len(t)
          /\ Len(q) + 1 \in 1 .. Len(t)
      BY <2>1, <3>1, <3>2
    <3>4. Same(q, r) /\ Solid(Joined(x)) = Solid(y)
      BY <2>2, <3>3, Zenon
    <3>5. Solid(Joined(Joined(q))) = Solid(Joined(r))
      BY <1>2, <3>4
    <3>6. Joined(q) \in Seq(Seq(S)) /\ Joined(Append(q, x)) = Joined(q) \o x
      BY <2>1, JoinedAppend
    <3>7. /\ Joined(Joined(q)) \in Seq(S) /\ Joined(x) \in Seq(S) /\ Joined(r) \in Seq(S)
          /\ Joined(Joined(q) \o x) = Joined(Joined(q)) \o Joined(x)
          /\ Joined(t) = Joined(r) \o y
      BY <3>2, <3>6, JoinedType, JoinedJoin, JoinedAppend
    <3>8. /\ Solid(Joined(Joined(q)) \o Joined(x)) = Solid(Joined(Joined(q))) \o Solid(Joined(x))
          /\ Solid(Joined(r) \o y) = Solid(Joined(r)) \o Solid(y)
      BY <3>7, SolidJoin
    <3> QED BY <3>4, <3>5, <3>6, <3>7, <3>8, Zenon
  <2> QED BY <2>1, <2>2
<1>3. Seq(Seq(Seq(S))) \subseteq P
  <2> HIDE DEF P
  <2> QED BY <1>1, <1>2, AppendInduction
<1> QED BY <1>3

(***************************************************************************)
(* Strip takes the blanks of both ends.                                    *)
(***************************************************************************)

LEMMA Extremes ==
  ASSUME NEW m \in Nat, NEW I, I \subseteq 1 .. m, I # {}
  PROVE  Min(I) \in I /\ Max(I) \in I /\ \A y \in I : Min(I) <= y /\ y <= Max(I)
<1> DEFINE Bounded(J) == \E lo \in J, hi \in J : \A y \in J : lo <= y /\ y <= hi
           T == {k \in Nat : \A J : J \subseteq 1 .. k /\ J # {} => Bounded(J)}
<1>1. 0 \in T
  OBVIOUS
<1>2. ASSUME NEW k \in Nat, k \in T
      PROVE  k + 1 \in T
  <2>1. ASSUME NEW J, J \subseteq 1 .. k + 1, J # {}
        PROVE  Bounded(J)
    <3>0. \A K : K \subseteq 1 .. k /\ K # {} => Bounded(K)
      BY <1>2
    <3> HIDE DEF T
    <3> DEFINE K == J \ {k + 1}
    <3>1. K \subseteq 1 .. k
      BY <2>1
    <3>2. CASE K = {}
      <4>1. J = {k + 1}
        BY <2>1, <3>2
      <4> QED BY <4>1
    <3>3. CASE K # {}
      <4>1. PICK lo \in K, hi \in K : \A y \in K : lo <= y /\ y <= hi
        BY <3>0, <3>1, <3>3
      <4>2. \A y \in J : y \in K \/ y = k + 1
        OBVIOUS
      <4>3. lo \in J /\ hi \in J /\ lo <= k + 1
        BY <3>1, <4>1
      <4>4. CASE k + 1 \in J
        <5>1. \A y \in J : lo <= y /\ y <= k + 1
          BY <3>1, <4>1, <4>2, <4>3
        <5> QED BY <4>3, <4>4, <5>1
      <4>5. CASE k + 1 \notin J
        BY <4>1, <4>2, <4>3, <4>5
      <4> QED BY <4>4, <4>5
    <3> QED BY <3>2, <3>3
  <2> HIDE DEF Bounded
  <2> QED BY <2>1
<1>3. Nat \subseteq T
  <2> HIDE DEF T
  <2> QED BY <1>1, <1>2, Induction
<1>4. PICK lo \in I, hi \in I : \A y \in I : lo <= y /\ y <= hi
  BY <1>3
<1>5. Min(I) \in I /\ \A y \in I : Min(I) <= y
  BY <1>4 DEF Min
<1>6. Max(I) \in I /\ \A y \in I : Max(I) >= y
  <2>1. \A y \in I : hi >= y
    BY <1>4
  <2> QED BY <2>1 DEF Max
<1>7. \A y \in I : y \in Nat
  OBVIOUS
<1> QED BY <1>5, <1>6, <1>7

LEMMA StripIs ==
  ASSUME NEW S, NEW s \in Seq(S)
  PROVE  \/ Blanks(s) /\ Strip(s) = <<>>
         \/ \E a, b \in 1 .. Len(s) :
              /\ a <= b /\ Strip(s) = SubSeq(s, a, b)
              /\ s[a] \notin Blank /\ s[b] \notin Blank
              /\ \A i \in 1 .. Len(s) : i < a \/ b < i => s[i] \in Blank
<1> DEFINE solid == {i \in DOMAIN s : s[i] \notin Blank}
<1>1. DOMAIN s = 1 .. Len(s) /\ Len(s) \in Nat
  OBVIOUS
<1>2. Strip(s) = IF solid = {} THEN <<>> ELSE SubSeq(s, Min(solid), Max(solid))
  BY DEF Strip
<1>3. CASE solid = {}
  BY <1>1, <1>2, <1>3 DEF Blanks
<1>4. CASE solid # {}
  <2>1. solid \subseteq 1 .. Len(s)
    BY <1>1
  <2>2. /\ Min(solid) \in solid /\ Max(solid) \in solid
        /\ \A y \in solid : Min(solid) <= y /\ y <= Max(solid)
    <3> HIDE DEF solid
    <3> QED BY <1>1, <1>4, <2>1, Extremes
  <2>3. PICK a, b : a = Min(solid) /\ b = Max(solid)
    OBVIOUS
  <2>4. a \in 1 .. Len(s) /\ b \in 1 .. Len(s) /\ s[a] \notin Blank /\ s[b] \notin Blank
    BY <1>1, <2>2, <2>3
  <2>5. a <= b
    BY <2>2, <2>3
  <2>6. \A i \in 1 .. Len(s) : i < a \/ b < i => s[i] \in Blank
    <3> SUFFICES ASSUME NEW i \in 1 .. Len(s), s[i] \notin Blank PROVE ~(i < a \/ b < i)
      OBVIOUS
    <3>1. i \in solid
      BY <1>1
    <3> HIDE DEF solid
    <3>2. a <= i /\ i <= b
      BY <2>2, <2>3, <3>1
    <3> QED BY <2>4, <3>2
  <2>7. Strip(s) = SubSeq(s, a, b)
    BY <1>2, <1>4, <2>3
  <2> QED BY <2>4, <2>5, <2>6, <2>7
<1> QED BY <1>3, <1>4

(* Strip keeps what is heard, and leaves nothing of a blank text only. *)
LEMMA StripSolid ==
  ASSUME NEW S, NEW s \in Seq(S)
  PROVE  /\ Strip(s) \in Seq(S) /\ Solid(Strip(s)) = Solid(s)
         /\ Strip(s) = <<>> <=> Solid(s) = <<>>
<1>1. CASE Blanks(s) /\ Strip(s) = <<>>
  <2>1. <<>> \in Seq(S)
    OBVIOUS
  <2> QED BY <1>1, <2>1, SolidBlanks, SolidNothing
<1>2. ASSUME NEW a \in 1 .. Len(s), NEW b \in 1 .. Len(s), a <= b, Strip(s) = SubSeq(s, a, b),
             s[a] \notin Blank, s[b] \notin Blank,
             \A i \in 1 .. Len(s) : i < a \/ b < i => s[i] \in Blank
      PROVE  /\ Strip(s) \in Seq(S) /\ Solid(Strip(s)) = Solid(s)
             /\ Strip(s) = <<>> <=> Solid(s) = <<>>
  <2> DEFINE x == SubSeq(s, 1, a - 1)
             r == SubSeq(s, a, b)
             y == SubSeq(s, b + 1, Len(s))
  <2>0. Len(s) \in Nat /\ a \in Nat /\ b \in Nat
    OBVIOUS
  <2>1. /\ x \in Seq(S) /\ Len(x) = a - 1 /\ \A i \in 1 .. Len(x) : x[i] = s[i]
    BY <2>0
  <2>2. r \in Seq(S) /\ Len(r) = b - a + 1 /\ r[1] = s[a]
    BY <1>2, <2>0
  <2>3. y \in Seq(S) /\ Len(y) = Len(s) - b /\ \A i \in 1 .. Len(y) : y[i] = s[i + b]
    BY <2>0
  <2>4. x \o r = SubSeq(s, 1, b)
    <3>1. 1 \in 1 .. Len(s) + 1 /\ a - 1 \in 1 - 1 .. Len(s) /\ b \in a - 1 .. Len(s)
      BY <1>2, <2>0
    <3>2. SubSeq(s, 1, a - 1) \o SubSeq(s, (a - 1) + 1, b) = SubSeq(s, 1, b)
      BY <3>1, ConcatAdjacentSubSeq
    <3>3. (a - 1) + 1 = a
      BY <2>0
    <3> QED BY <3>2, <3>3
  <2>5. SubSeq(s, 1, b) \o y = s
    <3>1. 1 \in 1 .. Len(s) + 1 /\ b \in 1 - 1 .. Len(s) /\ Len(s) \in b .. Len(s)
      BY <2>0
    <3>2. SubSeq(s, 1, b) \o SubSeq(s, b + 1, Len(s)) = SubSeq(s, 1, Len(s))
      BY <3>1, ConcatAdjacentSubSeq
    <3> QED BY <3>2, SubSeqFull
  <2>6. Blanks(x) /\ Blanks(y)
    <3>1. \A i \in 1 .. Len(x) : i \in 1 .. Len(s) /\ i < a
      BY <2>0, <2>1
    <3>2. \A i \in 1 .. Len(y) : i + b \in 1 .. Len(s) /\ b < i + b
      BY <2>0, <2>3
    <3> QED BY <1>2, <2>1, <2>3, <3>1, <3>2, Zenon DEF Blanks
  <2> HIDE DEF x, r, y
  <2>7. 1 \in 1 .. Len(r) /\ r # <<>>
    BY <1>2, <2>0, <2>2
  <2>8. ~Blanks(r)
    BY <1>2, <2>2, <2>7, Zenon DEF Blanks
  <2>9. Solid(x) = <<>> /\ Solid(y) = <<>> /\ Solid(r) # <<>> /\ Solid(r) \in Seq(S)
    BY <2>1, <2>2, <2>3, <2>6, <2>8, SolidBlanks, SolidType
  <2>10. s = (x \o r) \o y /\ x \o r \in Seq(S)
    BY <2>1, <2>2, <2>4, <2>5 DEF r
  <2>11. Solid(s) = (Solid(x) \o Solid(r)) \o Solid(y)
    <3>1. Solid(x \o r) = Solid(x) \o Solid(r)
      BY <2>1, <2>2, SolidJoin
    <3>2. Solid((x \o r) \o y) = Solid(x \o r) \o Solid(y)
      BY <2>3, <2>10, SolidJoin
    <3> QED BY <2>10, <3>1, <3>2, Zenon
  <2>12. Solid(s) = Solid(r)
    BY <2>9, <2>11
  <2> QED BY <1>2, <2>2, <2>7, <2>9, <2>12 DEF r
<1> QED BY <1>1, <1>2, StripIs

(* What Strip leaves begins and ends with no blank; it is the text, from k. *)
LEMMA StripEnds ==
  ASSUME NEW S, NEW s \in Seq(S), NEW r, r = Strip(s), r # <<>>
  PROVE  /\ r \in Seq(S) /\ Len(r) \in Nat \ {0} /\ r[1] \notin Blank /\ r[Len(r)] \notin Blank
         /\ \E k \in Nat : /\ k + Len(r) <= Len(s)
                           /\ \A i \in 1 .. Len(r) : r[i] = s[i + k]
<1>1. PICK a \in 1 .. Len(s), b \in 1 .. Len(s) :
        /\ a <= b /\ r = SubSeq(s, a, b) /\ s[a] \notin Blank /\ s[b] \notin Blank
  BY StripIs
<1>2. /\ r \in Seq(S) /\ Len(r) = b - a + 1 /\ \A i \in 1 .. Len(r) : r[i] = s[a + i - 1]
  BY <1>1
<1>3. Len(r) \in Nat \ {0} /\ a + 1 - 1 = a /\ a + Len(r) - 1 = b
  BY <1>1, <1>2
<1>4. r[1] = s[a] /\ r[Len(r)] = s[b]
  BY <1>2, <1>3
<1>5. PICK k \in Nat : k = a - 1
  OBVIOUS
<1>6. k + Len(r) <= Len(s) /\ \A i \in 1 .. Len(r) : a + i - 1 = i + k
  BY <1>1, <1>3, <1>5
<1>7. \A i \in 1 .. Len(r) : r[i] = s[i + k]
  BY <1>2, <1>6
<1> QED BY <1>1, <1>2, <1>3, <1>4, <1>6, <1>7

(***************************************************************************)
(* Scans.                                                                  *)
(***************************************************************************)

ScanState(S) == [pieces : Seq(Seq(S)), buf : Seq(S)]

LEMMA KeepType ==
  ASSUME NEW S, NEW Q, Q \subseteq Seq(S), NEW ps \in Seq(Q), NEW b \in Seq(S),
         Strip(b) # <<>> => Strip(b) \in Q
  PROVE  Keep(ps, b) \in Seq(Q)
<1>1. CASE Strip(b) = <<>>
  BY <1>1 DEF Keep
<1>2. CASE Strip(b) # <<>>
  <2>1. Append(ps, Strip(b)) \in Seq(Q)
    BY <1>2
  <2> QED BY <1>2, <2>1 DEF Keep
<1> QED BY <1>1, <1>2

LEMMA KeepSolid ==
  ASSUME NEW S, NEW ps \in Seq(Seq(S)), NEW b \in Seq(S)
  PROVE  /\ Keep(ps, b) \in Seq(Seq(S))
         /\ Solid(Joined(Keep(ps, b))) = Solid(Joined(ps)) \o Solid(b)
<1>1. /\ Strip(b) \in Seq(S) /\ Solid(Strip(b)) = Solid(b)
      /\ Strip(b) = <<>> <=> Solid(b) = <<>>
  BY StripSolid
<1>2. Joined(ps) \in Seq(S)
  BY JoinedType
<1>3. CASE Strip(b) = <<>>
  <2>1. Solid(Joined(ps)) \in Seq(S)
    BY <1>2, SolidType
  <2>2. Solid(Joined(ps)) \o <<>> = Solid(Joined(ps))
    BY <2>1
  <2>3. Keep(ps, b) = ps
    BY <1>3 DEF Keep
  <2> QED BY <1>1, <1>3, <2>2, <2>3, Zenon
<1>4. CASE Strip(b) # <<>>
  <2>1. Keep(ps, b) = Append(ps, Strip(b))
    BY <1>4 DEF Keep
  <2>2. Joined(Append(ps, Strip(b))) = Joined(ps) \o Strip(b)
    BY <1>1, JoinedAppend
  <2>3. Solid(Joined(ps) \o Strip(b)) = Solid(Joined(ps)) \o Solid(Strip(b))
    BY <1>1, <1>2, SolidJoin
  <2>4. Append(ps, Strip(b)) \in Seq(Seq(S))
    BY <1>1
  <2> QED BY <1>1, <2>1, <2>2, <2>3, <2>4, Zenon
<1> QED BY <1>3, <1>4

LEMMA ScannedType ==
  ASSUME NEW S, NEW marks, NEW least, NEW acc \in ScanState(S), NEW ch \in S
  PROVE  Scanned(acc, ch, marks, least) \in ScanState(S)
<1>1. acc.pieces \in Seq(Seq(S)) /\ acc.buf \in Seq(S)
  BY DEF ScanState
<1>2. PICK b \in Seq(S) : b = Append(acc.buf, ch)
  <2>1. PICK c \in Seq(S) : c = acc.buf
    BY <1>1
  <2>2. Append(c, ch) \in Seq(S)
    OBVIOUS
  <2> QED BY <2>1, <2>2
<1>3. Keep(acc.pieces, b) \in Seq(Seq(S)) /\ <<>> \in Seq(S)
  BY <1>1, KeepSolid
<1>4. /\ [pieces |-> Keep(acc.pieces, b), buf |-> <<>>] \in ScanState(S)
      /\ [pieces |-> acc.pieces, buf |-> b] \in ScanState(S)
  BY <1>1, <1>3 DEF ScanState
<1> QED BY <1>2, <1>4, Zenon DEF Scanned

ScanStep(S, marks, least) ==
  [p \in ScanState(S) \X S |-> Scanned(p[1], p[2], marks, least)]

LEMMA ScanStepIs ==
  ASSUME NEW S, NEW marks, NEW least
  PROVE  ScanStep(S, marks, least) \in [ScanState(S) \X S -> ScanState(S)]
<1>1. PICK T : T = ScanState(S)
  OBVIOUS
<1>2. \A t \in T, x \in S : Scanned(t, x, marks, least) \in T
  BY <1>1, ScannedType
<1>3. ScanStep(S, marks, least) = [p \in T \X S |-> Scanned(p[1], p[2], marks, least)]
  BY <1>1 DEF ScanStep
<1>4. \A p \in T \X S : p[1] \in T /\ p[2] \in S
  OBVIOUS
<1>5. ScanStep(S, marks, least) \in [T \X S -> T]
  BY <1>2, <1>3, <1>4
<1> QED BY <1>1, <1>5

LEMMA ScanStepAt ==
  ASSUME NEW S, NEW marks, NEW least, NEW t \in ScanState(S), NEW x \in S
  PROVE  ScanStep(S, marks, least)[<<t, x>>] = Scanned(t, x, marks, least)
<1>1. PICK T : T = ScanState(S)
  OBVIOUS
<1>2. ScanStep(S, marks, least) = [p \in T \X S |-> Scanned(p[1], p[2], marks, least)]
  BY <1>1 DEF ScanStep
<1>3. t \in T
  BY <1>1
<1> QED BY <1>2, <1>3

NothingScanned == [pieces |-> <<>>, buf |-> <<>>]

(* f has what is scanned of the beginnings of s. *)
ScanFold(f, S, marks, least, s) ==
  /\ FoldsTo(f, ScanState(S), ScanStep(S, marks, least), NothingScanned, s)
  /\ ScanUpTo(s, marks, least) = f[Len(s)]

LEMMA ScanUpToIs ==
  ASSUME NEW S, NEW marks, NEW least, NEW s \in Seq(S)
  PROVE  \E f : ScanFold(f, S, marks, least, s)
<1> DEFINE Upto(f) == f = [n \in 0 .. Len(s) |->
                             IF n = 0 THEN [pieces |-> <<>>, buf |-> <<>>]
                             ELSE Scanned(f[n - 1], s[n], marks, least)]
           g == ScanStep(S, marks, least)
           A == ScanState(S)
<1>0. /\ NothingScanned \in A /\ g \in [A \X S -> A]
      /\ \A t \in A, x \in S : g[<<t, x>>] = Scanned(t, x, marks, least)
  <2>1. <<>> \in Seq(S) /\ <<>> \in Seq(Seq(S))
    OBVIOUS
  <2>2. NothingScanned \in A
    BY <2>1 DEF ScanState, NothingScanned
  <2>3. g \in [A \X S -> A]
    BY ScanStepIs, Zenon
  <2>4. ASSUME NEW t \in A, NEW x \in S
        PROVE  g[<<t, x>>] = Scanned(t, x, marks, least)
    BY ScanStepAt
  <2> QED BY <2>2, <2>3, <2>4
<1> HIDE DEF g, A
<1>1. PICK h \in [0 .. Len(s) -> A] : FoldsTo(h, A, g, NothingScanned, s)
  BY <1>0, FoldExists
<1>2. Upto(h)
  <2>1. ASSUME NEW n \in 0 .. Len(s), n # 0
        PROVE  h[n] = Scanned(h[n - 1], s[n], marks, least)
    <3>1. n \in 1 .. Len(s) /\ s[n] \in S /\ h[n - 1] \in A
      BY <2>1
    <3> QED BY <1>0, <1>1, <3>1, Zenon DEF FoldsTo
  <2>2. h[0] = [pieces |-> <<>>, buf |-> <<>>]
    BY <1>1 DEF FoldsTo, NothingScanned
  <2>3. h = [n \in 0 .. Len(s) |-> h[n]]
    OBVIOUS
  <2> QED BY <2>1, <2>2, <2>3, Zenon
<1>3. PICK f : Upto(f) /\ ScanUpTo(s, marks, least) = f[Len(s)]
  BY <1>2, Zenon DEF ScanUpTo
<1>4. FoldsTo(f, A, g, NothingScanned, s)
  <2>1. f[0] = NothingScanned
    BY <1>3 DEF NothingScanned
  <2>2. ASSUME NEW n \in 1 .. Len(s), f[n - 1] \in A
        PROVE  f[n] = g[<<f[n - 1], s[n]>>]
    <3>1. n \in 0 .. Len(s) /\ n # 0 /\ s[n] \in S
      BY <2>2
    <3>2. f[n] = Scanned(f[n - 1], s[n], marks, least)
      BY <1>3, <3>1
    <3> QED BY <1>0, <2>2, <3>1, <3>2, Zenon
  <2> QED BY <2>1, <2>2, Zenon DEF FoldsTo
<1> QED BY <1>3, <1>4, Zenon DEF g, A, ScanFold

LEMMA ScanNothing ==
  ASSUME NEW marks, NEW least
  PROVE  ScanUpTo(<<>>, marks, least) = NothingScanned
<1>1. <<>> \in Seq({}) /\ Len(<<>>) = 0
  OBVIOUS
<1>2. PICK f : ScanFold(f, {}, marks, least, <<>>)
  BY <1>1, ScanUpToIs, Zenon
<1> QED BY <1>1, <1>2, Zenon DEF FoldsTo, ScanFold

LEMMA ScanAppend ==
  ASSUME NEW S, NEW marks, NEW least, NEW s \in Seq(S), NEW x \in S
  PROVE  ScanUpTo(Append(s, x), marks, least) = Scanned(ScanUpTo(s, marks, least), x, marks, least)
<1> DEFINE A == ScanState(S)
           g == ScanStep(S, marks, least)
<1>1. Append(s, x) \in Seq(S)
  OBVIOUS
<1>2. PICK f : FoldsTo(f, A, g, NothingScanned, s) /\ ScanUpTo(s, marks, least) = f[Len(s)]
  <2>1. PICK f : ScanFold(f, S, marks, least, s)
    BY ScanUpToIs, Zenon
  <2> QED BY <2>1, Zenon DEF ScanFold
<1>3. PICK h : /\ FoldsTo(h, A, g, NothingScanned, Append(s, x))
               /\ ScanUpTo(Append(s, x), marks, least) = h[Len(Append(s, x))]
  <2>1. PICK h : ScanFold(h, S, marks, least, Append(s, x))
    BY <1>1, ScanUpToIs, Zenon
  <2> QED BY <2>1, Zenon DEF ScanFold
<1>4. g \in [A \X S -> A] /\ \A t \in A, y \in S : g[<<t, y>>] = Scanned(t, y, marks, least)
  <2>1. g \in [A \X S -> A]
    BY ScanStepIs, Zenon
  <2>2. ASSUME NEW t \in A, NEW y \in S
        PROVE  g[<<t, y>>] = Scanned(t, y, marks, least)
    BY ScanStepAt
  <2> QED BY <2>1, <2>2
<1>5. NothingScanned \in A
  <2>1. <<>> \in Seq(S) /\ <<>> \in Seq(Seq(S))
    OBVIOUS
  <2> QED BY <2>1 DEF ScanState, NothingScanned
<1> HIDE DEF A, g
<1>6. f[Len(s)] \in A /\ h[Len(Append(s, x))] = g[<<f[Len(s)], x>>]
  <2>1. OneMore(f, h, A, S, g, NothingScanned, s, x)
    BY <1>2, <1>3, <1>4, <1>5, Zenon DEF OneMore
  <2> QED BY <2>1, FoldMore
<1>7. g[<<f[Len(s)], x>>] = Scanned(f[Len(s)], x, marks, least)
  BY <1>4, <1>6, Zenon
<1> QED BY <1>2, <1>3, <1>6, <1>7, Zenon DEF A

(* A scan keeps what is heard. *)
LEMMA ScanSolid ==
  ASSUME NEW S, NEW marks, NEW least, NEW s \in Seq(S)
  PROVE  /\ Scan(s, marks, least) \in Seq(Seq(S))
         /\ Solid(Joined(Scan(s, marks, least))) = Solid(s)
<1> DEFINE Up(t) == ScanUpTo(t, marks, least)
           Heard(t) == /\ Up(t).pieces \in Seq(Seq(S)) /\ Up(t).buf \in Seq(S)
                       /\ Solid(Joined(Up(t).pieces)) \o Solid(Up(t).buf) = Solid(t)
           P == {t \in Seq(S) : Heard(t)}
<1>1. <<>> \in P
  <2>1. Up(<<>>).pieces = <<>> /\ Up(<<>>).buf = <<>>
    BY ScanNothing DEF NothingScanned
  <2>2. <<>> \in Seq(S) /\ <<>> \in Seq(Seq(S)) /\ <<>> \o <<>> = <<>>
    OBVIOUS
  <2>3. Heard(<<>>)
    <3> HIDE DEF Up
    <3> QED BY <2>1, <2>2, SolidNothing, JoinedNothing
  <2> HIDE DEF Heard
  <2> QED BY <2>2, <2>3
<1>2. ASSUME NEW t \in P, NEW ch \in S
      PROVE  Append(t, ch) \in P
  <2>1. t \in Seq(S) /\ Append(t, ch) \in Seq(S)
    BY <1>2
  <2>2. PICK ps \in Seq(Seq(S)), b \in Seq(S) :
          ps = Up(t).pieces /\ b = Up(t).buf /\ Solid(Joined(ps)) \o Solid(b) = Solid(t)
    BY <1>2
  <2>3. PICK c \in Seq(S) : c = Append(b, ch)
    <3>1. Append(b, ch) \in Seq(S)
      BY <2>2
    <3> QED BY <3>1
  <2>4. Up(Append(t, ch)) = IF ch \in marks /\ Len(c) >= least
                              THEN [pieces |-> Keep(ps, c), buf |-> <<>>]
                              ELSE [pieces |-> ps, buf |-> c]
    <3>1. ScanUpTo(Append(t, ch), marks, least) =
            Scanned(ScanUpTo(t, marks, least), ch, marks, least)
      <4> HIDE DEF P
      <4> QED BY <2>1, ScanAppend
    <3> QED BY <2>2, <2>3, <3>1, Zenon DEF Scanned, Up
  <2>5. /\ Solid(c) = IF ch \in Blank THEN Solid(b) ELSE Append(Solid(b), ch)
        /\ Solid(Append(t, ch)) = IF ch \in Blank THEN Solid(t) ELSE Append(Solid(t), ch)
    BY <2>1, <2>3, SolidAppend
  <2>6. PICK q \in Seq(S), r \in Seq(S) : q = Solid(Joined(ps)) /\ r = Solid(b)
    BY JoinedType, SolidType
  <2>7. q \o Append(r, ch) = Append(q \o r, ch)
    BY SMTT(30)
  <2>8. Solid(Joined(ps)) \o Solid(c) = Solid(Append(t, ch))
    BY <2>2, <2>5, <2>6, <2>7, Zenon
  <2>9. Heard(Append(t, ch))
    <3>1. CASE ch \in marks /\ Len(c) >= least
      <4>1. Up(Append(t, ch)).pieces = Keep(ps, c) /\ Up(Append(t, ch)).buf = <<>>
        BY <2>4, <3>1
      <4>2. Keep(ps, c) \in Seq(Seq(S)) /\ Solid(Joined(Keep(ps, c))) = Solid(Append(t, ch))
        BY <2>8, KeepSolid
      <4>3. PICK z \in Seq(S) : z = Solid(Append(t, ch))
        BY <2>1, SolidType
      <4>4. z \o <<>> = z /\ <<>> \in Seq(S)
        OBVIOUS
      <4> HIDE DEF Up
      <4> QED BY <4>1, <4>2, <4>3, <4>4, SolidNothing, Zenon
    <3>2. CASE ~(ch \in marks /\ Len(c) >= least)
      <4>1. Up(Append(t, ch)).pieces = ps /\ Up(Append(t, ch)).buf = c
        BY <2>4, <3>2
      <4> HIDE DEF Up
      <4> QED BY <2>8, <4>1, Zenon
    <3> QED BY <3>1, <3>2
  <2> HIDE DEF Heard
  <2> QED BY <2>1, <2>9
<1>3. Seq(S) \subseteq P
  <2> HIDE DEF P
  <2> QED BY <1>1, <1>2, AppendInduction
<1>4. PICK ps \in Seq(Seq(S)), b \in Seq(S) :
        ps = Up(s).pieces /\ b = Up(s).buf /\ Solid(Joined(ps)) \o Solid(b) = Solid(s)
  <2>1. Heard(s)
    <3> HIDE DEF Heard
    <3> QED BY <1>3
  <2> QED BY <2>1
<1>5. Scan(s, marks, least) = Keep(ps, b)
  BY <1>4, Zenon DEF Scan
<1> QED BY <1>4, <1>5, KeepSolid

(* What the pieces of a scan are, from what its buffer may be: B.          *)
Buffers(B, Q, S, marks, least) ==
  /\ B \subseteq Seq(S) /\ Q \subseteq Seq(S) /\ <<>> \in B
  /\ \A b \in B : Strip(b) = <<>> \/ Strip(b) \in Q
  /\ \A b \in B, ch \in S :
       LET c == Append(b, ch)
       IN IF ch \in marks /\ Len(c) >= least THEN Strip(c) = <<>> \/ Strip(c) \in Q ELSE c \in B

LEMMA ScanPieces ==
  ASSUME NEW S, NEW marks, NEW least, NEW B, NEW Q, Buffers(B, Q, S, marks, least),
         NEW s \in Seq(S)
  PROVE  Scan(s, marks, least) \in Seq(Q)
<1>0. /\ B \subseteq Seq(S) /\ Q \subseteq Seq(S) /\ <<>> \in B
      /\ \A b \in B : Strip(b) = <<>> \/ Strip(b) \in Q
  BY DEF Buffers
<1> DEFINE Up(t) == ScanUpTo(t, marks, least)
           Fits(t) == Up(t).pieces \in Seq(Q) /\ Up(t).buf \in B
           P == {t \in Seq(S) : Fits(t)}
<1>1. <<>> \in P
  <2>1. Up(<<>>).pieces = <<>> /\ Up(<<>>).buf = <<>>
    BY ScanNothing DEF NothingScanned
  <2>2. <<>> \in Seq(S) /\ <<>> \in Seq(Q)
    OBVIOUS
  <2>3. Fits(<<>>)
    <3> HIDE DEF Up
    <3> QED BY <1>0, <2>1, <2>2
  <2> HIDE DEF Fits
  <2> QED BY <2>2, <2>3
<1>2. ASSUME NEW t \in P, NEW ch \in S
      PROVE  Append(t, ch) \in P
  <2>1. t \in Seq(S) /\ Append(t, ch) \in Seq(S)
    BY <1>2
  <2>2. PICK ps \in Seq(Q), b \in B : ps = Up(t).pieces /\ b = Up(t).buf
    BY <1>2
  <2>3. PICK c \in Seq(S) : c = Append(b, ch)
    <3>1. b \in Seq(S)
      BY <1>0
    <3>2. Append(b, ch) \in Seq(S)
      BY <3>1
    <3> QED BY <3>2
  <2>4. Up(Append(t, ch)) = IF ch \in marks /\ Len(c) >= least
                              THEN [pieces |-> Keep(ps, c), buf |-> <<>>]
                              ELSE [pieces |-> ps, buf |-> c]
    <3>1. ScanUpTo(Append(t, ch), marks, least) =
            Scanned(ScanUpTo(t, marks, least), ch, marks, least)
      <4> HIDE DEF P
      <4> QED BY <2>1, ScanAppend
    <3> QED BY <2>2, <2>3, <3>1, Zenon DEF Scanned, Up
  <2>5. Fits(Append(t, ch))
    <3>1. CASE ch \in marks /\ Len(c) >= least
      <4>1. Up(Append(t, ch)).pieces = Keep(ps, c) /\ Up(Append(t, ch)).buf = <<>>
        BY <2>4, <3>1
      <4>2. Strip(c) = <<>> \/ Strip(c) \in Q
        BY <2>3, <3>1, Zenon DEF Buffers
      <4>3. Keep(ps, c) \in Seq(Q)
        BY <1>0, <4>2, KeepType
      <4> HIDE DEF Up
      <4> QED BY <1>0, <4>1, <4>3, Zenon
    <3>2. CASE ~(ch \in marks /\ Len(c) >= least)
      <4>1. Up(Append(t, ch)).pieces = ps /\ Up(Append(t, ch)).buf = c
        BY <2>4, <3>2
      <4>2. c \in B
        BY <2>3, <3>2, Zenon DEF Buffers
      <4> HIDE DEF Up
      <4> QED BY <4>1, <4>2, Zenon
    <3> QED BY <3>1, <3>2
  <2> HIDE DEF Fits
  <2> QED BY <2>1, <2>5
<1>3. Seq(S) \subseteq P
  <2> HIDE DEF P
  <2> QED BY <1>1, <1>2, AppendInduction
<1>4. PICK ps \in Seq(Q), b \in B : ps = Up(s).pieces /\ b = Up(s).buf
  <2>1. Fits(s)
    <3> HIDE DEF Fits
    <3> QED BY <1>3
  <2> QED BY <2>1
<1>5. Scan(s, marks, least) = Keep(ps, b)
  BY <1>4, Zenon DEF Scan
<1>6. Keep(ps, b) \in Seq(Q)
  <2>1. (Strip(b) = <<>> \/ Strip(b) \in Q) /\ b \in Seq(S)
    BY <1>0
  <2> QED BY <1>0, <2>1, KeepType
<1> QED BY <1>5, <1>6

(***************************************************************************)
(* What split_sentences cuts a text into.                                  *)
(***************************************************************************)

Plain == Alphabet \ {"nl"}

(* A piece between two marks: something is heard, and no line break is left *)
(* in it.                                                                  *)
Sentence == {s \in Seq(Plain) : Solid(s) # <<>>}

(* A piece of a long sentence: where a slice of it may begin there is no    *)
(* blank.                                                                  *)
Choppable(p) == \A i \in 1 .. Len(p) : i = 1 \/ i > MaxChars => p[i] \notin Blank

Clause == {p \in Seq(Plain) : Solid(p) # <<>> /\ Choppable(p)}

(* What is handed to the synthesiser. *)
Piece == {p \in Seq(Alphabet) : Len(p) <= MaxChars /\ Solid(p) # <<>>}

LEMMA PlainSeq ==
  ASSUME NEW s \in Seq(Alphabet), \A i \in 1 .. Len(s) : s[i] # "nl"
  PROVE  s \in Seq(Plain)
BY DEF Plain

LEMMA StripSentence ==
  ASSUME NEW c \in Seq(Alphabet), \A i \in 1 .. Len(c) : i < Len(c) => c[i] # "nl",
         Strip(c) # <<>>
  PROVE  Strip(c) \in Sentence
<1>1. PICK r : r = Strip(c) /\ r # <<>>
  OBVIOUS
<1>2. r \in Seq(Alphabet) /\ Len(r) \in Nat \ {0} /\ r[Len(r)] \notin Blank
  BY <1>1, StripEnds, SMTT(30)
<1>3. PICK k \in Nat : k + Len(r) <= Len(c) /\ \A i \in 1 .. Len(r) : r[i] = c[i + k]
  BY <1>1, StripEnds, SMTT(30)
<1>4. ASSUME NEW i \in 1 .. Len(r)
      PROVE  r[i] # "nl"
  <2>1. CASE i = Len(r)
    BY <1>2, <2>1 DEF Blank
  <2>2. CASE i # Len(r)
    <3>1. i + k \in 1 .. Len(c) /\ i + k < Len(c)
      BY <1>2, <1>3, <2>2
    <3> QED BY <1>3, <3>1
  <2> QED BY <2>1, <2>2
<1>5. r \in Seq(Plain)
  BY <1>2, <1>4, PlainSeq
<1>6. Solid(r) # <<>>
  BY <1>1, <1>2, StripSolid
<1> QED BY <1>1, <1>5, <1>6 DEF Sentence

LEMMA SentencesAre ==
  ASSUME NEW s \in Seq(Alphabet)
  PROVE  Scan(s, Primary, 1) \in Seq(Sentence)
<1> DEFINE B == {b \in Seq(Alphabet) : \A i \in 1 .. Len(b) : b[i] \notin Primary}
<1>1. B \subseteq Seq(Alphabet) /\ <<>> \in B
  OBVIOUS
<1>2. Sentence \subseteq Seq(Alphabet)
  BY DEF Sentence, Plain
<1>3. ASSUME NEW b \in B
      PROVE  Strip(b) = <<>> \/ Strip(b) \in Sentence
  BY StripSentence DEF Primary
<1>4. ASSUME NEW b \in B, NEW ch \in Alphabet, NEW c, c = Append(b, ch)
      PROVE  IF ch \in Primary /\ Len(c) >= 1 THEN Strip(c) = <<>> \/ Strip(c) \in Sentence
             ELSE c \in B
  <2>1. /\ c \in Seq(Alphabet) /\ Len(b) \in Nat /\ Len(c) = Len(b) + 1 /\ c[Len(c)] = ch
        /\ \A i \in 1 .. Len(b) : c[i] = b[i] /\ b[i] \notin Primary
    BY <1>4
  <2> HIDE DEF B
  <2>2. Strip(c) = <<>> \/ Strip(c) \in Sentence
    <3>1. \A i \in 1 .. Len(c) : i < Len(c) => c[i] # "nl"
      BY <2>1 DEF Primary
    <3> QED BY <2>1, <3>1, StripSentence
  <2>3. ch \notin Primary => c \in B
    <3>1. ch \notin Primary => \A i \in 1 .. Len(c) : c[i] \notin Primary
      BY <2>1
    <3> QED BY <2>1, <3>1 DEF B
  <2> QED BY <2>1, <2>2, <2>3
<1>5. Buffers(B, Sentence, Alphabet, Primary, 1)
  <2> HIDE DEF B
  <2> QED BY <1>1, <1>2, <1>3, <1>4, Zenon DEF Buffers
<1> HIDE DEF B
<1> QED BY <1>5, ScanPieces

(* From MaxChars on no blank, and so no good place to cut, but the last. *)
Unbroken(c) == \A i \in 1 .. Len(c) : MaxChars <= i /\ i < Len(c) => c[i] # " "

LEMMA StripClause ==
  ASSUME NEW P, "nl" \notin P, NEW c \in Seq(P), Strip(c) # <<>>, Unbroken(c)
  PROVE  Strip(c) \in Seq(P) /\ Solid(Strip(c)) # <<>> /\ Choppable(Strip(c))
<1>1. PICK r : r = Strip(c) /\ r # <<>>
  OBVIOUS
<1>2. /\ r \in Seq(P) /\ Len(r) \in Nat \ {0} /\ r[1] \notin Blank /\ r[Len(r)] \notin Blank
  BY <1>1, StripEnds, SMTT(30)
<1>3. PICK k \in Nat : k + Len(r) <= Len(c) /\ \A i \in 1 .. Len(r) : r[i] = c[i + k]
  BY <1>1, StripEnds, SMTT(30)
<1>4. ASSUME NEW i \in 1 .. Len(r), i > MaxChars
      PROVE  r[i] \notin Blank
  <2>1. CASE i = Len(r)
    BY <1>2, <2>1
  <2>2. CASE i # Len(r)
    <3>0. MaxChars \in Nat /\ Len(c) \in Nat /\ i \in Nat
      <4>1. MaxChars \in Nat
        BY SplitAssumption
      <4> QED BY <4>1
    <3>1. i + k \in 1 .. Len(c) /\ i + k < Len(c) /\ MaxChars <= i + k
      BY <1>2, <1>3, <1>4, <2>2, <3>0
    <3>2. c[i + k] # " "
      BY <3>1 DEF Unbroken
    <3>3. r[i] = c[i + k] /\ r[i] \in P
      BY <1>2, <1>3
    <3> QED BY <3>2, <3>3 DEF Blank
  <2> QED BY <2>1, <2>2
<1>5. Choppable(r)
  BY <1>2, <1>4 DEF Choppable
<1>6. Solid(r) # <<>>
  BY <1>1, <1>2, StripSolid
<1> QED BY <1>1, <1>2, <1>5, <1>6

LEMMA ClausesAre ==
  ASSUME NEW s \in Seq(Plain)
  PROVE  Scan(s, Secondary, MaxChars) \in Seq(Clause)
<1>0. MaxChars \in Nat
  BY SplitAssumption
<1> DEFINE Clauses(P) == {p \in Seq(P) : Solid(p) # <<>> /\ Choppable(p)}
<1>1. PICK P : P = Plain
  OBVIOUS
<1>2. "nl" \notin P
  BY <1>1 DEF Plain
<1> DEFINE B == {b \in Seq(P) : \A i \in 1 .. Len(b) : MaxChars <= i => b[i] \notin Secondary}
<1>3. B \subseteq Seq(P) /\ <<>> \in B /\ Clauses(P) \subseteq Seq(P)
  OBVIOUS
<1>4. ASSUME NEW b \in B
      PROVE  Strip(b) = <<>> \/ Strip(b) \in Clauses(P)
  <2>1. b \in Seq(P) /\ Unbroken(b)
    BY DEF Secondary, Unbroken
  <2> QED BY <1>2, <2>1, StripClause
<1>5. ASSUME NEW b \in B, NEW ch \in P, NEW c, c = Append(b, ch)
      PROVE  IF ch \in Secondary /\ Len(c) >= MaxChars
               THEN Strip(c) = <<>> \/ Strip(c) \in Clauses(P)
               ELSE c \in B
  <2>1. /\ c \in Seq(P) /\ Len(b) \in Nat /\ Len(c) = Len(b) + 1 /\ c[Len(c)] = ch
        /\ \A i \in 1 .. Len(b) : c[i] = b[i] /\ (MaxChars <= i => b[i] \notin Secondary)
    BY <1>5
  <2> HIDE DEF B
  <2>2. Strip(c) = <<>> \/ Strip(c) \in Clauses(P)
    <3>1. ASSUME NEW i \in 1 .. Len(c), MaxChars <= i, i < Len(c)
          PROVE  c[i] # " "
      <4>1. i \in 1 .. Len(b)
        BY <2>1, <3>1
      <4>2. c[i] \notin Secondary
        BY <2>1, <3>1, <4>1, Zenon
      <4> QED BY <4>2 DEF Secondary
    <3>2. Unbroken(c)
      BY <3>1 DEF Unbroken
    <3> QED BY <1>2, <2>1, <3>2, StripClause
  <2>3. ~(ch \in Secondary /\ Len(c) >= MaxChars) => c \in B
    <3>1. ~(ch \in Secondary /\ Len(c) >= MaxChars)
            => \A i \in 1 .. Len(c) : MaxChars <= i => c[i] \notin Secondary
      BY <1>0, <2>1
    <3> QED BY <2>1, <3>1 DEF B
  <2> HIDE DEF Clauses
  <2> QED BY <2>1, <2>2, <2>3
<1>6. Buffers(B, Clauses(P), P, Secondary, MaxChars)
  <2> HIDE DEF B, Clauses
  <2> QED BY <1>3, <1>4, <1>5, Zenon DEF Buffers
<1>7. Scan(s, Secondary, MaxChars) \in Seq(Clauses(P))
  <2> HIDE DEF B, Clauses
  <2> QED BY <1>1, <1>6, ScanPieces
<1>8. Clauses(P) = Clause
  BY <1>1 DEF Clause
<1> HIDE DEF Clauses
<1> QED BY <1>7, <1>8

(***************************************************************************)
(* Slices of a clause that is too long.                                    *)
(***************************************************************************)

LEMMA SlicedType ==
  ASSUME NEW S, NEW ps \in Seq(Seq(S)), NEW x \in S
  PROVE  Sliced(ps, x) \in Seq(Seq(S))
<1>1. <<x>> \in Seq(S)
  OBVIOUS
<1>2. Append(ps, <<x>>) \in Seq(Seq(S))
  BY <1>1
<1>3. CASE ps = <<>>
  BY <1>2, <1>3, Zenon DEF Sliced
<1>4. CASE ps # <<>>
  <2>1. PICK q \in Seq(Seq(S)), l \in Seq(S) : q = Front(ps) /\ l = Last(ps)
    BY <1>4, FrontLast
  <2>2. Append(l, x) \in Seq(S)
    OBVIOUS
  <2>3. Append(q, Append(l, x)) \in Seq(Seq(S))
    BY <2>2
  <2> QED BY <1>2, <2>1, <2>3, Zenon DEF Sliced
<1> QED BY <1>3, <1>4

ChopStep(S) == [p \in Seq(Seq(S)) \X S |-> Sliced(p[1], p[2])]

LEMMA ChopStepIs ==
  ASSUME NEW S
  PROVE  /\ ChopStep(S) \in [Seq(Seq(S)) \X S -> Seq(Seq(S))]
         /\ \A t \in Seq(Seq(S)), x \in S : ChopStep(S)[<<t, x>>] = Sliced(t, x)
<1>1. PICK T : T = Seq(Seq(S))
  OBVIOUS
<1>2. \A t \in T, x \in S : Sliced(t, x) \in T
  BY <1>1, SlicedType
<1>3. ChopStep(S) = [p \in T \X S |-> Sliced(p[1], p[2])]
  BY <1>1 DEF ChopStep
<1>4. \A p \in T \X S : p[1] \in T /\ p[2] \in S
  OBVIOUS
<1>5. ChopStep(S) \in [T \X S -> T]
  BY <1>2, <1>3, <1>4
<1>6. \A t \in T, x \in S : ChopStep(S)[<<t, x>>] = Sliced(t, x)
  BY <1>3
<1> QED BY <1>1, <1>5, <1>6

LEMMA ChopIs ==
  ASSUME NEW S, NEW s \in Seq(S)
  PROVE  \E f : FoldsTo(f, Seq(Seq(S)), ChopStep(S), <<>>, s) /\ Chop(s) = f[Len(s)]
<1> DEFINE Upto(f) == f = [n \in 0 .. Len(s) |->
                             IF n = 0 THEN <<>> ELSE Sliced(f[n - 1], s[n])]
           g == ChopStep(S)
           A == Seq(Seq(S))
<1>0. /\ <<>> \in A /\ g \in [A \X S -> A]
      /\ \A t \in A, x \in S : g[<<t, x>>] = Sliced(t, x)
  <2>1. <<>> \in A
    OBVIOUS
  <2> QED BY <2>1, ChopStepIs, Zenon
<1> HIDE DEF g, A
<1>1. PICK h \in [0 .. Len(s) -> A] : FoldsTo(h, A, g, <<>>, s)
  BY <1>0, FoldExists
<1>2. Upto(h)
  <2>1. ASSUME NEW n \in 0 .. Len(s), n # 0
        PROVE  h[n] = Sliced(h[n - 1], s[n])
    <3>1. n \in 1 .. Len(s) /\ s[n] \in S /\ h[n - 1] \in A
      BY <2>1
    <3> QED BY <1>0, <1>1, <3>1, Zenon DEF FoldsTo
  <2>2. h[0] = <<>>
    BY <1>1 DEF FoldsTo
  <2>3. h = [n \in 0 .. Len(s) |-> h[n]]
    OBVIOUS
  <2> QED BY <2>1, <2>2, <2>3, Zenon
<1>3. PICK f : Upto(f) /\ Chop(s) = f[Len(s)]
  BY <1>2, Zenon DEF Chop
<1>4. FoldsTo(f, A, g, <<>>, s)
  <2>1. f[0] = <<>>
    BY <1>3
  <2>2. ASSUME NEW n \in 1 .. Len(s), f[n - 1] \in A
        PROVE  f[n] = g[<<f[n - 1], s[n]>>]
    <3>1. n \in 0 .. Len(s) /\ n # 0 /\ s[n] \in S
      BY <2>2
    <3>2. f[n] = Sliced(f[n - 1], s[n])
      BY <1>3, <3>1
    <3> QED BY <1>0, <2>2, <3>1, <3>2, Zenon
  <2> QED BY <2>1, <2>2, Zenon DEF FoldsTo
<1> QED BY <1>3, <1>4, Zenon DEF g, A

LEMMA ChopNothing == Chop(<<>>) = <<>>
<1>1. <<>> \in Seq({}) /\ Len(<<>>) = 0
  OBVIOUS
<1>2. PICK f : FoldsTo(f, Seq(Seq({})), ChopStep({}), <<>>, <<>>) /\ Chop(<<>>) = f[Len(<<>>)]
  BY <1>1, ChopIs
<1> QED BY <1>1, <1>2 DEF FoldsTo

LEMMA ChopAppend ==
  ASSUME NEW S, NEW s \in Seq(S), NEW x \in S
  PROVE  Chop(Append(s, x)) = Sliced(Chop(s), x)
<1>1. Append(s, x) \in Seq(S) /\ <<>> \in Seq(Seq(S))
  OBVIOUS
<1>2. PICK f : FoldsTo(f, Seq(Seq(S)), ChopStep(S), <<>>, s) /\ Chop(s) = f[Len(s)]
  BY ChopIs
<1>3. PICK h : /\ FoldsTo(h, Seq(Seq(S)), ChopStep(S), <<>>, Append(s, x))
               /\ Chop(Append(s, x)) = h[Len(Append(s, x))]
  BY <1>1, ChopIs
<1>4. ChopStep(S) \in [Seq(Seq(S)) \X S -> Seq(Seq(S))]
  BY ChopStepIs, Zenon
<1>5. /\ f[Len(s)] \in Seq(Seq(S))
      /\ h[Len(Append(s, x))] = ChopStep(S)[<<f[Len(s)], x>>]
  <2>1. OneMore(f, h, Seq(Seq(S)), S, ChopStep(S), <<>>, s, x)
    BY <1>1, <1>2, <1>3, <1>4, Zenon DEF OneMore
  <2> QED BY <2>1, FoldMore
<1>6. ChopStep(S)[<<f[Len(s)], x>>] = Sliced(f[Len(s)], x)
  BY <1>5, ChopStepIs, Zenon
<1> QED BY <1>2, <1>3, <1>5, <1>6, Zenon

LEMMA PieceSeq == Piece \subseteq Seq(Alphabet) /\ Seq(Piece) \subseteq Seq(Seq(Alphabet))
<1>1. Piece \subseteq Seq(Alphabet)
  BY DEF Piece
<1> QED BY <1>1

LEMMA Bounds == MaxChars \in Nat /\ 1 <= MaxChars
<1>1. MaxChars \in Nat \ {0}
  BY SplitAssumption
<1> QED BY <1>1

LEMMA MinBound == MinChars \in Nat
<1>1. MinChars \in 0 .. MaxChars
  BY SplitAssumption
<1> QED BY <1>1, Bounds

LEMMA AppendSome ==
  ASSUME NEW S, NEW s \in Seq(S), NEW x \in S
  PROVE  Append(s, x) # <<>>
<1>1. Len(Append(s, x)) = Len(s) + 1 /\ Len(s) \in Nat /\ Len(<<>>) = 0
  OBVIOUS
<1> QED BY <1>1

LEMMA OneHeard ==
  ASSUME NEW x \in Alphabet, x \notin Blank
  PROVE  <<x>> \in Piece
<1>1. <<x>> \in Seq(Alphabet) /\ Len(<<x>>) = 1 /\ <<x>> = Append(<<>>, x) /\ <<>> \in Seq(Alphabet)
  OBVIOUS
<1>2. Solid(Append(<<>>, x)) = Append(<<>>, x)
  BY <1>1, SolidAppend, SolidNothing
<1>3. Solid(<<x>>) # <<>>
  BY <1>1, <1>2
<1>4. 1 <= MaxChars
  BY Bounds
<1> QED BY <1>1, <1>3, <1>4 DEF Piece

(* Chop loses nothing of a clause, and each slice of it is a piece. *)
Chopped(p) == Chop(p) \in Seq(Piece) /\ Joined(Chop(p)) = p

LEMMA ChopClause ==
  ASSUME NEW p \in Seq(Alphabet), Choppable(p)
  PROVE  Chopped(p)
<1> DEFINE P == {t \in Seq(Alphabet) : Choppable(t) => Chopped(t)}
<1>1. <<>> \in P
  <2>1. <<>> \in Seq(Alphabet) /\ <<>> \in Seq(Piece)
    OBVIOUS
  <2> QED BY <2>1, ChopNothing, JoinedNothing DEF Chopped
<1>2. ASSUME NEW t \in P, NEW x \in Alphabet
      PROVE  Append(t, x) \in P
  <2>1. t \in Seq(Alphabet) /\ Append(t, x) \in Seq(Alphabet)
    BY <1>2
  <2>2. ASSUME Choppable(Append(t, x))
        PROVE  Chopped(Append(t, x))
    <3>1. PICK u \in Seq(Alphabet) : u = Append(t, x)
      BY <2>1
    <3>2. /\ Len(t) \in Nat /\ Len(u) = Len(t) + 1 /\ u[Len(t) + 1] = x
          /\ \A i \in 1 .. Len(t) : u[i] = t[i] /\ i \in 1 .. Len(u)
          /\ Len(t) + 1 \in 1 .. Len(u)
      BY <2>1, <3>1
    <3>3. Choppable(u)
      BY <2>2, <3>1
    <3>4. Choppable(t)
      BY <3>2, <3>3, Zenon DEF Choppable
    <3>5. Len(t) + 1 = 1 \/ Len(t) + 1 > MaxChars => x \notin Blank
      BY <3>2, <3>3, Zenon DEF Choppable
    <3>6. PICK ps \in Seq(Piece) : ps = Chop(t) /\ Joined(ps) = t
      BY <1>2, <3>4 DEF Chopped
    <3>7. ps \in Seq(Seq(Alphabet))
      BY PieceSeq
    <3>8. Chop(u) = Sliced(ps, x)
      BY <2>1, <3>1, <3>6, ChopAppend
    <3>9. CASE ps = <<>>
      <4>1. t = <<>>
        BY <3>6, <3>9, JoinedNothing
      <4>2. u = <<x>> /\ Len(t) + 1 = 1
        BY <3>1, <4>1
      <4>3. <<x>> \in Piece
        BY <3>5, <4>2, OneHeard
      <4>4. Append(<<>>, <<x>>) = <<<<x>>>> /\ <<<<x>>>> \in Seq(Piece)
        BY <4>3
      <4>5. Chop(u) = <<<<x>>>>
        BY <3>8, <3>9, <4>4, Zenon DEF Sliced
      <4>6. Joined(<<u>>) = u
        BY JoinedOne
      <4> QED BY <3>1, <4>2, <4>4, <4>5, <4>6, Zenon DEF Chopped
    <3>10. CASE ps # <<>>
      <4>1. PICK q \in Seq(Piece), l \in Piece : q = Front(ps) /\ l = Last(ps) /\ ps = Append(q, l)
        BY <3>10, FrontLast
      <4>2. q \in Seq(Seq(Alphabet)) /\ l \in Seq(Alphabet)
        BY PieceSeq
      <4>3. PICK j \in Seq(Alphabet) : j = Joined(q) /\ t = j \o l
        <5>1. Joined(q) \in Seq(Alphabet) /\ Joined(Append(q, l)) = Joined(q) \o l
          BY <4>2, JoinedAppend
        <5>2. t = Joined(q) \o l
          BY <3>6, <4>1, <5>1, Zenon
        <5> QED BY <5>1, <5>2
      <4>4. u = Append(j \o l, x) /\ Len(t) = Len(j) + Len(l)
        BY <3>1, <4>2, <4>3
      <4>5. Len(l) \in Nat /\ Len(l) <= MaxChars /\ Solid(l) # <<>> /\ MaxChars \in Nat
        <5>1. Len(l) \in Nat
          BY <4>2
        <5> QED BY <5>1, Bounds DEF Piece
      <4>6. CASE Len(l) = MaxChars
        <5>1. Len(t) + 1 > MaxChars
          BY <4>2, <4>3, <4>4, <4>5, <4>6
        <5>2. <<x>> \in Piece
          BY <3>5, <5>1, OneHeard
        <5>3. Chop(u) = Append(ps, <<x>>)
          BY <3>8, <4>1, <4>6, Zenon DEF Sliced
        <5>4. Append(ps, <<x>>) \in Seq(Piece)
          BY <5>2
        <5>5. <<x>> \in Seq(Alphabet) /\ t \o <<x>> = Append(t, x)
          BY <2>1
        <5>6. Joined(Append(ps, <<x>>)) = t \o <<x>>
          BY <3>6, <3>7, <5>5, JoinedAppend
        <5> QED BY <3>1, <5>3, <5>4, <5>5, <5>6, Zenon DEF Chopped
      <4>7. CASE Len(l) # MaxChars
        <5>1. PICK k \in Seq(Alphabet) : k = Append(l, x)
          <6>1. Append(l, x) \in Seq(Alphabet)
            BY <4>2
          <6> QED BY <6>1
        <5>2. Len(k) = Len(l) + 1 /\ Len(k) <= MaxChars
          BY <4>2, <4>5, <4>7, <5>1
        <5>3. Solid(l) \in Seq(Alphabet) /\ Solid(k) = IF x \in Blank THEN Solid(l) ELSE Append(Solid(l), x)
          BY <4>2, <5>1, SolidType, SolidAppend
        <5>4. Append(Solid(l), x) # <<>>
          BY <5>3, AppendSome
        <5>5. k \in Piece
          BY <4>5, <5>2, <5>3, <5>4 DEF Piece
        <5>6. Chop(u) = Append(q, k)
          BY <3>8, <3>10, <4>1, <4>7, <5>1, Zenon DEF Sliced
        <5>7. Append(q, k) \in Seq(Piece)
          BY <5>5
        <5>8. j \o Append(l, x) = Append(j \o l, x)
          BY <4>2, SMTT(30)
        <5>9. Joined(Append(q, k)) = j \o k
          BY <4>2, <4>3, JoinedAppend
        <5> QED BY <3>1, <4>4, <5>1, <5>6, <5>7, <5>8, <5>9, Zenon DEF Chopped
      <4> QED BY <4>6, <4>7
    <3> QED BY <3>9, <3>10
  <2> QED BY <2>1, <2>2
<1>3. Seq(Alphabet) \subseteq P
  <2> HIDE DEF P
  <2> QED BY <1>1, <1>2, AppendInduction
<1> QED BY <1>3

(***************************************************************************)
(* Splitting, before short pieces are merged.                              *)
(***************************************************************************)

SameHeard(qs, ss) ==
  Len(ss) = Len(qs) /\ \A i \in 1 .. Len(ss) : Solid(Joined(qs[i])) = Solid(ss[i])

LEMMA PartsHeard ==
  ASSUME NEW S, NEW qs \in Seq(Seq(Seq(S))), NEW ss \in Seq(Seq(S)), SameHeard(qs, ss)
  PROVE  Solid(Joined(Joined(qs))) = Solid(Joined(ss))
BY JoinedParts DEF SameHeard

LEMMA PiecesJoined ==
  ASSUME NEW qs \in Seq(Seq(Piece))
  PROVE  Joined(qs) \in Seq(Piece) /\ qs \in Seq(Seq(Seq(Alphabet)))
<1>1. Joined(qs) \in Seq(Piece)
  BY JoinedType
<1>2. PICK P, A : P = Seq(Piece) /\ A = Seq(Seq(Alphabet)) /\ P \subseteq A /\ qs \in Seq(P)
  BY PieceSeq
<1>3. qs \in Seq(A)
  BY <1>2
<1> QED BY <1>1, <1>2, <1>3

LEMMA PlainIs == Plain \subseteq Alphabet /\ Seq(Plain) \subseteq Seq(Alphabet)
<1>1. Plain \subseteq Alphabet
  BY DEF Plain
<1> QED BY <1>1

LEMMA ClauseChopped ==
  ASSUME NEW p \in Clause
  PROVE  Chop(p) \in Seq(Piece) /\ Joined(Chop(p)) = p
<1>1. p \in Seq(Alphabet) /\ Choppable(p)
  BY PlainIs DEF Clause
<1> QED BY <1>1, ChopClause DEF Chopped

LEMMA CapIs ==
  ASSUME NEW s \in Sentence
  PROVE  Cap(s) \in Seq(Piece) /\ Solid(Joined(Cap(s))) = Solid(s)
<1>1. s \in Seq(Plain) /\ s \in Seq(Alphabet) /\ Solid(s) # <<>> /\ Len(s) \in Nat
  BY PlainIs DEF Sentence
<1>2. CASE Len(s) <= MaxChars
  <2>1. s \in Piece
    BY <1>1, <1>2 DEF Piece
  <2>2. <<s>> \in Seq(Piece)
    BY <2>1
  <2>3. Joined(<<s>>) = s
    BY <1>1, JoinedOne
  <2> QED BY <1>2, <2>2, <2>3, Zenon DEF Cap
<1>3. CASE ~(Len(s) <= MaxChars)
  <2>1. PICK ps \in Seq(Clause) : ps = Scan(s, Secondary, MaxChars)
    BY <1>1, ClausesAre
  <2>2. ps \in Seq(Seq(Alphabet)) /\ Solid(Joined(ps)) = Solid(s)
    BY <1>1, <2>1, ScanSolid
  <2>3. PICK qs : qs = [i \in DOMAIN ps |-> Chop(ps[i])]
    OBVIOUS
  <2>4. ASSUME NEW i \in 1 .. Len(ps)
        PROVE  Chop(ps[i]) \in Seq(Piece) /\ Joined(Chop(ps[i])) = ps[i]
    <3>1. ps[i] \in Clause
      OBVIOUS
    <3> QED BY <3>1, ClauseChopped
  <2>5. /\ DOMAIN ps = 1 .. Len(ps) /\ Len(ps) \in Nat
        /\ \A i \in 1 .. Len(ps) : qs[i] = Chop(ps[i])
    BY <2>3
  <2>6. qs \in Seq(Seq(Piece)) /\ Len(qs) = Len(ps)
    <3>1. PICK P : P = Seq(Piece)
      OBVIOUS
    <3>2. qs \in [1 .. Len(ps) -> P]
      BY <2>3, <2>4, <2>5, <3>1
    <3>3. qs \in Seq(P) /\ Len(qs) = Len(ps)
      BY <2>5, <3>2
    <3> QED BY <3>1, <3>3
  <2>7. SameHeard(qs, ps)
    BY <2>4, <2>5, <2>6, Zenon DEF SameHeard
  <2>8. Joined(qs) \in Seq(Piece) /\ qs \in Seq(Seq(Seq(Alphabet)))
    BY <2>6, PiecesJoined
  <2>9. Solid(Joined(Joined(qs))) = Solid(Joined(ps))
    BY <2>2, <2>7, <2>8, PartsHeard
  <2>10. Cap(s) = Joined(qs)
    BY <1>3, <2>1, <2>3, Zenon DEF Cap
  <2> QED BY <2>2, <2>8, <2>9, <2>10, Zenon
<1> QED BY <1>2, <1>3

LEMMA SplitIs ==
  ASSUME NEW text \in Seq(Alphabet)
  PROVE  Split(text, 0) \in Seq(Piece) /\ Solid(Joined(Split(text, 0))) = Solid(text)
<1>1. Strip(text) \in Seq(Alphabet) /\ Solid(Strip(text)) = Solid(text)
  BY StripSolid
<1>2. PICK ss \in Seq(Sentence) : ss = Scan(Strip(text), Primary, 1)
  BY <1>1, SentencesAre
<1>3. ss \in Seq(Seq(Alphabet)) /\ Solid(Joined(ss)) = Solid(text)
  BY <1>1, <1>2, ScanSolid
<1>4. PICK qs : qs = [i \in DOMAIN ss |-> Cap(ss[i])]
  OBVIOUS
<1>5. ASSUME NEW i \in 1 .. Len(ss)
      PROVE  Cap(ss[i]) \in Seq(Piece) /\ Solid(Joined(Cap(ss[i]))) = Solid(ss[i])
  <2>1. ss[i] \in Sentence
    OBVIOUS
  <2> QED BY <2>1, CapIs
<1>6. /\ DOMAIN ss = 1 .. Len(ss) /\ Len(ss) \in Nat
      /\ \A i \in 1 .. Len(ss) : qs[i] = Cap(ss[i])
  BY <1>4
<1>7. qs \in Seq(Seq(Piece)) /\ Len(qs) = Len(ss)
  <2>1. PICK P : P = Seq(Piece)
    OBVIOUS
  <2>2. qs \in [1 .. Len(ss) -> P]
    BY <1>4, <1>5, <1>6, <2>1
  <2>3. qs \in Seq(P) /\ Len(qs) = Len(ss)
    BY <1>6, <2>2
  <2> QED BY <2>1, <2>3
<1>8. SameHeard(qs, ss)
  BY <1>5, <1>6, <1>7, Zenon DEF SameHeard
<1>9. Joined(qs) \in Seq(Piece) /\ qs \in Seq(Seq(Seq(Alphabet)))
  BY <1>7, PiecesJoined
<1>10. Solid(Joined(Joined(qs))) = Solid(Joined(ss))
  BY <1>3, <1>8, <1>9, PartsHeard
<1>11. Split(text, 0) = Joined(qs)
  <2>1. ~(0 > 0)
    OBVIOUS
  <2> QED BY <1>2, <1>4, <2>1, Zenon DEF Split
<1> QED BY <1>3, <1>9, <1>10, <1>11, Zenon

LEMMA SplitMerged ==
  ASSUME NEW text, NEW min \in Nat
  PROVE  Split(text, min) = IF min > 0 THEN MergeShort(Split(text, 0)) ELSE Split(text, 0)
<1>1. ~(0 > 0)
  OBVIOUS
<1> QED BY <1>1, Zenon DEF Split

(***************************************************************************)
(* Merging short pieces.                                                   *)
(***************************************************************************)

MergeState(S) == [out : Seq(Seq(S)), buf : Seq(S)]

LEMMA FlushedType ==
  ASSUME NEW S, NEW o \in Seq(Seq(S)), NEW b \in Seq(S)
  PROVE  Flushed(o, b) \in MergeState(S)
<1>1. Append(o, b) \in Seq(Seq(S)) /\ <<>> \in Seq(S)
  OBVIOUS
<1>2. /\ [out |-> Append(o, b), buf |-> <<>>] \in MergeState(S)
      /\ [out |-> o, buf |-> b] \in MergeState(S)
  BY <1>1 DEF MergeState
<1> QED BY <1>2, Zenon DEF Flushed

LEMMA MergedType ==
  ASSUME NEW S, NEW acc \in MergeState(S), NEW s \in Seq(S)
  PROVE  Merged(acc, s) \in MergeState(S)
<1>1. PICK o \in Seq(Seq(S)), b \in Seq(S) : o = acc.out /\ b = acc.buf
  BY DEF MergeState
<1>2. b \o s \in Seq(S) /\ Append(o, b) \in Seq(Seq(S))
  OBVIOUS
<1>3. Flushed(o, b \o s) \in MergeState(S) /\ Flushed(Append(o, b), s) \in MergeState(S)
  BY <1>2, FlushedType
<1> QED BY <1>1, <1>3, Zenon DEF Merged

MergeStep(S) == [p \in MergeState(S) \X Seq(S) |-> Merged(p[1], p[2])]

LEMMA MergeStepIs ==
  ASSUME NEW S
  PROVE  /\ MergeStep(S) \in [MergeState(S) \X Seq(S) -> MergeState(S)]
         /\ \A t \in MergeState(S), x \in Seq(S) : MergeStep(S)[<<t, x>>] = Merged(t, x)
<1>1. PICK T, X : T = MergeState(S) /\ X = Seq(S)
  OBVIOUS
<1>2. \A t \in T, x \in X : Merged(t, x) \in T
  BY <1>1, MergedType
<1>3. MergeStep(S) = [p \in T \X X |-> Merged(p[1], p[2])]
  BY <1>1 DEF MergeStep
<1>4. \A p \in T \X X : p[1] \in T /\ p[2] \in X
  OBVIOUS
<1>5. MergeStep(S) \in [T \X X -> T]
  BY <1>2, <1>3, <1>4
<1>6. \A t \in T, x \in X : MergeStep(S)[<<t, x>>] = Merged(t, x)
  BY <1>3
<1> QED BY <1>1, <1>5, <1>6

NothingMerged == [out |-> <<>>, buf |-> <<>>]

LEMMA NothingMergedType ==
  ASSUME NEW S
  PROVE  NothingMerged \in MergeState(S)
<1>1. <<>> \in Seq(S) /\ <<>> \in Seq(Seq(S))
  OBVIOUS
<1> QED BY <1>1 DEF MergeState, NothingMerged

LEMMA MergeUpToIs ==
  ASSUME NEW S, NEW s \in Seq(Seq(S))
  PROVE  \E f : /\ FoldsTo(f, MergeState(S), MergeStep(S), NothingMerged, s)
                /\ MergeUpTo(s) = f[Len(s)]
<1> DEFINE Upto(f) == f = [n \in 0 .. Len(s) |->
                             IF n = 0 THEN [out |-> <<>>, buf |-> <<>>]
                             ELSE Merged(f[n - 1], s[n])]
           g == MergeStep(S)
           A == MergeState(S)
           X == Seq(S)
<1>0. /\ NothingMerged \in A /\ g \in [A \X X -> A] /\ s \in Seq(X)
      /\ \A t \in A, x \in X : g[<<t, x>>] = Merged(t, x)
  BY MergeStepIs, NothingMergedType, Zenon
<1> HIDE DEF g, A, X
<1>1. PICK h \in [0 .. Len(s) -> A] : FoldsTo(h, A, g, NothingMerged, s)
  BY <1>0, FoldExists
<1>2. Upto(h)
  <2>1. ASSUME NEW n \in 0 .. Len(s), n # 0
        PROVE  h[n] = Merged(h[n - 1], s[n])
    <3>0. n \in 1 .. Len(s) /\ n - 1 \in 0 .. Len(s)
      BY <2>1
    <3>1. n \in 1 .. Len(s) /\ s[n] \in X /\ h[n - 1] \in A
      <4>1. s[n] \in X
        BY <1>0, <3>0, ElementOfSeq
      <4>2. h[n - 1] \in A
        BY <3>0, Zenon
      <4> QED BY <3>0, <4>1, <4>2
    <3> QED BY <1>0, <1>1, <3>1, Zenon DEF FoldsTo
  <2>2. h[0] = [out |-> <<>>, buf |-> <<>>]
    BY <1>1 DEF FoldsTo, NothingMerged
  <2>3. h = [n \in 0 .. Len(s) |-> h[n]]
    OBVIOUS
  <2> QED BY <2>1, <2>2, <2>3, Zenon
<1>3. PICK f : Upto(f) /\ MergeUpTo(s) = f[Len(s)]
  BY <1>2, Zenon DEF MergeUpTo
<1>4. FoldsTo(f, A, g, NothingMerged, s)
  <2>1. f[0] = NothingMerged
    BY <1>3 DEF NothingMerged
  <2>2. ASSUME NEW n \in 1 .. Len(s), f[n - 1] \in A
        PROVE  f[n] = g[<<f[n - 1], s[n]>>]
    <3>1. n \in 0 .. Len(s) /\ n # 0 /\ s[n] \in X
      BY <1>0, <2>2
    <3>2. f[n] = Merged(f[n - 1], s[n])
      BY <1>3, <3>1
    <3> QED BY <1>0, <2>2, <3>1, <3>2, Zenon
  <2> QED BY <2>1, <2>2, Zenon DEF FoldsTo
<1> QED BY <1>3, <1>4, Zenon DEF g, A

LEMMA MergeNothing == MergeUpTo(<<>>) = NothingMerged
<1>1. <<>> \in Seq(Seq({})) /\ Len(<<>>) = 0
  OBVIOUS
<1>2. PICK f : /\ FoldsTo(f, MergeState({}), MergeStep({}), NothingMerged, <<>>)
               /\ MergeUpTo(<<>>) = f[Len(<<>>)]
  BY <1>1, MergeUpToIs
<1> QED BY <1>1, <1>2 DEF FoldsTo

LEMMA MergeAppend ==
  ASSUME NEW S, NEW s \in Seq(Seq(S)), NEW x \in Seq(S)
  PROVE  MergeUpTo(Append(s, x)) = Merged(MergeUpTo(s), x)
<1>1. Append(s, x) \in Seq(Seq(S))
  OBVIOUS
<1>2. PICK f : /\ FoldsTo(f, MergeState(S), MergeStep(S), NothingMerged, s)
               /\ MergeUpTo(s) = f[Len(s)]
  BY MergeUpToIs
<1>3. PICK h : /\ FoldsTo(h, MergeState(S), MergeStep(S), NothingMerged, Append(s, x))
               /\ MergeUpTo(Append(s, x)) = h[Len(Append(s, x))]
  BY <1>1, MergeUpToIs
<1>4. MergeStep(S) \in [MergeState(S) \X Seq(S) -> MergeState(S)]
  BY MergeStepIs, Zenon
<1>5. /\ f[Len(s)] \in MergeState(S)
      /\ h[Len(Append(s, x))] = MergeStep(S)[<<f[Len(s)], x>>]
  <2>1. OneMore(f, h, MergeState(S), Seq(S), MergeStep(S), NothingMerged, s, x)
    BY <1>2, <1>3, <1>4, NothingMergedType, Zenon DEF OneMore
  <2> QED BY <2>1, FoldMore
<1>6. MergeStep(S)[<<f[Len(s)], x>>] = Merged(f[Len(s)], x)
  BY <1>5, MergeStepIs, Zenon
<1> QED BY <1>2, <1>3, <1>5, <1>6, Zenon

(* A piece under the minimum has no room for the one after it; n is the     *)
(* length of what comes after the last.                                    *)
After(out, i, n) == IF i < Len(out) THEN Len(out[i + 1]) ELSE n

Crowded(out, n) ==
  \A i \in 1 .. Len(out) : Len(out[i]) < MinChars => Len(out[i]) + After(out, i, n) > MaxChars

LEMMA PieceLen ==
  ASSUME NEW p \in Piece
  PROVE  Len(p) \in Nat /\ Len(p) <= MaxChars /\ p \in Seq(Alphabet) /\ p # <<>>
<1>1. p \in Seq(Alphabet) /\ Len(p) <= MaxChars /\ Solid(p) # <<>>
  BY DEF Piece
<1>2. p # <<>>
  BY <1>1, SolidNothing
<1>3. Len(p) \in Nat
  BY <1>1
<1> QED BY <1>1, <1>2, <1>3

LEMMA CrowdedLess ==
  ASSUME NEW out \in Seq(Piece), NEW n \in Nat, NEW k \in Nat, n <= k, Crowded(out, n)
  PROVE  Crowded(out, k)
<1>1. ASSUME NEW i \in 1 .. Len(out), Len(out[i]) < MinChars
      PROVE  Len(out[i]) + After(out, i, k) > MaxChars
  <2>1. Len(out[i]) + After(out, i, n) > MaxChars
    BY <1>1 DEF Crowded
  <2>2. Len(out[i]) \in Nat
    <3>1. out[i] \in Piece
      OBVIOUS
    <3> QED BY <3>1, PieceLen
  <2>3. CASE i < Len(out)
    BY <2>1, <2>3 DEF After
  <2>4. CASE ~(i < Len(out))
    <3>1. After(out, i, n) = n /\ After(out, i, k) = k
      BY <2>4 DEF After
    <3> QED BY <2>1, <2>2, <3>1, Bounds
  <2> QED BY <2>3, <2>4
<1> QED BY <1>1 DEF Crowded

LEMMA CrowdedMore ==
  ASSUME NEW out \in Seq(Piece), NEW n \in Nat, NEW b \in Piece, NEW k \in Nat,
         Crowded(out, n), n <= Len(b), Len(b) < MinChars => Len(b) + k > MaxChars
  PROVE  Crowded(Append(out, b), k)
<1>1. PICK o \in Seq(Piece) : o = Append(out, b)
  <2>1. Append(out, b) \in Seq(Piece)
    OBVIOUS
  <2> QED BY <2>1
<1>2. /\ Len(out) \in Nat /\ Len(o) = Len(out) + 1 /\ o[Len(out) + 1] = b
      /\ \A i \in 1 .. Len(out) : o[i] = out[i]
  BY <1>1
<1>3. ASSUME NEW i \in 1 .. Len(o), Len(o[i]) < MinChars
      PROVE  Len(o[i]) + After(o, i, k) > MaxChars
  <2>1. CASE i = Len(out) + 1
    <3>1. o[i] = b /\ After(o, i, k) = k
      BY <1>2, <2>1 DEF After
    <3> QED BY <1>3, <3>1
  <2>2. CASE i # Len(out) + 1
    <3>1. i \in 1 .. Len(out) /\ i < Len(o)
      BY <1>2, <2>2
    <3>2. o[i] = out[i] /\ After(o, i, k) = Len(o[i + 1])
      BY <1>2, <3>1, Zenon DEF After
    <3>3. Len(out[i]) + After(out, i, n) > MaxChars
      BY <1>3, <3>1, <3>2, Zenon DEF Crowded
    <3>4. CASE i < Len(out)
      <4>1. i + 1 \in 1 .. Len(out)
        BY <1>2, <3>1, <3>4
      <4>2. o[i + 1] = out[i + 1]
        BY <1>2, <4>1, Zenon
      <4>3. After(out, i, n) = Len(out[i + 1])
        BY <3>4, Zenon DEF After
      <4> QED BY <3>2, <3>3, <4>2, <4>3, Zenon
    <3>5. CASE ~(i < Len(out))
      <4>1. i = Len(out)
        BY <1>2, <3>1, <3>5
      <4>2. After(o, i, k) = Len(b) /\ After(out, i, n) = n
        BY <1>2, <3>2, <3>5, <4>1, Zenon DEF After
      <4>3. Len(out[i]) \in Nat
        <5>1. out[i] \in Piece
          BY <3>1
        <5> QED BY <5>1, PieceLen
      <4> QED BY <3>2, <3>3, <4>2, <4>3, PieceLen, Bounds
    <3> QED BY <3>4, <3>5
  <2> QED BY <2>1, <2>2
<1>4. Crowded(o, k)
  BY <1>3 DEF Crowded
<1> QED BY <1>1, <1>4

(* What merging has done of the text z. *)
Keeping(acc, z) ==
  /\ acc.out \in Seq(Piece)
  /\ acc.buf = <<>> \/ acc.buf \in Piece
  /\ Joined(acc.out) \o acc.buf = z
  /\ Crowded(acc.out, Len(acc.buf))

LEMMA FlushedKeeps ==
  ASSUME NEW o \in Seq(Piece), NEW b \in Piece, NEW n \in Nat, n <= Len(b), Crowded(o, n)
  PROVE  Keeping(Flushed(o, b), Joined(o) \o b)
<1>0. Len(b) \in Nat /\ b \in Seq(Alphabet) /\ o \in Seq(Seq(Alphabet))
  BY PieceLen, PieceSeq
<1>1. CASE Len(b) >= MinChars
  <2>1. PICK q \in Seq(Piece) : q = Append(o, b)
    <3>1. Append(o, b) \in Seq(Piece)
      OBVIOUS
    <3> QED BY <3>1
  <2>2. Flushed(o, b).out = q /\ Flushed(o, b).buf = <<>>
    BY <1>1, <2>1 DEF Flushed
  <2>3. Joined(q) = Joined(o) \o b /\ Joined(q) \in Seq(Alphabet)
    <3>1. q \in Seq(Seq(Alphabet))
      BY PieceSeq
    <3> QED BY <1>0, <2>1, <3>1, JoinedAppend, JoinedType
  <2>4. Joined(q) \o <<>> = Joined(q)
    BY <2>3
  <2>5. ~(Len(b) < MinChars)
    <3>1. MinChars \in Nat
      BY MinBound
    <3> QED BY <1>0, <1>1, <3>1
  <2>6. Crowded(q, 0)
    BY <2>1, <2>5, CrowdedMore
  <2>7. Len(<<>>) = 0
    OBVIOUS
  <2> QED BY <2>2, <2>3, <2>4, <2>6, <2>7, Zenon DEF Keeping
<1>2. CASE ~(Len(b) >= MinChars)
  <2>1. Flushed(o, b).out = o /\ Flushed(o, b).buf = b
    BY <1>2 DEF Flushed
  <2>2. Crowded(o, Len(b))
    BY <1>0, CrowdedLess
  <2> QED BY <2>1, <2>2, Zenon DEF Keeping
<1> QED BY <1>1, <1>2

LEMMA PiecesTogether ==
  ASSUME NEW b \in Seq(Alphabet), NEW s \in Piece, b = <<>> \/ Len(b) + Len(s) <= MaxChars
  PROVE  b \o s \in Piece /\ Len(b \o s) = Len(b) + Len(s)
<1>1. s \in Seq(Alphabet) /\ Solid(s) # <<>> /\ Len(s) \in Nat /\ Len(s) <= MaxChars
  BY PieceLen DEF Piece
<1>2. PICK c \in Seq(Alphabet) : c = b \o s
  <2>1. b \o s \in Seq(Alphabet)
    BY <1>1
  <2> QED BY <2>1
<1>3. Len(c) = Len(b) + Len(s) /\ (b = <<>> => Len(b) = 0)
  BY <1>1, <1>2
<1>4. Solid(c) = Solid(b) \o Solid(s) /\ Solid(b) \in Seq(Alphabet) /\ Solid(s) \in Seq(Alphabet)
  BY <1>1, <1>2, SolidJoin, SolidType
<1>5. Solid(c) # <<>>
  <2>1. PICK u \in Seq(Alphabet), v \in Seq(Alphabet) : u = Solid(b) /\ v = Solid(s)
    BY <1>4
  <2>2. Len(u \o v) = Len(u) + Len(v) /\ Len(v) # 0 /\ Len(u) \in Nat /\ Len(v) \in Nat
    BY <1>1, <2>1
  <2>3. u \o v # <<>>
    BY <2>2
  <2> QED BY <1>4, <2>1, <2>3
<1>6. Len(c) <= MaxChars
  BY <1>1, <1>3, Bounds
<1> QED BY <1>2, <1>3, <1>5, <1>6 DEF Piece

LEMMA MergedKeeps ==
  ASSUME NEW acc, NEW z, Keeping(acc, z), NEW s \in Piece
  PROVE  Keeping(Merged(acc, s), z \o s)
<1>1. PICK o \in Seq(Piece), b \in Seq(Alphabet) :
        /\ o = acc.out /\ b = acc.buf /\ (b = <<>> \/ b \in Piece)
        /\ Joined(o) \o b = z /\ Crowded(o, Len(b))
  <2>1. <<>> \in Seq(Alphabet) /\ \A p \in Piece : p \in Seq(Alphabet)
    BY PieceSeq
  <2> QED BY <2>1, Zenon DEF Keeping
<1>2. /\ Len(b) \in Nat /\ Len(s) \in Nat /\ s \in Seq(Alphabet)
      /\ o \in Seq(Seq(Alphabet)) /\ Joined(o) \in Seq(Alphabet)
  BY PieceLen, PieceSeq, JoinedType
<1>3. Joined(o) \o (b \o s) = (Joined(o) \o b) \o s
  BY <1>2, SMTT(30)
<1>4. CASE b = <<>> \/ Len(b) + Len(s) <= MaxChars
  <2>1. b \o s \in Piece /\ Len(b) <= Len(b \o s)
    BY <1>2, <1>4, PiecesTogether
  <2>2. Keeping(Flushed(o, b \o s), Joined(o) \o (b \o s))
    BY <1>1, <1>2, <2>1, FlushedKeeps
  <2>3. Merged(acc, s) = Flushed(o, b \o s)
    BY <1>1, <1>4, Zenon DEF Merged
  <2> QED BY <1>1, <1>3, <2>2, <2>3, Zenon
<1>5. CASE ~(b = <<>> \/ Len(b) + Len(s) <= MaxChars)
  <2>1. b \in Piece /\ Len(b) + Len(s) > MaxChars
    BY <1>1, <1>2, <1>5, Bounds
  <2>2. PICK q \in Seq(Piece) : q = Append(o, b)
    <3>1. Append(o, b) \in Seq(Piece)
      BY <2>1
    <3> QED BY <3>1
  <2>3. Crowded(q, Len(s))
    <3>1. Len(b) <= Len(b)
      BY <1>2
    <3>2. Crowded(Append(o, b), Len(s))
      BY <1>1, <1>2, <2>1, <3>1, CrowdedMore, Zenon
    <3> QED BY <2>2, <3>2, Zenon
  <2>4. Keeping(Flushed(q, s), Joined(q) \o s)
    BY <1>2, <2>3, FlushedKeeps
  <2>5. Joined(q) = Joined(o) \o b
    BY <1>2, <2>2, JoinedAppend
  <2>6. Merged(acc, s) = Flushed(q, s)
    BY <1>1, <1>5, <2>2, Zenon DEF Merged
  <2> QED BY <1>1, <2>4, <2>5, <2>6, Zenon
<1> QED BY <1>4, <1>5

LEMMA MergeKeeps ==
  ASSUME NEW segs \in Seq(Piece)
  PROVE  Keeping(MergeUpTo(segs), Joined(segs))
<1> DEFINE P == {t \in Seq(Piece) : Keeping(MergeUpTo(t), Joined(t))}
<1>1. <<>> \in P
  <2>1. /\ <<>> \in Seq(Piece) /\ <<>> \o <<>> = <<>> /\ Len(<<>>) = 0 /\ \A i \in 1 .. 0 : FALSE
    OBVIOUS
  <2>2. Crowded(<<>>, 0)
    BY <2>1 DEF Crowded
  <2>3. NothingMerged.out = <<>> /\ NothingMerged.buf = <<>>
    BY DEF NothingMerged
  <2>4. Keeping(NothingMerged, <<>>)
    BY <2>1, <2>2, <2>3, JoinedNothing, Zenon DEF Keeping
  <2> QED BY <2>1, <2>4, MergeNothing, JoinedNothing
<1>2. ASSUME NEW t \in P, NEW x \in Piece
      PROVE  Append(t, x) \in P
  <2>1. /\ t \in Seq(Piece) /\ Append(t, x) \in Seq(Piece) /\ t \in Seq(Seq(Alphabet))
        /\ x \in Seq(Alphabet)
    BY <1>2, PieceSeq
  <2>2. MergeUpTo(Append(t, x)) = Merged(MergeUpTo(t), x) /\ Joined(Append(t, x)) = Joined(t) \o x
    BY <2>1, MergeAppend, JoinedAppend
  <2>3. Keeping(MergeUpTo(t), Joined(t))
    BY <1>2
  <2>4. Keeping(Merged(MergeUpTo(t), x), Joined(t) \o x)
    BY <2>3, MergedKeeps
  <2> QED BY <2>1, <2>2, <2>4
<1>3. Seq(Piece) \subseteq P
  <2> HIDE DEF P
  <2> QED BY <1>1, <1>2, AppendInduction
<1> QED BY <1>3

(* PiecesFit, of merged pieces. *)
Roomless(m) ==
  \A i \in 1 .. Len(m) :
    Len(m[i]) < MinChars => /\ i < Len(m) => Len(m[i]) + Len(m[i + 1]) > MaxChars
                            /\ i = Len(m) /\ i > 1 => Len(m[i - 1]) + Len(m[i]) > MaxChars

LEMMA RoomlessCrowded ==
  ASSUME NEW m \in Seq(Piece), Crowded(m, 0)
  PROVE  Roomless(m)
<1>1. ASSUME NEW i \in 1 .. Len(m), Len(m[i]) < MinChars
      PROVE  i < Len(m) /\ Len(m[i]) + Len(m[i + 1]) > MaxChars
  <2>1. Len(m[i]) + After(m, i, 0) > MaxChars
    BY <1>1 DEF Crowded
  <2>2. Len(m[i]) \in Nat /\ Len(m[i]) <= MaxChars
    <3>1. m[i] \in Piece
      OBVIOUS
    <3> QED BY <3>1, PieceLen
  <2>3. After(m, i, 0) # 0
    BY <2>1, <2>2, Bounds
  <2>4. i < Len(m) /\ After(m, i, 0) = Len(m[i + 1])
    BY <2>3, Zenon DEF After
  <2> QED BY <2>1, <2>4
<1>2. ASSUME NEW i \in 1 .. Len(m), i < Len(m)
      PROVE  i # Len(m)
  BY <1>2
<1> QED BY <1>1, <1>2, Zenon DEF Roomless

LEMMA RoomlessMore ==
  ASSUME NEW out \in Seq(Piece), NEW b \in Piece, Crowded(out, Len(b)),
         out = <<>> \/ Len(Last(out)) + Len(b) > MaxChars
  PROVE  Roomless(Append(out, b))
<1>1. PICK o \in Seq(Piece) : o = Append(out, b)
  <2>1. Append(out, b) \in Seq(Piece)
    OBVIOUS
  <2> QED BY <2>1
<1>2. /\ Len(out) \in Nat /\ Len(o) = Len(out) + 1 /\ o[Len(out) + 1] = b
      /\ \A i \in 1 .. Len(out) : o[i] = out[i]
  BY <1>1
<1>3. ASSUME NEW i \in 1 .. Len(o), Len(o[i]) < MinChars, i < Len(o)
      PROVE  Len(o[i]) + Len(o[i + 1]) > MaxChars
  <2>1. i \in 1 .. Len(out) /\ o[i] = out[i]
    BY <1>2, <1>3
  <2>2. Len(out[i]) + After(out, i, Len(b)) > MaxChars
    BY <1>3, <2>1, Zenon DEF Crowded
  <2>3. CASE i < Len(out)
    <3>1. i + 1 \in 1 .. Len(out)
      BY <1>2, <2>1, <2>3
    <3>2. o[i + 1] = out[i + 1] /\ After(out, i, Len(b)) = Len(out[i + 1])
      BY <1>2, <2>3, <3>1, Zenon DEF After
    <3> QED BY <2>1, <2>2, <3>2, Zenon
  <2>4. CASE ~(i < Len(out))
    <3>1. i = Len(out)
      BY <1>2, <2>1, <2>4
    <3>2. o[i + 1] = b /\ After(out, i, Len(b)) = Len(b)
      BY <1>2, <2>4, <3>1, Zenon DEF After
    <3> QED BY <2>1, <2>2, <3>2, Zenon
  <2> QED BY <2>3, <2>4
<1>4. ASSUME NEW i \in 1 .. Len(o), i = Len(o), i > 1
      PROVE  Len(o[i - 1]) + Len(o[i]) > MaxChars
  <2>1. i - 1 = Len(out) /\ Len(out) \in 1 .. Len(out) /\ i = Len(out) + 1 /\ out # <<>>
    BY <1>2, <1>4
  <2>2. o[i] = b /\ o[i - 1] = out[Len(out)]
    BY <1>2, <2>1, Zenon
  <2>3. Last(out) = out[Len(out)]
    BY DEF Last
  <2> QED BY <2>1, <2>2, <2>3, Zenon
<1>5. Roomless(o)
  BY <1>3, <1>4, Zenon DEF Roomless
<1> QED BY <1>1, <1>5

LEMMA CrowdedFront ==
  ASSUME NEW q \in Seq(Piece), NEW l \in Piece, NEW n \in Nat, Crowded(Append(q, l), n)
  PROVE  Crowded(q, Len(l)) /\ (Len(l) < MinChars => Len(l) + n > MaxChars)
<1>1. PICK o \in Seq(Piece) : o = Append(q, l)
  <2>1. Append(q, l) \in Seq(Piece)
    OBVIOUS
  <2> QED BY <2>1
<1>2. /\ Len(q) \in Nat /\ Len(o) = Len(q) + 1 /\ o[Len(q) + 1] = l
      /\ Len(q) + 1 \in 1 .. Len(o) /\ ~(Len(q) + 1 < Len(o))
      /\ \A i \in 1 .. Len(q) : o[i] = q[i] /\ i \in 1 .. Len(o) /\ i < Len(o)
  BY <1>1
<1>3. Crowded(o, n)
  BY <1>1
<1>4. Len(l) < MinChars => Len(l) + n > MaxChars
  <2>1. After(o, Len(q) + 1, n) = n
    BY <1>2, Zenon DEF After
  <2> QED BY <1>2, <1>3, <2>1, Zenon DEF Crowded
<1>5. ASSUME NEW i \in 1 .. Len(q), Len(q[i]) < MinChars
      PROVE  Len(q[i]) + After(q, i, Len(l)) > MaxChars
  <2>1. Len(o[i]) + After(o, i, n) > MaxChars /\ o[i] = q[i] /\ After(o, i, n) = Len(o[i + 1])
    BY <1>2, <1>3, <1>5, Zenon DEF Crowded, After
  <2>2. CASE i < Len(q)
    <3>1. i + 1 \in 1 .. Len(q)
      BY <1>2, <2>2
    <3>2. o[i + 1] = q[i + 1] /\ After(q, i, Len(l)) = Len(q[i + 1])
      BY <1>2, <2>2, <3>1, Zenon DEF After
    <3> QED BY <2>1, <3>2, Zenon
  <2>3. CASE ~(i < Len(q))
    <3>1. i = Len(q)
      BY <1>2, <2>3
    <3>2. o[i + 1] = l /\ After(q, i, Len(l)) = Len(l)
      BY <1>2, <2>3, <3>1, Zenon DEF After
    <3> QED BY <2>1, <3>2, Zenon
  <2> QED BY <2>2, <2>3
<1>6. Crowded(q, Len(l))
  BY <1>5, Zenon DEF Crowded
<1> QED BY <1>4, <1>6

Good(m, z) == m \in Seq(Piece) /\ Joined(m) = z /\ Roomless(m)

LEMMA MergeTailGood ==
  ASSUME NEW out \in Seq(Piece), NEW b \in Piece, Crowded(out, Len(b))
  PROVE  Good(MergeTail(out, b), Joined(out) \o b)
<1>0. b \in Seq(Alphabet) /\ b # <<>> /\ Len(b) \in Nat /\ out \in Seq(Seq(Alphabet))
  BY PieceLen, PieceSeq
<1>1. CASE out = <<>> \/ Len(Last(out)) + Len(b) > MaxChars
  <2>1. MergeTail(out, b) = Append(out, b)
    <3>1. out # <<>> => Len(Last(out)) \in Nat
      <4>1. ASSUME out # <<>> PROVE Last(out) \in Piece
        BY <4>1, FrontLast
      <4> QED BY <4>1, PieceLen
    <3>2. ~(out # <<>> /\ Len(Last(out)) + Len(b) <= MaxChars)
      BY <1>0, <1>1, <3>1, Bounds
    <3> QED BY <1>0, <3>2, Zenon DEF MergeTail
  <2>2. Append(out, b) \in Seq(Piece)
    OBVIOUS
  <2>3. Joined(Append(out, b)) = Joined(out) \o b
    BY <1>0, JoinedAppend
  <2>4. Roomless(Append(out, b))
    BY <1>1, RoomlessMore
  <2> QED BY <2>1, <2>2, <2>3, <2>4, Zenon DEF Good
<1>2. CASE ~(out = <<>> \/ Len(Last(out)) + Len(b) > MaxChars)
  <2>1. PICK q \in Seq(Piece), l \in Piece : q = Front(out) /\ l = Last(out) /\ out = Append(q, l)
    BY <1>2, FrontLast
  <2>2. /\ q \in Seq(Seq(Alphabet)) /\ l \in Seq(Alphabet) /\ Len(l) \in Nat
        /\ Joined(q) \in Seq(Alphabet)
    BY PieceLen, PieceSeq, JoinedType
  <2>3. Len(l) + Len(b) <= MaxChars
    BY <1>0, <1>2, <2>1, <2>2, Bounds
  <2>4. PICK c \in Piece : c = l \o b /\ Len(c) = Len(l) + Len(b)
    BY <2>2, <2>3, PiecesTogether
  <2>5. Crowded(q, Len(l)) /\ (Len(l) < MinChars => Len(l) + Len(b) > MaxChars)
    BY <1>0, <2>1, CrowdedFront
  <2>6. Len(l) <= Len(c) /\ ~(Len(c) < MinChars)
    BY <1>0, <2>2, <2>3, <2>4, <2>5, Bounds, MinBound
  <2>7. Crowded(Append(q, c), 0)
    <3>1. Len(c) < MinChars => Len(c) + 0 > MaxChars
      BY <2>6
    <3>2. 0 \in Nat
      OBVIOUS
    <3> QED BY <2>2, <2>5, <2>6, <3>1, <3>2, CrowdedMore, Zenon
  <2>8. PICK m \in Seq(Piece) : m = Append(q, c)
    <3>1. Append(q, c) \in Seq(Piece)
      OBVIOUS
    <3> QED BY <3>1
  <2>9. Roomless(m)
    BY <2>7, <2>8, RoomlessCrowded
  <2>10. MergeTail(out, b) = m
    BY <1>0, <1>2, <2>1, <2>3, <2>4, <2>8, Zenon DEF MergeTail
  <2>11. Joined(m) = Joined(out) \o b
    <3>1. c \in Seq(Alphabet)
      BY PieceSeq
    <3>2. Joined(m) = Joined(q) \o c /\ Joined(out) = Joined(q) \o l
      BY <2>1, <2>2, <2>8, <3>1, JoinedAppend
    <3>3. Joined(q) \o (l \o b) = (Joined(q) \o l) \o b
      BY <1>0, <2>2, SMTT(30)
    <3> QED BY <2>4, <3>2, <3>3, Zenon
  <2> QED BY <2>9, <2>10, <2>11, Zenon DEF Good
<1> QED BY <1>1, <1>2

LEMMA MergeShortGood ==
  ASSUME NEW segs \in Seq(Piece)
  PROVE  Good(MergeShort(segs), Joined(segs))
<1>1. PICK acc : acc = MergeUpTo(segs) /\ Keeping(acc, Joined(segs))
  BY MergeKeeps
<1>2. MergeShort(segs) = MergeTail(acc.out, acc.buf)
  BY <1>1, Zenon DEF MergeShort
<1>3. PICK o, b : /\ o \in Seq(Piece) /\ o = acc.out /\ b = acc.buf
                  /\ (b = <<>> \/ b \in Piece)
                  /\ Joined(o) \o b = Joined(segs) /\ Crowded(o, Len(b))
  BY <1>1, Zenon DEF Keeping
<1>4. CASE b = <<>>
  <2>1. MergeTail(o, b) = o
    BY <1>4, Zenon DEF MergeTail
  <2>2. Joined(o) \in Seq(Alphabet)
    <3>1. o \in Seq(Seq(Alphabet))
      BY <1>3, PieceSeq
    <3> QED BY <3>1, JoinedType
  <2>3. Joined(o) \o <<>> = Joined(o) /\ Len(<<>>) = 0
    BY <2>2
  <2>4. Roomless(o)
    BY <1>3, <1>4, <2>3, RoomlessCrowded
  <2> QED BY <1>2, <1>3, <1>4, <2>1, <2>3, <2>4, Zenon DEF Good
<1>5. CASE b \in Piece
  BY <1>2, <1>3, <1>5, MergeTailGood, Zenon
<1> QED BY <1>3, <1>4, <1>5

(* What a text is split into. *)
LEMMA SplitGood ==
  ASSUME NEW text \in Seq(Alphabet)
  PROVE  /\ Split(text, MinChars) \in Seq(Piece)
         /\ Solid(Joined(Split(text, MinChars))) = Solid(text)
         /\ Roomless(Split(text, MinChars))
<1>1. PICK segs \in Seq(Piece) : segs = Split(text, 0) /\ Solid(Joined(segs)) = Solid(text)
  BY SplitIs
<1>2. Split(text, MinChars) = IF MinChars > 0 THEN MergeShort(segs) ELSE segs
  BY <1>1, MinBound, SplitMerged, Zenon
<1>3. CASE MinChars > 0
  <2>1. Good(MergeShort(segs), Joined(segs))
    BY MergeShortGood
  <2> QED BY <1>1, <1>2, <1>3, <2>1, Zenon DEF Good
<1>4. CASE ~(MinChars > 0)
  <2>1. ASSUME NEW i \in 1 .. Len(segs)
        PROVE  ~(Len(segs[i]) < MinChars)
    <3>1. segs[i] \in Piece
      OBVIOUS
    <3> QED BY <1>4, <3>1, PieceLen, MinBound
  <2>2. Roomless(segs)
    BY <2>1, Zenon DEF Roomless
  <2> QED BY <1>1, <1>2, <1>4, <2>2, Zenon
<1> QED BY <1>3, <1>4

(***************************************************************************)
(* A reply that arrives in deltas.                                         *)
(***************************************************************************)

(* What waits in the buffer is blank, or a piece; with what was spoken it   *)
(* is the text.                                                            *)
Waiting(rest) == rest \in Seq(Alphabet) /\ (Solid(rest) = <<>> \/ rest \in Piece)

SplitInv ==
  /\ received \in Seq(Alphabet)
  /\ spoken \in Seq(Piece)
  /\ Waiting(buffer)
  /\ Solid(Joined(spoken) \o buffer) = Solid(received)

LEMMA PopIs ==
  ASSUME NEW buf \in Seq(Alphabet), NEW p, p = PopComplete(buf)
  PROVE  /\ p.ready \in Seq(Piece) /\ Waiting(p.rest)
         /\ Solid(Joined(p.ready) \o p.rest) = Solid(buf)
<1>1. PICK segs \in Seq(Piece) : segs = Split(buf, 0) /\ Solid(Joined(segs)) = Solid(buf)
  BY SplitIs
<1>2. p = IF segs = <<>> THEN [ready |-> <<>>, rest |-> buf]
          ELSE IF EndsSentence(buf) THEN [ready |-> segs, rest |-> <<>>]
          ELSE [ready |-> Front(segs), rest |-> Last(segs)]
  BY <1>1, Zenon DEF PopComplete
<1>3. /\ segs \in Seq(Seq(Alphabet)) /\ Joined(segs) \in Seq(Alphabet)
      /\ <<>> \in Seq(Piece) /\ <<>> \in Seq(Alphabet)
  BY PieceSeq, JoinedType
<1>4. CASE segs = <<>>
  <2>1. p.ready = <<>> /\ p.rest = buf
    BY <1>2, <1>4
  <2>2. Solid(buf) = <<>> /\ <<>> \o buf = buf
    BY <1>1, <1>4, JoinedNothing, SolidNothing
  <2> QED BY <1>3, <2>1, <2>2, JoinedNothing, Zenon DEF Waiting
<1>5. CASE segs # <<>> /\ EndsSentence(buf)
  <2>1. p.ready = segs /\ p.rest = <<>>
    BY <1>2, <1>5
  <2>2. Joined(segs) \o <<>> = Joined(segs)
    BY <1>3
  <2> QED BY <1>1, <1>3, <2>1, <2>2, SolidNothing, Zenon DEF Waiting
<1>6. CASE segs # <<>> /\ ~EndsSentence(buf)
  <2>1. p.ready = Front(segs) /\ p.rest = Last(segs)
    BY <1>2, <1>6
  <2>2. Front(segs) \in Seq(Piece) /\ Last(segs) \in Piece
    BY <1>6, FrontLast
  <2>3. Joined(segs) = Joined(Front(segs)) \o Last(segs)
    BY <1>3, <1>6, JoinedFrontLast
  <2>4. Last(segs) \in Seq(Alphabet)
    BY <2>2, PieceSeq
  <2> QED BY <1>1, <2>1, <2>2, <2>3, <2>4, Zenon DEF Waiting
<1> QED BY <1>4, <1>5, <1>6

LEMMA DeltaSeq ==
  ASSUME NEW d \in Deltas
  PROVE  d \in Seq(Alphabet)
<1>1. MaxDelta \in Nat
  BY SplitAssumption
<1>2. PICK n \in 1 .. MaxDelta : d \in [1 .. n -> Alphabet]
  BY DEF Deltas
<1> QED BY <1>1, <1>2

LEMMA DeltaKeeps ==
  ASSUME SplitInv, NEW d \in Deltas, Delta(d)
  PROVE  SplitInv'
<1>1. /\ received \in Seq(Alphabet) /\ spoken \in Seq(Piece) /\ buffer \in Seq(Alphabet)
      /\ Solid(Joined(spoken) \o buffer) = Solid(received)
      /\ d \in Seq(Alphabet)
  BY DeltaSeq DEF SplitInv, Waiting
<1>2. PICK rcv \in Seq(Alphabet), buf \in Seq(Alphabet) : rcv = received \o d /\ buf = buffer \o d
  <2>1. received \o d \in Seq(Alphabet) /\ buffer \o d \in Seq(Alphabet)
    BY <1>1
  <2> QED BY <2>1
<1>3. PICK p : p = PopComplete(buf)
  OBVIOUS
<1>4. /\ p.ready \in Seq(Piece) /\ Waiting(p.rest)
      /\ Solid(Joined(p.ready) \o p.rest) = Solid(buf)
  BY <1>3, PopIs
<1>5. received' = rcv /\ spoken' = spoken \o p.ready /\ buffer' = p.rest
  BY <1>2, <1>3, Zenon DEF Delta
<1>6. PICK js \in Seq(Alphabet), jr \in Seq(Alphabet), r \in Seq(Alphabet) :
        js = Joined(spoken) /\ jr = Joined(p.ready) /\ r = p.rest
  <2>1. Joined(spoken) \in Seq(Alphabet) /\ Joined(p.ready) \in Seq(Alphabet)
    BY <1>1, <1>4, PieceSeq, JoinedType
  <2>2. p.rest \in Seq(Alphabet)
    BY <1>4 DEF Waiting
  <2> QED BY <2>1, <2>2
<1>7. spoken \o p.ready \in Seq(Piece) /\ Joined(spoken \o p.ready) = js \o jr
  <2>1. PICK x \in Seq(Piece) : x = p.ready
    BY <1>4
  <2>2. spoken \o x \in Seq(Piece)
    BY <1>1
  <2>3. spoken \in Seq(Seq(Alphabet)) /\ x \in Seq(Seq(Alphabet))
    BY <1>1, PieceSeq
  <2>4. Joined(spoken \o x) = Joined(spoken) \o Joined(x)
    BY <2>3, JoinedJoin
  <2> QED BY <1>6, <2>1, <2>2, <2>4, Zenon
<1>8. Solid((js \o jr) \o r) = Solid(rcv)
  <2>1. (js \o jr) \o r = js \o (jr \o r) /\ (js \o buffer) \o d = js \o buf
        /\ jr \o r \in Seq(Alphabet) /\ js \o buffer \in Seq(Alphabet)
    <3>1. (js \o jr) \o r = js \o (jr \o r) /\ jr \o r \in Seq(Alphabet)
      OBVIOUS
    <3>2. PICK b \in Seq(Alphabet), e \in Seq(Alphabet) : b = buffer /\ e = d
      BY <1>1
    <3>3. (js \o b) \o e = js \o (b \o e) /\ js \o b \in Seq(Alphabet)
      OBVIOUS
    <3> QED BY <1>2, <3>1, <3>2, <3>3, Zenon
  <2>2. /\ Solid(js \o (jr \o r)) = Solid(js) \o Solid(jr \o r)
        /\ Solid(js \o buf) = Solid(js) \o Solid(buf)
        /\ Solid((js \o buffer) \o d) = Solid(js \o buffer) \o Solid(d)
        /\ Solid(received \o d) = Solid(received) \o Solid(d)
    BY <1>1, <2>1, SolidJoin
  <2> QED BY <1>1, <1>2, <1>4, <1>6, <2>1, <2>2, Zenon
<1> QED BY <1>4, <1>5, <1>6, <1>7, <1>8, Zenon DEF SplitInv

LEMMA FinishKeeps ==
  ASSUME SplitInv, Finish
  PROVE  SplitInv'
<1>1. /\ received \in Seq(Alphabet) /\ spoken \in Seq(Piece) /\ buffer \in Seq(Alphabet)
      /\ Solid(buffer) = <<>> \/ buffer \in Piece
      /\ Solid(Joined(spoken) \o buffer) = Solid(received)
  BY DEF SplitInv, Waiting
<1>2. /\ received' = received /\ buffer' = <<>>
      /\ spoken' = IF Strip(buffer) = <<>> THEN spoken ELSE Append(spoken, buffer)
  BY DEF Finish
<1>3. Strip(buffer) = <<>> <=> Solid(buffer) = <<>>
  BY <1>1, StripSolid
<1>4. spoken \in Seq(Seq(Alphabet)) /\ Joined(spoken) \in Seq(Alphabet) /\ <<>> \in Seq(Alphabet)
  BY <1>1, PieceSeq, JoinedType
<1>5. Waiting(<<>>)
  BY <1>4, SolidNothing, Zenon DEF Waiting
<1>6. CASE Strip(buffer) = <<>>
  <2>1. spoken' = spoken
    BY <1>2, <1>6
  <2>2. Solid(Joined(spoken) \o buffer) = Solid(Joined(spoken)) \o <<>>
    BY <1>1, <1>3, <1>4, <1>6, SolidJoin
  <2>3. Solid(Joined(spoken) \o <<>>) = Solid(Joined(spoken)) \o <<>>
    BY <1>4, SolidJoin, SolidNothing
  <2> QED BY <1>1, <1>2, <1>5, <2>1, <2>2, <2>3, Zenon DEF SplitInv
<1>7. CASE Strip(buffer) # <<>>
  <2>1. spoken' = Append(spoken, buffer) /\ buffer \in Piece
    BY <1>1, <1>2, <1>3, <1>7
  <2>2. Append(spoken, buffer) \in Seq(Piece)
    BY <1>1, <2>1
  <2>3. Joined(Append(spoken, buffer)) = Joined(spoken) \o buffer
    BY <1>1, <1>4, JoinedAppend
  <2>4. (Joined(spoken) \o buffer) \o <<>> = Joined(spoken) \o buffer
    BY <1>1, <1>4
  <2> QED BY <1>1, <1>2, <1>5, <2>1, <2>2, <2>3, <2>4, Zenon DEF SplitInv
<1> QED BY <1>6, <1>7

(* Whatever the deltas, what was spoken is a sequence of pieces, what waits *)
(* is blank or a piece, and nothing is lost between them: the invariant of  *)
(* the loop of ConversationOrchestrator over _pop_complete.                *)
THEOREM PiecesKept == Spec => []SplitInv
<1>1. Init => SplitInv
  <2> SUFFICES ASSUME Init PROVE SplitInv
    OBVIOUS
  <2>1. received = <<>> /\ buffer = <<>> /\ spoken = <<>>
    BY DEF Init
  <2>2. <<>> \in Seq(Alphabet) /\ <<>> \in Seq(Piece) /\ <<>> \o <<>> = <<>>
    OBVIOUS
  <2>3. Waiting(<<>>)
    BY <2>2, SolidNothing, Zenon DEF Waiting
  <2> QED BY <2>1, <2>2, <2>3, JoinedNothing, Zenon DEF SplitInv
<1>2. SplitInv /\ [Next]_vars => SplitInv'
  <2> SUFFICES ASSUME SplitInv, [Next]_vars PROVE SplitInv'
    OBVIOUS
  <2>1. CASE \E d \in Deltas : Delta(d)
    BY <2>1, DeltaKeeps
  <2>2. CASE Finish
    BY <2>2, FinishKeeps
  <2>3. CASE UNCHANGED vars
    BY <2>3 DEF SplitInv, vars
  <2> QED BY <2>1, <2>2, <2>3 DEF Next
<1> QED BY <1>1, <1>2, PTL DEF Spec

(* split_sentences and _pop_complete lose, double and move nothing but     *)
(* blanks, whatever the text, the deltas and the bounds.                   *)
THEOREM NothingIsLost == Spec => []NothingLost
<1>1. SplitInv => NothingLost
  BY SplitGood, Zenon DEF SplitInv, NothingLost
<1> QED BY <1>1, PiecesKept, PTL

(* No piece handed to the synthesiser is longer than tts_max_sentence_chars *)
(* or without a character to say, and a merged piece is under               *)
(* tts_min_sentence_chars only where it has no room.                       *)
THEOREM EveryPieceFits == Spec => []PiecesFit
<1>1. SplitInv => PiecesFit
  <2> SUFFICES ASSUME SplitInv PROVE PiecesFit
    OBVIOUS
  <2>1. spoken \in Seq(Piece) /\ received \in Seq(Alphabet)
    BY DEF SplitInv
  <2>2. PICK m \in Seq(Piece) : m = Split(received, MinChars) /\ Roomless(m)
    BY <2>1, SplitGood
  <2>3. ASSUME NEW s \in Seq(Piece), NEW p \in Range(s)
        PROVE  Len(p) <= MaxChars /\ Solid(p) # <<>>
    <3>1. p \in Piece
      BY <2>3 DEF Range
    <3> QED BY <3>1 DEF Piece
  <2>4. \A p \in Range(spoken) \cup Range(m) : Len(p) <= MaxChars /\ Solid(p) # <<>>
    BY <2>1, <2>3
  <2>5. ASSUME NEW i \in DOMAIN m, Len(m[i]) < MinChars
        PROVE  /\ i < Len(m) => ~(Len(m[i]) + Len(m[i + 1]) <= MaxChars)
               /\ i = Len(m) /\ i > 1 => ~(Len(m[i - 1]) + Len(m[i - 1 + 1]) <= MaxChars)
    <3>1. i \in 1 .. Len(m) /\ Len(m) \in Nat /\ i - 1 + 1 = i
      OBVIOUS
    <3>2. ASSUME NEW j \in 1 .. Len(m)
          PROVE  Len(m[j]) \in Nat
      <4>1. m[j] \in Piece
        OBVIOUS
      <4> QED BY <4>1, PieceLen
    <3>3. ASSUME i < Len(m)
          PROVE  ~(Len(m[i]) + Len(m[i + 1]) <= MaxChars)
      <4>1. i + 1 \in 1 .. Len(m)
        BY <3>1, <3>3
      <4>2. Len(m[i]) + Len(m[i + 1]) > MaxChars
        BY <2>2, <2>5, <3>1, <3>3, Zenon DEF Roomless
      <4>3. Len(m[i]) \in Nat /\ Len(m[i + 1]) \in Nat
        BY <3>1, <3>2, <4>1, Zenon
      <4> QED BY <4>2, <4>3, Bounds
    <3>4. ASSUME i = Len(m), i > 1
          PROVE  ~(Len(m[i - 1]) + Len(m[i]) <= MaxChars)
      <4>1. i - 1 \in 1 .. Len(m)
        BY <3>1, <3>4
      <4>2. Len(m[i - 1]) + Len(m[i]) > MaxChars
        BY <2>2, <2>5, <3>1, <3>4, Zenon DEF Roomless
      <4>3. Len(m[i]) \in Nat /\ Len(m[i - 1]) \in Nat
        BY <3>1, <3>2, <4>1, Zenon
      <4> QED BY <4>2, <4>3, Bounds
    <3> QED BY <3>1, <3>3, <3>4, Zenon
  <2> QED BY <2>2, <2>4, <2>5, Zenon DEF PiecesFit
<1> QED BY <1>1, PiecesKept, PTL

=============================================================================
