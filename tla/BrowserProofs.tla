---------------------------- MODULE BrowserProofs ----------------------------
(***************************************************************************)
(* Proofs about the browser's side of a conversation: the types, that a    *)
(* microphone and a player belong to the session the page holds, and what  *)
(* is heard.                                                               *)
(***************************************************************************)
EXTENDS BrowserChat, SequenceTheorems, TLAPS

-----------------------------------------------------------------------------
(***************************************************************************)
(* The player.                                                             *)
(***************************************************************************)

Before(x, y) == x.turn < y.turn \/ (x.turn = y.turn /\ x.k < y.k)

Id(x) == [turn |-> x.turn, k |-> x.k]

(* The chunks a player has yet to play out. *)
Held(p) == {Id(p.sources[i]) : i \in DOMAIN p.sources} \cup {Id(p.pending[i]) : i \in DOMAIN p.pending}

(* A player that has begun the turn holds nothing back, and one that has    *)
(* not has nothing scheduled; what is scheduled, and what is held back, is  *)
(* in order, one chunk at a time, up to the cursor.                         *)
PlayerInv(p, e) ==
  /\ p.started => p.pending = <<>>
  /\ ~p.started => p.sources = <<>>
  /\ \A i, j \in DOMAIN p.sources : i < j =>
       /\ Before(p.sources[i], p.sources[j])
       /\ p.sources[i].at < p.sources[j].at \/ p.sources[j].at = -1
  /\ \A i, j \in DOMAIN p.pending : i < j => Before(p.pending[i], p.pending[j])
  /\ \A i \in DOMAIN p.sources : /\ p.sources[i].at < AtLeast(0, p.cursor)
                                 /\ e[p.sources[i].turn] # "interrupted"
  /\ \A i \in DOMAIN p.pending : e[p.pending[i].turn] = "no"

LEMMA NewPlayers ==
  /\ NewPlayer \in APlayer /\ NoPlayer \in APlayer
  /\ Held(NewPlayer) = {} /\ Held(NoPlayer) = {}
  /\ \A e : PlayerInv(NewPlayer, e) /\ PlayerInv(NoPlayer, e)
<1>1. /\ NewPlayer \in APlayer /\ NoPlayer \in APlayer
      /\ NewPlayer.sources = <<>> /\ NewPlayer.pending = <<>> /\ ~NewPlayer.started
      /\ NoPlayer.sources = <<>> /\ NoPlayer.pending = <<>> /\ ~NoPlayer.started
  <2>1. <<>> \in Seq(Chunk) /\ <<>> \in Seq(Source) /\ 0 \in -1 .. Cap
    BY BrowserAssumption
  <2> QED BY <2>1 DEF NewPlayer, NoPlayer, APlayer
<1>2. DOMAIN <<>> = {}
  OBVIOUS
<1> QED BY <1>1, <1>2, Zenon DEF Held, PlayerInv

LEMMA SilentIs ==
  ASSUME NEW p \in APlayer
  PROVE  /\ Silent(p) \in APlayer /\ Silent(p).alive = p.alive /\ Held(Silent(p)) = {}
         /\ \A e : PlayerInv(Silent(p), e)
<1>1. /\ Silent(p) \in APlayer /\ Silent(p).alive = p.alive
      /\ Silent(p).sources = <<>> /\ Silent(p).pending = <<>> /\ ~Silent(p).started
  <2>1. <<>> \in Seq(Chunk) /\ <<>> \in Seq(Source) /\ 0 \in -1 .. Cap
    BY BrowserAssumption
  <2>2. p.alive \in BOOLEAN
    BY DEF APlayer
  <2> QED BY <2>1, <2>2 DEF Silent, NewPlayer, APlayer
<1>2. DOMAIN <<>> = {}
  OBVIOUS
<1> QED BY <1>1, <1>2, Zenon DEF Held, PlayerInv

LEMMA ScheduleIs ==
  ASSUME NEW p \in APlayer, NEW q \in Seq(Chunk)
  PROVE  \E from \in 0 .. Cap, n \in 0 .. Len(q) :
           /\ from = AtLeast(0, p.cursor) /\ from + n \in 0 .. Cap
           /\ LET r == Schedule(p, q)
                  l == Len(p.sources)
              IN /\ r \in APlayer /\ r.cursor = from + n
                 /\ r.pending = p.pending /\ r.alive = p.alive /\ r.started = p.started
                 /\ DOMAIN r.sources = 1 .. l + n
                 /\ \A i \in 1 .. l : r.sources[i] = p.sources[i]
                 /\ \A i \in 1 .. n :
                      r.sources[l + i] = [turn |-> q[i].turn, k |-> q[i].k, at |-> from + i - 1]
<1> USE BrowserAssumption
<1>1. p.cursor \in -1 .. Cap /\ p.sources \in Seq(Source)
  BY DEF APlayer
<1>2. PICK from \in 0 .. Cap : from = AtLeast(0, p.cursor)
  BY <1>1 DEF AtLeast
<1>3. PICK n \in 0 .. Len(q) : n = Room(from, q) /\ from + n \in 0 .. Cap
  BY <1>2 DEF Room, AtMost
<1> DEFINE new == [i \in 1 .. n |-> [turn |-> q[i].turn, k |-> q[i].k, at |-> from + i - 1]]
           l == Len(p.sources)
           s == p.sources \o new
           r == [p EXCEPT !.sources = s, !.cursor = from + n]
<1>4. Schedule(p, q) = r
  BY <1>2, <1>3, Zenon DEF Schedule
<1>5. \A i \in 1 .. n : new[i] \in Source
  <2> SUFFICES ASSUME NEW i \in 1 .. n PROVE new[i] \in Source
    OBVIOUS
  <2>1. q[i] \in Chunk /\ from + i - 1 \in -1 .. Cap - 1
    BY <1>2, <1>3
  <2> QED BY <2>1 DEF Chunk, Source
<1>6. new \in Seq(Source) /\ Len(new) = n
  BY <1>5
<1>7. \A i \in 1 .. n : new[i] = [turn |-> q[i].turn, k |-> q[i].k, at |-> from + i - 1]
  OBVIOUS
<1> HIDE DEF new
<1>8. /\ s \in Seq(Source) /\ DOMAIN s = 1 .. l + n
      /\ \A i \in 1 .. l : s[i] = p.sources[i]
      /\ \A i \in 1 .. n : s[l + i] = new[i]
  BY <1>1, <1>6
<1> HIDE DEF s
<1>9. r \in APlayer /\ r.cursor = from + n /\ r.sources = s
      /\ r.pending = p.pending /\ r.alive = p.alive /\ r.started = p.started
  <2>1. from + n \in -1 .. Cap
    BY <1>3
  <2> QED BY <1>8, <2>1 DEF APlayer
<1> HIDE DEF r
<1> DEFINE x == Schedule(p, q)
<1>10. /\ x \in APlayer /\ x.cursor = from + n
       /\ x.pending = p.pending /\ x.alive = p.alive /\ x.started = p.started
       /\ DOMAIN x.sources = 1 .. l + n
       /\ \A i \in 1 .. l : x.sources[i] = p.sources[i]
       /\ \A i \in 1 .. n :
            x.sources[l + i] = [turn |-> q[i].turn, k |-> q[i].k, at |-> from + i - 1]
  BY <1>4, <1>7, <1>8, <1>9
<1> HIDE DEF x
<1> QED BY <1>2, <1>3, <1>10 DEF x

LEMMA PlayerTypes ==
  ASSUME NEW p \in APlayer
  PROVE  /\ p.pending \in Seq(Chunk) /\ p.sources \in Seq(Source) /\ p.cursor \in Int
         /\ p.started \in BOOLEAN /\ p.complete \in BOOLEAN /\ p.alive \in BOOLEAN
         /\ \A i \in DOMAIN p.pending : p.pending[i] \in Chunk
         /\ \A i \in DOMAIN p.sources : p.sources[i] \in Source /\ p.sources[i].at \in Int
<1>1. /\ p.pending \in Seq(Chunk) /\ p.sources \in Seq(Source) /\ p.cursor \in Int
      /\ p.started \in BOOLEAN /\ p.complete \in BOOLEAN /\ p.alive \in BOOLEAN
  BY BrowserAssumption DEF APlayer
<1>2. \A s \in Source : s.at \in Int
  BY BrowserAssumption DEF Source
<1> QED BY <1>1, <1>2

LEMMA BeforeBoth ==
  ASSUME NEW x, NEW y, NEW z, x.turn \in Nat, y.turn \in Nat, z.turn \in Nat,
         x.k \in Nat, y.k \in Nat, z.k \in Nat, Before(x, y), Before(y, z)
  PROVE  Before(x, z)
BY DEF Before

(* schedule, when nothing is held back and the chunks come after those that *)
(* are scheduled already.                                                   *)
LEMMA ScheduleInv ==
  ASSUME NEW p \in APlayer, NEW q \in Seq(Chunk), NEW e, p.started, p.pending = <<>>,
         PlayerInv(p, e),
         \A i, j \in DOMAIN q : i < j => Before(q[i], q[j]),
         \A i \in DOMAIN p.sources, j \in DOMAIN q : Before(p.sources[i], q[j]),
         \A i \in DOMAIN q : e[q[i].turn] = "no"
  PROVE  LET r == Schedule(p, q)
         IN /\ r \in APlayer /\ r.alive = p.alive /\ r.pending = <<>>
            /\ PlayerInv(r, e) /\ Held(r) \subseteq Held(p) \cup {Id(q[i]) : i \in DOMAIN q}
<1> DEFINE r == Schedule(p, q)
<1>1. PICK from \in 0 .. Cap, n \in 0 .. Len(q) :
           /\ from = AtLeast(0, p.cursor) /\ from + n \in 0 .. Cap
           /\ /\ r \in APlayer /\ r.cursor = from + n
              /\ r.pending = p.pending /\ r.alive = p.alive /\ r.started = p.started
              /\ DOMAIN r.sources = 1 .. Len(p.sources) + n
              /\ \A i \in 1 .. Len(p.sources) : r.sources[i] = p.sources[i]
              /\ \A i \in 1 .. n :
                   r.sources[Len(p.sources) + i] =
                     [turn |-> q[i].turn, k |-> q[i].k, at |-> from + i - 1]
  BY ScheduleIs
<1> HIDE DEF r
<1>2. PICK l \in Nat : l = Len(p.sources) /\ DOMAIN p.sources = 1 .. l
  BY PlayerTypes
<1> DEFINE s == r.sources
<1>3. \A i \in DOMAIN s : i \in 1 .. l \/ \E j \in 1 .. n : i = l + j
  <2> SUFFICES ASSUME NEW i \in DOMAIN s, i \notin 1 .. l PROVE \E j \in 1 .. n : i = l + j
    OBVIOUS
  <2>1. i - l \in 1 .. n /\ i = l + (i - l)
    BY <1>1, <1>2
  <2> QED BY <2>1
<1>4. \A i \in 1 .. l : s[i] = p.sources[i]
  BY <1>1, <1>2
<1>5. \A i \in 1 .. n : /\ s[l + i].turn = q[i].turn /\ s[l + i].k = q[i].k
                        /\ s[l + i].at = from + i - 1
  <2> SUFFICES ASSUME NEW i \in 1 .. n
               PROVE  /\ s[l + i].turn = q[i].turn /\ s[l + i].k = q[i].k
                      /\ s[l + i].at = from + i - 1
    OBVIOUS
  <2>1. s[l + i] = [turn |-> q[i].turn, k |-> q[i].k, at |-> from + i - 1]
    BY <1>1, <1>2, Zenon
  <2> HIDE DEF s
  <2> QED BY <2>1
<1>6. DOMAIN s = 1 .. l + n /\ DOMAIN q = 1 .. Len(q) /\ \A i \in 1 .. n : i \in DOMAIN q
  BY <1>1, <1>2
<1>7. \A i \in DOMAIN s : s[i].at \in Int
  BY <1>1, PlayerTypes
<1> HIDE DEF s
<1>8. \A i \in 1 .. l : s[i].at < from /\ e[s[i].turn] # "interrupted"
  BY <1>1, <1>2, <1>4, SMTT(30) DEF PlayerInv
<1>9. AtLeast(0, r.cursor) = from + n
  BY <1>1 DEF AtLeast
<1>10. ASSUME NEW i \in DOMAIN s, NEW j \in DOMAIN s, i < j
       PROVE  Before(s[i], s[j]) /\ (s[i].at < s[j].at \/ s[j].at = -1)
  <2>1. CASE j \in 1 .. l
    <3>1. i \in 1 .. l
      BY <1>6, <1>10, <2>1
    <3> QED BY <1>2, <1>4, <1>10, <2>1, <3>1 DEF PlayerInv
  <2>2. CASE j \notin 1 .. l
    <3>1. PICK b \in 1 .. n : j = l + b
      BY <1>3, <2>2
    <3>2. CASE i \in 1 .. l
      <4>1. s[i].at < s[j].at
        <5>1. s[j].at = from + b - 1 /\ s[i].at < from /\ s[i].at \in Int
          BY <1>5, <1>7, <1>8, <3>1, <3>2
        <5> QED BY <5>1
      <4>2. Before(p.sources[i], q[b])
        BY <1>2, <1>6, <3>2
      <4> QED BY <1>4, <1>5, <3>1, <3>2, <4>1, <4>2 DEF Before
    <3>3. CASE i \notin 1 .. l
      <4>1. PICK a \in 1 .. n : i = l + a
        BY <1>3, <3>3
      <4>2. a < b
        BY <1>10, <3>1, <4>1
      <4>3. Before(q[a], q[b])
        BY <1>6, <4>2
      <4>4. s[i].at < s[j].at
        <5>1. s[i].at = from + a - 1 /\ s[j].at = from + b - 1
          BY <1>5, <3>1, <4>1
        <5> QED BY <4>2, <5>1
      <4> QED BY <1>5, <3>1, <4>1, <4>3, <4>4 DEF Before
    <3> QED BY <3>2, <3>3
  <2> QED BY <2>1, <2>2
<1>11. ASSUME NEW i \in DOMAIN s
       PROVE  s[i].at < AtLeast(0, r.cursor) /\ e[s[i].turn] # "interrupted"
  <2>1. CASE i \in 1 .. l
    <3>1. s[i].at < from /\ s[i].at \in Int
      BY <1>7, <1>8, <2>1
    <3>2. s[i].at < from + n
      BY <3>1
    <3> QED BY <1>8, <1>9, <2>1, <3>2
  <2>2. CASE i \notin 1 .. l
    <3>1. PICK a \in 1 .. n : i = l + a
      BY <1>3, <2>2
    <3>2. s[i].at = from + a - 1 /\ s[i].turn = q[a].turn
      BY <1>5, <3>1
    <3>3. from + a - 1 < from + n
      OBVIOUS
    <3>4. e[q[a].turn] = "no"
      BY <1>6
    <3> QED BY <1>9, <3>2, <3>3, <3>4
  <2> QED BY <2>1, <2>2
<1>12. r.pending = <<>> /\ r.started
  BY <1>1
<1>13. PlayerInv(r, e)
  <2>1. DOMAIN <<>> = {}
    OBVIOUS
  <2> QED BY <1>10, <1>11, <1>12, <2>1, Zenon DEF PlayerInv, s
<1>14. Held(r) \subseteq Held(p) \cup {Id(q[i]) : i \in DOMAIN q}
  <2>1. \A i \in DOMAIN s : Id(s[i]) \in Held(p) \cup {Id(q[j]) : j \in DOMAIN q}
    <3> SUFFICES ASSUME NEW i \in DOMAIN s
                 PROVE  Id(s[i]) \in Held(p) \cup {Id(q[j]) : j \in DOMAIN q}
      OBVIOUS
    <3>1. CASE i \in 1 .. l
      BY <1>2, <1>4, <3>1 DEF Held
    <3>2. CASE i \notin 1 .. l
      <4>1. PICK a \in 1 .. n : i = l + a
        BY <1>3, <3>2
      <4>2. Id(s[i]) = Id(q[a])
        BY <1>5, <4>1 DEF Id
      <4> QED BY <1>6, <4>2
    <3> QED BY <3>1, <3>2
  <2>2. DOMAIN r.pending = {}
    BY <1>12
  <2> QED BY <2>1, <2>2 DEF Held, s
<1> QED BY <1>1, <1>12, <1>13, <1>14 DEF r

LEMMA FlushedInv ==
  ASSUME NEW p \in APlayer, NEW e, PlayerInv(p, e)
  PROVE  LET r == Flushed(p)
         IN /\ r \in APlayer /\ r.alive = p.alive /\ r.pending = <<>>
            /\ PlayerInv(r, e) /\ Held(r) \subseteq Held(p)
<1>1. CASE p.pending = <<>>
  BY <1>1 DEF Flushed
<1>2. CASE p.pending # <<>>
  <2> DEFINE q == p.pending
             b == [p EXCEPT !.pending = <<>>, !.started = TRUE, !.cursor = IF p.started THEN @ ELSE 0]
  <2>1. q \in Seq(Chunk) /\ ~p.started /\ p.sources = <<>>
    BY <1>2, PlayerTypes DEF PlayerInv
  <2>2. b \in APlayer /\ b.started /\ b.pending = <<>> /\ b.sources = <<>> /\ b.alive = p.alive
    <3>1. <<>> \in Seq(Chunk) /\ 0 \in -1 .. Cap
      BY BrowserAssumption
    <3> QED BY <2>1, <3>1 DEF APlayer
  <2>3. Flushed(p) = Schedule(b, q)
    BY <1>2 DEF Flushed
  <2> HIDE DEF b
  <2>4. DOMAIN <<>> = {}
    OBVIOUS
  <2>5. PlayerInv(b, e) /\ Held(b) = {}
    BY <2>2, <2>4, Zenon DEF PlayerInv, Held
  <2>6. /\ \A i, j \in DOMAIN q : i < j => Before(q[i], q[j])
        /\ \A i \in DOMAIN b.sources, j \in DOMAIN q : Before(b.sources[i], q[j])
        /\ \A i \in DOMAIN q : e[q[i].turn] = "no"
    BY <2>2, <2>4, Zenon DEF PlayerInv
  <2>7. {Id(q[i]) : i \in DOMAIN q} \subseteq Held(p)
    BY DEF Held
  <2> HIDE DEF q
  <2>8. LET r == Schedule(b, q)
        IN /\ r \in APlayer /\ r.alive = b.alive /\ r.pending = <<>>
           /\ PlayerInv(r, e) /\ Held(r) \subseteq Held(b) \cup {Id(q[i]) : i \in DOMAIN q}
    BY <2>1, <2>2, <2>5, <2>6, ScheduleInv
  <2> QED BY <2>2, <2>3, <2>5, <2>7, <2>8
<1> QED BY <1>1, <1>2

LEMMA PushedInv ==
  ASSUME NEW p \in APlayer, NEW e, PlayerInv(p, e), NEW x \in Chunk, e[x.turn] = "no",
         \A y \in Held(p) : Before(y, x)
  PROVE  LET r == Pushed(p, x)
         IN /\ r \in APlayer /\ r.alive = p.alive
            /\ PlayerInv(r, e) /\ Held(r) \subseteq Held(p) \cup {Id(x)}
<1> DEFINE q == [p EXCEPT !.complete = FALSE]
           w == [q EXCEPT !.pending = Append(@, x)]
<1>1. /\ q \in APlayer /\ q.pending = p.pending /\ q.sources = p.sources /\ q.cursor = p.cursor
      /\ q.started = p.started /\ q.alive = p.alive
  BY DEF APlayer
<1>2. PlayerInv(q, e) /\ Held(q) = Held(p)
  BY <1>1, Zenon DEF PlayerInv, Held
<1>3. CASE p.started
  <2>1. Pushed(p, x) = Schedule(q, <<x>>)
    BY <1>3 DEF Pushed
  <2>2. <<x>> \in Seq(Chunk) /\ DOMAIN <<x>> = {1} /\ <<x>>[1] = x
    OBVIOUS
  <2>3. q.pending = <<>> /\ q.started
    BY <1>1, <1>3 DEF PlayerInv
  <2>4. \A i \in DOMAIN q.sources : Before(q.sources[i], x)
    <3>1. \A i \in DOMAIN q.sources : Id(q.sources[i]) \in Held(p)
      BY <1>1 DEF Held
    <3> QED BY <3>1 DEF Before, Id
  <2> HIDE DEF q
  <2>5. /\ \A i, j \in DOMAIN <<x>> : i < j => Before(<<x>>[i], <<x>>[j])
        /\ \A i \in DOMAIN q.sources, j \in DOMAIN <<x>> : Before(q.sources[i], <<x>>[j])
        /\ \A i \in DOMAIN <<x>> : e[<<x>>[i].turn] = "no"
    BY <2>2, <2>4
  <2> DEFINE z == <<x>>
  <2>6. z \in Seq(Chunk) /\ {Id(z[i]) : i \in DOMAIN z} = {Id(x)}
    BY <2>2
  <2> HIDE DEF z
  <2>7. LET r == Schedule(q, z)
        IN /\ r \in APlayer /\ r.alive = q.alive /\ r.pending = <<>>
           /\ PlayerInv(r, e) /\ Held(r) \subseteq Held(q) \cup {Id(z[i]) : i \in DOMAIN z}
    BY <1>1, <1>2, <2>3, <2>5, <2>6, ScheduleInv DEF z
  <2> QED BY <1>1, <1>2, <2>1, <2>6, <2>7 DEF z
<1>4. CASE ~p.started
  <2>1. p.pending \in Seq(Chunk) /\ p.sources = <<>>
    BY <1>4, PlayerTypes DEF PlayerInv
  <2> HIDE DEF q
  <2>2. /\ w \in APlayer /\ w.pending = Append(p.pending, x) /\ w.sources = <<>> /\ ~w.started
        /\ w.alive = p.alive
    <3> DEFINE u == Append(q.pending, x)
    <3>1. u \in Seq(Chunk) /\ u = Append(p.pending, x)
      BY <1>1, <2>1
    <3> HIDE DEF u
    <3>2. w = [q EXCEPT !.pending = u]
      BY DEF u
    <3> HIDE DEF w
    <3> QED BY <1>1, <1>4, <2>1, <3>1, <3>2 DEF APlayer
  <2>3. PICK l \in Nat : l = Len(p.pending) /\ DOMAIN p.pending = 1 .. l
    BY <2>1
  <2>4. DOMAIN w.pending = 1 .. l + 1 /\ w.pending[l + 1] = x
        /\ \A i \in 1 .. l : w.pending[i] = p.pending[i]
    BY <2>1, <2>2, <2>3
  <2> HIDE DEF w
  <2>5. \A i \in 1 .. l : Before(p.pending[i], x)
    <3>1. \A i \in 1 .. l : Id(p.pending[i]) \in Held(p)
      BY <2>3 DEF Held
    <3> QED BY <3>1 DEF Before, Id
  <2>6. ASSUME NEW i \in DOMAIN w.pending, NEW j \in DOMAIN w.pending, i < j
        PROVE  Before(w.pending[i], w.pending[j])
    <3>1. CASE j = l + 1
      <4>1. i \in 1 .. l
        BY <2>4, <2>6, <3>1
      <4> QED BY <2>4, <2>5, <3>1, <4>1
    <3>2. CASE j # l + 1
      <4>1. i \in 1 .. l /\ j \in 1 .. l
        BY <2>4, <2>6, <3>2
      <4> QED BY <2>3, <2>4, <2>6, <4>1 DEF PlayerInv
    <3> QED BY <3>1, <3>2
  <2>7. \A i \in DOMAIN w.pending : e[w.pending[i].turn] = "no"
    <3> SUFFICES ASSUME NEW i \in DOMAIN w.pending PROVE e[w.pending[i].turn] = "no"
      OBVIOUS
    <3>1. CASE i = l + 1
      BY <2>4, <3>1
    <3>2. CASE i # l + 1
      <4>1. i \in 1 .. l
        BY <2>4, <3>2
      <4> QED BY <2>3, <2>4, <4>1 DEF PlayerInv
    <3> QED BY <3>1, <3>2
  <2>8. DOMAIN <<>> = {}
    OBVIOUS
  <2>9. PlayerInv(w, e)
    BY <2>2, <2>6, <2>7, <2>8, Zenon DEF PlayerInv
  <2>10. Held(w) \subseteq Held(p) \cup {Id(x)}
    <3>1. \A i \in DOMAIN w.pending : Id(w.pending[i]) \in Held(p) \cup {Id(x)}
      <4> SUFFICES ASSUME NEW i \in DOMAIN w.pending PROVE Id(w.pending[i]) \in Held(p) \cup {Id(x)}
        OBVIOUS
      <4>1. CASE i = l + 1
        BY <2>4, <4>1
      <4>2. CASE i # l + 1
        <5>1. i \in 1 .. l
          BY <2>4, <4>2
        <5> QED BY <2>3, <2>4, <5>1 DEF Held
      <4> QED BY <4>1, <4>2
    <3>2. DOMAIN w.sources = {}
      BY <2>2
    <3> QED BY <3>1, <3>2 DEF Held
  <2>11. Pushed(p, x) = IF Len(w.pending) >= Level THEN Flushed(w) ELSE w
    BY <1>4 DEF Pushed, w, q
  <2> QED BY <2>2, <2>9, <2>10, <2>11, FlushedInv
<1> QED BY <1>3, <1>4, PlayerTypes

LEMMA ResetInv ==
  ASSUME NEW p \in APlayer, NEW e, PlayerInv(p, e)
  PROVE  LET r == Reset(p)
         IN /\ r \in APlayer /\ r.alive = p.alive
            /\ PlayerInv(r, e) /\ Held(r) \subseteq Held(p)
<1>1. CASE Drained(p)
  <2> DEFINE r == [p EXCEPT !.started = FALSE, !.complete = FALSE, !.cursor = 0]
  <2>1. /\ r \in APlayer /\ r.alive = p.alive /\ ~r.started
        /\ r.pending = <<>> /\ r.sources = <<>>
    <3>1. 0 \in -1 .. Cap
      BY BrowserAssumption
    <3> QED BY <1>1, <3>1 DEF APlayer, Drained
  <2>2. Reset(p) = r
    BY <1>1, Zenon DEF Reset
  <2> HIDE DEF r
  <2>3. DOMAIN <<>> = {}
    OBVIOUS
  <2>4. PlayerInv(r, e) /\ Held(r) = {}
    BY <2>1, <2>3, Zenon DEF PlayerInv, Held
  <2> QED BY <2>1, <2>2, <2>4
<1>2. CASE ~Drained(p)
  BY <1>2 DEF Reset
<1> QED BY <1>1, <1>2

(* The turn is marked as done, of which nothing is held back any more. *)
LEMMA TurnFinishedInv ==
  ASSUME NEW p \in APlayer, NEW e \in [Turn -> {"no", "done", "interrupted"}], NEW t \in Turn,
         PlayerInv(p, e)
  PROVE  LET r == TurnFinished(p)
         IN /\ r \in APlayer /\ r.alive = p.alive
            /\ PlayerInv(r, [e EXCEPT ![t] = "done"]) /\ Held(r) \subseteq Held(p)
<1> DEFINE f == Flushed(p)
           g == [e EXCEPT ![t] = "done"]
           h == [f EXCEPT !.complete = TRUE]
<1>1. /\ f \in APlayer /\ f.alive = p.alive /\ f.pending = <<>>
      /\ PlayerInv(f, e) /\ Held(f) \subseteq Held(p)
  BY FlushedInv
<1>2. TurnFinished(p) = Reset(h)
  BY DEF TurnFinished
<1> HIDE DEF f
<1>3. /\ h \in APlayer /\ h.alive = f.alive /\ h.pending = f.pending /\ h.sources = f.sources
      /\ h.cursor = f.cursor /\ h.started = f.started
  BY <1>1 DEF APlayer
<1>4. \A u \in Turn : e[u] # "interrupted" => g[u] # "interrupted"
  OBVIOUS
<1> HIDE DEF h, g
<1>5. DOMAIN <<>> = {}
  OBVIOUS
<1>6. \A i \in DOMAIN f.sources : f.sources[i].turn \in Turn
  <2>1. \A i \in DOMAIN f.sources : f.sources[i] \in Source
    BY <1>1, PlayerTypes
  <2> QED BY <2>1 DEF Source
<1>7. Held(h) = Held(f)
  BY <1>3, Zenon DEF Held
<1>8. PlayerInv(h, g)
  <2>1. /\ h.started => h.pending = <<>>
        /\ ~h.started => h.sources = <<>>
        /\ \A i, j \in DOMAIN h.sources : i < j =>
             /\ Before(h.sources[i], h.sources[j])
             /\ h.sources[i].at < h.sources[j].at \/ h.sources[j].at = -1
    BY <1>1, <1>3, Zenon DEF PlayerInv
  <2>2. DOMAIN h.pending = {}
    BY <1>1, <1>3, <1>5
  <2>3. \A i \in DOMAIN h.sources : h.sources[i].at < AtLeast(0, h.cursor)
    BY <1>1, <1>3, Zenon DEF PlayerInv
  <2>4. \A i \in DOMAIN h.sources : g[h.sources[i].turn] # "interrupted"
    BY <1>1, <1>3, <1>4, <1>6, Zenon DEF PlayerInv
  <2> QED BY <2>1, <2>2, <2>3, <2>4, Zenon DEF PlayerInv
<1>9. LET r == Reset(h)
      IN /\ r \in APlayer /\ r.alive = h.alive
         /\ PlayerInv(r, g) /\ Held(r) \subseteq Held(h)
  BY <1>3, <1>8, ResetInv
<1> QED BY <1>1, <1>2, <1>3, <1>7, <1>9 DEF g

LEMMA LaterInv ==
  ASSUME NEW p \in APlayer, NEW e, PlayerInv(p, e)
  PROVE  LET r == Later(p)
         IN /\ r \in APlayer /\ r.alive = p.alive
            /\ PlayerInv(r, e) /\ Held(r) = Held(p)
<1> DEFINE s == [i \in DOMAIN p.sources |->
                   [turn |-> p.sources[i].turn, k |-> p.sources[i].k, at |-> Sooner(p.sources[i].at)]]
           r == [p EXCEPT !.sources = s, !.cursor = Sooner(p.cursor)]
<1>1. Later(p) = r
  BY DEF Later
<1>2. p.sources \in Seq(Source) /\ p.cursor \in -1 .. Cap
  BY DEF APlayer
<1>3. \A i \in DOMAIN p.sources : /\ s[i] \in Source /\ s[i].turn = p.sources[i].turn
                                  /\ s[i].k = p.sources[i].k
                                  /\ s[i].at = Sooner(p.sources[i].at)
                                  /\ p.sources[i].at \in -1 .. Cap - 1
  <2> SUFFICES ASSUME NEW i \in DOMAIN p.sources
               PROVE  /\ s[i] \in Source /\ s[i].turn = p.sources[i].turn
                      /\ s[i].k = p.sources[i].k
                      /\ s[i].at = Sooner(p.sources[i].at)
                      /\ p.sources[i].at \in -1 .. Cap - 1
    OBVIOUS
  <2>1. p.sources[i] \in Source
    BY <1>2
  <2>2. s[i] = [turn |-> p.sources[i].turn, k |-> p.sources[i].k, at |-> Sooner(p.sources[i].at)]
    BY Zenon
  <2> HIDE DEF s
  <2>3. p.sources[i].at \in -1 .. Cap - 1
    BY <2>1 DEF Source
  <2>4. Sooner(p.sources[i].at) \in -1 .. Cap - 1
    BY <2>3, BrowserAssumption DEF Sooner, AtLeast
  <2> QED BY <2>1, <2>2, <2>3, <2>4 DEF Source
<1>4. s \in Seq(Source) /\ DOMAIN s = DOMAIN p.sources
  <2>1. DOMAIN p.sources = 1 .. Len(p.sources) /\ Len(p.sources) \in Nat
    BY <1>2
  <2>2. DOMAIN s = 1 .. Len(p.sources)
    BY <2>1
  <2>3. s \in [1 .. Len(p.sources) -> Source]
    BY <1>3, <2>1
  <2> HIDE DEF s
  <2> QED BY <2>1, <2>2, <2>3
<1>5. p.sources = <<>> => s = <<>>
  <2>1. p.sources = <<>> => DOMAIN s = {}
    BY <1>4
  <2> HIDE DEF s
  <2> QED BY <1>4, <2>1
<1> HIDE DEF s
<1>6. /\ r \in APlayer /\ r.alive = p.alive /\ r.started = p.started /\ r.pending = p.pending
      /\ r.sources = s /\ r.cursor = Sooner(p.cursor)
  <2>1. Sooner(p.cursor) \in -1 .. Cap
    BY <1>2, BrowserAssumption DEF Sooner, AtLeast
  <2> QED BY <1>4, <2>1 DEF APlayer
<1> HIDE DEF r
<1>7. ASSUME NEW i \in DOMAIN s PROVE s[i].at < AtLeast(0, r.cursor)
  <2>1. p.sources[i].at < AtLeast(0, p.cursor)
    BY <1>4 DEF PlayerInv
  <2>2. p.sources[i].at \in Int /\ p.cursor \in Int /\ p.cursor >= -1 /\ p.sources[i].at >= -1
    BY <1>2, <1>3, <1>4
  <2>3. Sooner(p.sources[i].at) < AtLeast(0, Sooner(p.cursor))
    BY <2>1, <2>2 DEF Sooner, AtLeast
  <2> QED BY <1>3, <1>4, <1>6, <2>3
<1>8. ASSUME NEW i \in DOMAIN s, NEW j \in DOMAIN s, i < j
      PROVE  Before(s[i], s[j]) /\ (s[i].at < s[j].at \/ s[j].at = -1)
  <2>1. /\ Before(p.sources[i], p.sources[j])
        /\ p.sources[i].at < p.sources[j].at \/ p.sources[j].at = -1
    BY <1>4, <1>8 DEF PlayerInv
  <2>2. p.sources[i].at \in -1 .. Cap - 1 /\ p.sources[j].at \in -1 .. Cap - 1
    BY <1>3, <1>4
  <2>3. s[i].at < s[j].at \/ s[j].at = -1
    <3>1. /\ s[i].at = Sooner(p.sources[i].at)
          /\ s[j].at = Sooner(p.sources[j].at)
      BY <1>3, <1>4
    <3> QED BY <2>1, <2>2, <3>1, BrowserAssumption DEF Sooner, AtLeast
  <2>4. Before(s[i], s[j])
    BY <1>3, <1>4, <2>1 DEF Before
  <2> QED BY <2>3, <2>4
<1>9. \A i \in DOMAIN s : e[s[i].turn] # "interrupted"
  BY <1>3, <1>4 DEF PlayerInv
<1>10. PlayerInv(r, e)
  BY <1>5, <1>6, <1>7, <1>8, <1>9, Zenon DEF PlayerInv
<1>11. Held(r) = Held(p)
  <2>1. \A i \in DOMAIN s : Id(s[i]) = Id(p.sources[i])
    BY <1>3, <1>4 DEF Id
  <2> QED BY <1>4, <1>6, <2>1 DEF Held
<1> QED BY <1>1, <1>6, <1>10, <1>11

LEMMA PlayedOneInv ==
  ASSUME NEW p \in APlayer, NEW e, PlayerInv(p, e), p.sources # <<>>
  PROVE  LET r == PlayedOne(p)
         IN /\ r \in APlayer /\ r.alive = p.alive
            /\ PlayerInv(r, e) /\ Held(r) \subseteq Held(p)
<1> DEFINE s == Tail(p.sources)
           r == [p EXCEPT !.sources = s]
<1>1. p.sources \in Seq(Source)
  BY DEF APlayer
<1>2. PICK l \in Nat : l + 1 = Len(p.sources) /\ DOMAIN p.sources = 1 .. l + 1
  <2>1. Len(p.sources) \in Nat /\ Len(p.sources) # 0 /\ DOMAIN p.sources = 1 .. Len(p.sources)
    BY <1>1
  <2>2. Len(p.sources) - 1 \in Nat /\ (Len(p.sources) - 1) + 1 = Len(p.sources)
    BY <2>1
  <2> QED BY <2>1, <2>2
<1>3. s \in Seq(Source) /\ DOMAIN s = 1 .. l /\ \A i \in 1 .. l : s[i] = p.sources[i + 1]
  BY <1>1, <1>2
<1> HIDE DEF s
<1>4. /\ r \in APlayer /\ r.alive = p.alive /\ r.started = p.started /\ r.pending = p.pending
      /\ r.sources = s /\ r.cursor = p.cursor
  BY <1>3 DEF APlayer
<1>5. p.started /\ p.pending = <<>>
  BY Zenon DEF PlayerInv
<1> HIDE DEF r
<1>6. \A i \in 1 .. l : i + 1 \in DOMAIN p.sources
  BY <1>2
<1>7. ASSUME NEW i \in DOMAIN s, NEW j \in DOMAIN s, i < j
      PROVE  Before(s[i], s[j]) /\ (s[i].at < s[j].at \/ s[j].at = -1)
  <2>1. i + 1 < j + 1 /\ i + 1 \in DOMAIN p.sources /\ j + 1 \in DOMAIN p.sources
    BY <1>3, <1>6, <1>7
  <2>2. /\ Before(p.sources[i + 1], p.sources[j + 1])
        /\ p.sources[i + 1].at < p.sources[j + 1].at \/ p.sources[j + 1].at = -1
    BY <2>1, Zenon DEF PlayerInv
  <2> QED BY <1>3, <2>2
<1>8. \A i \in DOMAIN s : s[i].at < AtLeast(0, r.cursor) /\ e[s[i].turn] # "interrupted"
  BY <1>3, <1>4, <1>6 DEF PlayerInv
<1>9. PlayerInv(r, e)
  <2>1. DOMAIN <<>> = {}
    OBVIOUS
  <2> QED BY <1>4, <1>5, <1>7, <1>8, <2>1, Zenon DEF PlayerInv
<1>10. Held(r) \subseteq Held(p)
  <2>1. \A i \in DOMAIN s : Id(s[i]) \in Held(p)
    BY <1>3, <1>6 DEF Held
  <2> QED BY <1>4, <2>1 DEF Held
<1>11. LET z == Reset(r)
       IN /\ z \in APlayer /\ z.alive = r.alive
          /\ PlayerInv(z, e) /\ Held(z) \subseteq Held(r)
  BY <1>4, <1>9, ResetInv
<1>12. Reset(r) = PlayedOne(p)
  BY DEF PlayedOne, r, s
<1> QED BY <1>4, <1>10, <1>11, <1>12

LEMMA HeldTypes ==
  ASSUME NEW p \in APlayer
  PROVE  Held(p) \subseteq Chunk
<1>1. \A i \in DOMAIN p.sources : Id(p.sources[i]) \in Chunk
  <2>1. \A x \in Source : Id(x) \in Chunk
    BY DEF Source, Chunk, Id
  <2> QED BY <2>1, PlayerTypes
<1>2. \A i \in DOMAIN p.pending : Id(p.pending[i]) \in Chunk
  <2>1. \A x \in Chunk : Id(x) \in Chunk
    BY DEF Chunk, Id
  <2> QED BY <2>1, PlayerTypes
<1> QED BY <1>1, <1>2 DEF Held

-----------------------------------------------------------------------------
(***************************************************************************)
(* The frames on their way to the page.                                    *)
(***************************************************************************)

Sounds(d) == {i \in DOMAIN d : d[i].kind = "audio"}

Ends(d) == {i \in DOMAIN d : d[i].kind \in {"assistant_done", "interrupted"}}

Busy(v) == v.pc \in {"thinking", "responding"}

(* The server has come as far as this chunk. *)
Reached(x, v) == x.turn < v.turn \/ (x.turn = v.turn /\ x.k <= v.k)

(* Audio on its way is in order, of turns that have not ended, and the last *)
(* frame of a turn comes after all of its audio.                            *)
WireInv(d, v, e) ==
  /\ Busy(v) => v.turn \in Turn
  /\ \A i \in Sounds(d) : /\ d[i].turn \in Turn /\ d[i].k \in 1 .. Chunks
                          /\ e[d[i].turn] = "no" /\ Reached(d[i], v)
  /\ \A i, j \in Sounds(d) : i < j => Before(d[i], d[j])
  /\ \A i \in Ends(d) : d[i].turn \in Turn /\ d[i].turn <= v.turn /\ (Busy(v) => d[i].turn < v.turn)
  /\ \A i \in Ends(d), j \in Sounds(d) : i < j => d[i].turn < d[j].turn
  /\ \A t \in Turn : e[t] # "no" => t <= v.turn /\ (Busy(v) => t < v.turn)

(* What a player holds came before. *)
After(H, d, v) ==
  \A x \in H : Reached(x, v) /\ \A i \in Sounds(d) : Before(x, d[i])

LEMMA TailIs ==
  ASSUME NEW d \in Seq(ToPage), d # <<>>
  PROVE  /\ Tail(d) \in Seq(ToPage) /\ 1 \in DOMAIN d /\ Head(d) = d[1] /\ Head(d) \in ToPage
         /\ \A i \in DOMAIN Tail(d) : i \in Nat /\ i + 1 \in DOMAIN d /\ 1 < i + 1 /\ Tail(d)[i] = d[i + 1]
         /\ \A i \in Sounds(Tail(d)) : i + 1 \in Sounds(d)
         /\ \A i \in Ends(Tail(d)) : i + 1 \in Ends(d)
<1> DEFINE u == Tail(d)
<1>1. /\ u \in Seq(ToPage) /\ 1 \in DOMAIN d /\ Head(d) = d[1] /\ Head(d) \in ToPage
      /\ \A i \in DOMAIN u : i \in Nat /\ i + 1 \in DOMAIN d /\ 1 < i + 1 /\ u[i] = d[i + 1]
  OBVIOUS
<1> HIDE DEF u
<1>2. \A i \in Sounds(u) : i + 1 \in Sounds(d)
  BY <1>1 DEF Sounds
<1>3. \A i \in Ends(u) : i + 1 \in Ends(d)
  BY <1>1 DEF Ends
<1> QED BY <1>1, <1>2, <1>3 DEF u

(* A frame is taken. *)
LEMMA Taken ==
  ASSUME NEW d \in Seq(ToPage), d # <<>>, NEW v, NEW e, NEW H, WireInv(d, v, e), After(H, d, v)
  PROVE  WireInv(Tail(d), v, e) /\ After(H, Tail(d), v)
<1> DEFINE u == Tail(d)
<1>1. /\ \A i \in DOMAIN u : i \in Nat /\ i + 1 \in DOMAIN d /\ 1 < i + 1 /\ u[i] = d[i + 1]
      /\ \A i \in Sounds(u) : i + 1 \in Sounds(d)
      /\ \A i \in Ends(u) : i + 1 \in Ends(d)
  BY TailIs
<1> HIDE DEF u
<1>2. \A i \in Sounds(u) \cup Ends(u) : i \in DOMAIN u /\ i \in Nat
  BY <1>1 DEF Sounds, Ends
<1>3. \A i, j \in Sounds(u) \cup Ends(u) : i < j => i + 1 < j + 1
  BY <1>2
<1>4. WireInv(u, v, e)
  BY <1>1, <1>2, <1>3, Zenon DEF WireInv
<1>5. After(H, u, v)
  BY <1>1, <1>2, Zenon DEF After
<1> QED BY <1>4, <1>5 DEF u

(* A chunk is taken: it comes after what the player holds, and before the   *)
(* audio that is left.                                                      *)
LEMMA ChunkTaken ==
  ASSUME NEW d \in Seq(ToPage), d # <<>>, NEW v, NEW e, NEW H, WireInv(d, v, e), After(H, d, v),
         Head(d).kind = "audio", NEW x, x = Id(Head(d))
  PROVE  /\ x \in Chunk /\ e[x.turn] = "no" /\ \A y \in H : Before(y, x)
         /\ After(H \cup {Id(x)}, Tail(d), v)
<1> DEFINE u == Tail(d)
<1>1. /\ 1 \in DOMAIN d /\ Head(d) = d[1]
      /\ \A i \in DOMAIN u : i \in Nat /\ i + 1 \in DOMAIN d /\ 1 < i + 1 /\ u[i] = d[i + 1]
      /\ \A i \in Sounds(u) : i + 1 \in Sounds(d)
  BY TailIs
<1>2. 1 \in Sounds(d)
  BY <1>1 DEF Sounds
<1>3. x.turn = d[1].turn /\ x.k = d[1].k /\ Id(x) = x
  BY <1>1 DEF Id
<1>4. d[1].turn \in Turn /\ d[1].k \in 1 .. Chunks /\ e[d[1].turn] = "no" /\ Reached(d[1], v)
  BY <1>2, Zenon DEF WireInv
<1>5. x \in Chunk /\ e[x.turn] = "no"
  <2>1. x = [turn |-> d[1].turn, k |-> d[1].k]
    BY <1>1 DEF Id
  <2>2. x \in Chunk
    BY <1>4, <2>1 DEF Chunk
  <2> QED BY <1>3, <1>4, <2>2
<1>6. \A y \in H : Before(y, x)
  <2>1. \A y \in H : Before(y, d[1])
    BY <1>2, Zenon DEF After
  <2> QED BY <1>3, <2>1 DEF Before
<1> HIDE DEF u
<1>7. \A i \in Sounds(u) : Before(x, u[i])
  <2> SUFFICES ASSUME NEW i \in Sounds(u) PROVE Before(x, u[i])
    OBVIOUS
  <2>1. i \in DOMAIN u /\ i + 1 \in Sounds(d)
    BY <1>1 DEF Sounds
  <2>2. 1 < i + 1 /\ u[i] = d[i + 1]
    BY <1>1, <2>1
  <2>3. Before(d[1], d[i + 1])
    BY <1>2, <2>1, <2>2, Zenon DEF WireInv
  <2> QED BY <1>3, <2>2, <2>3 DEF Before
<1>8. Reached(x, v)
  BY <1>3, <1>4 DEF Reached
<1>9. After(H, u, v)
  BY Taken DEF u
<1>10. After(H \cup {x}, u, v)
  BY <1>7, <1>8, <1>9, Zenon DEF After
<1> QED BY <1>3, <1>5, <1>6, <1>10 DEF u

(* The last frame of a turn is taken: what is left is of later turns. *)
LEMMA EndTaken ==
  ASSUME NEW d \in Seq(ToPage), d # <<>>, NEW v \in AServer, NEW e \in [Turn -> {"no", "done", "interrupted"}],
         NEW H, WireInv(d, v, e), After(H, d, v),
         Head(d).kind \in {"assistant_done", "interrupted"}, NEW y
  PROVE  /\ Head(d).turn \in Turn
         /\ WireInv(Tail(d), v, [e EXCEPT ![Head(d).turn] = y]) /\ After(H, Tail(d), v)
<1> DEFINE u == Tail(d)
           t == Head(d).turn
           g == [e EXCEPT ![t] = y]
<1>1. /\ 1 \in DOMAIN d /\ Head(d) = d[1]
      /\ \A i \in DOMAIN u : i \in Nat /\ i + 1 \in DOMAIN d /\ 1 < i + 1 /\ u[i] = d[i + 1]
      /\ \A i \in Sounds(u) : i + 1 \in Sounds(d)
      /\ \A i \in Ends(u) : i + 1 \in Ends(d)
  BY TailIs
<1>2. WireInv(u, v, e) /\ After(H, u, v)
  BY Taken
<1>3. 1 \in Ends(d)
  BY <1>1 DEF Ends
<1>4. t \in Turn /\ t <= v.turn /\ (Busy(v) => t < v.turn)
  BY <1>1, <1>3, Zenon DEF WireInv
<1> HIDE DEF u
<1>5. \A i \in Sounds(u) : u[i].turn \in Turn /\ t < u[i].turn /\ e[u[i].turn] = "no"
  <2> SUFFICES ASSUME NEW i \in Sounds(u)
               PROVE  u[i].turn \in Turn /\ t < u[i].turn /\ e[u[i].turn] = "no"
    OBVIOUS
  <2>1. i \in DOMAIN u /\ i + 1 \in Sounds(d)
    BY <1>1 DEF Sounds
  <2>2. 1 < i + 1 /\ u[i] = d[i + 1]
    BY <1>1, <2>1
  <2>3. d[1].turn < d[i + 1].turn
    BY <1>3, <2>1, <2>2, Zenon DEF WireInv
  <2>4. u[i].turn \in Turn /\ e[u[i].turn] = "no"
    BY <1>2, Zenon DEF WireInv
  <2> QED BY <1>1, <2>2, <2>3, <2>4
<1> HIDE DEF t
<1>6. \A i \in Sounds(u) : g[u[i].turn] = "no"
  BY <1>4, <1>5
<1>7. \A s \in Turn : g[s] # "no" => s = t \/ e[s] # "no"
  BY <1>4
<1> HIDE DEF g
<1>8. WireInv(u, v, g)
  BY <1>2, <1>4, <1>6, <1>7, Zenon DEF WireInv
<1> QED BY <1>2, <1>4, <1>8 DEF u, t, g

LEMMA AppendIs ==
  ASSUME NEW d \in Seq(ToPage), NEW f \in ToPage
  PROVE  /\ Append(d, f) \in Seq(ToPage)
         /\ \E l \in Nat : /\ DOMAIN d = 1 .. l /\ DOMAIN Append(d, f) = 1 .. l + 1
                           /\ Append(d, f)[l + 1] = f
                           /\ \A i \in 1 .. l : Append(d, f)[i] = d[i]
<1>1. PICK l \in Nat : l = Len(d) /\ DOMAIN d = 1 .. l
  OBVIOUS
<1> DEFINE u == Append(d, f)
<1>2. u \in Seq(ToPage)
  OBVIOUS
<1>3. DOMAIN u = 1 .. l + 1
  BY <1>1
<1>4. u[l + 1] = f
  BY <1>1
<1>5. \A i \in 1 .. l : u[i] = d[i]
  BY <1>1
<1> HIDE DEF u
<1> QED BY <1>1, <1>2, <1>3, <1>4, <1>5 DEF u

(* The frames of before are the ones of before, and come first. *)
LEMMA AppendedIs ==
  ASSUME NEW d \in Seq(ToPage), NEW f \in ToPage
  PROVE  \E n \in Nat :
           LET u == Append(d, f)
           IN /\ u \in Seq(ToPage) /\ u[n] = f
              /\ f.kind = "audio" => Sounds(u) = Sounds(d) \cup {n} /\ Ends(u) = Ends(d)
              /\ f.kind \in {"assistant_done", "interrupted"} =>
                   Sounds(u) = Sounds(d) /\ Ends(u) = Ends(d) \cup {n}
              /\ f.kind \notin {"audio", "assistant_done", "interrupted"} =>
                   Sounds(u) = Sounds(d) /\ Ends(u) = Ends(d)
              /\ \A i \in Sounds(d) \cup Ends(d) : i \in Nat /\ i < n /\ u[i] = d[i]
<1> DEFINE u == Append(d, f)
<1>1. u \in Seq(ToPage)
  BY AppendIs
<1>2. PICK l \in Nat : /\ DOMAIN d = 1 .. l /\ DOMAIN u = 1 .. l + 1
                       /\ u[l + 1] = f
                       /\ \A i \in 1 .. l : u[i] = d[i]
  BY AppendIs
<1> HIDE DEF u
<1>3. PICK n \in Nat : n = l + 1
  OBVIOUS
<1>4. DOMAIN u = DOMAIN d \cup {n} /\ \A i \in DOMAIN d : i \in Nat /\ i < n
  BY <1>2, <1>3
<1>5. u[n] = f /\ \A i \in DOMAIN d : u[i] = d[i]
  BY <1>2, <1>3
<1>6. /\ f.kind = "audio" => Sounds(u) = Sounds(d) \cup {n}
      /\ f.kind # "audio" => Sounds(u) = Sounds(d)
  BY <1>4, <1>5 DEF Sounds
<1>7. /\ f.kind \in {"assistant_done", "interrupted"} => Ends(u) = Ends(d) \cup {n}
      /\ f.kind \notin {"assistant_done", "interrupted"} => Ends(u) = Ends(d)
  BY <1>4, <1>5 DEF Ends
<1>8. \A i \in Sounds(d) \cup Ends(d) : i \in Nat /\ i < n /\ u[i] = d[i]
  BY <1>4, <1>5 DEF Sounds, Ends
<1> QED BY <1>1, <1>5, <1>6, <1>7, <1>8 DEF u

LEMMA PlainPosted ==
  ASSUME NEW d \in Seq(ToPage), NEW f \in ToPage, NEW v, NEW e, NEW H, WireInv(d, v, e), After(H, d, v),
         f.kind \notin {"audio", "assistant_done", "interrupted"}
  PROVE  /\ Append(d, f) \in Seq(ToPage)
         /\ WireInv(Append(d, f), v, e) /\ After(H, Append(d, f), v)
<1> DEFINE u == Append(d, f)
           plain == f.kind \notin {"audio", "assistant_done", "interrupted"}
<1>0. PICK n \in Nat :
        /\ u \in Seq(ToPage) /\ u[n] = f
        /\ plain => Sounds(u) = Sounds(d) /\ Ends(u) = Ends(d)
        /\ \A i \in Sounds(d) \cup Ends(d) : i \in Nat /\ i < n /\ u[i] = d[i]
  <2> HIDE DEF plain
  <2> QED BY AppendedIs, ZenonT(40) DEF plain
<1> HIDE DEF u
<1>1. /\ u \in Seq(ToPage) /\ u[n] = f /\ Sounds(u) = Sounds(d) /\ Ends(u) = Ends(d)
      /\ \A i \in Sounds(d) \cup Ends(d) : i \in Nat /\ i < n /\ u[i] = d[i]
  BY <1>0, Zenon
<1>2. WireInv(u, v, e)
  BY <1>1, Zenon DEF WireInv
<1>3. After(H, u, v)
  BY <1>1, Zenon DEF After
<1> QED BY <1>1, <1>2, <1>3 DEF u

(* A turn that is being spoken has not ended, and its next chunk is sent. *)
LEMMA ChunkPosted ==
  ASSUME NEW d \in Seq(ToPage), NEW v \in AServer, NEW e, NEW H, H \subseteq Chunk,
         WireInv(d, v, e), After(H, d, v), Busy(v), v.k < Chunks
  PROVE  LET f == Frame("audio", v.turn, v.k + 1)
             w == [v EXCEPT !.k = @ + 1]
         IN /\ w \in AServer /\ Append(d, f) \in Seq(ToPage)
            /\ WireInv(Append(d, f), w, e) /\ After(H, Append(d, f), w)
<1> DEFINE f == Frame("audio", v.turn, v.k + 1)
           w == [v EXCEPT !.k = @ + 1]
           u == Append(d, f)
<1>1. /\ v.turn \in Nat /\ v.k \in Nat /\ v.k + 1 \in 1 .. Chunks
  BY BrowserAssumption DEF AServer
<1>2. w \in AServer /\ w.turn = v.turn /\ w.k = v.k + 1 /\ w.pc = v.pc
  <2>1. v.k + 1 \in 0 .. Chunks
    BY <1>1
  <2> QED BY <2>1 DEF AServer
<1>3. v.turn \in Turn /\ e[v.turn] = "no"
  <2>1. v.turn \in Turn
    BY Zenon DEF WireInv
  <2>2. e[v.turn] # "no" => v.turn < v.turn
    BY <2>1, Zenon DEF WireInv
  <2> QED BY <1>1, <2>1, <2>2
<1>4. f \in ToPage /\ f.kind = "audio" /\ f.turn = v.turn /\ f.k = v.k + 1
  BY <1>1, <1>3 DEF Frame, ToPage, AServer
<1> HIDE DEF w, f
<1>5. PICK n \in Nat :
        /\ u \in Seq(ToPage) /\ u[n] = f /\ Sounds(u) = Sounds(d) \cup {n} /\ Ends(u) = Ends(d)
        /\ \A i \in Sounds(d) \cup Ends(d) : i \in Nat /\ i < n /\ u[i] = d[i]
  BY <1>4, AppendedIs, Zenon
<1> HIDE DEF u
<1>6. \A x : Reached(x, v) /\ x.turn \in Nat /\ x.k \in Nat => Reached(x, w) /\ Before(x, f)
  BY <1>1, <1>2, <1>4 DEF Reached, Before
<1>7. \A i \in Sounds(d) : d[i].turn \in Nat /\ d[i].k \in Nat /\ Reached(d[i], v)
  BY BrowserAssumption DEF WireInv, Turn
<1>8. Reached(f, w) /\ f.turn \in Turn /\ f.k \in 1 .. Chunks /\ e[f.turn] = "no"
  BY <1>1, <1>2, <1>3, <1>4 DEF Reached
<1>9. \A i \in Ends(d) : d[i].turn < f.turn
  BY <1>4 DEF WireInv
<1>10. Busy(w)
  BY <1>2 DEF Busy
<1>11. \A i \in Sounds(u) : /\ u[i].turn \in Turn /\ u[i].k \in 1 .. Chunks
                            /\ e[u[i].turn] = "no" /\ Reached(u[i], w)
  <2>1. \A i \in Sounds(d) : /\ d[i].turn \in Turn /\ d[i].k \in 1 .. Chunks
                             /\ e[d[i].turn] = "no" /\ Reached(d[i], w)
    BY <1>6, <1>7, Zenon DEF WireInv
  <2> QED BY <1>5, <1>8, <2>1
<1>12. \A i, j \in Sounds(u) : i < j => Before(u[i], u[j])
  <2> SUFFICES ASSUME NEW i \in Sounds(u), NEW j \in Sounds(u), i < j PROVE Before(u[i], u[j])
    OBVIOUS
  <2>1. i \in Sounds(d)
    BY <1>5
  <2>2. CASE j = n
    BY <1>5, <1>6, <1>7, <2>1, <2>2
  <2>3. CASE j # n
    <3>1. j \in Sounds(d) /\ Before(d[i], d[j])
      BY <1>5, <2>1, <2>3 DEF WireInv
    <3> QED BY <1>5, <2>1, <3>1
  <2> QED BY <2>2, <2>3
<1>13. \A i \in Ends(u) : u[i].turn \in Turn /\ u[i].turn <= w.turn /\ u[i].turn < w.turn
  BY <1>2, <1>5 DEF WireInv
<1>14. \A i \in Ends(u), j \in Sounds(u) : i < j => u[i].turn < u[j].turn
  <2> SUFFICES ASSUME NEW i \in Ends(u), NEW j \in Sounds(u), i < j PROVE u[i].turn < u[j].turn
    OBVIOUS
  <2>1. CASE j = n
    BY <1>5, <1>9, <2>1
  <2>2. CASE j # n
    <3>1. j \in Sounds(d) /\ i \in Ends(d)
      BY <1>5, <2>2
    <3>2. d[i].turn < d[j].turn
      BY <3>1, Zenon DEF WireInv
    <3> QED BY <1>5, <3>1, <3>2
  <2> QED BY <2>1, <2>2
<1>15. \A t \in Turn : e[t] # "no" => t <= w.turn /\ t < w.turn
  BY <1>2 DEF WireInv
<1>16. WireInv(u, w, e)
  BY <1>2, <1>3, <1>11, <1>12, <1>13, <1>14, <1>15, Zenon DEF WireInv
<1>17. After(H, u, w)
  <2> SUFFICES ASSUME NEW x \in H PROVE Reached(x, w) /\ \A i \in Sounds(u) : Before(x, u[i])
    BY Zenon DEF After
  <2>1. x.turn \in Nat /\ x.k \in Nat
    BY BrowserAssumption DEF Chunk, Turn
  <2>2. Reached(x, v) /\ \A i \in Sounds(d) : Before(x, d[i])
    BY Zenon DEF After
  <2>3. Reached(x, w) /\ Before(x, f)
    BY <1>6, <2>1, <2>2
  <2> QED BY <1>5, <2>2, <2>3
<1> QED BY <1>2, <1>5, <1>16, <1>17 DEF f, w, u

(* A turn that is over, with its last frame. *)
LEMMA EndPosted ==
  ASSUME NEW d \in Seq(ToPage), NEW f \in ToPage, NEW v \in AServer, NEW e, NEW H,
         WireInv(d, v, e), After(H, d, v), ~Busy(v),
         f.kind \in {"assistant_done", "interrupted"}, f.turn \in Turn, f.turn = v.turn
  PROVE  /\ Append(d, f) \in Seq(ToPage)
         /\ WireInv(Append(d, f), v, e) /\ After(H, Append(d, f), v)
<1> DEFINE u == Append(d, f)
<1>1. PICK n \in Nat :
        /\ u \in Seq(ToPage) /\ u[n] = f /\ Sounds(u) = Sounds(d) /\ Ends(u) = Ends(d) \cup {n}
        /\ \A i \in Sounds(d) \cup Ends(d) : i \in Nat /\ i < n /\ u[i] = d[i]
  BY AppendedIs, Zenon
<1> HIDE DEF u
<1>2. v.turn <= v.turn
  BY DEF AServer
<1>3. \A i \in Ends(u) : u[i].turn \in Turn /\ u[i].turn <= v.turn
  BY <1>1, <1>2 DEF WireInv
<1>4. \A i \in Ends(u), j \in Sounds(u) : i < j => u[i].turn < u[j].turn
  <2> SUFFICES ASSUME NEW i \in Ends(u), NEW j \in Sounds(u), i < j PROVE u[i].turn < u[j].turn
    OBVIOUS
  <2>1. j \in Sounds(d) /\ i \in Ends(d)
    BY <1>1
  <2>2. d[i].turn < d[j].turn
    BY <2>1, Zenon DEF WireInv
  <2> QED BY <1>1, <2>1, <2>2
<1>5. WireInv(u, v, e)
  BY <1>1, <1>3, <1>4, Zenon DEF WireInv
<1>6. After(H, u, v)
  BY <1>1, Zenon DEF After
<1> QED BY <1>1, <1>5, <1>6 DEF u

(* The server goes on within its turn, or leaves it. *)
LEMMA Onward ==
  ASSUME NEW d, NEW v, NEW w, NEW e, NEW H, WireInv(d, v, e), After(H, d, v),
         w.turn = v.turn, w.k = v.k, Busy(w) => Busy(v)
  PROVE  WireInv(d, w, e) /\ After(H, d, w)
<1>1. \A x : Reached(x, v) => Reached(x, w)
  BY DEF Reached
<1>2. WireInv(d, w, e)
  BY <1>1, Zenon DEF WireInv
<1>3. After(H, d, w)
  BY <1>1, Zenon DEF After
<1> QED BY <1>2, <1>3

(* It begins the next turn. *)
LEMMA NextTurn ==
  ASSUME NEW d \in Seq(ToPage), NEW v \in AServer, NEW w \in AServer, NEW e, NEW H, H \subseteq Chunk,
         WireInv(d, v, e), After(H, d, v), w.turn = v.turn + 1, w.turn \in Turn
  PROVE  WireInv(d, w, e) /\ After(H, d, w)
<1>1. v.turn \in Nat /\ \A t \in Turn : t \in Nat
  BY BrowserAssumption DEF AServer, Turn
<1>2. \A x : Reached(x, v) /\ x.turn \in Nat => Reached(x, w)
  BY <1>1 DEF Reached
<1>3. \A t \in Turn : t <= v.turn => t <= w.turn /\ t < w.turn
  BY <1>1
<1>4. \A i \in Sounds(d) : Reached(d[i], w)
  BY <1>1, <1>2 DEF WireInv
<1>5. WireInv(d, w, e)
  BY <1>3, <1>4, Zenon DEF WireInv
<1>6. \A x \in H : x.turn \in Nat
  BY <1>1 DEF Chunk
<1>7. After(H, d, w)
  BY <1>2, <1>6, Zenon DEF After
<1> QED BY <1>5, <1>7

-----------------------------------------------------------------------------
(***************************************************************************)
(* The invariant.                                                          *)
(***************************************************************************)

Live(s) == s \in {"connecting", "open"}

(* What session c has, when the page holds the WebSocket w and the recorder *)
(* r and has started n sessions: the player p, the socket s, the microphone *)
(* m, frames both ways and the server v.                                    *)
Owned(c, w, r, n, p, s, m, d, u, v) ==
  /\ p.alive <=> w = c
  /\ w # c => p = NoPlayer
  /\ Live(s) => w = c
  /\ s # "open" => d = <<>> /\ u = <<>> /\ v = NoServer
  /\ c > n => s = "none" /\ m = "none"
  /\ m = "on" => w = c /\ r = c
  /\ m \in {"asked", "starting"} /\ w = c => r = c

SessionInv ==
  /\ page \in {"idle", "gone"} => wsRef = 0 /\ recRef = 0 /\ turnState = "" /\ ~stopping
  /\ page \in {"connecting", "connected"} => wsRef # 0
  /\ \A c \in Conn : Owned(c, wsRef, recRef, last, player[c], sock[c], rec[c], down[c], up[c], srv[c])

(* The player, and the frames on their way, of a session.                   *)
Plays(p, s, d, v, e) ==
  /\ PlayerInv(p, e)
  /\ Live(s) => WireInv(d, v, e) /\ After(Held(p), d, v)

PlayInv == \A c \in Conn : Plays(player[c], sock[c], down[c], srv[c], ended)

BrowserInv == TypeOK /\ SessionInv /\ PlayInv

-----------------------------------------------------------------------------
(***************************************************************************)
(* The types.                                                              *)
(***************************************************************************)

LEMMA Constants ==
  /\ Starts \in Nat /\ Turns \in Nat /\ Chunks \in Nat /\ 0 \in 0 .. Starts
  /\ \A c \in Conn : c \in Nat /\ c # 0 /\ c <= Starts
  /\ \A n \in Nat : n + 1 <= Starts => n + 1 \in Conn
  /\ \A n \in 0 .. Turns : n < Turns => n + 1 \in Turn /\ n + 1 \in 0 .. Turns
  /\ \A n \in 0 .. Chunks : n < Chunks => n + 1 \in 0 .. Chunks
  /\ 0 \in 0 .. Turns /\ 0 \in 0 .. Chunks
  /\ NoServer \in AServer /\ NotEnded \in [Turn -> {"no", "done", "interrupted"}]
BY BrowserAssumption DEF Conn, Turn, NoServer, AServer, NotEnded

LEMMA Frames ==
  ASSUME NEW d \in Seq(ToPage), NEW f \in ToPage, NEW g \in ToPage
  PROVE  /\ d \o <<f>> = Append(d, f) /\ d \o <<f, g>> = Append(Append(d, f), g)
         /\ d \o <<>> = d /\ Append(d, f) \in Seq(ToPage) /\ Append(Append(d, f), g) \in Seq(ToPage)
<1>1. d \o <<f>> = Append(d, f) /\ d \o <<f, g>> = Append(Append(d, f), g)
  OBVIOUS
<1>2. d \o <<>> = d
  BY ConcatEmptySeq
<1>3. Append(d, f) \in Seq(ToPage)
  OBVIOUS
<1>4. Append(Append(d, f), g) \in Seq(ToPage)
  BY <1>3
<1> QED BY <1>1, <1>2, <1>3, <1>4

LEMMA Empties ==
  <<>> \in Seq({"cancel_response"}) /\ <<>> \in Seq(ToPage)
OBVIOUS

LEMMA FrameTypes ==
  /\ \A kind \in {"ready", "listening", "thinking", "responding", "error", "close"} :
       Plain(kind) \in ToPage /\ Plain(kind).kind = kind
  /\ \A kind \in {"assistant_done", "interrupted", "error"}, t \in 0 .. Turns :
       /\ Frame(kind, t, 0) \in ToPage /\ Frame(kind, t, 0).kind = kind
       /\ Frame(kind, t, 0).turn = t
  /\ \A t \in 0 .. Turns, k \in 0 .. Chunks : Frame("audio", t, k) \in ToPage
BY Constants DEF Plain, Frame, ToPage

(* What a step of the server does, of whichever kind: its new state, and    *)
(* the frames it posts one after the other.                                 *)
LEMMA ServerTypes ==
  ASSUME TypeOK, NEW c \in Conn, NEW s \in AServer, NEW ms \in Seq(ToPage), Serves(c, s, ms),
         up' \in [Conn -> Seq({"cancel_response"})]
  PROVE  TypeOK'
<1>1. down[c] \o ms \in Seq(ToPage)
  <2>1. down[c] \in Seq(ToPage)
    BY DEF TypeOK
  <2> QED BY <2>1
<1>2. srv' \in [Conn -> AServer] /\ down' \in [Conn -> Seq(ToPage)]
  BY <1>1 DEF Serves, TypeOK
<1> QED BY <1>2 DEF Serves, TypeOK, held, ui

LEMMA TypesStep ==
  ASSUME TypeOK, PlayInv, SessionInv, [Next]_vars
  PROVE  TypeOK'
<1> USE DEF held, ui, wires
<1>1. CASE UNCHANGED vars
  BY <1>1 DEF TypeOK, vars
<1>2. ASSUME NEW c \in Conn, Close(c)
      PROVE  /\ sock' \in [Conn -> {"none", "connecting", "open", "closing", "closed"}]
             /\ up' \in [Conn -> Seq({"cancel_response"})] /\ down' \in [Conn -> Seq(ToPage)]
             /\ srv' \in [Conn -> AServer]
  BY <1>2, Constants, Empties, Zenon DEF TypeOK, Close, Unseen
<1>3. rec \in [Conn -> {"none", "asked", "starting", "on", "abandoned", "off"}] =>
        Stopped(recRef) \in [Conn -> {"none", "asked", "starting", "on", "abandoned", "off"}]
  BY DEF Stopped
<1>4. ASSUME LetGo
      PROVE  /\ rec' \in [Conn -> {"none", "asked", "starting", "on", "abandoned", "off"}]
             /\ player' \in [Conn -> APlayer] /\ wsRef' = 0 /\ recRef' = 0
  <2>1. rec' \in [Conn -> {"none", "asked", "starting", "on", "abandoned", "off"}]
    BY <1>3, <1>4 DEF TypeOK, LetGo
  <2>2. player' \in [Conn -> APlayer]
    BY <1>4, NewPlayers DEF TypeOK, LetGo
  <2> QED BY <1>4, <2>1, <2>2 DEF LetGo
<1>6. last \in Nat /\ last <= Starts /\ 0 \in 0 .. last
  <2>1. last \in 0 .. Starts
    BY DEF TypeOK
  <2> QED BY <2>1, Constants
<1>30. wsRef \in Nat /\ wsRef <= Starts /\ recRef \in Nat /\ (wsRef # 0 => wsRef \in Conn)
  <2>1. wsRef \in 0 .. last /\ recRef \in 0 .. last
    BY DEF TypeOK
  <2> QED BY <1>6, <2>1, Constants DEF Conn
<1>5. page \in {"connecting", "connected"} => wsRef \in Conn
  BY <1>30 DEF SessionInv
<1>7. ASSUME NEW c \in Conn, NEW kind, Gets(c, kind)
      PROVE  /\ down[c] \in Seq(ToPage) /\ down[c] # <<>> /\ Head(down[c]) \in ToPage
             /\ down' \in [Conn -> Seq(ToPage)] /\ sock[c] = "open" /\ c \in 0 .. last
             /\ wsRef = c /\ Head(down[c]).kind = kind
             /\ WireInv(down[c], srv[c], ended) /\ After(Held(player[c]), down[c], srv[c])
             /\ PlayerInv(player[c], ended)
  <2>1. down[c] \in Seq(ToPage) /\ down[c] # <<>> /\ sock[c] = "open" /\ Head(down[c]).kind = kind
    BY <1>7 DEF TypeOK, Gets
  <2>2. Tail(down[c]) \in Seq(ToPage) /\ Head(down[c]) \in ToPage
    BY <2>1, TailIs
  <2>3. down' \in [Conn -> Seq(ToPage)]
    BY <1>7, <2>2 DEF TypeOK, Gets
  <2>4. wsRef = c /\ c \in 0 .. last
    BY <2>1 DEF SessionInv, Owned, Live, TypeOK
  <2>5. /\ WireInv(down[c], srv[c], ended) /\ After(Held(player[c]), down[c], srv[c])
        /\ PlayerInv(player[c], ended)
    BY <2>1, Zenon DEF PlayInv, Plays, Live
  <2> QED BY <2>1, <2>2, <2>3, <2>4, <2>5
<1>8. ASSUME Start PROVE TypeOK'
  <2>1. last + 1 \in 0 .. Starts /\ 0 \in 0 .. last + 1 /\ last + 1 \in 0 .. last + 1
        /\ recRef \in 0 .. last + 1
    <3>1. last < Starts /\ recRef \in 0 .. last
      BY <1>8 DEF TypeOK, Start
    <3> QED BY <1>6, <3>1, Constants
  <2> QED BY <1>8, <2>1, Constants, NewPlayers DEF TypeOK, Start
<1>9. ASSUME StopPressed PROVE TypeOK'
  BY <1>2, <1>4, <1>5, <1>6, <1>9 DEF TypeOK, StopPressed, Stop, Idle
<1>10. ASSUME Teardown PROVE TypeOK'
  <2>1. CASE wsRef = 0
    BY <1>10, <2>1 DEF TypeOK, Teardown
  <2>2. CASE wsRef # 0
    <3>1. LetGo /\ Close(wsRef) /\ wsRef \in Conn
        BY <1>10, <1>30, <2>2 DEF Teardown
    <3> QED BY <1>2, <1>4, <1>6, <1>10, <3>1 DEF TypeOK, Teardown
  <2> QED BY <2>1, <2>2
<1>11. ASSUME StopResponse PROVE TypeOK'
  <2>1. wsRef \in Conn
    BY <1>5, <1>11 DEF StopResponse
  <2>2. Silent(player[wsRef]) \in APlayer
    BY <2>1, SilentIs DEF TypeOK
  <2>3. Append(up[wsRef], "cancel_response") \in Seq({"cancel_response"})
    <3>1. up[wsRef] \in Seq({"cancel_response"})
      BY <2>1 DEF TypeOK
    <3> QED BY <3>1
  <2>4. player' \in [Conn -> APlayer]
    BY <1>11, <2>2 DEF TypeOK, StopResponse
  <2>5. up' \in [Conn -> Seq({"cancel_response"})]
    BY <1>11, <2>3 DEF TypeOK, StopResponse
  <2> QED BY <1>11, <2>4, <2>5 DEF TypeOK, StopResponse
<1>12. ASSUME NEW c \in Conn, Opens(c) PROVE TypeOK'
  <2>1. srv' \in [Conn -> AServer]
    <3>1. [srv[c] EXCEPT !.pc = "start"] \in AServer
      BY ZenonT(60) DEF TypeOK, AServer
    <3> QED BY <1>12, <3>1 DEF TypeOK, Opens
  <2> QED BY <1>12, <2>1 DEF TypeOK, Opens
<1>13. ASSUME NEW c \in Conn, ConnectTimeout(c) \/ OnClosing(c) PROVE TypeOK'
  BY <1>2, <1>13 DEF TypeOK, ConnectTimeout, OnClosing
<1>14. ASSUME NEW c \in Conn, Over(c) PROVE TypeOK'
  <2>1. /\ sock' \in [Conn -> {"none", "connecting", "open", "closing", "closed"}]
        /\ up' \in [Conn -> Seq({"cancel_response"})] /\ down' \in [Conn -> Seq(ToPage)]
        /\ srv' \in [Conn -> AServer]
    <3>1. sock' = [sock EXCEPT ![c] = "closed"] /\ Unseen(c)
      BY <1>14 DEF Over
    <3>2. sock' \in [Conn -> {"none", "connecting", "open", "closing", "closed"}]
      BY <3>1 DEF TypeOK
    <3> QED BY <3>1, <3>2, Constants, Empties DEF TypeOK, Unseen
  <2>2. CASE wsRef = c
    BY <1>4, <1>6, <1>14, <2>1, <2>2 DEF TypeOK, Over, Idle
  <2>3. CASE wsRef # c
    BY <1>14, <2>1, <2>3 DEF TypeOK, Over
  <2> QED BY <2>2, <2>3
<1>15. ASSUME NEW c \in Conn, OnReady(c) PROVE TypeOK'
  BY <1>7, <1>15 DEF TypeOK, OnReady
<1>16. ASSUME NEW c \in Conn, OnState(c) PROVE TypeOK'
  <2>1. PICK s \in {"listening", "thinking", "responding"} :
          Gets(c, s) /\ turnState' = s /\ stopping' = (stopping /\ ~Answered(s))
    BY <1>16 DEF OnState
  <2>2. down' \in [Conn -> Seq(ToPage)] /\ stopping' \in BOOLEAN
    BY <1>7, <2>1
  <2> QED BY <1>16, <2>1, <2>2 DEF TypeOK, OnState
<1>17. ASSUME NEW c \in Conn, OnAudio(c) PROVE TypeOK'
  <2> DEFINE x == [turn |-> Head(down[c]).turn, k |-> Head(down[c]).k]
  <2>1. Gets(c, "audio") /\ player' = [player EXCEPT ![c] = Pushed(@, x)]
    BY <1>17 DEF OnAudio
  <2>2. x \in Chunk /\ ended[x.turn] = "no" /\ \A y \in Held(player[c]) : Before(y, x)
    <3>1. /\ down[c] \in Seq(ToPage) /\ down[c] # <<>> /\ Head(down[c]).kind = "audio"
          /\ WireInv(down[c], srv[c], ended) /\ After(Held(player[c]), down[c], srv[c])
      BY <1>7, <2>1
    <3>2. x = Id(Head(down[c]))
      BY DEF Id
    <3> HIDE DEF x
    <3> DEFINE d == down[c]  v == srv[c]  H == Held(player[c])
    <3> HIDE DEF d, v, H
    <3>3. /\ d \in Seq(ToPage) /\ d # <<>> /\ Head(d).kind = "audio"
          /\ WireInv(d, v, ended) /\ After(H, d, v) /\ x = Id(Head(d))
      BY <3>1, <3>2 DEF d, v, H
    <3>4. x \in Chunk /\ ended[x.turn] = "no" /\ \A y \in H : Before(y, x)
      BY <3>3, ChunkTaken
    <3> QED BY <3>4 DEF H
  <2>3. player[c] \in APlayer
    BY DEF TypeOK
  <2> HIDE DEF x
  <2>4. Pushed(player[c], x) \in APlayer
    BY <1>7, <2>1, <2>2, <2>3, PushedInv
  <2>5. player' \in [Conn -> APlayer]
    BY <2>1, <2>4 DEF TypeOK
  <2> QED BY <1>7, <1>17, <2>1, <2>5 DEF TypeOK, OnAudio
<1>18. ASSUME NEW c \in Conn, OnAssistantDone(c) PROVE TypeOK'
  <2>1. Gets(c, "assistant_done")
    BY <1>18 DEF OnAssistantDone
  <2>2. TurnFinished(player[c]) \in APlayer
    <3>1. Head(down[c]).turn \in Turn /\ player[c] \in APlayer
          /\ ended \in [Turn -> {"no", "done", "interrupted"}]
      BY <1>7, <2>1, EndTaken DEF TypeOK
    <3> QED BY <1>7, <2>1, <3>1, TurnFinishedInv
  <2>3. player' \in [Conn -> APlayer] /\ ended' \in [Turn -> {"no", "done", "interrupted"}]
    BY <1>18, <2>2 DEF TypeOK, OnAssistantDone
  <2> QED BY <1>7, <1>18, <2>1, <2>3 DEF TypeOK, OnAssistantDone
<1>19. ASSUME NEW c \in Conn, OnInterrupted(c) PROVE TypeOK'
  <2>1. Gets(c, "interrupted")
    BY <1>19 DEF OnInterrupted
  <2>2. Silent(player[c]) \in APlayer
    BY SilentIs DEF TypeOK
  <2>3. player' \in [Conn -> APlayer] /\ ended' \in [Turn -> {"no", "done", "interrupted"}]
    BY <1>19, <2>2 DEF TypeOK, OnInterrupted
  <2> QED BY <1>7, <1>19, <2>1, <2>3 DEF TypeOK, OnInterrupted
<1>20. ASSUME NEW c \in Conn, OnError(c) PROVE TypeOK'
  BY <1>7, <1>20 DEF TypeOK, OnError
<1>21. ASSUME NEW c \in Conn, MicGranted(c) PROVE TypeOK'
  BY <1>21 DEF TypeOK, MicGranted
<1>22. ASSUME NEW c \in Conn, MicStarted(c) PROVE TypeOK'
  BY <1>6, <1>22 DEF TypeOK, MicStarted
<1>23. ASSUME NEW c \in Conn, MicFails(c) PROVE TypeOK'
  <2>1. CASE wsRef = c
    BY <1>2, <1>6, <1>23, <2>1, NewPlayers DEF TypeOK, MicFails, Idle
  <2>2. CASE wsRef # c
    BY <1>23, <2>2 DEF TypeOK, MicFails
  <2> QED BY <2>1, <2>2
<1>24. ASSUME NEW c \in Conn, Tick(c) PROVE TypeOK'
  <2>1. PlayerInv(player[c], ended) /\ player[c] \in APlayer
    BY Zenon DEF TypeOK, PlayInv, Plays
  <2>2. Later(player[c]) \in APlayer
    BY <2>1, LaterInv
  <2>3. player' \in [Conn -> APlayer]
    BY <1>24, <2>2 DEF TypeOK, Tick
  <2> QED BY <1>24, <2>3 DEF TypeOK, Tick
<1>25. ASSUME NEW c \in Conn, SourceEnds(c) PROVE TypeOK'
  <2>1. PlayerInv(player[c], ended)
    BY DEF PlayInv, Plays
  <2>2. PlayedOne(player[c]) \in APlayer
    BY <1>25, <2>1, PlayedOneInv DEF TypeOK, SourceEnds
  <2>3. player' \in [Conn -> APlayer]
    BY <1>25, <2>2 DEF TypeOK, SourceEnds
  <2> QED BY <1>25, <2>3 DEF TypeOK, SourceEnds
<1>26. ASSUME NEW c \in Conn, Server(c) PROVE TypeOK'
  <2>1. srv[c] \in AServer /\ srv[c].turn \in 0 .. Turns /\ srv[c].k \in 0 .. Chunks
    BY DEF TypeOK, AServer
  <2>2. \A p \in {"listening", "responding", "over"} : Now(c, p) \in AServer
    BY <2>1 DEF Now, AServer
  <2>3. up \in [Conn -> Seq({"cancel_response"})]
    BY DEF TypeOK
  <2>4. \A kind \in {"assistant_done", "interrupted", "error"} :
          <<Frame(kind, srv[c].turn, 0), Plain("listening")>> \in Seq(ToPage)
    BY <2>1, FrameTypes
  <2>5. ASSUME NEW kind \in {"assistant_done", "interrupted", "error"}, Concludes(c, kind),
               up' \in [Conn -> Seq({"cancel_response"})]
        PROVE  TypeOK'
    <3>1. <<Frame(kind, srv[c].turn, 0), Plain("listening")>> \in Seq(ToPage)
      BY <2>4
    <3> QED BY <2>2, <2>5, <3>1, ServerTypes DEF Concludes
  <2>6. CASE SessionReady(c)
    <3>1. <<Plain("ready"), Plain("listening")>> \in Seq(ToPage)
      BY FrameTypes
    <3> QED BY <2>2, <2>3, <2>6, <3>1, ServerTypes DEF SessionReady
  <2>7. CASE TurnBegins(c)
    <3>1. <<Plain("thinking")>> \in Seq(ToPage)
      BY FrameTypes
    <3>2. [pc |-> "thinking", turn |-> srv[c].turn + 1, k |-> 0] \in AServer
      BY <2>1, <2>7, Constants DEF TurnBegins, AServer
    <3> QED BY <2>3, <2>7, <3>1, <3>2, ServerTypes DEF TurnBegins
  <2>8. CASE Responds(c)
    <3>1. <<Plain("responding")>> \in Seq(ToPage)
      BY FrameTypes
    <3> QED BY <2>2, <2>3, <2>8, <3>1, ServerTypes DEF Responds
  <2>9. CASE Speaks(c)
    <3>1. srv[c].k + 1 \in 0 .. Chunks
      BY <2>1, <2>9, Constants DEF Speaks
    <3>2. <<Frame("audio", srv[c].turn, srv[c].k + 1)>> \in Seq(ToPage)
      BY <2>1, <3>1, FrameTypes
    <3>3. [srv[c] EXCEPT !.k = @ + 1] \in AServer
      BY <2>1, <3>1 DEF AServer
    <3> QED BY <2>3, <2>9, <3>2, <3>3, ServerTypes DEF Speaks
  <2>10. CASE TurnEnds(c)
    BY <2>3, <2>5, <2>10 DEF TurnEnds
  <2>11. CASE HearsStop(c)
    <3>1. up' \in [Conn -> Seq({"cancel_response"})]
      <4>1. Tail(up[c]) \in Seq({"cancel_response"})
        BY <2>3, <2>11 DEF HearsStop
      <4> QED BY <2>3, <2>11, <4>1 DEF HearsStop
    <3>2. CASE Concludes(c, "interrupted")
      BY <2>5, <3>1, <3>2
    <3>3. CASE Serves(c, srv[c], <<>>)
      <4>1. <<>> \in Seq(ToPage)
        OBVIOUS
      <4> QED BY <2>1, <3>1, <3>3, <4>1, ServerTypes
    <3> QED BY <2>11, <3>2, <3>3 DEF HearsStop
  <2>12. CASE GivesUp(c)
    <3>1. <<Plain("error"), Plain("close")>> \in Seq(ToPage)
      BY FrameTypes
    <3> QED BY <2>2, <2>3, <2>12, <3>1, ServerTypes DEF GivesUp
  <2> QED BY <1>26, <2>6, <2>7, <2>8, <2>9, <2>10, <2>11, <2>12 DEF Server
<1>27. CASE Buttons
  BY <1>8, <1>9, <1>10, <1>11, <1>27 DEF Buttons
<1>28. ASSUME NEW c \in Conn, Socket(c) PROVE TypeOK'
  BY <1>12, <1>13, <1>14, <1>15, <1>16, <1>17, <1>18, <1>19, <1>20, <1>28
     DEF Socket, Deliver, Closed, ConnectionLost
<1>29. ASSUME NEW c \in Conn, Devices(c) PROVE TypeOK'
  BY <1>21, <1>22, <1>23, <1>24, <1>25, <1>29 DEF Devices
<1> QED BY <1>1, <1>26, <1>27, <1>28, <1>29 DEF Next

-----------------------------------------------------------------------------
(***************************************************************************)
(* Microphones and players.                                                *)
(***************************************************************************)

OwnedNow(c) == Owned(c, wsRef, recRef, last, player[c], sock[c], rec[c], down[c], up[c], srv[c])

(* A session that has nothing left but a microphone that may yet be granted. *)
LEMMA OwnsNothing ==
  ASSUME NEW c \in Conn, NEW w, NEW r, NEW n \in Nat, NEW s, NEW m, NEW d, NEW u, NEW v,
         w # c, ~Live(s), d = <<>>, u = <<>>, v = NoServer, c > n => s = "none" /\ m = "none",
         m # "on"
  PROVE  Owned(c, w, r, n, NoPlayer, s, m, d, u, v)
<1>1. ~NoPlayer.alive
  BY DEF NoPlayer, NewPlayer
<1> QED BY <1>1, Zenon DEF Owned

LEMMA Started ==
  ASSUME TypeOK, SessionInv, Start
  PROVE  SessionInv'
<1>1. wsRef = 0 /\ last + 1 \in Conn /\ last \in Nat /\ recRef = 0
  <2>1. last \in 0 .. Starts /\ last < Starts
    BY DEF TypeOK, Start
  <2>2. last \in Nat /\ last + 1 <= Starts
    BY <2>1, Constants
  <2>3. last + 1 \in Conn
    BY <2>2, Constants
  <2>4. wsRef = 0 /\ recRef = 0
    BY DEF SessionInv, Start
  <2> QED BY <2>2, <2>3, <2>4
<1>2. NewPlayer.alive /\ last + 1 # 0 /\ last + 1 > last /\ ~(last + 1 > last + 1)
  BY <1>1 DEF NewPlayer
<1> DEFINE n == last + 1
<1>3. /\ page' = "connecting" /\ wsRef' = n /\ last' = n /\ recRef' = recRef
      /\ player' = [player EXCEPT ![n] = NewPlayer] /\ sock' = [sock EXCEPT ![n] = "connecting"]
      /\ rec' = rec /\ down' = down /\ up' = up /\ srv' = srv
  BY DEF Start, wires
<1> HIDE DEF n
<1>4. ASSUME NEW c \in Conn PROVE OwnedNow(c)'
  <2>1. OwnedNow(c)
    BY DEF SessionInv, OwnedNow
  <2>2. c # 0 /\ c \in Nat
    BY Constants
  <2>3. CASE c = n
    <3>1. /\ sock[c] = "none" /\ rec[c] = "none" /\ sock[c] # "open"
      BY <1>2, <2>1, <2>3 DEF OwnedNow, Owned, n
    <3>2. down[c] = <<>> /\ up[c] = <<>> /\ srv[c] = NoServer
      BY <2>1, <3>1 DEF OwnedNow, Owned
    <3>3. player'[c] = NewPlayer /\ sock'[c] = "connecting"
      BY <1>3, <2>3 DEF TypeOK
    <3> QED BY <1>2, <1>3, <2>3, <3>1, <3>2, <3>3 DEF OwnedNow, Owned, Live, n
  <2>4. CASE c # n
    <3>1. player[c] = NoPlayer /\ ~Live(sock[c]) /\ sock[c] # "open"
      BY <1>1, <2>1, <2>2 DEF OwnedNow, Owned, Live
    <3>2. /\ player'[c] = player[c] /\ sock'[c] = sock[c]
          /\ down[c] = <<>> /\ up[c] = <<>> /\ srv[c] = NoServer
      BY <1>3, <2>1, <2>4, <3>1 DEF TypeOK, OwnedNow, Owned
    <3>3. c > n => c > last
      BY <1>1, <2>2 DEF n
    <3>4. rec[c] # "on" /\ (c > n => sock[c] = "none" /\ rec[c] = "none")
      BY <1>1, <2>1, <2>2, <3>3 DEF OwnedNow, Owned
    <3>5. n \in Nat
      BY <1>1 DEF n
    <3>6. Owned(c, n, recRef, n, NoPlayer, sock[c], rec[c], down[c], up[c], srv[c])
      BY <2>4, <3>1, <3>2, <3>4, <3>5, OwnsNothing
    <3> QED BY <1>3, <3>1, <3>2, <3>6 DEF OwnedNow
  <2> QED BY <2>3, <2>4
<1> QED BY <1>2, <1>3, <1>4 DEF SessionInv, OwnedNow, n

(* A session is stopped, together with the page's hold of it. *)
LEMMA SessionLetGo ==
  ASSUME TypeOK, SessionInv, LetGo, NEW w \in Conn,
         \A c \in Conn \ {w} : wsRef # c,
         last' = last, sock' \in [Conn -> {"none", "connecting", "open", "closing", "closed"}],
         \A c \in Conn \ {w} : /\ sock'[c] = sock[c] /\ down'[c] = down[c] /\ up'[c] = up[c]
                               /\ srv'[c] = srv[c],
         ~Live(sock'[w]), sock[w] = "none" => sock'[w] = "none",
         down'[w] = <<>>, up'[w] = <<>>, srv'[w] = NoServer
  PROVE  \A c \in Conn : OwnedNow(c)'
<1> SUFFICES ASSUME NEW c \in Conn PROVE OwnedNow(c)'
  OBVIOUS
<1>1. OwnedNow(c) /\ c # 0 /\ c \in Nat /\ last \in Nat
  <2>1. last \in 0 .. Starts
    BY DEF TypeOK
  <2>2. last \in Nat /\ c # 0 /\ c \in Nat
    BY <2>1, Constants
  <2> QED BY <2>2 DEF SessionInv, OwnedNow
<1>2. wsRef' = 0 /\ player'[c] = NoPlayer
  BY <1>1 DEF LetGo, OwnedNow, Owned, TypeOK
<1>3. rec'[c] # "on" /\ (rec[c] = "none" => rec'[c] = "none" \/ recRef = c)
  <2>1. rec[c] = "on" => recRef = c /\ recRef # 0
    BY <1>1 DEF OwnedNow, Owned
  <2>2. CASE recRef = 0
    BY <2>1, <2>2 DEF LetGo, Stopped
  <2>3. CASE recRef # 0
    BY <2>1, <2>3 DEF LetGo, Stopped, TypeOK
  <2> QED BY <2>2, <2>3
<1>4. ~Live(sock'[c]) /\ down'[c] = <<>> /\ up'[c] = <<>> /\ srv'[c] = NoServer
  <2>1. CASE c = w
    BY <2>1
  <2>2. CASE c # w
    <3>1. ~Live(sock[c]) /\ sock[c] # "open"
      BY <1>1, <2>2 DEF OwnedNow, Owned, Live
    <3> QED BY <1>1, <2>2, <3>1 DEF OwnedNow, Owned
  <2> QED BY <2>1, <2>2
<1>5. c > last => sock'[c] = "none" /\ rec'[c] = "none"
  <2> SUFFICES ASSUME c > last PROVE sock'[c] = "none" /\ rec'[c] = "none"
    OBVIOUS
  <2>1. sock[c] = "none" /\ rec[c] = "none"
    BY <1>1 DEF OwnedNow, Owned
  <2>2. recRef # c
    <3>1. recRef \in 0 .. last
      BY DEF TypeOK
    <3> QED BY <1>1, <3>1
  <2> QED BY <1>3, <2>1, <2>2
<1>6. Owned(c, 0, recRef', last, NoPlayer, sock'[c], rec'[c], down'[c], up'[c], srv'[c])
  BY <1>1, <1>3, <1>4, <1>5, OwnsNothing
<1> QED BY <1>2, <1>6 DEF OwnedNow

(* Every session but one stays as it is. *)
LEMMA OthersOwn ==
  ASSUME TypeOK, SessionInv, NEW c \in Conn,
         wsRef' = wsRef, last' = last, recRef' = recRef \/ (recRef = c \/ wsRef = c),
         \A d \in Conn \ {c} : /\ player'[d] = player[d] /\ sock'[d] = sock[d] /\ rec'[d] = rec[d]
                               /\ down'[d] = down[d] /\ up'[d] = up[d] /\ srv'[d] = srv[d]
  PROVE  \A d \in Conn \ {c} : OwnedNow(d)'
<1> SUFFICES ASSUME NEW d \in Conn \ {c} PROVE OwnedNow(d)'
  OBVIOUS
<1>1. OwnedNow(d)
  BY DEF SessionInv, OwnedNow
<1>2. Owned(d, wsRef, recRef', last, player[d], sock[d], rec[d], down[d], up[d], srv[d])
  BY <1>1, Zenon DEF OwnedNow, Owned
<1> QED BY <1>2 DEF OwnedNow

-----------------------------------------------------------------------------
(***************************************************************************)
(* What becomes of a player and of the frames on their way to it.          *)
(***************************************************************************)

LEMMA GetsIs ==
  ASSUME TypeOK, SessionInv, PlayInv, NEW c \in Conn, NEW kind, Gets(c, kind)
  PROVE  /\ down[c] \in Seq(ToPage) /\ down[c] # <<>> /\ Head(down[c]).kind = kind
         /\ down'[c] = Tail(down[c]) /\ sock[c] = "open"
         /\ player[c] \in APlayer /\ srv[c] \in AServer
         /\ ended \in [Turn -> {"no", "done", "interrupted"}]
         /\ WireInv(down[c], srv[c], ended) /\ After(Held(player[c]), down[c], srv[c])
         /\ PlayerInv(player[c], ended)
<1>1. /\ down[c] \in Seq(ToPage) /\ down[c] # <<>> /\ sock[c] = "open" /\ Head(down[c]).kind = kind
      /\ down'[c] = Tail(down[c])
  BY DEF TypeOK, Gets
<1>2. /\ player[c] \in APlayer /\ srv[c] \in AServer
      /\ ended \in [Turn -> {"no", "done", "interrupted"}]
  BY DEF TypeOK
<1>3. /\ WireInv(down[c], srv[c], ended) /\ After(Held(player[c]), down[c], srv[c])
      /\ PlayerInv(player[c], ended)
  BY <1>1, Zenon DEF PlayInv, Plays, Live
<1> QED BY <1>1, <1>2, <1>3

(* What a player still holds came before, if it held it already. *)
LEMMA AfterLess ==
  ASSUME NEW H, NEW G, NEW d, NEW v, After(H, d, v), G \subseteq H
  PROVE  After(G, d, v)
BY DEF After

LEMMA AudioHeard ==
  ASSUME TypeOK, SessionInv, PlayInv, NEW c \in Conn, OnAudio(c)
  PROVE  /\ player'[c].alive = player[c].alive
         /\ Plays(player'[c], sock'[c], down'[c], srv'[c], ended')
<1> DEFINE p == player[c]  d == down[c]  v == srv[c]
           x == Id(Head(d))
           r == Pushed(p, x)
<1>1. Gets(c, "audio") /\ sock' = sock /\ srv' = srv /\ ended' = ended
  BY DEF OnAudio
<1>2. player'[c] = r
  BY DEF OnAudio, TypeOK, Id
<1>3. /\ d \in Seq(ToPage) /\ d # <<>> /\ Head(d).kind = "audio" /\ down'[c] = Tail(d)
      /\ p \in APlayer /\ WireInv(d, v, ended) /\ After(Held(p), d, v) /\ PlayerInv(p, ended)
  BY <1>1, GetsIs
<1> DEFINE H == Held(p)
<1> HIDE DEF d, v, p, x, H
<1>4. x \in Chunk /\ ended[x.turn] = "no" /\ (\A y \in H : Before(y, x))
      /\ After(H \cup {Id(x)}, Tail(d), v)
  BY <1>3, ChunkTaken DEF x, H
<1>5. /\ r.alive = p.alive /\ PlayerInv(r, ended) /\ Held(r) \subseteq H \cup {Id(x)}
  BY <1>3, <1>4, PushedInv DEF H
<1> HIDE DEF r
<1>6. WireInv(Tail(d), v, ended)
  BY <1>3, Taken
<1>7. After(Held(r), Tail(d), v)
  BY <1>4, <1>5, AfterLess
<1> QED BY <1>1, <1>2, <1>3, <1>5, <1>6, <1>7 DEF Plays, d, v, p

LEMMA TurnHeard ==
  ASSUME TypeOK, SessionInv, PlayInv, NEW c \in Conn, OnAssistantDone(c) \/ OnInterrupted(c)
  PROVE  /\ player'[c].alive = player[c].alive
         /\ Plays(player'[c], sock'[c], down'[c], srv'[c], ended')
<1> DEFINE p == player[c]  d == down[c]  v == srv[c]  t == Head(down[c]).turn  H == Held(player[c])
<1>1. PICK kind \in {"assistant_done", "interrupted"} : Gets(c, kind)
  BY DEF OnAssistantDone, OnInterrupted
<1>2. /\ d \in Seq(ToPage) /\ d # <<>> /\ Head(d).kind \in {"assistant_done", "interrupted"}
      /\ down'[c] = Tail(d) /\ p \in APlayer /\ v \in AServer
      /\ ended \in [Turn -> {"no", "done", "interrupted"}]
      /\ WireInv(d, v, ended) /\ After(H, d, v) /\ PlayerInv(p, ended)
  BY <1>1, GetsIs
<1>3. sock' = sock /\ srv' = srv
  BY DEF OnAssistantDone, OnInterrupted
<1>4. \/ player'[c] = TurnFinished(p) /\ ended' = [ended EXCEPT ![t] = "done"]
      \/ player'[c] = Silent(p) /\ ended' = [ended EXCEPT ![t] = "interrupted"]
  BY DEF OnAssistantDone, OnInterrupted, TypeOK
<1> HIDE DEF p, d, v, H
<1>5. /\ t \in Turn
      /\ \A y : WireInv(Tail(d), v, [ended EXCEPT ![t] = y]) /\ After(H, Tail(d), v)
  BY <1>2, EndTaken DEF d
<1> HIDE DEF t
<1>6. WireInv(Tail(d), v, ended') /\ After(H, Tail(d), v)
  BY <1>4, <1>5
<1>7. /\ player'[c].alive = p.alive /\ PlayerInv(player'[c], ended')
      /\ Held(player'[c]) \subseteq H
  <2>1. CASE player'[c] = TurnFinished(p) /\ ended' = [ended EXCEPT ![t] = "done"]
    <3> DEFINE r == TurnFinished(p)  g == [ended EXCEPT ![t] = "done"]
    <3>1. r.alive = p.alive /\ PlayerInv(r, g) /\ Held(r) \subseteq Held(p)
      BY <1>2, <1>5, TurnFinishedInv
    <3> HIDE DEF r, g
    <3>2. player'[c] = r /\ ended' = g /\ H = Held(p)
      BY <2>1 DEF r, g, H, p
    <3> QED BY <3>1, <3>2
  <2>2. CASE player'[c] = Silent(p) /\ ended' = [ended EXCEPT ![t] = "interrupted"]
    BY <1>2, <2>2, SilentIs
  <2> QED BY <1>4, <2>1, <2>2
<1>8. After(Held(player'[c]), Tail(d), v)
  BY <1>6, <1>7, AfterLess
<1> QED BY <1>2, <1>3, <1>6, <1>7, <1>8 DEF Plays, p, d, v

(* A frame that changes nothing that is heard. *)
LEMMA FrameSeen ==
  ASSUME TypeOK, SessionInv, PlayInv, NEW c \in Conn, OnReady(c) \/ OnState(c) \/ OnError(c)
  PROVE  Plays(player'[c], sock'[c], down'[c], srv'[c], ended')
<1>1. PICK kind : Gets(c, kind)
  BY DEF OnReady, OnState, OnError
<1>2. /\ down[c] \in Seq(ToPage) /\ down[c] # <<>> /\ down'[c] = Tail(down[c])
      /\ WireInv(down[c], srv[c], ended) /\ After(Held(player[c]), down[c], srv[c])
      /\ PlayerInv(player[c], ended)
  BY <1>1, GetsIs
<1>3. UNCHANGED <<player, srv, ended>>
  BY DEF OnReady, OnState, OnError
<1>4. WireInv(Tail(down[c]), srv[c], ended) /\ After(Held(player[c]), Tail(down[c]), srv[c])
  BY <1>2, Taken
<1> QED BY <1>2, <1>3, <1>4 DEF Plays

(* Time passes, or a source ends. *)
LEMMA PlayerGoesOn ==
  ASSUME TypeOK, PlayInv, NEW c \in Conn, Tick(c) \/ SourceEnds(c)
  PROVE  /\ player'[c].alive = player[c].alive
         /\ Plays(player'[c], sock'[c], down'[c], srv'[c], ended')
<1>1. /\ sock' = sock /\ down' = down /\ srv' = srv /\ ended' = ended
  BY DEF Tick, SourceEnds, wires
<1>2. \/ player'[c] = Later(player[c])
      \/ player'[c] = PlayedOne(player[c]) /\ player[c].sources # <<>>
  BY DEF Tick, SourceEnds, TypeOK
<1>3. player[c] \in APlayer /\ Plays(player[c], sock[c], down[c], srv[c], ended)
  BY DEF TypeOK, PlayInv
<1>4. PlayerInv(player[c], ended)
  BY <1>3 DEF Plays
<1>5. /\ player'[c].alive = player[c].alive /\ PlayerInv(player'[c], ended)
      /\ Held(player'[c]) \subseteq Held(player[c])
  BY <1>2, <1>3, <1>4, LaterInv, PlayedOneInv
<1>6. ASSUME NEW d, NEW v, After(Held(player[c]), d, v) PROVE After(Held(player'[c]), d, v)
  BY <1>5, <1>6, AfterLess
<1> QED BY <1>1, <1>3, <1>5, <1>6 DEF Plays

LEMMA SessionStep ==
  ASSUME TypeOK, SessionInv, PlayInv, [Next]_vars
  PROVE  SessionInv'
<1> USE DEF held, ui, wires
<1> DEFINE Page == /\ page \in {"idle", "gone"} => wsRef = 0 /\ recRef = 0 /\ turnState = "" /\ ~stopping
                   /\ page \in {"connecting", "connected"} => wsRef # 0
<1>1. SessionInv' <=> Page' /\ \A c \in Conn : OwnedNow(c)'
  BY DEF SessionInv, OwnedNow
<1>2. SessionInv <=> Page /\ \A c \in Conn : OwnedNow(c)
  BY DEF SessionInv, OwnedNow
<1>3. Page /\ \A c \in Conn : OwnedNow(c)
  BY <1>2
<1>4. UNCHANGED <<held, ui>> => Page'
  <2> SUFFICES ASSUME UNCHANGED <<held, ui>> PROVE Page'
    OBVIOUS
  <2>1. /\ page' = page /\ wsRef' = wsRef /\ recRef' = recRef /\ turnState' = turnState
        /\ stopping' = stopping
    OBVIOUS
  <2>2. Page
    BY <1>3
  <2>3. Page' <=> Page
    BY <2>1 DEF Page
  <2> QED BY <2>2, <2>3
<1>5. ASSUME LetGo, Idle PROVE Page'
  BY <1>5 DEF LetGo, Idle
<1> HIDE DEF Page
<1>6. ASSUME NEW c \in Conn, Close(c)
      PROVE  /\ sock' \in [Conn -> {"none", "connecting", "open", "closing", "closed"}]
             /\ \A d \in Conn \ {c} : /\ sock'[d] = sock[d] /\ down'[d] = down[d] /\ up'[d] = up[d]
                                      /\ srv'[d] = srv[d]
             /\ ~Live(sock'[c]) /\ (sock[c] = "none" => sock'[c] = "none")
             /\ sock'[c] # "open" /\ down'[c] = <<>> /\ up'[c] = <<>> /\ srv'[c] = NoServer
  <2>1. sock' \in [Conn -> {"none", "connecting", "open", "closing", "closed"}]
    BY <1>6 DEF Close, TypeOK
  <2>2. \A d \in Conn \ {c} : sock'[d] = sock[d]
    BY <1>6 DEF Close, TypeOK
  <2>3. ~Live(sock'[c]) /\ (sock[c] = "none" => sock'[c] = "none") /\ sock'[c] # "open"
    BY <1>6 DEF Close, TypeOK, Live
  <2>4. /\ \A d \in Conn \ {c} : down'[d] = down[d] /\ up'[d] = up[d] /\ srv'[d] = srv[d]
        /\ down'[c] = <<>> /\ up'[c] = <<>> /\ srv'[c] = NoServer
    BY <1>6 DEF Close, Unseen, TypeOK
  <2> QED BY <2>1, <2>2, <2>3, <2>4
<1>7. page \in {"connecting", "connected"} => wsRef \in Conn
  <2>1. wsRef \in 0 .. last /\ last \in 0 .. Starts
    BY DEF TypeOK
  <2>2. wsRef # 0 => wsRef \in Conn
    BY <2>1, Constants DEF Conn
  <2> QED BY <1>3, <2>2 DEF Page
<1>8. CASE UNCHANGED vars
  BY <1>8 DEF vars, SessionInv
<1>9. CASE StopPressed
  <2>1. Close(wsRef) /\ LetGo /\ Idle /\ last' = last /\ wsRef \in Conn
    BY <1>7, <1>9 DEF StopPressed, Stop
  <2>2. \A c \in Conn : OwnedNow(c)'
    BY <1>6, <2>1, SessionLetGo
  <2> QED BY <1>1, <1>5, <2>1, <2>2
<1>10. CASE Teardown
  <2>1. CASE wsRef = 0
    <3>1. UNCHANGED <<wsRef, recRef, last, rec, player, sock, down, up, srv>>
      BY <1>10, <2>1 DEF Teardown
    <3>2. \A c \in Conn : OwnedNow(c)'
      BY <1>3, <3>1 DEF OwnedNow
    <3>3. recRef = 0
      <4>1. page \in {"idle", "connecting", "connected", "gone"}
        BY DEF TypeOK
      <4> QED BY <1>3, <2>1, <4>1 DEF Page
    <3>4. Page'
      BY <1>10, <2>1, <3>1, <3>3 DEF Page, Teardown
    <3> QED BY <1>1, <3>2, <3>4
  <2>2. CASE wsRef # 0
    <3>1. wsRef \in Conn
      <4>1. wsRef \in 0 .. last /\ last \in 0 .. Starts
        BY DEF TypeOK
      <4> QED BY <2>2, <4>1, Constants DEF Conn
    <3>2. LetGo /\ Close(wsRef) /\ last' = last
      BY <1>10, <2>2 DEF Teardown
    <3>3. \A c \in Conn : OwnedNow(c)'
      BY <1>6, <3>1, <3>2, SessionLetGo
    <3>4. Page'
      BY <1>10, <3>2 DEF Page, Teardown, LetGo
    <3> QED BY <1>1, <3>3, <3>4
  <2> QED BY <2>1, <2>2
<1>11. CASE StopResponse
  <2> PICK w \in Conn : w = wsRef
    BY <1>7, <1>11 DEF StopResponse
  <2>1. w \in Conn /\ w = wsRef /\ sock[w] = "open" /\ page = "connected" /\ page' = page
        /\ UNCHANGED <<wsRef, recRef, last, sock, rec, down, srv>>
    BY <1>7, <1>11 DEF StopResponse
  <2>2. /\ player'[w].alive = player[w].alive
        /\ \A d \in Conn \ {w} : player'[d] = player[d] /\ up'[d] = up[d]
    <3>1. Silent(player[w]).alive = player[w].alive
      BY <2>1, SilentIs DEF TypeOK
    <3>2. player'[w] = Silent(player[w]) /\ \A d \in Conn \ {w} : player'[d] = player[d]
      BY <1>11, <2>1 DEF StopResponse, TypeOK
    <3>3. \A d \in Conn \ {w} : up'[d] = up[d]
      BY <1>11, <2>1 DEF StopResponse, TypeOK
    <3> QED BY <3>1, <3>2, <3>3
  <2>3. OwnedNow(w)'
    BY <1>3, <2>1, <2>2 DEF OwnedNow, Owned
  <2>4. \A d \in Conn \ {w} : OwnedNow(d)'
    BY <2>1, <2>2, OthersOwn
  <2>5. Page'
    BY <1>3, <2>1 DEF Page
  <2> QED BY <1>1, <2>3, <2>4, <2>5
<1> DEFINE Same(d) == /\ player'[d] = player[d] /\ sock'[d] = sock[d] /\ rec'[d] = rec[d]
                      /\ down'[d] = down[d] /\ up'[d] = up[d] /\ srv'[d] = srv[d]
<1>12. ASSUME NEW c \in Conn, wsRef' = wsRef, last' = last,
              recRef' = recRef \/ (recRef = c \/ wsRef = c),
              \A d \in Conn \ {c} : Same(d), OwnedNow(c)', Page'
       PROVE  SessionInv'
  BY <1>1, <1>12, OthersOwn
<1> HIDE DEF Same
<1>13. ASSUME NEW c \in Conn, Opens(c) PROVE SessionInv'
  <2>1. /\ sock[c] = "connecting" /\ sock'[c] = "open" /\ \A d \in Conn \ {c} : Same(d)
        /\ UNCHANGED <<held, ui, last>> /\ player'[c] = player[c] /\ rec'[c] = rec[c]
    BY <1>13 DEF Opens, TypeOK, Same
  <2>2. OwnedNow(c)'
    BY <1>3, <2>1 DEF OwnedNow, Owned, Live
  <2> QED BY <1>4, <1>12, <2>1, <2>2
<1>14. ASSUME NEW c \in Conn, ConnectTimeout(c) \/ OnClosing(c) PROVE SessionInv'
  <2>1. Close(c) /\ UNCHANGED <<held, ui, last, rec, player>> /\ Live(sock[c])
    BY <1>14 DEF ConnectTimeout, OnClosing, Live
  <2>2. \A d \in Conn \ {c} : Same(d)
    BY <1>6, <2>1 DEF Same
  <2>3. sock'[c] # "none" => ~(c > last)
    BY <1>3, <2>1 DEF OwnedNow, Owned, Live
  <2>4. OwnedNow(c)'
    <3>1. c > last => sock'[c] = "none"
      BY <2>3
    <3> QED BY <1>3, <1>6, <2>1, <3>1, Zenon DEF OwnedNow, Owned
  <2> QED BY <1>4, <1>12, <2>1, <2>2, <2>4
<1>15. ASSUME NEW c \in Conn, Over(c), sock[c] # "none" PROVE SessionInv'
  <2>1. /\ sock'[c] = "closed" /\ down'[c] = <<>> /\ up'[c] = <<>> /\ srv'[c] = NoServer
        /\ sock' \in [Conn -> {"none", "connecting", "open", "closing", "closed"}]
        /\ \A d \in Conn \ {c} : /\ sock'[d] = sock[d] /\ down'[d] = down[d] /\ up'[d] = up[d]
                                 /\ srv'[d] = srv[d]
        /\ last' = last
    BY <1>15 DEF Over, Unseen, TypeOK
  <2>2. CASE wsRef = c
    <3>1. LetGo /\ Idle
      BY <1>15, <2>2 DEF Over
    <3>2. \A d \in Conn \ {c} : wsRef # d
      BY <2>2
    <3>3. \A d \in Conn : OwnedNow(d)'
      BY <1>15, <2>1, <3>1, <3>2, SessionLetGo DEF Live
    <3> QED BY <1>1, <1>5, <3>1, <3>3
  <2>3. CASE wsRef # c
    <3>1. UNCHANGED <<held, ui, rec, player>>
      BY <1>15, <2>3 DEF Over
    <3>2. \A d \in Conn \ {c} : Same(d)
      BY <2>1, <3>1 DEF Same
    <3>3. OwnedNow(c)'
      BY <1>3, <1>15, <2>1, <3>1 DEF OwnedNow, Owned, Live
    <3> QED BY <1>4, <1>12, <2>1, <3>1, <3>2, <3>3
  <2> QED BY <2>2, <2>3
<1>16. ASSUME NEW c \in Conn, NEW kind, Gets(c, kind)
       PROVE  /\ sock[c] = "open" /\ wsRef = c /\ ~(c > last)
              /\ \A d \in Conn \ {c} : down'[d] = down[d]
              /\ page \notin {"idle", "gone"}
  <2>1. sock[c] = "open" /\ wsRef = c /\ ~(c > last)
    BY <1>3, <1>16 DEF Gets, OwnedNow, Owned, Live
  <2>2. \A d \in Conn \ {c} : down'[d] = down[d]
    BY <1>16 DEF Gets, TypeOK
  <2>3. c # 0
    BY Constants
  <2> QED BY <1>3, <2>1, <2>2, <2>3 DEF Page
<1>17. ASSUME NEW c \in Conn, OnReady(c) PROVE SessionInv'
  <2>1. /\ sock[c] = "open" /\ wsRef = c /\ ~(c > last)
        /\ \A d \in Conn \ {c} : down'[d] = down[d]
    BY <1>16, <1>17 DEF OnReady
  <2>2. /\ page' = "connected" /\ recRef' = c /\ rec'[c] = "asked"
        /\ \A d \in Conn \ {c} : rec'[d] = rec[d]
        /\ UNCHANGED <<wsRef, turnState, stopping, last, sock, player, up, srv>>
    BY <1>17, <2>1 DEF OnReady, TypeOK
  <2>3. \A d \in Conn \ {c} : Same(d)
    BY <2>1, <2>2 DEF Same
  <2>4. OwnedNow(c)'
    BY <1>3, <2>1, <2>2 DEF OwnedNow, Owned, Live
  <2>5. Page'
    <3>1. c # 0
      BY Constants
    <3> QED BY <2>1, <2>2, <3>1 DEF Page
  <2> QED BY <1>12, <2>1, <2>2, <2>3, <2>4, <2>5
<1>18. ASSUME NEW c \in Conn, OnState(c) \/ OnError(c) PROVE SessionInv'
  <2>1. PICK kind : Gets(c, kind)
    BY <1>18 DEF OnState, OnError
  <2>2. UNCHANGED <<wsRef, recRef, page, last, sock, rec, player, up, srv>>
    BY <1>18 DEF OnState, OnError
  <2>3. /\ sock[c] = "open" /\ wsRef = c /\ \A d \in Conn \ {c} : Same(d)
        /\ page \notin {"idle", "gone"}
    BY <1>16, <2>1, <2>2 DEF Same
  <2>4. OwnedNow(c)'
    BY <1>3, <2>2, <2>3 DEF OwnedNow, Owned
  <2>5. Page'
    BY <1>3, <2>2, <2>3 DEF Page
  <2> QED BY <1>12, <2>2, <2>3, <2>4, <2>5
<1>19. ASSUME NEW c \in Conn, OnAudio(c) \/ OnAssistantDone(c) \/ OnInterrupted(c),
              player'[c].alive = player[c].alive
       PROVE  SessionInv'
  <2>1. PICK kind : Gets(c, kind)
    BY <1>19 DEF OnAudio, OnAssistantDone, OnInterrupted
  <2>2. UNCHANGED <<wsRef, recRef, page, last, sock, rec, up, srv>>
    BY <1>19 DEF OnAudio, OnAssistantDone, OnInterrupted
  <2>3. \A d \in Conn \ {c} : player'[d] = player[d]
    BY <1>19 DEF OnAudio, OnAssistantDone, OnInterrupted, TypeOK
  <2>4. /\ sock[c] = "open" /\ wsRef = c /\ \A d \in Conn \ {c} : Same(d)
        /\ page \notin {"idle", "gone"}
    BY <1>16, <2>1, <2>2, <2>3 DEF Same
  <2>5. OwnedNow(c)'
    BY <1>3, <1>19, <2>2, <2>4 DEF OwnedNow, Owned
  <2>6. Page'
    BY <1>3, <2>2, <2>4 DEF Page
  <2> QED BY <1>12, <2>2, <2>4, <2>5, <2>6
<1>20. ASSUME NEW c \in Conn, OnAudio(c) \/ OnAssistantDone(c) \/ OnInterrupted(c) PROVE SessionInv'
  BY <1>19, <1>20, AudioHeard, TurnHeard
<1>21. ASSUME NEW c \in Conn, MicGranted(c) PROVE SessionInv'
  <2>1. /\ rec[c] = "asked" /\ rec'[c] = "starting" /\ \A d \in Conn \ {c} : Same(d)
        /\ UNCHANGED <<held, ui, last, sock, player, wires, srv>>
    BY <1>21 DEF MicGranted, TypeOK, Same
  <2>2. OwnedNow(c)'
    BY <1>3, <2>1 DEF OwnedNow, Owned
  <2> QED BY <1>4, <1>12, <2>1, <2>2
<1>22. ASSUME NEW c \in Conn, MicStarted(c) PROVE SessionInv'
  <2>1. /\ rec[c] = "starting" /\ \A d \in Conn \ {c} : rec'[d] = rec[d]
        /\ UNCHANGED <<wsRef, ui, last, sock, player, wires, srv>>
    BY <1>22 DEF MicStarted, TypeOK
  <2>2. \A d \in Conn \ {c} : Same(d)
    BY <2>1 DEF Same
  <2>3. CASE Kept(c)
    <3>1. wsRef = c /\ sock[c] = "open" /\ recRef' = recRef /\ rec'[c] = "on"
      BY <1>22, <2>3 DEF MicStarted, Kept, TypeOK
    <3>2. OwnedNow(c)'
      BY <1>3, <2>1, <3>1 DEF OwnedNow, Owned
    <3>3. Page'
      BY <1>4, <2>1, <3>1
    <3> QED BY <1>12, <2>1, <2>2, <3>1, <3>2, <3>3
  <2>4. CASE ~Kept(c)
    <3>1. rec'[c] = "off" /\ (recRef' = recRef \/ (recRef = c /\ recRef' = 0))
      <4>1. rec' = [rec EXCEPT ![c] = "off"] /\ recRef' = IF recRef = c THEN 0 ELSE recRef
        BY <1>22, <2>4 DEF MicStarted
      <4>2. rec'[c] = "off"
        BY <4>1 DEF TypeOK
      <4>3. CASE recRef = c
        BY <4>1, <4>2, <4>3
      <4>4. CASE recRef # c
        BY <4>1, <4>2, <4>4
      <4> QED BY <4>3, <4>4
    <3>2. OwnedNow(c)'
      BY <1>3, <2>1, <3>1 DEF OwnedNow, Owned
    <3>3. Page'
      BY <1>3, <2>1, <3>1 DEF Page
    <3> QED BY <1>12, <2>1, <2>2, <3>1, <3>2, <3>3
  <2> QED BY <2>3, <2>4
<1>23. ASSUME NEW c \in Conn, MicFails(c) PROVE SessionInv'
  <2>1. rec[c] \in {"asked", "starting"} /\ last' = last
    BY <1>23 DEF MicFails
  <2>2. CASE wsRef = c
    <3>1. Close(c) /\ wsRef' = 0 /\ recRef' = 0 /\ Idle
          /\ rec'[c] = "off" /\ \A d \in Conn \ {c} : rec'[d] = rec[d]
      BY <1>23, <2>2 DEF MicFails, TypeOK
    <3>2. player'[c] = NoPlayer /\ \A d \in Conn \ {c} : player'[d] = player[d]
      BY <1>23, <2>2 DEF MicFails, TypeOK
    <3>3. Page'
      BY <3>1 DEF Page, Idle
    <3>4. ASSUME NEW d \in Conn PROVE OwnedNow(d)'
      <4>1. OwnedNow(d) /\ d # 0 /\ last \in Nat
        <5>1. last \in 0 .. Starts
          BY DEF TypeOK
        <5> QED BY <1>3, <5>1, Constants
      <4>2. player'[d] = NoPlayer /\ rec'[d] # "on"
        BY <2>2, <3>1, <3>2, <4>1 DEF OwnedNow, Owned
      <4>3. ~Live(sock'[d]) /\ down'[d] = <<>> /\ up'[d] = <<>> /\ srv'[d] = NoServer
        <5>1. CASE d = c
          BY <1>6, <3>1, <5>1
        <5>2. CASE d # c
          <6>1. ~Live(sock[d]) /\ sock[d] # "open"
            BY <2>2, <4>1, <5>2 DEF OwnedNow, Owned, Live
          <6> QED BY <1>6, <3>1, <4>1, <5>2, <6>1 DEF OwnedNow, Owned
        <5> QED BY <5>1, <5>2
      <4>4. d > last => sock'[d] = "none" /\ rec'[d] = "none"
        <5>1. CASE d = c
          BY <2>1, <4>1, <5>1 DEF OwnedNow, Owned
        <5>2. CASE d # c
          BY <1>6, <3>1, <4>1, <5>2 DEF OwnedNow, Owned
        <5> QED BY <5>1, <5>2
      <4>5. Owned(d, 0, 0, last, NoPlayer, sock'[d], rec'[d], down'[d], up'[d], srv'[d])
        BY <4>1, <4>2, <4>3, <4>4, OwnsNothing
      <4> QED BY <2>1, <3>1, <4>2, <4>5 DEF OwnedNow
    <3> QED BY <1>1, <3>3, <3>4
  <2>3. CASE wsRef # c
    <3>1. /\ rec'[c] \in {"off", "abandoned"} /\ \A d \in Conn \ {c} : rec'[d] = rec[d]
          /\ UNCHANGED <<held, ui, sock, wires, srv, player>>
      BY <1>23, <2>3 DEF MicFails, TypeOK
    <3>2. \A d \in Conn \ {c} : Same(d)
      BY <3>1 DEF Same
    <3>3. OwnedNow(c)'
      BY <1>3, <2>1, <3>1 DEF OwnedNow, Owned
    <3> QED BY <1>4, <1>12, <2>1, <3>1, <3>2, <3>3
  <2> QED BY <2>2, <2>3
<1>24. ASSUME NEW c \in Conn, Tick(c) \/ SourceEnds(c) PROVE SessionInv'
  <2>1. /\ UNCHANGED <<held, ui, last, sock, rec, wires, srv>>
        /\ \A d \in Conn \ {c} : player'[d] = player[d]
    BY <1>24 DEF Tick, SourceEnds, TypeOK
  <2>2. \A d \in Conn \ {c} : Same(d)
    BY <2>1 DEF Same
  <2>3. player'[c].alive = player[c].alive
    BY <1>24, PlayerGoesOn
  <2>4. wsRef = c
    <3>1. CASE Tick(c)
      BY <1>3, <3>1 DEF Tick, OwnedNow, Owned
    <3>2. CASE SourceEnds(c)
      <4>1. player[c] # NoPlayer
        BY <3>2 DEF SourceEnds, NoPlayer, NewPlayer
      <4> QED BY <1>3, <4>1 DEF OwnedNow, Owned
    <3> QED BY <1>24, <3>1, <3>2
  <2>5. OwnedNow(c)'
    BY <1>3, <2>1, <2>3, <2>4 DEF OwnedNow, Owned
  <2> QED BY <1>4, <1>12, <2>1, <2>2, <2>5
<1>25. ASSUME NEW c \in Conn, Server(c) PROVE SessionInv'
  <2>1. PICK s, ms : Serves(c, s, ms)
    BY <1>25 DEF Server, SessionReady, TurnBegins, Responds, Speaks, TurnEnds, HearsStop, GivesUp,
                 Concludes
  <2>2. \A d \in Conn \ {c} : up'[d] = up[d]
    BY <1>25 DEF Server, SessionReady, TurnBegins, Responds, Speaks, TurnEnds, HearsStop, GivesUp,
                 TypeOK
  <2>3. /\ sock[c] = "open" /\ UNCHANGED <<held, ui, last, sock, rec, player>>
        /\ \A d \in Conn \ {c} : srv'[d] = srv[d] /\ down'[d] = down[d]
    BY <2>1 DEF Serves, TypeOK
  <2>4. \A d \in Conn \ {c} : Same(d)
    BY <2>2, <2>3 DEF Same
  <2>5. OwnedNow(c)'
    BY <1>3, <2>3 DEF OwnedNow, Owned
  <2> QED BY <1>4, <1>12, <2>3, <2>4, <2>5
<1>26. CASE Buttons
  BY <1>9, <1>10, <1>11, <1>26, Started DEF Buttons
<1>27. ASSUME NEW c \in Conn, Socket(c) PROVE SessionInv'
  <2>1. Over(c) => (Closed(c) \/ ConnectionLost(c) => sock[c] # "none")
    BY DEF Closed, ConnectionLost
  <2> QED BY <1>13, <1>14, <1>15, <1>17, <1>18, <1>20, <1>27, <2>1
     DEF Socket, Deliver, Closed, ConnectionLost
<1>28. ASSUME NEW c \in Conn, Devices(c) PROVE SessionInv'
  BY <1>21, <1>22, <1>23, <1>24, <1>28 DEF Devices
<1> QED BY <1>8, <1>25, <1>26, <1>27, <1>28 DEF Next

-----------------------------------------------------------------------------
(***************************************************************************)
(* What is heard.                                                          *)
(***************************************************************************)

LEMMA NotHeard ==
  ASSUME NEW s, NEW d, NEW v, NEW e, ~Live(s)
  PROVE  Plays(NoPlayer, s, d, v, e)
BY NewPlayers DEF Plays

(* The server goes on. *)
LEMMA Served ==
  ASSUME TypeOK, NEW c \in Conn, Server(c), NEW H, H \subseteq Chunk,
         WireInv(down[c], srv[c], ended), After(H, down[c], srv[c])
  PROVE  WireInv(down'[c], srv'[c], ended) /\ After(H, down'[c], srv'[c])
<1> DEFINE d == down[c]  v == srv[c]
<1>1. d \in Seq(ToPage) /\ v \in AServer /\ v.turn \in 0 .. Turns /\ v.k \in 0 .. Chunks
  BY DEF TypeOK, AServer
<1>2. ASSUME NEW s, NEW ms, Serves(c, s, ms) PROVE srv'[c] = s /\ down'[c] = d \o ms
  BY <1>2 DEF Serves, TypeOK
<1>3. \A p \in {"listening", "responding", "over"} :
        /\ Now(c, p) \in AServer /\ Now(c, p).turn = v.turn /\ Now(c, p).k = v.k
        /\ Now(c, p).pc = p
  BY <1>1 DEF Now, AServer
<1>4. WireInv(d, v, ended) /\ After(H, d, v)
  OBVIOUS
<1>5. Plain("ready") \in ToPage /\ Plain("listening") \in ToPage /\ Plain("thinking") \in ToPage
      /\ Plain("responding") \in ToPage /\ Plain("error") \in ToPage /\ Plain("close") \in ToPage
  BY FrameTypes
<1>6. \A f \in {Plain("ready"), Plain("listening"), Plain("thinking"), Plain("responding"),
                Plain("error"), Plain("close")} :
        f \in ToPage /\ f.kind \notin {"audio", "assistant_done", "interrupted"}
  BY FrameTypes
<1> HIDE DEF v
<1>7. ASSUME NEW kind \in {"assistant_done", "interrupted", "error"}, Concludes(c, kind), Busy(v)
      PROVE  WireInv(down'[c], srv'[c], ended) /\ After(H, down'[c], srv'[c])
  <2> DEFINE w == Now(c, "listening")  f == Frame(kind, v.turn, 0)  g == Plain("listening")
             D == Append(d, f)
  <2>1. srv'[c] = w /\ down'[c] = d \o <<f, g>>
    BY <1>2, <1>7 DEF Concludes, v
  <2>2. f \in ToPage /\ f.kind = kind /\ f.turn = v.turn
    BY <1>1, FrameTypes
  <2>3. g \in ToPage /\ g.kind \notin {"audio", "assistant_done", "interrupted"}
    BY <1>6
  <2>4. w \in AServer /\ w.turn = v.turn /\ w.k = v.k /\ ~Busy(w)
    BY <1>3 DEF Busy
  <2>5. v.turn \in Turn
    BY <1>4, <1>7 DEF WireInv
  <2> HIDE DEF w, f, g, d
  <2>6. WireInv(d, w, ended) /\ After(H, d, w)
    BY <1>4, <2>4, Onward
  <2>7. D \in Seq(ToPage) /\ WireInv(D, w, ended) /\ After(H, D, w)
    <3>1. CASE kind = "error"
      BY <1>1, <2>2, <2>6, <3>1, PlainPosted
    <3>2. CASE kind # "error"
      BY <1>1, <2>2, <2>4, <2>5, <2>6, <3>2, EndPosted
    <3> QED BY <3>1, <3>2
  <2>8. down'[c] = Append(D, g)
    BY <1>1, <2>1, <2>2, <2>3, Frames
  <2> HIDE DEF D
  <2>9. WireInv(Append(D, g), w, ended) /\ After(H, Append(D, g), w)
    BY <2>3, <2>7, PlainPosted
  <2> QED BY <2>1, <2>8, <2>9
<1> HIDE DEF d
<1>8. ASSUME NEW w \in AServer, WireInv(d, w, ended), After(H, d, w),
             NEW f \in ToPage, f.kind \notin {"audio", "assistant_done", "interrupted"},
             srv'[c] = w,
             \/ down'[c] = d \o <<f>>
             \/ \E g \in ToPage : /\ g.kind \notin {"audio", "assistant_done", "interrupted"}
                                  /\ down'[c] = d \o <<f, g>>
      PROVE  WireInv(down'[c], srv'[c], ended) /\ After(H, down'[c], srv'[c])
  <2> DEFINE D == Append(d, f)
  <2>1. D \in Seq(ToPage) /\ WireInv(D, w, ended) /\ After(H, D, w)
    BY <1>1, <1>8, PlainPosted
  <2>2. CASE down'[c] = d \o <<f>>
    BY <1>1, <1>8, <2>1, <2>2, Frames
  <2>3. CASE \E g \in ToPage : /\ g.kind \notin {"audio", "assistant_done", "interrupted"}
                               /\ down'[c] = d \o <<f, g>>
    <3>1. PICK g \in ToPage : /\ g.kind \notin {"audio", "assistant_done", "interrupted"}
                              /\ down'[c] = d \o <<f, g>>
      BY <2>3
    <3>2. down'[c] = Append(D, g)
      BY <1>1, <1>8, <3>1, Frames
    <3> HIDE DEF D
    <3>3. WireInv(Append(D, g), w, ended) /\ After(H, Append(D, g), w)
      BY <2>1, <3>1, PlainPosted
    <3> QED BY <1>8, <3>2, <3>3
  <2> QED BY <1>8, <2>2, <2>3
<1>9. CASE SessionReady(c)
  <2> DEFINE w == Now(c, "listening")
  <2>1. srv'[c] = w /\ down'[c] = d \o <<Plain("ready"), Plain("listening")>>
    BY <1>2, <1>9 DEF SessionReady
  <2>2. w \in AServer /\ w.turn = v.turn /\ w.k = v.k /\ ~Busy(w)
    BY <1>3 DEF Busy
  <2> HIDE DEF w
  <2>3. WireInv(d, w, ended) /\ After(H, d, w)
    BY <1>4, <2>2, Onward
  <2> QED BY <1>6, <1>8, <2>1, <2>2, <2>3
<1>10. CASE TurnBegins(c)
  <2> DEFINE w == [pc |-> "thinking", turn |-> srv[c].turn + 1, k |-> 0]
  <2>1. srv'[c] = w /\ down'[c] = d \o <<Plain("thinking")>>
    BY <1>2, <1>10 DEF TurnBegins
  <2>2. v.turn < Turns
    BY <1>10 DEF TurnBegins, v
  <2>3. v.turn + 1 \in Turn /\ v.turn + 1 \in 0 .. Turns
    BY <1>1, <2>2, Constants
  <2>4. w \in AServer /\ w.turn = v.turn + 1 /\ w.turn \in Turn
    BY <2>3, Constants DEF AServer, v
  <2> HIDE DEF w
  <2>5. WireInv(d, w, ended) /\ After(H, d, w)
    BY <1>1, <1>4, <2>4, NextTurn
  <2> QED BY <1>6, <1>8, <2>1, <2>4, <2>5
<1>11. CASE Responds(c)
  <2> DEFINE w == Now(c, "responding")
  <2>1. srv'[c] = w /\ down'[c] = d \o <<Plain("responding")>> /\ Busy(v)
    BY <1>2, <1>11 DEF Responds, Busy, v
  <2>2. w \in AServer /\ w.turn = v.turn /\ w.k = v.k
    BY <1>3
  <2> HIDE DEF w
  <2>3. WireInv(d, w, ended) /\ After(H, d, w)
    BY <1>4, <2>1, <2>2, Onward
  <2> QED BY <1>6, <1>8, <2>1, <2>2, <2>3
<1>12. CASE Speaks(c)
  <2> DEFINE f == Frame("audio", v.turn, v.k + 1)  w == [v EXCEPT !.k = @ + 1]
  <2>1. srv'[c] = w /\ down'[c] = d \o <<f>> /\ Busy(v) /\ v.k < Chunks
    BY <1>2, <1>12 DEF Speaks, Busy, v
  <2>2. WireInv(Append(d, f), w, ended) /\ After(H, Append(d, f), w)
    BY <1>1, <1>4, <2>1, ChunkPosted
  <2>3. f \in ToPage
    <3>1. v.k + 1 \in 0 .. Chunks
      BY <1>1, <2>1, Constants
    <3> QED BY <1>1, <3>1, FrameTypes
  <2> HIDE DEF f, w
  <2>4. d \o <<f>> = Append(d, f)
    BY <1>1, <2>3, Frames
  <2> QED BY <2>1, <2>2, <2>4
<1>13. CASE TurnEnds(c)
  <2>1. Busy(v)
    BY <1>13 DEF TurnEnds, InTurn, Busy, v
  <2> QED BY <1>7, <1>13, <2>1 DEF TurnEnds
<1>14. CASE HearsStop(c)
  <2>1. CASE InTurn(c) /\ Concludes(c, "interrupted")
    <3>1. Busy(v)
      BY <2>1 DEF InTurn, Busy, v
    <3> QED BY <1>7, <2>1, <3>1
  <2>2. CASE Serves(c, srv[c], <<>>)
    <3>1. srv'[c] = v /\ down'[c] = d \o <<>>
      BY <1>2, <2>2 DEF v
    <3>2. d \o <<>> = d
      BY <1>1, ConcatEmptySeq
    <3> QED BY <1>4, <3>1, <3>2
  <2> QED BY <1>14, <2>1, <2>2 DEF HearsStop
<1>15. CASE GivesUp(c)
  <2> DEFINE w == Now(c, "over")
  <2>1. srv'[c] = w /\ down'[c] = d \o <<Plain("error"), Plain("close")>>
    BY <1>2, <1>15 DEF GivesUp
  <2>2. w \in AServer /\ w.turn = v.turn /\ w.k = v.k /\ ~Busy(w)
    BY <1>3 DEF Busy
  <2> HIDE DEF w
  <2>3. WireInv(d, w, ended) /\ After(H, d, w)
    BY <1>4, <2>2, Onward
  <2> QED BY <1>6, <1>8, <2>1, <2>2, <2>3
<1> QED BY <1>9, <1>10, <1>11, <1>12, <1>13, <1>14, <1>15 DEF Server

LEMMA PlayStep ==
  ASSUME TypeOK, SessionInv, PlayInv, [Next]_vars
  PROVE  PlayInv'
<1> USE DEF held, ui, wires
<1> DEFINE PlaysNow(d) == Plays(player[d], sock[d], down[d], srv[d], ended)
           Same(d) == player'[d] = player[d] /\ sock'[d] = sock[d] /\ down'[d] = down[d] /\ srv'[d] = srv[d]
<1>1. \A c \in Conn : PlaysNow(c) /\ OwnedNow(c)
  BY DEF PlayInv, SessionInv, OwnedNow
<1>2. SUFFICES ASSUME NEW c \in Conn PROVE PlaysNow(c)'
  BY DEF PlayInv
<1>3. ASSUME Same(c), ended' = ended PROVE PlaysNow(c)'
  BY <1>1, <1>3
<1>4. ASSUME ~Live(sock'[c]), player'[c] = player[c], ended' = ended PROVE PlaysNow(c)'
  BY <1>1, <1>4 DEF Plays
<1>5. ASSUME ~Live(sock'[c]), player'[c] = NoPlayer PROVE PlaysNow(c)'
  BY <1>5, NotHeard
<1> HIDE DEF PlaysNow, Same
<1>6. /\ wsRef # c => player[c] = NoPlayer /\ ~Live(sock[c])
      /\ sock[c] # "open" => down[c] = <<>> /\ srv[c] = NoServer
  BY <1>1 DEF OwnedNow, Owned
<1>7. ASSUME NEW w \in Conn, Close(w)
      PROVE  /\ ~Live(sock'[w])
             /\ c # w => sock'[c] = sock[c] /\ down'[c] = down[c] /\ srv'[c] = srv[c]
  <2>1. ~Live(sock'[w]) /\ (c # w => sock'[c] = sock[c])
    BY <1>7 DEF Close, TypeOK, Live
  <2>2. c # w => down'[c] = down[c] /\ srv'[c] = srv[c]
    BY <1>7 DEF Close, Unseen, TypeOK
  <2> QED BY <2>1, <2>2
<1>8. ASSUME LetGo PROVE player'[c] = NoPlayer
  BY <1>6, <1>8 DEF LetGo, TypeOK
<1>9. wsRef # 0 => wsRef \in Conn
  <2>1. wsRef \in 0 .. last /\ last \in 0 .. Starts
    BY DEF TypeOK
  <2> QED BY <2>1, Constants DEF Conn
<1>10. CASE UNCHANGED vars
  BY <1>3, <1>10 DEF vars, Same
<1>11. CASE Start
  <2>1. wsRef = 0 /\ c # 0
    BY <1>11, Constants DEF SessionInv, Start
  <2>2. player[c] = NoPlayer /\ ~Live(sock[c]) /\ sock[c] # "open"
    BY <1>6, <2>1 DEF Live
  <2>3. CASE c = last + 1
    <3>1. /\ player'[c] = NewPlayer /\ sock'[c] = "connecting" /\ ended' = NotEnded
          /\ down'[c] = <<>> /\ srv'[c] = NoServer
      BY <1>6, <1>11, <2>2, <2>3 DEF Start, TypeOK
    <3>2. WireInv(<<>>, NoServer, NotEnded)
      <4>1. Sounds(<<>>) = {} /\ Ends(<<>>) = {}
        BY DEF Sounds, Ends
      <4>2. ~Busy(NoServer)
        BY DEF Busy, NoServer
      <4>3. \A t \in Turn : NotEnded[t] = "no"
        BY DEF NotEnded
      <4> QED BY <4>1, <4>2, <4>3, Zenon DEF WireInv
    <3>3. PlayerInv(NewPlayer, NotEnded) /\ After(Held(NewPlayer), <<>>, NoServer)
      BY NewPlayers DEF After
    <3> QED BY <3>1, <3>2, <3>3 DEF PlaysNow, Plays
  <2>4. CASE c # last + 1
    <3>1. player'[c] = player[c] /\ sock'[c] = sock[c]
      BY <1>11, <2>4 DEF Start, TypeOK
    <3> QED BY <1>5, <2>2, <3>1
  <2> QED BY <2>3, <2>4
<1>12. CASE StopPressed
  <2>1. LetGo /\ Close(wsRef) /\ wsRef \in Conn
    <3>1. wsRef # 0
      BY <1>12 DEF StopPressed, SessionInv
    <3> QED BY <1>9, <1>12, <3>1 DEF StopPressed, Stop
  <2>2. ~Live(sock'[c])
    BY <1>6, <1>7, <2>1
  <2> QED BY <1>5, <1>8, <2>1, <2>2
<1>13. CASE Teardown
  <2>1. CASE wsRef = 0
    BY <1>3, <1>13, <2>1 DEF Teardown, Same
  <2>2. CASE wsRef # 0
    <3>1. LetGo /\ Close(wsRef) /\ wsRef \in Conn
      BY <1>9, <1>13, <2>2 DEF Teardown
    <3>2. ~Live(sock'[c])
      BY <1>6, <1>7, <3>1
    <3> QED BY <1>5, <1>8, <3>1, <3>2
  <2> QED BY <2>1, <2>2
<1>14. CASE StopResponse
  <2>1. sock' = sock /\ down' = down /\ srv' = srv /\ ended' = ended
    BY <1>14 DEF StopResponse
  <2>2. CASE c = wsRef
    <3>1. player'[c] = Silent(player[c])
      BY <1>14, <2>2 DEF StopResponse, TypeOK
    <3>2. PlayerInv(player'[c], ended) /\ Held(player'[c]) = {}
      <4>1. player[c] \in APlayer
        BY DEF TypeOK
      <4> QED BY <3>1, <4>1, SilentIs
    <3>3. After({}, down[c], srv[c])
      BY DEF After
    <3> QED BY <1>1, <2>1, <3>2, <3>3 DEF PlaysNow, Plays
  <2>3. CASE c # wsRef
    <3>1. player'[c] = player[c]
      BY <1>14, <2>3 DEF StopResponse, TypeOK
    <3> QED BY <1>3, <2>1, <3>1 DEF Same
  <2> QED BY <2>2, <2>3
<1>15. ASSUME NEW w \in Conn, Opens(w) PROVE PlaysNow(c)'
  <2>1. player' = player /\ down' = down /\ ended' = ended
    BY <1>15 DEF Opens
  <2>2. CASE c = w
    <3>1. /\ sock[c] = "connecting" /\ srv[c] = NoServer
          /\ srv'[c] = [srv[c] EXCEPT !.pc = "start"]
      BY <1>6, <1>15, <2>2 DEF Opens, TypeOK
    <3>2. srv'[c].turn = srv[c].turn /\ srv'[c].k = srv[c].k /\ ~Busy(srv'[c])
      BY <3>1 DEF Busy, NoServer
    <3>3. /\ PlayerInv(player[c], ended) /\ WireInv(down[c], srv[c], ended)
          /\ After(Held(player[c]), down[c], srv[c])
      BY <1>1, <3>1 DEF PlaysNow, Plays, Live
    <3>4. WireInv(down[c], srv'[c], ended) /\ After(Held(player[c]), down[c], srv'[c])
      BY <3>2, <3>3, Onward
    <3> QED BY <2>1, <3>3, <3>4 DEF PlaysNow, Plays
  <2>3. CASE c # w
    <3>1. sock'[c] = sock[c] /\ srv'[c] = srv[c]
      BY <1>15, <2>3 DEF Opens, TypeOK
    <3> QED BY <1>3, <2>1, <3>1 DEF Same
  <2> QED BY <2>2, <2>3
<1>16. ASSUME NEW w \in Conn, ConnectTimeout(w) \/ OnClosing(w) PROVE PlaysNow(c)'
  <2>1. Close(w) /\ player' = player /\ ended' = ended
    BY <1>16 DEF ConnectTimeout, OnClosing
  <2>2. CASE c = w
    BY <1>4, <1>7, <2>1, <2>2
  <2>3. CASE c # w
    BY <1>3, <1>7, <2>1, <2>3 DEF Same
  <2> QED BY <2>2, <2>3
<1>17. ASSUME NEW w \in Conn, Over(w) PROVE PlaysNow(c)'
  <2>1. /\ ~Live(sock'[w]) /\ ended' = ended
        /\ c # w => sock'[c] = sock[c] /\ down'[c] = down[c] /\ srv'[c] = srv[c]
    BY <1>17 DEF Over, Unseen, TypeOK, Live
  <2>2. CASE wsRef = w
    <3>1. player'[c] = NoPlayer
      BY <1>8, <1>17, <2>2 DEF Over
    <3>2. ~Live(sock'[c])
      BY <1>6, <2>1, <2>2
    <3> QED BY <1>5, <3>1, <3>2
  <2>3. CASE wsRef # w
    <3>1. player' = player
      BY <1>17, <2>3 DEF Over
    <3>2. CASE c = w
      BY <1>4, <2>1, <3>1, <3>2
    <3>3. CASE c # w
      BY <1>3, <2>1, <3>1, <3>3 DEF Same
    <3> QED BY <3>2, <3>3
  <2> QED BY <2>2, <2>3
<1>18. ASSUME NEW w \in Conn, NEW kind, Gets(w, kind), c # w
       PROVE  down'[c] = down[c] /\ player[c] = NoPlayer /\ ~Live(sock[c])
  <2>1. down'[c] = down[c] /\ Live(sock[w])
    BY <1>18 DEF Gets, TypeOK, Live
  <2>2. wsRef = w
    BY <1>1, <2>1 DEF OwnedNow, Owned
  <2> QED BY <1>6, <1>18, <2>1, <2>2
<1>19. ASSUME NEW w \in Conn, OnReady(w) \/ OnState(w) \/ OnError(w) PROVE PlaysNow(c)'
  <2>1. CASE c = w
    BY <1>19, <2>1, FrameSeen DEF PlaysNow
  <2>2. CASE c # w
    <3>1. PICK kind : Gets(w, kind)
      BY <1>19 DEF OnReady, OnState, OnError
    <3>2. UNCHANGED <<player, srv, sock, ended>>
      BY <1>19 DEF OnReady, OnState, OnError
    <3>3. down'[c] = down[c]
      BY <1>18, <2>2, <3>1
    <3> QED BY <1>3, <3>2, <3>3 DEF Same
  <2> QED BY <2>1, <2>2
<1>20. ASSUME NEW w \in Conn, OnAudio(w) \/ OnAssistantDone(w) \/ OnInterrupted(w) PROVE PlaysNow(c)'
  <2>1. CASE c = w
    BY <1>20, <2>1, AudioHeard, TurnHeard DEF PlaysNow
  <2>2. CASE c # w
    <3>1. PICK kind : Gets(w, kind)
      BY <1>20 DEF OnAudio, OnAssistantDone, OnInterrupted
    <3>2. player'[c] = player[c] /\ sock' = sock
      BY <1>20, <2>2 DEF OnAudio, OnAssistantDone, OnInterrupted, TypeOK
    <3> QED BY <1>5, <1>18, <2>2, <3>1, <3>2
  <2> QED BY <2>1, <2>2
<1>21. ASSUME NEW w \in Conn, MicGranted(w) \/ MicStarted(w) PROVE PlaysNow(c)'
  BY <1>3, <1>21 DEF MicGranted, MicStarted, Same
<1>22. ASSUME NEW w \in Conn, MicFails(w) PROVE PlaysNow(c)'
  <2>1. ended' = ended
    BY <1>22 DEF MicFails
  <2>2. CASE wsRef = w
    <3>1. Close(w) /\ player' = [player EXCEPT ![w] = NoPlayer]
      BY <1>22, <2>2 DEF MicFails
    <3>2. CASE c = w
      BY <1>5, <1>7, <3>1, <3>2 DEF TypeOK
    <3>3. CASE c # w
      BY <1>3, <1>7, <2>1, <3>1, <3>3 DEF TypeOK, Same
    <3> QED BY <3>2, <3>3
  <2>3. CASE wsRef # w
    BY <1>3, <1>22, <2>1, <2>3 DEF MicFails, Same
  <2> QED BY <2>2, <2>3
<1>23. ASSUME NEW w \in Conn, Tick(w) \/ SourceEnds(w) PROVE PlaysNow(c)'
  <2>1. CASE c = w
    BY <1>23, <2>1, PlayerGoesOn DEF PlaysNow
  <2>2. CASE c # w
    <3>1. UNCHANGED <<sock, down, srv, ended>> /\ player'[c] = player[c]
      BY <1>23, <2>2 DEF Tick, SourceEnds, TypeOK
    <3> QED BY <1>3, <3>1 DEF Same
  <2> QED BY <2>1, <2>2
<1>24. ASSUME NEW w \in Conn, Server(w) PROVE PlaysNow(c)'
  <2>1. PICK s, ms : Serves(w, s, ms)
    BY <1>24 DEF Server, SessionReady, TurnBegins, Responds, Speaks, TurnEnds, HearsStop, GivesUp,
                 Concludes
  <2>2. UNCHANGED <<sock, player, ended>> /\ sock[w] = "open"
    BY <2>1 DEF Serves
  <2>3. CASE c = w
    <3> DEFINE H == Held(player[c])
    <3>1. WireInv(down[c], srv[c], ended) /\ After(H, down[c], srv[c]) /\ PlayerInv(player[c], ended)
      BY <1>1, <2>2, <2>3 DEF PlaysNow, Plays, Live
    <3>2. H \subseteq Chunk
      BY HeldTypes DEF TypeOK
    <3> HIDE DEF H
    <3>3. WireInv(down'[c], srv'[c], ended) /\ After(H, down'[c], srv'[c])
      BY <1>24, <2>3, <3>1, <3>2, Served
    <3> QED BY <2>2, <3>1, <3>3 DEF PlaysNow, Plays, H
  <2>4. CASE c # w
    <3>1. down'[c] = down[c] /\ srv'[c] = srv[c]
      BY <2>1, <2>4 DEF Serves, TypeOK
    <3> QED BY <1>3, <2>2, <3>1 DEF Same
  <2> QED BY <2>3, <2>4
<1>25. CASE Buttons
  BY <1>11, <1>12, <1>13, <1>14, <1>25 DEF Buttons
<1>26. ASSUME NEW w \in Conn, Socket(w) PROVE PlaysNow(c)'
  BY <1>15, <1>16, <1>17, <1>19, <1>20, <1>26 DEF Socket, Deliver, Closed, ConnectionLost
<1>27. ASSUME NEW w \in Conn, Devices(w) PROVE PlaysNow(c)'
  BY <1>21, <1>22, <1>23, <1>27 DEF Devices
<1> QED BY <1>10, <1>24, <1>25, <1>26, <1>27 DEF Next

-----------------------------------------------------------------------------
(***************************************************************************)
(* The theorems.                                                           *)
(***************************************************************************)

LEMMA Begins ==
  ASSUME Init
  PROVE  BrowserInv
<1>1. TypeOK
  <2>1. last \in 0 .. Starts /\ wsRef \in 0 .. last /\ recRef \in 0 .. last
    <3>1. last = 0 /\ wsRef = 0 /\ recRef = 0
      BY DEF Init
    <3> QED BY <3>1, Constants
  <2>2. /\ page \in {"idle", "connecting", "connected", "gone"}
        /\ turnState \in {"", "listening", "thinking", "responding"} /\ stopping \in BOOLEAN
        /\ sock \in [Conn -> {"none", "connecting", "open", "closing", "closed"}]
        /\ rec \in [Conn -> {"none", "asked", "starting", "on", "abandoned", "off"}]
    BY DEF Init
  <2>3. /\ player \in [Conn -> APlayer] /\ srv \in [Conn -> AServer]
        /\ ended \in [Turn -> {"no", "done", "interrupted"}]
    BY Constants, NewPlayers DEF Init
  <2>4. up \in [Conn -> Seq({"cancel_response"})] /\ down \in [Conn -> Seq(ToPage)]
    BY Empties DEF Init
  <2> QED BY <2>1, <2>2, <2>3, <2>4 DEF TypeOK
<1>2. SessionInv
  <2>1. \A c \in Conn : c # 0
    BY Constants
  <2>2. ~NoPlayer.alive
    BY DEF NoPlayer, NewPlayer
  <2> QED BY <2>1, <2>2 DEF Init, SessionInv, Owned, Live
<1>3. PlayInv
  BY NotHeard DEF Init, PlayInv, Live
<1> QED BY <1>1, <1>2, <1>3 DEF BrowserInv

LEMMA BrowserInvariant == Spec => []BrowserInv
<1>1. Init => BrowserInv
  BY Begins
<1>2. BrowserInv /\ [Next]_vars => BrowserInv'
  BY TypesStep, SessionStep, PlayStep DEF BrowserInv
<1> QED BY <1>1, <1>2, PTL DEF Spec

(* The variables of the page, its sessions and their players keep their     *)
(* types, however many sessions, turns and chunks there are: no chunk is    *)
(* ever scheduled further ahead than maxBufferedMs (schedule in player.ts). *)
THEOREM TypeCorrect == Spec => []TypeOK
<1>1. BrowserInv => TypeOK
  BY DEF BrowserInv
<1> QED BY <1>1, BrowserInvariant, PTL

(* A microphone runs, and a player plays, only for the session the page     *)
(* holds, whatever is granted, fails, closes or times out in whatever       *)
(* order; and a page without a session is in no turn and not stopping       *)
(* (start, startMic, stop, teardown and onClose in ChatPage.tsx).           *)
THEOREM DevicesOwned == Spec => []SessionOwnsDevices
<1>1. BrowserInv => SessionOwnsDevices
  BY DEF BrowserInv, SessionInv, Owned, SessionOwnsDevices
<1> QED BY <1>1, BrowserInvariant, PTL

(* What is heard is in the order it was sent, one chunk at a time, with     *)
(* nothing of a turn after its interruption and nothing of a turn that is   *)
(* done left waiting (push, flush, schedule, finishTurn and stop in         *)
(* player.ts, onAudio, onAssistantDone and onInterrupted in ChatPage.tsx).  *)
THEOREM PlaybackHolds == Spec => []PlaybackSound
<1>1. PlayInv => PlaybackSound
  BY Zenon DEF PlayInv, Plays, PlayerInv, PlaybackSound, Before
<1>2. BrowserInv => PlaybackSound
  BY <1>1 DEF BrowserInv
<1> QED BY <1>2, BrowserInvariant, PTL
=============================================================================
