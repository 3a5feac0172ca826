--------------------------- MODULE SttStreamProofs ---------------------------
(***************************************************************************)
(* That the streaming engine's sessions stay owned and that a turn says    *)
(* what it was fed, for any streams, uploads, bounds and failures.         *)
(***************************************************************************)
EXTENDS ModelServer, FiniteSetTheorems, SequenceTheorems, TLAPS

---------------------------------------------------------------------------
(* Numbering the members of a set, as slots are and as sessions are        *)
(* ordered.                                                                *)

\* A map that numbers the members of rs from 0.
Numbers(map, rs) ==
  /\ map \in [rs -> Nat]
  /\ \A r, q \in rs : map[r] = map[q] => r = q
  /\ {map[r] : r \in rs} = 0..(Cardinality(rs) - 1)

\* The instance's own Cardinality is the library's.
LEMMA TtsCardinality == \A S : Tts!Cardinality(S) = Cardinality(S)
  BY DEF Tts!Cardinality, Cardinality

\* Compacting numbers that differ numbers their members from 0.
LEMMA CompactNumbers ==
  ASSUME NEW rs, IsFiniteSet(rs), NEW map \in [rs -> Nat],
         \A r, q \in rs : map[r] = map[q] => r = q
  PROVE  Numbers(Tts!Compact(map), rs)
<1> DEFINE below(r) == {o \in rs : map[o] < map[r]}
           rank == [r \in rs |-> Cardinality(below(r))]
           n == Cardinality(rs)
<1>1. Tts!Compact(map) = rank
  BY TtsCardinality DEF Tts!Compact
<1>2. n \in Nat /\ IsFiniteSet(0..(n - 1)) /\ Cardinality(0..(n - 1)) = n
  <2>1. n \in Nat
    BY FS_CardinalityType
  <2> HIDE DEF n
  <2>2. 0 \in Int /\ n - 1 \in Int /\ (IF 0 > n - 1 THEN 0 ELSE (n - 1) - 0 + 1) = n
    BY <2>1
  <2> QED
    BY <2>1, <2>2, FS_Interval
<1>3. \A r \in rs : IsFiniteSet(below(r)) /\ rank[r] \in Nat /\ rank[r] < n
  <2> SUFFICES ASSUME NEW r \in rs
               PROVE  IsFiniteSet(below(r)) /\ Cardinality(below(r)) \in Nat
                      /\ Cardinality(below(r)) < n
    OBVIOUS
  <2>1. below(r) \subseteq rs /\ below(r) # rs
    OBVIOUS
  <2> HIDE DEF below, n
  <2>2. IsFiniteSet(below(r)) /\ Cardinality(below(r)) \in Nat
    BY <2>1, FS_Subset, FS_CardinalityType
  <2>3. Cardinality(below(r)) <= n /\ Cardinality(below(r)) # n
    BY <2>1, FS_Subset DEF n
  <2> QED
    BY <1>2, <2>2, <2>3
<1>4. \A r, q \in rs : map[r] < map[q] => rank[r] < rank[q]
  <2> SUFFICES ASSUME NEW r \in rs, NEW q \in rs, map[r] < map[q]
               PROVE  Cardinality(below(r)) < Cardinality(below(q))
    OBVIOUS
  <2>1. below(r) \subseteq below(q) /\ r \in below(q) /\ r \notin below(r)
    OBVIOUS
  <2>2. IsFiniteSet(below(q)) /\ Cardinality(below(q)) \in Nat /\ Cardinality(below(r)) \in Nat
    BY <1>3
  <2> HIDE DEF below
  <2>3. /\ Cardinality(below(r)) <= Cardinality(below(q))
        /\ Cardinality(below(r)) # Cardinality(below(q))
    BY <2>1, <2>2, FS_Subset
  <2> QED
    BY <2>2, <2>3
<1>5. \A r, q \in rs : rank[r] = rank[q] => r = q
  <2> SUFFICES ASSUME NEW r \in rs, NEW q \in rs, rank[r] = rank[q], r # q PROVE FALSE
    OBVIOUS
  <2>1. map[r] < map[q] \/ map[q] < map[r]
    OBVIOUS
  <2>2. rank[r] \in Nat /\ rank[q] \in Nat
    BY <1>3
  <2> HIDE DEF rank
  <2> QED
    BY <1>4, <2>1, <2>2
<1>6. rank \in Injection(rs, 0..(n - 1))
  <2>1. rank \in [rs -> 0..(n - 1)]
    <3>1. \A r \in rs : rank[r] \in 0..(n - 1)
      <4> HIDE DEF rank, n, below
      <4> QED
        BY <1>2, <1>3
    <3> QED
      BY <3>1
  <2> HIDE DEF rank, n
  <2> QED
    BY <1>5, <2>1 DEF Injection, IsInjective
<1> HIDE DEF rank
<1>7. rank \in Surjection(rs, 0..(n - 1))
  BY <1>2, <1>6, FS_Injection
<1>8. {rank[r] : r \in rs} = 0..(n - 1)
  BY <1>7 DEF Surjection
<1>9. rank \in [rs -> Nat]
  BY <1>2, <1>6 DEF Injection
<1> QED
  BY <1>1, <1>5, <1>8, <1>9 DEF Numbers

---------------------------------------------------------------------------
(* SttStream: units of audio.                                              *)

\* The units of a sequence.
Of(us) == {us[i] : i \in 1..Len(us)}

\* Speech comes in the order it was spoken, and that of us before that of vs.
Ascend(us) == \A i, j \in 1..Len(us) : i < j => us[j] = 0 \/ us[i] < us[j]

Before(us, vs) == \A u \in Of(us) : \A v \in Of(vs) : v = 0 \/ u < v

\* Nothing later than top, and no speech but of units.
Among(us, units, top) == \A u \in Of(us) : u <= top /\ (u = 0 \/ u \in units)

\* Nothing has no units.
LEMMA NoUnits == <<>> \in Seq(Nat) /\ Of(<<>>) = {} /\ Ascend(<<>>)
<1>1. <<>> \in Seq(Nat) /\ Len(<<>>) = 0
  BY EmptySeq
<1> QED
  BY <1>1 DEF Of, Ascend

\* Two sequences, one after the other.
LEMMA UnitsJoin ==
  ASSUME NEW us \in Seq(Nat), NEW vs \in Seq(Nat)
  PROVE  /\ us \o vs \in Seq(Nat) /\ Len(us \o vs) = Len(us) + Len(vs)
         /\ Of(us \o vs) = Of(us) \cup Of(vs)
         /\ Ascend(us) /\ Ascend(vs) /\ Before(us, vs) => Ascend(us \o vs)
<1> DEFINE w == us \o vs
           m == Len(us)
           n == Len(vs)
<1>1. /\ m \in Nat /\ n \in Nat /\ w \in Seq(Nat) /\ Len(w) = m + n
      /\ \A i \in 1..(m + n) : w[i] = IF i <= m THEN us[i] ELSE vs[i - m]
  BY LenProperties, ConcatProperties
<1>2. \A i \in 1..m : us[i] \in Nat /\ us[i] \in Of(us)
  BY ElementOfSeq DEF Of
<1>3. \A i \in 1..n : vs[i] \in Nat /\ vs[i] \in Of(vs)
  BY ElementOfSeq DEF Of
<1>4. Of(w) = Of(us) \cup Of(vs)
  <2> HIDE DEF w, m, n
  <2>1. ASSUME NEW i \in 1..(m + n) PROVE w[i] \in Of(us) \cup Of(vs)
    <3>1. CASE i <= m
      <4>1. i \in 1..m
        BY <1>1, <3>1
      <4> QED
        BY <1>1, <1>2, <3>1, <4>1
    <3>2. CASE ~(i <= m)
      <4>1. i - m \in 1..n
        BY <1>1, <3>2
      <4> QED
        BY <1>1, <1>3, <3>2, <4>1
    <3> QED
      BY <3>1, <3>2
  <2>2. ASSUME NEW i \in 1..m PROVE us[i] \in Of(w)
    <3>1. i \in 1..(m + n) /\ w[i] = us[i]
      BY <1>1
    <3> QED
      BY <1>1, <3>1 DEF Of
  <2>3. ASSUME NEW i \in 1..n PROVE vs[i] \in Of(w)
    <3>1. m + i \in 1..(m + n) /\ ~(m + i <= m) /\ (m + i) - m = i
      BY <1>1
    <3>2. w[m + i] = vs[i]
      BY <1>1, <3>1
    <3> QED
      BY <1>1, <3>1, <3>2 DEF Of
  <2>4. Of(w) \subseteq Of(us) \cup Of(vs)
    BY <1>1, <2>1 DEF Of, m, n
  <2>5. Of(us) \subseteq Of(w) /\ Of(vs) \subseteq Of(w)
    BY <2>2, <2>3 DEF Of, m, n
  <2> QED
    BY <2>4, <2>5
<1>5. ASSUME Ascend(us), Ascend(vs), Before(us, vs) PROVE Ascend(w)
  <2> SUFFICES ASSUME NEW i \in 1..(m + n), NEW j \in 1..(m + n), i < j
               PROVE  w[j] = 0 \/ w[i] < w[j]
    BY <1>1 DEF Ascend
  <2>0. /\ \A k, l \in 1..m : k < l => us[l] = 0 \/ us[k] < us[l]
        /\ \A k, l \in 1..n : k < l => vs[l] = 0 \/ vs[k] < vs[l]
    BY <1>5 DEF Ascend
  <2> HIDE DEF w, m, n
  <2>1. CASE j <= m
    <3>1. i \in 1..m /\ j \in 1..m /\ w[i] = us[i] /\ w[j] = us[j]
      BY <1>1, <2>1
    <3> QED
      BY <2>0, <3>1
  <2>2. CASE m < i
    <3>1. i - m \in 1..n /\ j - m \in 1..n /\ i - m < j - m /\ ~(i <= m) /\ ~(j <= m)
      BY <1>1, <2>2
    <3>2. w[i] = vs[i - m] /\ w[j] = vs[j - m]
      BY <1>1, <3>1
    <3> QED
      BY <2>0, <3>1, <3>2
  <2>3. CASE i <= m /\ m < j
    <3>1. i \in 1..m /\ j - m \in 1..n /\ ~(j <= m)
      BY <1>1, <2>3
    <3>2. w[i] = us[i] /\ w[j] = vs[j - m]
      BY <1>1, <2>3, <3>1
    <3> QED
      BY <1>2, <1>3, <1>5, <3>1, <3>2 DEF Before
  <2> QED
    BY <1>1, <2>1, <2>2, <2>3
<1> QED
  BY <1>1, <1>4, <1>5

\* A sequence cut in two.
LEMMA UnitsCut ==
  ASSUME NEW us \in Seq(Nat), NEW n \in 0..Len(us)
  PROVE  LET front == SubSeq(us, 1, n)
             back == SubSeq(us, n + 1, Len(us))
         IN /\ front \in Seq(Nat) /\ back \in Seq(Nat)
            /\ Len(front) = n /\ Len(back) = Len(us) - n
            /\ Of(us) = Of(front) \cup Of(back)
            /\ Ascend(us) => Ascend(front) /\ Ascend(back) /\ Before(front, back)
<1> DEFINE front == SubSeq(us, 1, n)
           back == SubSeq(us, n + 1, Len(us))
           m == Len(us)
<1>1. m \in Nat /\ n \in Nat /\ n <= m /\ \A i \in 1..m : us[i] \in Nat
  BY LenProperties, ElementOfSeq
<1>2. /\ front \in Seq(Nat) /\ Len(front) = n /\ \A i \in 1..n : front[i] = us[i]
  <2> HIDE DEF m
  <2>1. \A i \in 1..n : us[i] \in Nat
    BY <1>1
  <2>2. 1 \in Int /\ n \in Int
    BY <1>1
  <2>3. /\ front \in Seq(Nat) /\ Len(front) = IF 1 <= n THEN n - 1 + 1 ELSE 0
        /\ \A i \in 1..n - 1 + 1 : front[i] = us[1 + i - 1]
    BY <2>1, <2>2, SubSeqProperties
  <2> HIDE DEF front
  <2> QED
    BY <1>1, <2>3
<1>3. /\ back \in Seq(Nat) /\ Len(back) = m - n
      /\ \A i \in 1..(m - n) : back[i] = us[n + i]
  <2>1. \A i \in (n + 1)..m : us[i] \in Nat
    BY <1>1
  <2>2. n + 1 \in Int /\ m \in Int
    BY <1>1
  <2>3. /\ back \in Seq(Nat) /\ Len(back) = IF n + 1 <= m THEN m - (n + 1) + 1 ELSE 0
        /\ \A i \in 1..m - (n + 1) + 1 : back[i] = us[(n + 1) + i - 1]
    BY <2>1, <2>2, SubSeqProperties
  <2> HIDE DEF back, m
  <2> QED
    BY <1>1, <2>3
<1> HIDE DEF front, back, m
<1>4. Of(us) \subseteq Of(front) \cup Of(back)
  <2> SUFFICES ASSUME NEW i \in 1..m PROVE us[i] \in Of(front) \cup Of(back)
    BY DEF Of, m
  <2>1. CASE i <= n
    <3>1. i \in 1..Len(front) /\ front[i] = us[i]
      BY <1>1, <1>2, <2>1
    <3> QED
      BY <3>1 DEF Of
  <2>2. CASE ~(i <= n)
    <3>1. i - n \in 1..Len(back) /\ back[i - n] = us[i]
      BY <1>1, <1>3, <2>2
    <3> QED
      BY <3>1 DEF Of
  <2> QED
    BY <2>1, <2>2
<1>5. Of(front) \subseteq Of(us)
  <2> SUFFICES ASSUME NEW i \in 1..n PROVE front[i] \in Of(us)
    BY <1>2 DEF Of
  <2>1. i \in 1..m /\ front[i] = us[i]
    BY <1>1, <1>2
  <2> QED
    BY <2>1 DEF Of, m
<1>6. Of(back) \subseteq Of(us)
  <2> SUFFICES ASSUME NEW i \in 1..(m - n) PROVE back[i] \in Of(us)
    BY <1>3 DEF Of
  <2>1. n + i \in 1..m /\ back[i] = us[n + i]
    BY <1>1, <1>3
  <2> QED
    BY <2>1 DEF Of, m
<1>7. ASSUME Ascend(us) PROVE Ascend(front) /\ Ascend(back) /\ Before(front, back)
  <2>1. \A i, j \in 1..m : i < j => us[j] = 0 \/ us[i] < us[j]
    BY <1>7 DEF Ascend, m
  <2>2. Ascend(front)
    <3> SUFFICES ASSUME NEW i \in 1..n, NEW j \in 1..n, i < j
                 PROVE  front[j] = 0 \/ front[i] < front[j]
      BY <1>2 DEF Ascend
    <3>1. i \in 1..m /\ j \in 1..m
      BY <1>1
    <3> QED
      BY <1>2, <2>1, <3>1
  <2>3. Ascend(back)
    <3> SUFFICES ASSUME NEW i \in 1..(m - n), NEW j \in 1..(m - n), i < j
                 PROVE  back[j] = 0 \/ back[i] < back[j]
      BY <1>3 DEF Ascend
    <3>1. n + i \in 1..m /\ n + j \in 1..m /\ n + i < n + j
      BY <1>1
    <3> QED
      BY <1>3, <2>1, <3>1
  <2>4. Before(front, back)
    <3> SUFFICES ASSUME NEW i \in 1..n, NEW j \in 1..(m - n)
                 PROVE  back[j] = 0 \/ front[i] < back[j]
      BY <1>2, <1>3 DEF Before, Of
    <3>1. i \in 1..m /\ n + j \in 1..m /\ i < n + j
      BY <1>1
    <3> QED
      BY <1>2, <1>3, <2>1, <3>1
  <2> QED
    BY <2>2, <2>3, <2>4
<1> QED
  BY <1>2, <1>3, <1>4, <1>5, <1>6, <1>7 DEF front, back, m

\* The instance's own operators on sequences and numbers.
LEMMA SttOperators ==
  /\ \A us \in Seq(Nat) : Stt!ToSet(us) = Of(us) /\ Stt!Speech(us) = Of(us) \ {0}
  /\ \A S : Stt!Cardinality(S) = Cardinality(S)
<1>1. ASSUME NEW us \in Seq(Nat) PROVE Stt!ToSet(us) = Of(us)
  BY LenProperties DEF Stt!ToSet, Of
<1>2. \A S : Stt!Cardinality(S) = Cardinality(S)
  BY DEF Stt!Cardinality, Cardinality
<1> QED
  BY <1>1, <1>2 DEF Stt!Speech

\* The smaller of two numbers.
LEMMA SttMin ==
  ASSUME NEW a \in Nat, NEW b \in Nat
  PROVE  LET m == Stt!Min({a, b}) IN m \in Nat /\ m <= a /\ m <= b
  BY DEF Stt!Min

---------------------------------------------------------------------------
(* SttStream: one session.                                                 *)

SttClients == Streams \cup Files

Sessions ==
  [owner: SttClients, turn: Nat, pending: Seq(Nat), heard: Seq(Nat), said: Nat,
   fed: BOOLEAN, secs: Nat, quiet: BOOLEAN, speech: BOOLEAN, finalize: BOOLEAN,
   finalized: BOOLEAN, closed: BOOLEAN, owed: SUBSET (Nat \ {0})]

\* What a session holds, it holds in order, and is owed.
Sound(s, top) ==
  /\ s.said <= Len(s.heard)
  /\ Ascend(s.heard) /\ Ascend(s.pending) /\ Before(s.heard, s.pending)
  /\ Among(s.heard, s.owed, top) /\ Among(s.pending, s.owed, top)
  /\ ~s.speech => s.owed = {}

\* A chunk that was pending and is not in the buffer yet.
Fits(s, us, top) ==
  Ascend(us) /\ Before(s.heard, us) /\ Before(us, s.pending) /\ Among(us, s.owed, top)

\* What a session is owed and does not hold.
Lost(s) == s.owed \ (Of(s.heard) \cup Of(s.pending))

\* What a handler may make of a session while the GPU thread is at work on it.
Grown(s, t, top, later) ==
  /\ t.owner = s.owner /\ t.finalized = s.finalized /\ (s.closed => t.closed)
  /\ s.finalize => t.finalize /\ t.owed = s.owed
  /\ Sound(s, top) => Sound(t, later)
  /\ ~t.closed =>
       /\ s.finalize => t.pending = s.pending
       /\ Sound(s, top) => Lost(t) \subseteq Lost(s)
       /\ Sound(s, top) => \A us \in Seq(Nat) : Fits(s, us, top) => Fits(t, us, later)

\* Units a client sends after the first `from` of them.
Burst(us, from) ==
  /\ us \in Seq(Nat) /\ us # <<>> /\ Ascend(us)
  /\ \A u \in Of(us) : u = 0 \/ (from < u /\ u <= from + Len(us))

\* What a client may send next.
LEMMA BurstsAre ==
  ASSUME NEW c, s_sent[c] \in Nat, NEW us \in Stt!Bursts(c)
  PROVE  Burst(us, s_sent[c]) /\ Len(us) \in Nat \ {0} /\ s_sent[c] + Len(us) <= MaxUnits
<1> DEFINE k == s_sent[c]
           burst(m, some) == [i \in 1..m |-> IF i \in some THEN k + i ELSE 0]
<1>0. PICK n \in 1..MaxBurst :
        k + n <= MaxUnits /\ \E talk \in SUBSET (1..n) : us = burst(n, talk)
  BY DEF Stt!Bursts
<1>1. PICK talk \in SUBSET (1..n) : us = burst(n, talk)
  BY <1>0
<1>2. k \in Nat /\ n \in Nat \ {0}
  BY SttAssumption
<1>3. us \in [1..n -> Nat] /\ \A i \in 1..n : us[i] = IF i \in talk THEN k + i ELSE 0
  BY <1>1, <1>2
<1> HIDE DEF burst, k
<1>4. us \in Seq(Nat) /\ Len(us) = n /\ us # <<>>
  <2>1. us \in Seq(Nat)
    BY <1>2, <1>3
  <2>2. Len(us) = n
    BY <1>2, <1>3, <2>1, LenProperties
  <2> QED
    BY <1>2, <2>1, <2>2, EmptySeq
<1>5. \A i, j \in 1..n : i < j => us[j] = 0 \/ us[i] < us[j]
  <2> SUFFICES ASSUME NEW i \in 1..n, NEW j \in 1..n, i < j, us[j] # 0
               PROVE  us[i] < us[j]
    OBVIOUS
  <2>1. us[j] = k + j /\ (us[i] = k + i \/ us[i] = 0) /\ j \in Nat /\ i \in Nat
    BY <1>2, <1>3
  <2> QED
    BY <1>2, <2>1
<1>6. \A i \in 1..n : us[i] = 0 \/ (k < us[i] /\ us[i] <= k + n)
  BY <1>2, <1>3
<1>7. Burst(us, k)
  <2>1. Ascend(us)
    BY <1>4, <1>5 DEF Ascend
  <2>2. \A u \in Of(us) : u = 0 \/ (k < u /\ u <= k + Len(us))
    BY <1>4, <1>6 DEF Of
  <2> QED
    BY <1>4, <2>1, <2>2 DEF Burst
<1> QED
  BY <1>0, <1>2, <1>4, <1>7 DEF k

\* One change after the other.
LEMMA GrownOn ==
  ASSUME NEW s, NEW t, NEW v, NEW a, NEW b, NEW d, Grown(s, t, a, b), Grown(t, v, b, d)
  PROVE  Grown(s, v, a, d)
  BY Zenon DEF Grown

\* Nothing changes but what others have sent.
LEMMA GrownSame ==
  ASSUME NEW s \in Sessions, NEW top \in Nat, NEW later \in Nat, top <= later
  PROVE  Grown(s, s, top, later)
<1>1. ASSUME NEW us \in Seq(Nat), Among(us, s.owed, top) PROVE Among(us, s.owed, later)
  <2>1. \A u \in Of(us) : u \in Nat
    BY ElementOfSeq DEF Of
  <2> QED
    BY <1>1, <2>1 DEF Among
<1>2. s.heard \in Seq(Nat) /\ s.pending \in Seq(Nat)
  BY DEF Sessions
<1> QED
  BY <1>1, <1>2 DEF Grown, Sound, Fits

\* A session that is asked for its final.
LEMMA GrownAsked ==
  ASSUME NEW s \in Sessions, NEW top \in Nat
  PROVE  LET t == Stt!RequestFinalize(s) IN
         /\ t \in Sessions /\ Grown(s, t, top, top)
         /\ t.finalize /\ t.closed = s.closed
<1> DEFINE t == Stt!RequestFinalize(s)
<1>1. t \in Sessions /\ t.finalize /\ t.closed = s.closed
  BY DEF Stt!RequestFinalize, Sessions
<1>2. /\ t.owner = s.owner /\ t.finalized = s.finalized /\ t.owed = s.owed
      /\ t.heard = s.heard /\ t.pending = s.pending /\ t.said = s.said
      /\ t.speech = s.speech
  BY DEF Stt!RequestFinalize, Sessions
<1> HIDE DEF t
<1>3. Grown(s, t, top, top)
  BY <1>1, <1>2 DEF Grown, Sound, Fits, Lost
<1> QED
  BY <1>1, <1>3 DEF t

\* A session that is closed.
LEMMA GrownClosed ==
  ASSUME NEW s \in Sessions, NEW top \in Nat
  PROVE  LET t == Stt!Close(s) IN t \in Sessions /\ Grown(s, t, top, top) /\ t.closed
<1> DEFINE t == Stt!Close(s)
<1>1. t \in Sessions /\ t.closed
  BY NoUnits DEF Stt!Close, Sessions
<1>2. /\ t.owner = s.owner /\ t.finalized = s.finalized /\ t.owed = s.owed
      /\ t.heard = <<>> /\ t.pending = <<>> /\ t.said = 0
      /\ t.finalize = s.finalize /\ t.speech = s.speech
  BY DEF Stt!Close, Sessions
<1> HIDE DEF t
<1>3. Sound(s, top) => Sound(t, top)
  BY <1>2, NoUnits, EmptySeq DEF Sound, Before, Among
<1>4. Grown(s, t, top, top)
  BY <1>1, <1>2, <1>3 DEF Grown
<1> QED
  BY <1>1, <1>4 DEF t

\* A session that is fed.
LEMMA GrownFed ==
  ASSUME NEW s \in Sessions, NEW top \in Nat, NEW us, Burst(us, top), ~s.finalize
  PROVE  LET t == Stt!Feed(s, us) IN
         /\ t \in Sessions /\ Grown(s, t, top, top + Len(us))
         /\ ~t.finalize /\ t.closed = s.closed
<1> DEFINE t == Stt!Feed(s, us)
<1>1. /\ us \in Seq(Nat) /\ Len(us) \in Nat \ {0} /\ us[Len(us)] \in Nat
      /\ s.pending \in Seq(Nat) /\ s.heard \in Seq(Nat) /\ s.pending \o us \in Seq(Nat)
      /\ s.secs + Len(us) \in Nat
      /\ s.owed \cup (Of(us) \ {0}) \in SUBSET (Nat \ {0})
      /\ \A x \in Seq(Nat) : \A u \in Of(x) : u \in Nat
  <2>1. \A x \in Seq(Nat) : \A u \in Of(x) : u \in Nat
    BY ElementOfSeq DEF Of
  <2>2. us \in Seq(Nat) /\ Len(us) \in Nat \ {0}
    BY EmptySeq DEF Burst
  <2>3. us[Len(us)] \in Nat
    BY <2>2, ElementOfSeq
  <2>4. s.pending \in Seq(Nat) /\ s.heard \in Seq(Nat) /\ s.secs \in Nat
        /\ s.owed \in SUBSET (Nat \ {0})
    BY DEF Sessions
  <2> QED
    BY <2>1, <2>2, <2>3, <2>4, UnitsJoin
<1>2. /\ t.owner = s.owner /\ t.turn = s.turn /\ t.heard = s.heard /\ t.said = s.said
      /\ t.fed = s.fed /\ t.finalize = s.finalize /\ t.finalized = s.finalized
      /\ t.closed = s.closed /\ t.pending = s.pending \o us
      /\ t.secs = s.secs + Len(us) /\ t.owed = s.owed \cup (Of(us) \ {0})
      /\ t.speech = (s.speech \/ Of(us) \ {0} # {}) /\ t.quiet = (us[Len(us)] = 0)
  BY <1>1, SttOperators DEF Stt!Feed, Stt!Observe, Stt!Last, Sessions
<1>3. t \in Sessions
  <2> DEFINE o == Stt!Observe(s, us)
             talks == s.speech \/ Stt!Speech(us) # {}
             still == us[Len(us)] = 0
  <2>1. talks \in BOOLEAN /\ still \in BOOLEAN
    OBVIOUS
  <2>2. o = [s EXCEPT !.speech = talks, !.quiet = still]
    BY DEF Stt!Observe, Stt!Last, Sessions
  <2>3. o \in Sessions /\ o.pending = s.pending /\ o.secs = s.secs /\ o.owed = s.owed
    <3> HIDE DEF o, talks, still
    <3> QED
      BY <2>1, <2>2 DEF Sessions
  <2>4. t = [o EXCEPT !.pending = s.pending \o us, !.secs = s.secs + Len(us),
                      !.owed = s.owed \cup (Of(us) \ {0})]
    <3>1. t = [o EXCEPT !.pending = o.pending \o us, !.secs = o.secs + Len(us),
                        !.owed = o.owed \cup Stt!Speech(us)]
      BY DEF Stt!Feed
    <3> HIDE DEF o, t
    <3> QED
      BY <1>1, <2>3, <3>1, SttOperators
  <2> HIDE DEF o, t
  <2> QED
    BY <1>1, <2>3, <2>4 DEF Sessions
<1> HIDE DEF t
<1>4. /\ Ascend(us) /\ \A u \in Of(us) : u \in Nat /\ (u = 0 \/ top < u)
      /\ \A u \in Of(us) : u <= top + Len(us)
  BY <1>1 DEF Burst
<1>5. ASSUME NEW x \in Seq(Nat), Among(x, s.owed, top)
      PROVE  Before(x, us) /\ Among(x, t.owed, top + Len(us))
  <2>1. \A u \in Of(x) : u \in Nat /\ u <= top /\ (u = 0 \/ u \in s.owed)
    BY <1>1, <1>5 DEF Among
  <2>2. Before(x, us)
    BY <1>4, <2>1 DEF Before
  <2>3. Among(x, t.owed, top + Len(us))
    BY <1>1, <1>2, <2>1 DEF Among
  <2> QED
    BY <2>2, <2>3
<1>6. Among(us, t.owed, top + Len(us))
  BY <1>2, <1>4 DEF Among
<1>7. ASSUME Sound(s, top) PROVE Sound(t, top + Len(us))
  <2>1. Ascend(t.pending) /\ Of(t.pending) = Of(s.pending) \cup Of(us)
    BY <1>1, <1>2, <1>4, <1>5, <1>7, UnitsJoin DEF Sound
  <2>2. Before(t.heard, t.pending)
    BY <1>1, <1>2, <1>5, <1>7, <2>1 DEF Sound, Before
  <2>3. Among(t.heard, t.owed, top + Len(us))
    BY <1>1, <1>2, <1>5, <1>7 DEF Sound
  <2>4. Among(t.pending, t.owed, top + Len(us))
    <3>1. Among(s.pending, t.owed, top + Len(us))
      BY <1>1, <1>5, <1>7 DEF Sound
    <3> QED
      BY <1>6, <2>1, <3>1 DEF Among
  <2>5. ~t.speech => t.owed = {}
    BY <1>2, <1>7 DEF Sound
  <2> QED
    BY <1>2, <1>7, <2>1, <2>2, <2>3, <2>4, <2>5 DEF Sound
<1>8. ASSUME NEW x \in Seq(Nat), Fits(s, x, top) PROVE Fits(t, x, top + Len(us))
  <2>1. Of(t.pending) = Of(s.pending) \cup Of(us)
    BY <1>1, <1>2, UnitsJoin
  <2>2. Before(x, us) /\ Among(x, t.owed, top + Len(us))
    BY <1>5, <1>8 DEF Fits
  <2>3. Before(x, t.pending)
    BY <1>8, <2>1, <2>2 DEF Before, Fits
  <2> QED
    BY <1>2, <1>8, <2>2, <2>3 DEF Fits
<1>9. Lost(t) \subseteq Lost(s)
  <2>1. Of(t.pending) = Of(s.pending) \cup Of(us)
    BY <1>1, <1>2, UnitsJoin
  <2> QED
    BY <1>2, <2>1 DEF Lost
<1>10. Grown(s, t, top, top + Len(us))
  BY <1>2, <1>7, <1>8, <1>9 DEF Grown
<1> QED
  BY <1>2, <1>3, <1>10 DEF t

\* A session that is asked for its final at the end of its turn's speech: what is cut
\* off is owed no more.
LEMMA GrownDropped ==
  ASSUME NEW s \in Sessions, NEW top \in Nat, ~s.finalize
  PROVE  LET t == Stt!DropPending(s) IN
         t \in Sessions /\ Grown(s, t, top, top) /\ t.finalize /\ t.closed = s.closed
<1> DEFINE t == Stt!DropPending(s)
           n == Stt!Min({Stt!SamplesNeeded(s), Len(s.pending)})
           front == SubSeq(s.pending, 1, n)
           rest == SubSeq(s.pending, n + 1, Len(s.pending))
<1>1. s.pending \in Seq(Nat) /\ Len(s.pending) \in Nat /\ s.heard \in Seq(Nat)
      /\ s.owed \in SUBSET (Nat \ {0})
  BY LenProperties DEF Sessions
<1>2. n \in 0..Len(s.pending)
  <2>1. Stt!SamplesNeeded(s) \in Nat
    BY DEF Stt!SamplesNeeded
  <2> HIDE DEF n
  <2>2. n \in Nat /\ n <= Len(s.pending)
    BY <1>1, <2>1, SttMin DEF n
  <2> QED
    BY <1>1, <2>2
<1> HIDE DEF n
<1>3. /\ front \in Seq(Nat) /\ rest \in Seq(Nat)
      /\ Of(s.pending) = Of(front) \cup Of(rest)
      /\ Ascend(s.pending) => Ascend(front) /\ Ascend(rest) /\ Before(front, rest)
  BY <1>1, <1>2, UnitsCut
<1>4. t = [s EXCEPT !.finalize = TRUE, !.pending = front, !.owed = s.owed \ Stt!ToSet(rest)]
  BY DEF Stt!DropPending, Stt!RequestFinalize, n, Sessions
<1> HIDE DEF front, rest, t
<1>5. t = [s EXCEPT !.finalize = TRUE, !.pending = front, !.owed = s.owed \ Of(rest)]
  BY <1>3, <1>4, SttOperators
<1>6. t \in Sessions /\ t.finalize
  BY <1>1, <1>3, <1>5 DEF Sessions
<1>7. /\ t.owner = s.owner /\ t.finalized = s.finalized /\ t.heard = s.heard
      /\ t.said = s.said /\ t.speech = s.speech /\ t.closed = s.closed
      /\ t.pending = front /\ t.owed = s.owed \ Of(rest)
  BY <1>5 DEF Sessions
<1>8. ASSUME NEW x \in Seq(Nat), Among(x, s.owed, top), Before(x, rest)
      PROVE  Among(x, t.owed, top)
  <2> SUFFICES ASSUME NEW u \in Of(x) PROVE u <= top /\ (u = 0 \/ u \in t.owed)
    BY DEF Among
  <2>1. u <= top /\ (u = 0 \/ u \in s.owed)
    BY <1>8 DEF Among
  <2>2. u \in Nat
    BY ElementOfSeq DEF Of
  <2>3. u \in Of(rest) => u = 0
    BY <1>8, <2>2 DEF Before
  <2> QED
    BY <1>7, <2>1, <2>3
<1>9. ASSUME NEW x \in Seq(Nat), Before(x, s.pending) PROVE Before(x, front) /\ Before(x, rest)
  BY <1>3, <1>9 DEF Before
<1>10. Sound(s, top) => Sound(t, top)
  <2> SUFFICES ASSUME Sound(s, top) PROVE Sound(t, top)
    OBVIOUS
  <2>1. Ascend(front) /\ Before(front, rest) /\ Before(t.heard, front)
        /\ Before(s.heard, rest)
    BY <1>1, <1>3, <1>7, <1>9 DEF Sound
  <2>2. Among(front, s.owed, top)
    BY <1>3 DEF Sound, Among
  <2>3. Among(t.heard, t.owed, top) /\ Among(front, t.owed, top)
    BY <1>1, <1>3, <1>7, <1>8, <2>1, <2>2 DEF Sound
  <2> QED
    BY <1>7, <2>1, <2>3 DEF Sound
<1>11. Lost(t) \subseteq Lost(s)
  BY <1>3, <1>7 DEF Lost
<1>12. ASSUME NEW x \in Seq(Nat), Fits(s, x, top) PROVE Fits(t, x, top)
  BY <1>7, <1>8, <1>9, <1>12 DEF Fits
<1>13. Grown(s, t, top, top)
  BY <1>7, <1>10, <1>11, <1>12 DEF Grown
<1> QED
  BY <1>6, <1>7, <1>13 DEF t

---------------------------------------------------------------------------
(* SttStream: the invariant.  It follows a unit of speech from the message *)
(* that brought it, over the tick, to the text that is committed.          *)

Spoken == [sid: 1..MaxSid, text: Seq(Nat), final: BOOLEAN]
Chunks == [sid: 1..MaxSid, units: Seq(Nat), last: BOOLEAN]
Finished == [sid: 1..MaxSid, text: Seq(Nat)]

EngineOK ==
  /\ s_seq \in 0..MaxSid /\ live \in SUBSET (1..s_seq) /\ up \in BOOLEAN
  /\ sess \in [1..MaxSid -> Sessions]
  /\ \A i \in live : ~sess[i].closed

HandlersOK ==
  /\ s_phase \in [SttClients -> {"new", "accepted", "hello", "open", "draining", "waiting",
                                 "lost", "gone"}]
  /\ s_turn \in [SttClients -> Nat] /\ turns \in [SttClients -> SUBSET (1..s_seq)]
  /\ cur \in [SttClients -> 0..s_seq] /\ s_sent \in [SttClients -> 0..MaxUnits]
  /\ outbox \in [SttClients -> Seq(Spoken)] /\ committed \in [SttClients -> Seq(Finished)]

TickOK ==
  /\ step \in {"poll", "push", "forward", "raise", "decode", "route"}
  /\ due \in Seq(Chunks) /\ out \in Seq(Spoken)
  /\ hurt \in SUBSET (1..MaxSid) /\ s_failures \in 0..MaxFailures

\* A session of the engine is in the dict of the handler that opened it.
Owned ==
  /\ Cardinality(live) <= MaxSessions
  /\ \A c \in SttClients : \A i \in turns[c] : sess[i].owner = c
  /\ \A i \in live : i \in turns[sess[i].owner]
  /\ \A c \in SttClients : s_phase[c] \in {"new", "accepted", "gone"} =>
       turns[c] = {} /\ outbox[c] = <<>>

\* The session a stream feeds is its own, and nobody has asked for its final.
Current ==
  \A c \in SttClients :
    /\ s_phase[c] = "new" => s_sent[c] = 0
    /\ s_phase[c] \in {"hello", "open", "draining", "waiting", "lost"} =>
         cur[c] \in 1..s_seq /\ sess[cur[c]].owner = c
    /\ s_phase[c] \in {"hello", "open"} => cur[c] \in turns[c] /\ ~sess[cur[c]].finalize

\* The units the tick has taken and not yet pushed.
Flying(i) ==
  UNION {Of(due[n].units) : n \in {k \in 1..Len(due) : step = "push" /\ due[k].sid = i}}

\* What an open session is owed it holds, or the tick has it, unless a tick raised.
Holds ==
  \A i \in 1..s_seq :
    /\ Sound(sess[i], s_sent[sess[i].owner])
    /\ ~sess[i].closed /\ i \notin hurt => Lost(sess[i]) \subseteq Flying(i)

\* The batch holds a session at most once, and a chunk fits where it was taken.
Due ==
  /\ step \in {"poll", "route"} => due = <<>>
  /\ \A n \in 1..Len(due) :
       /\ due[n].sid <= s_seq /\ ~sess[due[n].sid].finalized
       /\ \A m \in 1..Len(due) : due[m].sid = due[n].sid => m = n
       /\ ~sess[due[n].sid].closed =>
            /\ step = "push" =>
                 Fits(sess[due[n].sid], due[n].units, s_sent[sess[due[n].sid].owner])
            /\ due[n].last => sess[due[n].sid].finalize /\ sess[due[n].sid].pending = <<>>

\* A final says all that is owed.
Whole(i, text) ==
  /\ i <= s_seq /\ sess[i].finalize /\ Ascend(text)
  /\ Of(text) \subseteq {0} \cup sess[i].owed
  /\ i \notin hurt => sess[i].owed \subseteq Of(text)

\* The tick has the session of a delta only once, and of a final no more.
Finals ==
  \A n \in 1..Len(out) :
    /\ out[n].sid <= s_seq
    /\ out[n].final => Whole(out[n].sid, out[n].text) /\ sess[out[n].sid].finalized
    /\ \A m \in 1..Len(out) : out[m].sid = out[n].sid => m = n
    /\ \A m \in 1..Len(due) : due[m].sid # out[n].sid

\* A final stays whole on its way through the outbox.
Delivered ==
  \A c \in SttClients :
    /\ \A n \in 1..Len(outbox[c]) :
         outbox[c][n].final => Whole(outbox[c][n].sid, outbox[c][n].text)
    /\ \A n \in 1..Len(committed[c]) : Whole(committed[c][n].sid, committed[c][n].text)

\* An upload has one session, and nothing follows its final.
Uploads ==
  \A c \in SttClients : s_phase[c] = "waiting" =>
    /\ turns[c] = {cur[c]}
    /\ \A n \in 1..Len(outbox[c]) : outbox[c][n].final =>
         /\ n = Len(outbox[c]) /\ sess[cur[c]].finalized
         /\ \A m \in 1..Len(out) : out[m].sid # cur[c]
         /\ \A m \in 1..Len(due) : due[m].sid # cur[c]

SttInv ==
  /\ EngineOK /\ HandlersOK /\ TickOK /\ Owned /\ Current
  /\ Holds /\ Due /\ Finals /\ Delivered /\ Uploads

\* The engine's limits are whole numbers.
LEMMA SttConstants ==
  /\ MaxSid \in Nat /\ MaxSessions \in Nat /\ MaxUnits \in Nat /\ MaxBatch \in Nat
  /\ MaxFailures \in Nat
  /\ Stt!Clients = SttClients /\ Stt!Sid = 1..MaxSid
  BY SttAssumption, RealtimeAssumption DEF Stt!Clients, SttClients, Stt!Sid

\* A session nobody has used.
LEMMA UnusedSession ==
  /\ Stt!Unused \in Sessions /\ Sound(Stt!Unused, 0) /\ Lost(Stt!Unused) = {}
  /\ ~Stt!Unused.closed /\ ~Stt!Unused.finalized /\ ~Stt!Unused.finalize
<1> DEFINE unused == Stt!Unused
<1>1. (CHOOSE c \in SttClients : TRUE) \in SttClients
  BY SttAssumption DEF SttClients
<1>2. unused \in Sessions
  BY <1>1, SttConstants, NoUnits DEF Stt!Unused, Sessions
<1>3. /\ unused.heard = <<>> /\ unused.pending = <<>> /\ unused.said = 0
      /\ unused.owed = {} /\ ~unused.closed /\ ~unused.finalized /\ ~unused.finalize
  BY DEF Stt!Unused
<1> HIDE DEF unused
<1>4. Sound(unused, 0) /\ Lost(unused) = {}
  BY <1>3, NoUnits, EmptySeq DEF Sound, Before, Among, Lost
<1> QED
  BY <1>2, <1>3, <1>4 DEF unused

\* A session as it is opened.
Opened(s, top) ==
  s \in Sessions /\ ~s.closed /\ ~s.finalized /\ Sound(s, top) /\ Lost(s) = {}

\* The session of a new turn.
LEMMA OpenedTurn ==
  ASSUME NEW c \in SttClients, NEW t \in Nat, NEW top \in Nat
  PROVE  LET s == [Stt!Unused EXCEPT !.owner = c, !.turn = t] IN
         Opened(s, top) /\ s.owner = c /\ ~s.finalize
<1> DEFINE u == Stt!Unused
           s == [u EXCEPT !.owner = c, !.turn = t]
<1>1. u \in Sessions /\ Sound(u, 0) /\ Lost(u) = {} /\ ~u.closed /\ ~u.finalized /\ ~u.finalize
  BY UnusedSession
<1> HIDE DEF u
<1>2. /\ s \in Sessions /\ s.owner = c /\ s.heard = u.heard /\ s.pending = u.pending
      /\ s.said = u.said /\ s.owed = u.owed /\ s.speech = u.speech /\ s.closed = u.closed
      /\ s.finalized = u.finalized /\ s.finalize = u.finalize
  BY <1>1 DEF Sessions
<1> HIDE DEF s
<1>3. Sound(s, 0) /\ Lost(s) = {}
  BY <1>1, <1>2 DEF Sound, Lost
<1>4. Sound(s, top)
  BY <1>2, <1>3, GrownSame DEF Grown
<1> QED
  BY <1>1, <1>2, <1>3, <1>4 DEF Opened, u, s

---------------------------------------------------------------------------
(* SttStream: the handlers.                                                *)

\* What is committed anew is a final of the outbox.
CommitsFinals ==
  \A c \in SttClients : \A n \in 1..Len(committed'[c]) :
    \/ \E m \in 1..Len(committed[c]) : committed'[c][n] = committed[c][m]
    \/ \E m \in 1..Len(outbox[c]) :
         /\ outbox[c][m].final
         /\ committed'[c][n] = [sid |-> outbox[c][m].sid, text |-> outbox[c][m].text]

\* What a handler's step leaves of the tick: sessions grow or are opened, deltas are
\* taken from an outbox, and a final may be committed.
Handled ==
  /\ UNCHANGED <<step, due, out, hurt>>
  /\ s_seq <= s_seq'
  /\ \A i \in 1..s_seq :
       Grown(sess[i], sess'[i], s_sent[sess[i].owner], s_sent'[sess[i].owner])
  /\ \A i \in 1..s_seq' : i \in 1..s_seq \/ Opened(sess'[i], s_sent'[sess'[i].owner])
  /\ \A c \in SttClients : \A n \in 1..Len(outbox'[c]) :
       \E m \in 1..Len(outbox[c]) : outbox'[c][n] = outbox[c][m]
  /\ CommitsFinals

\* A text that is whole after the step.
WholeThen(i, text) ==
  /\ i <= s_seq' /\ sess'[i].finalize /\ Ascend(text)
  /\ Of(text) \subseteq {0} \cup sess'[i].owed
  /\ i \notin hurt' => sess'[i].owed \subseteq Of(text)

\* What is held, due and final stays so under the steps of the handlers.
LEMMA HandledStep ==
  ASSUME SttInv, s_seq' \in 0..MaxSid, Handled
  PROVE  Holds' /\ Due' /\ Finals' /\ Delivered'
<1>0. UNCHANGED <<step, due, out, hurt>> /\ s_seq <= s_seq'
  BY DEF Handled
<1>1. /\ s_seq \in Nat /\ s_seq' \in Nat /\ s_seq <= s_seq' /\ s_seq <= MaxSid
      /\ sess \in [1..MaxSid -> Sessions]
  <2>1. s_seq \in 0..MaxSid /\ sess \in [1..MaxSid -> Sessions]
    BY DEF SttInv, EngineOK
  <2>2. s_seq \in Nat /\ s_seq' \in Nat /\ s_seq <= MaxSid
    BY <2>1, SttConstants
  <2> QED
    BY <1>0, <2>1, <2>2
<1>2. ASSUME NEW i \in 1..s_seq
      PROVE  /\ i \in 1..s_seq'
             /\ Grown(sess[i], sess'[i], s_sent[sess[i].owner], s_sent'[sess'[i].owner])
             /\ Sound(sess[i], s_sent[sess[i].owner])
             /\ ~sess[i].closed /\ i \notin hurt => Lost(sess[i]) \subseteq Flying(i)
  <2>1. Grown(sess[i], sess'[i], s_sent[sess[i].owner], s_sent'[sess[i].owner])
    BY DEF Handled
  <2>2. sess'[i].owner = sess[i].owner
    BY <2>1 DEF Grown
  <2>3. /\ Sound(sess[i], s_sent[sess[i].owner])
        /\ ~sess[i].closed /\ i \notin hurt => Lost(sess[i]) \subseteq Flying(i)
    BY DEF SttInv, Holds
  <2>4. i \in 1..s_seq'
    BY <1>1
  <2> QED
    BY <2>1, <2>2, <2>3, <2>4
<1>3. \A i : Flying(i)' = Flying(i)
  BY <1>0 DEF Flying
<1>4. Holds'
  <2> SUFFICES ASSUME NEW i \in 1..s_seq'
               PROVE  /\ Sound(sess'[i], s_sent'[sess'[i].owner])
                      /\ ~sess'[i].closed /\ i \notin hurt => Lost(sess'[i]) \subseteq Flying(i)
    BY <1>0, <1>3 DEF Holds
  <2>1. CASE i \in 1..s_seq
    BY <1>2, <2>1 DEF Grown
  <2>2. CASE i \notin 1..s_seq
    BY <2>2 DEF Handled, Opened
  <2> QED
    BY <2>1, <2>2
<1>5. \A n \in 1..Len(due) : due[n] \in Chunks /\ due[n].sid \in 1..s_seq
                             /\ due[n].units \in Seq(Nat)
  <2>1. \A n \in 1..Len(due) : due[n] \in Chunks
    BY ElementOfSeq DEF SttInv, TickOK
  <2> QED
    BY <2>1 DEF SttInv, Due, Chunks
<1>6. Due'
  <2> SUFFICES ASSUME NEW n \in 1..Len(due)
               PROVE  LET i == due[n].sid IN
                      /\ i <= s_seq' /\ ~sess'[i].finalized
                      /\ ~sess'[i].closed =>
                           /\ step = "push" =>
                                Fits(sess'[i], due[n].units, s_sent'[sess'[i].owner])
                           /\ due[n].last => sess'[i].finalize /\ sess'[i].pending = <<>>
    BY <1>0 DEF SttInv, Due
  <2> DEFINE i == due[n].sid
  <2>1. /\ ~sess[i].finalized
        /\ ~sess[i].closed =>
             /\ step = "push" => Fits(sess[i], due[n].units, s_sent[sess[i].owner])
             /\ due[n].last => sess[i].finalize /\ sess[i].pending = <<>>
    BY DEF SttInv, Due
  <2>2. i \in 1..s_seq /\ due[n].units \in Seq(Nat) /\ i <= s_seq'
    BY <1>1, <1>5
  <2> HIDE DEF i
  <2> QED
    BY <1>2, <2>1, <2>2 DEF i, Grown
<1>7. ASSUME NEW i \in 1..s_seq, NEW text, Whole(i, text) PROVE WholeThen(i, text)
  BY <1>0, <1>1, <1>2, <1>7 DEF Whole, WholeThen, Grown
<1>8. \A i, text : Whole(i, text) /\ i \in 1..MaxSid => i \in 1..s_seq
  BY <1>1 DEF Whole
<1>9. ASSUME NEW n \in 1..Len(out)
      PROVE  /\ out[n].sid <= s_seq'
             /\ out[n].final => /\ WholeThen(out[n].sid, out[n].text)
                                /\ sess'[out[n].sid].finalized
  <2>1. out[n] \in Spoken
    BY ElementOfSeq DEF SttInv, TickOK
  <2>2. out[n].sid \in 1..s_seq
    BY <2>1 DEF SttInv, Finals, Spoken
  <2>3. out[n].final => Whole(out[n].sid, out[n].text) /\ sess[out[n].sid].finalized
    BY DEF SttInv, Finals
  <2> QED
    BY <1>0, <1>1, <1>2, <1>7, <2>2, <2>3 DEF Grown
<1>10. ASSUME NEW c \in SttClients, NEW m \in 1..Len(outbox[c]), outbox[c][m].final
       PROVE  WholeThen(outbox[c][m].sid, outbox[c][m].text)
  <2>1. outbox[c][m] \in Spoken
    BY ElementOfSeq DEF SttInv, HandlersOK
  <2>2. Whole(outbox[c][m].sid, outbox[c][m].text) /\ outbox[c][m].sid \in 1..MaxSid
    BY <1>10, <2>1 DEF SttInv, Delivered, Spoken
  <2> QED
    BY <1>7, <1>8, <2>2
<1>11. ASSUME NEW c \in SttClients, NEW m \in 1..Len(committed[c])
       PROVE  WholeThen(committed[c][m].sid, committed[c][m].text)
  <2>1. committed[c][m] \in Finished
    BY ElementOfSeq DEF SttInv, HandlersOK
  <2>2. Whole(committed[c][m].sid, committed[c][m].text) /\ committed[c][m].sid \in 1..MaxSid
    BY <2>1 DEF SttInv, Delivered, Finished
  <2> QED
    BY <1>7, <1>8, <2>2
<1>12. ASSUME NEW c \in SttClients, NEW n \in 1..Len(outbox'[c]), outbox'[c][n].final
       PROVE  WholeThen(outbox'[c][n].sid, outbox'[c][n].text)
  <2>1. PICK m \in 1..Len(outbox[c]) : outbox'[c][n] = outbox[c][m]
    BY DEF Handled
  <2> QED
    BY <1>10, <1>12, <2>1
<1>13. ASSUME NEW c \in SttClients, NEW n \in 1..Len(committed'[c])
       PROVE  WholeThen(committed'[c][n].sid, committed'[c][n].text)
  <2>1. CASE \E m \in 1..Len(committed[c]) : committed'[c][n] = committed[c][m]
    BY <1>11, <2>1
  <2>2. CASE \E m \in 1..Len(outbox[c]) :
               /\ outbox[c][m].final
               /\ committed'[c][n] = [sid |-> outbox[c][m].sid, text |-> outbox[c][m].text]
    BY <1>10, <2>2
  <2> QED
    BY <2>1, <2>2 DEF Handled, CommitsFinals
<1>14. Finals'
  <2>1. \A n \in 1..Len(out) :
          /\ \A m \in 1..Len(out) : out[m].sid = out[n].sid => m = n
          /\ \A m \in 1..Len(due) : due[m].sid # out[n].sid
    BY DEF SttInv, Finals
  <2> QED
    BY <1>0, <1>9, <2>1 DEF Finals, Whole, WholeThen
<1>15. Delivered'
  BY <1>12, <1>13 DEF Delivered, Whole, WholeThen
<1> QED
  BY <1>4, <1>6, <1>14, <1>15

\* Only c's client has sent anything.
SendsMore(c) ==
  /\ s_sent' \in [SttClients -> 0..MaxUnits]
  /\ \A d \in SttClients \ {c} : s_sent'[d] = s_sent[d]

\* The sessions as they are after a message of c: its own have grown.
Moved(c, ss) ==
  /\ ss \in [1..MaxSid -> Sessions]
  /\ \A i \in 1..MaxSid :
       /\ Grown(sess[i], ss[i], s_sent[sess[i].owner], s_sent'[sess[i].owner])
       /\ ss[i].closed = sess[i].closed
       /\ sess[i].owner # c => ss[i].finalize = sess[i].finalize

\* What the invariant says of the numbers.
LEMMA SttNumbers ==
  ASSUME SttInv
  PROVE  /\ s_seq \in Nat /\ s_seq <= MaxSid /\ MaxSid \in Nat
         /\ sess \in [1..MaxSid -> Sessions]
         /\ \A i \in 1..MaxSid : sess[i] \in Sessions /\ sess[i].owner \in SttClients
         /\ \A c \in SttClients : s_sent[c] \in Nat /\ s_sent[c] <= MaxUnits
         /\ \A i \in 1..s_seq : i \in 1..MaxSid
<1>1. /\ s_seq \in 0..MaxSid /\ sess \in [1..MaxSid -> Sessions]
      /\ s_sent \in [SttClients -> 0..MaxUnits]
  BY DEF SttInv, EngineOK, HandlersOK
<1>2. MaxSid \in Nat /\ MaxUnits \in Nat
  BY SttConstants
<1>3. \A i \in 1..MaxSid : sess[i] \in Sessions /\ sess[i].owner \in SttClients
  BY <1>1 DEF Sessions
<1> QED
  BY <1>1, <1>2, <1>3

\* The engine holds finitely many.
LEMMA LiveIsFinite ==
  ASSUME SttInv PROVE IsFiniteSet(live)
<1>1. live \in SUBSET (1..s_seq) /\ s_seq \in 0..MaxSid
  BY DEF SttInv, EngineOK
<1>2. IsFiniteSet(1..s_seq)
  BY <1>1, SttConstants, FS_Interval
<1> QED
  BY <1>1, <1>2, FS_Subset

\* A session is the same when a client has only sent more.
LEMMA SentMoved ==
  ASSUME SttInv, NEW c \in SttClients, SendsMore(c), s_sent[c] <= s_sent'[c]
  PROVE  Moved(c, sess)
<1>1. ASSUME NEW i \in 1..MaxSid
      PROVE  Grown(sess[i], sess[i], s_sent[sess[i].owner], s_sent'[sess[i].owner])
  <2>1. sess[i] \in Sessions /\ sess[i].owner \in SttClients
    BY SttNumbers
  <2>2. s_sent[sess[i].owner] \in Nat /\ s_sent'[sess[i].owner] \in 0..MaxUnits
    BY <2>1, SttNumbers DEF SendsMore
  <2>3. s_sent[sess[i].owner] <= s_sent'[sess[i].owner]
    BY <2>1, <2>2 DEF SendsMore
  <2> QED
    BY <2>1, <2>2, <2>3, SttConstants, GrownSame
<1> QED
  BY <1>1, SttNumbers DEF Moved

\* Nobody's sessions have changed.
LEMMA NothingMoved ==
  ASSUME SttInv, NEW c \in SttClients, s_sent' = s_sent
  PROVE  SendsMore(c) /\ Moved(c, sess)
<1>1. SendsMore(c)
  BY DEF SttInv, HandlersOK, SendsMore
<1>2. s_sent[c] <= s_sent'[c]
  BY SttNumbers
<1> QED
  BY <1>1, <1>2, SentMoved

\* One session of c has.
LEMMA OneMoved ==
  ASSUME SttInv, NEW c \in SttClients, SendsMore(c), s_sent[c] <= s_sent'[c],
         NEW i \in 1..MaxSid, sess[i].owner = c, NEW t \in Sessions,
         Grown(sess[i], t, s_sent[c], s_sent'[c]), t.closed = sess[i].closed
  PROVE  Moved(c, [sess EXCEPT ![i] = t])
<1> DEFINE ss == [sess EXCEPT ![i] = t]
<1>1. ss \in [1..MaxSid -> Sessions] /\ ss[i] = t
      /\ \A j \in 1..MaxSid : j # i => ss[j] = sess[j]
  BY SttNumbers
<1> HIDE DEF ss
<1>2. Moved(c, sess)
  BY SentMoved
<1>3. ASSUME NEW j \in 1..MaxSid
      PROVE  /\ Grown(sess[j], ss[j], s_sent[sess[j].owner], s_sent'[sess[j].owner])
             /\ ss[j].closed = sess[j].closed
             /\ sess[j].owner # c => ss[j].finalize = sess[j].finalize
  BY <1>1, <1>2 DEF Moved
<1> QED
  BY <1>1, <1>3 DEF Moved, ss

\* Some of them are closed.
LEMMA ClosedMoved ==
  ASSUME SttInv, NEW c \in SttClients, NEW ss, SendsMore(c), Moved(c, ss), NEW ids
  PROVE  LET cl == Stt!Closed(ss, ids) IN
         /\ cl \in [1..MaxSid -> Sessions]
         /\ \A i \in 1..MaxSid :
              /\ Grown(sess[i], cl[i], s_sent[sess[i].owner], s_sent'[sess[i].owner])
              /\ cl[i].owner = sess[i].owner /\ cl[i].finalized = sess[i].finalized
              /\ i \notin ids => cl[i].closed = sess[i].closed
              /\ sess[i].owner # c => cl[i].finalize = sess[i].finalize
<1> DEFINE cl == Stt!Closed(ss, ids)
<1>1. cl = [i \in 1..MaxSid |-> IF i \in ids THEN Stt!Close(ss[i]) ELSE ss[i]]
  BY SttConstants DEF Stt!Closed
<1> HIDE DEF cl
<1>2. ASSUME NEW i \in 1..MaxSid
      PROVE  /\ cl[i] \in Sessions
             /\ Grown(sess[i], cl[i], s_sent[sess[i].owner], s_sent'[sess[i].owner])
             /\ i \notin ids => cl[i].closed = sess[i].closed
             /\ sess[i].owner # c => cl[i].finalize = sess[i].finalize
  <2> DEFINE top == s_sent[sess[i].owner]
             later == s_sent'[sess[i].owner]
  <2>1. /\ Grown(sess[i], ss[i], top, later) /\ ss[i].closed = sess[i].closed
        /\ sess[i].owner # c => ss[i].finalize = sess[i].finalize
        /\ ss[i] \in Sessions
    BY DEF Moved
  <2>2. later \in Nat
    <3>1. sess[i].owner \in SttClients
      BY SttNumbers
    <3>2. later \in 0..MaxUnits /\ MaxUnits \in Nat
      BY <3>1, SttConstants DEF SendsMore
    <3> QED
      BY <3>2
  <2> HIDE DEF top, later
  <2>3. CASE i \notin ids
    BY <1>1, <2>1, <2>3 DEF top, later
  <2>4. CASE i \in ids
    <3>1. cl[i] = Stt!Close(ss[i])
      BY <1>1, <2>4
    <3>2. cl[i] \in Sessions /\ Grown(ss[i], cl[i], later, later)
      BY <2>1, <2>2, <3>1, GrownClosed
    <3>3. Grown(sess[i], cl[i], top, later)
      BY <2>1, <3>2, GrownOn
    <3>4. cl[i].finalize = ss[i].finalize
      BY <2>1, <3>1 DEF Stt!Close, Sessions
    <3> QED
      BY <2>1, <2>4, <3>2, <3>3, <3>4 DEF top, later
  <2> QED
    BY <2>3, <2>4
<1>3. cl \in [1..MaxSid -> Sessions]
  BY <1>1, <1>2
<1>4. \A i \in 1..MaxSid : cl[i].owner = sess[i].owner /\ cl[i].finalized = sess[i].finalized
  BY <1>2 DEF Grown
<1> QED
  BY <1>2, <1>3, <1>4 DEF cl

\* A handler that ends, and may commit a last text.
LEMMA EndStep ==
  ASSUME SttInv, NEW c \in SttClients, NEW ss, SendsMore(c), Moved(c, ss),
         live' = live \ turns[c], sess' = Stt!Closed(ss, turns[c]),
         turns' = [turns EXCEPT ![c] = {}], s_phase' = [s_phase EXCEPT ![c] = "gone"],
         outbox' = [outbox EXCEPT ![c] = <<>>],
         committed' \in [SttClients -> Seq(Finished)], CommitsFinals,
         UNCHANGED <<s_seq, up, s_turn, cur, step, due, out, hurt, s_failures>>
  PROVE  SttInv'
<1>2. /\ sess' \in [1..MaxSid -> Sessions]
      /\ \A i \in 1..MaxSid :
           /\ Grown(sess[i], sess'[i], s_sent[sess[i].owner], s_sent'[sess[i].owner])
           /\ sess'[i].owner = sess[i].owner /\ sess'[i].finalized = sess[i].finalized
           /\ i \notin turns[c] => sess'[i].closed = sess[i].closed
           /\ sess[i].owner # c => sess'[i].finalize = sess[i].finalize
  BY ClosedMoved
<1>3. s_seq \in 0..MaxSid /\ s_seq \in Nat /\ s_seq <= MaxSid
      /\ \A i \in 1..s_seq : i \in 1..MaxSid
  BY SttNumbers DEF SttInv, EngineOK
<1>4. EngineOK'
  <2>1. live' \in SUBSET (1..s_seq') /\ s_seq' \in 0..MaxSid /\ up' \in BOOLEAN
    BY DEF SttInv, EngineOK
  <2>2. \A i \in live' : ~sess'[i].closed
    BY <1>2, <1>3 DEF SttInv, EngineOK
  <2> QED
    BY <1>2, <2>1, <2>2 DEF EngineOK
<1>5. HandlersOK'
  <2>1. HandlersOK
    BY DEF SttInv
  <2>2. outbox' \in [SttClients -> Seq(Spoken)]
    BY <2>1, EmptySeq DEF HandlersOK
  <2>3. turns' \in [SttClients -> SUBSET (1..s_seq')]
    BY <2>1 DEF HandlersOK
  <2>4. /\ s_phase' \in [SttClients -> {"new", "accepted", "hello", "open", "draining",
                                        "waiting", "lost", "gone"}]
    BY <2>1 DEF HandlersOK
  <2> QED
    BY <2>1, <2>2, <2>3, <2>4 DEF HandlersOK, SendsMore
<1>6. TickOK'
  BY DEF SttInv, TickOK
<1>7. /\ \A d \in SttClients : /\ d # c => turns'[d] = turns[d] /\ outbox'[d] = outbox[d]
                                        /\ s_phase'[d] = s_phase[d]
                               /\ cur'[d] = cur[d]
      /\ turns'[c] = {} /\ outbox'[c] = <<>> /\ s_phase'[c] = "gone"
  BY DEF SttInv, HandlersOK
<1>8. Owned'
  <2>1. Owned /\ EngineOK /\ HandlersOK
    BY DEF SttInv
  <2>2. Cardinality(live') <= MaxSessions
    <3>1. live' \subseteq live /\ IsFiniteSet(live)
      BY LiveIsFinite
    <3>2. Cardinality(live') <= Cardinality(live) /\ Cardinality(live') \in Nat
          /\ Cardinality(live) \in Nat
      BY <3>1, FS_Subset, FS_CardinalityType
    <3>3. Cardinality(live) <= MaxSessions
      BY <2>1 DEF Owned
    <3> QED
      BY <3>2, <3>3, SttConstants
  <2>3. ASSUME NEW d \in SttClients, NEW i \in turns'[d] PROVE sess'[i].owner = d
    <3>1. d # c /\ i \in turns[d]
      BY <1>7, <2>3
    <3>2. i \in 1..s_seq /\ sess[i].owner = d
      BY <2>1, <3>1 DEF Owned, HandlersOK
    <3> QED
      BY <1>2, <1>3, <3>2
  <2>4. ASSUME NEW i \in live' PROVE i \in turns'[sess'[i].owner]
    <3>1. i \in live /\ i \notin turns[c] /\ i \in 1..MaxSid
      BY <1>3, <2>1 DEF EngineOK
    <3>2. i \in turns[sess[i].owner] /\ sess[i].owner # c /\ sess[i].owner \in SttClients
      BY <2>1, <3>1, SttNumbers DEF Owned
    <3> QED
      BY <1>2, <1>7, <3>1, <3>2
  <2>5. \A d \in SttClients : s_phase'[d] \in {"new", "accepted", "gone"} =>
          turns'[d] = {} /\ outbox'[d] = <<>>
    BY <1>7, <2>1 DEF Owned
  <2> QED
    BY <2>2, <2>3, <2>4, <2>5 DEF Owned
<1>9. Current'
  <2> SUFFICES ASSUME NEW d \in SttClients
               PROVE  /\ s_phase'[d] = "new" => s_sent'[d] = 0
                      /\ s_phase'[d] \in {"hello", "open", "draining", "waiting", "lost"} =>
                           cur'[d] \in 1..s_seq' /\ sess'[cur'[d]].owner = d
                      /\ s_phase'[d] \in {"hello", "open"} =>
                           cur'[d] \in turns'[d] /\ ~sess'[cur'[d]].finalize
    BY DEF Current
  <2>1. CASE d = c
    BY <1>7, <2>1
  <2>2. CASE d # c
    <3>1. s_phase'[d] = s_phase[d] /\ cur'[d] = cur[d] /\ s_sent'[d] = s_sent[d]
      BY <1>7, <2>2 DEF SendsMore
    <3>2. /\ s_phase[d] = "new" => s_sent[d] = 0
          /\ s_phase[d] \in {"hello", "open", "draining", "waiting", "lost"} =>
               cur[d] \in 1..s_seq /\ sess[cur[d]].owner = d
          /\ s_phase[d] \in {"hello", "open"} => cur[d] \in turns[d] /\ ~sess[cur[d]].finalize
      BY DEF SttInv, Current
    <3> QED
      BY <1>2, <1>3, <2>2, <3>1, <3>2
  <2> QED
    BY <2>1, <2>2
<1>10. Uploads'
  <2> SUFFICES ASSUME NEW d \in SttClients, s_phase'[d] = "waiting"
               PROVE  /\ turns'[d] = {cur'[d]}
                      /\ \A n \in 1..Len(outbox'[d]) : outbox'[d][n].final =>
                           /\ n = Len(outbox'[d]) /\ sess'[cur'[d]].finalized
                           /\ \A m \in 1..Len(out) : out[m].sid # cur'[d]
                           /\ \A m \in 1..Len(due) : due[m].sid # cur'[d]
    BY DEF Uploads
  <2>1. d # c /\ turns'[d] = turns[d] /\ outbox'[d] = outbox[d] /\ cur'[d] = cur[d]
        /\ s_phase[d] = "waiting"
    BY <1>7
  <2>2. cur[d] \in 1..s_seq
    BY <2>1 DEF SttInv, Current
  <2>3. sess'[cur[d]].finalized = sess[cur[d]].finalized
    BY <1>2, <1>3, <2>2
  <2> QED
    BY <2>1, <2>3 DEF SttInv, Uploads
<1>11. Handled
  <2>1. \A d \in SttClients : \A n \in 1..Len(outbox'[d]) :
          \E m \in 1..Len(outbox[d]) : outbox'[d][n] = outbox[d][m]
    <3> SUFFICES ASSUME NEW d \in SttClients, NEW n \in 1..Len(outbox'[d])
                 PROVE  \E m \in 1..Len(outbox[d]) : outbox'[d][n] = outbox[d][m]
      OBVIOUS
    <3>1. d # c
      BY <1>7, EmptySeq
    <3> QED
      BY <1>7, <3>1
  <2> QED
    BY <1>2, <1>3, <2>1 DEF Handled
<1>12. s_seq' \in 0..MaxSid
  BY <1>3
<1> QED
  BY <1>4, <1>5, <1>6, <1>8, <1>9, <1>10, <1>11, <1>12, HandledStep DEF SttInv

\* A handler that closes the sessions of its turns.
LEMMA LeaveStep ==
  ASSUME SttInv, NEW c \in SttClients, NEW ss, SendsMore(c), Moved(c, ss),
         NEW also \in SUBSET turns[c], Stt!Leave(c, ss, also)
  PROVE  SttInv'
<1>1. turns[c] \cup also = turns[c]
  OBVIOUS
<1>2. /\ live' = live \ turns[c] /\ sess' = Stt!Closed(ss, turns[c])
      /\ turns' = [turns EXCEPT ![c] = {}] /\ s_phase' = [s_phase EXCEPT ![c] = "gone"]
      /\ outbox' = [outbox EXCEPT ![c] = <<>>]
      /\ UNCHANGED <<s_seq, up, s_turn, cur, committed, step, due, out, hurt, s_failures>>
  BY <1>1 DEF Stt!Leave, Stt!tickVars
<1>3. committed' \in [SttClients -> Seq(Finished)] /\ CommitsFinals
  BY <1>2 DEF SttInv, HandlersOK, CommitsFinals
<1> QED
  BY <1>2, <1>3, EndStep

\* The sessions of the engine are those of cl: c's have grown, and what it retired is
\* closed.
Carried(c, cl, retired) ==
  /\ cl \in [1..MaxSid -> Sessions]
  /\ \A i \in 1..MaxSid :
       /\ Grown(sess[i], cl[i], s_sent[sess[i].owner], s_sent'[sess[i].owner])
       /\ cl[i].owner = sess[i].owner /\ cl[i].finalized = sess[i].finalized
       /\ i \notin retired => cl[i].closed = sess[i].closed
       /\ sess[i].owner # c => cl[i].finalize = sess[i].finalize

\* And c opens a fresh one.
Opens(c, cl, retired, fresh, next) ==
  /\ Opened(fresh, s_sent'[c]) /\ fresh.owner = c
  /\ next \in {"hello", "open", "waiting"}
  /\ next \in {"hello", "open"} => ~fresh.finalize
  /\ next = "waiting" => turns[c] = {} /\ outbox[c] = <<>>
  /\ s_seq < MaxSid /\ s_seq' = s_seq + 1
  /\ sess' = [cl EXCEPT ![s_seq + 1] = fresh]
  /\ live' = (live \ retired) \cup {s_seq + 1} /\ Cardinality(live') <= MaxSessions
  /\ turns' = [turns EXCEPT ![c] = (@ \ retired) \cup {s_seq + 1}]
  /\ cur' = [cur EXCEPT ![c] = s_seq + 1] /\ s_turn' \in [SttClients -> Nat]
  /\ s_phase' = [s_phase EXCEPT ![c] = next]
  /\ UNCHANGED <<up, outbox, committed, step, due, out, hurt, s_failures>>

\* A handler that opens a session.
LEMMA OpenStep ==
  ASSUME SttInv, NEW c \in SttClients, SendsMore(c), NEW cl,
         NEW retired \in SUBSET turns[c], Carried(c, cl, retired), NEW fresh, NEW next,
         Opens(c, cl, retired, fresh, next)
  PROVE  SttInv'
<1>1. /\ s_seq < MaxSid /\ s_seq' = s_seq + 1
      /\ sess' = [cl EXCEPT ![s_seq + 1] = fresh]
      /\ live' = (live \ retired) \cup {s_seq + 1} /\ Cardinality(live') <= MaxSessions
      /\ turns' = [turns EXCEPT ![c] = (@ \ retired) \cup {s_seq + 1}]
      /\ cur' = [cur EXCEPT ![c] = s_seq + 1] /\ s_turn' \in [SttClients -> Nat]
      /\ s_phase' = [s_phase EXCEPT ![c] = next]
      /\ UNCHANGED <<up, outbox, committed, step, due, out, hurt, s_failures>>
      /\ next \in {"hello", "open", "waiting"}
      /\ next \in {"hello", "open"} => ~fresh.finalize
      /\ next = "waiting" => turns[c] = {} /\ outbox[c] = <<>>
  BY DEF Opens
<1>2. /\ s_seq \in Nat /\ s_seq + 1 \in 1..MaxSid /\ s_seq' \in 0..MaxSid
      /\ \A i \in 1..s_seq : i \in 1..MaxSid /\ i # s_seq + 1 /\ i \in 1..s_seq'
      /\ \A i \in 1..s_seq' : i \in 1..s_seq \/ i = s_seq + 1
      /\ s_seq + 1 \in 1..s_seq' /\ s_seq <= s_seq'
  BY <1>1, SttNumbers
<1>3. /\ cl \in [1..MaxSid -> Sessions]
      /\ \A i \in 1..MaxSid :
           /\ Grown(sess[i], cl[i], s_sent[sess[i].owner], s_sent'[sess[i].owner])
           /\ cl[i].owner = sess[i].owner /\ cl[i].finalized = sess[i].finalized
           /\ i \notin retired => cl[i].closed = sess[i].closed
           /\ sess[i].owner # c => cl[i].finalize = sess[i].finalize
  BY DEF Carried
<1>4. Opened(fresh, s_sent'[c]) /\ fresh.owner = c
  BY DEF Opens
<1>5. /\ sess' \in [1..MaxSid -> Sessions] /\ sess'[s_seq + 1] = fresh
      /\ \A i \in 1..s_seq : sess'[i] = cl[i]
  BY <1>1, <1>2, <1>3, <1>4 DEF Opened
<1>6. EngineOK /\ HandlersOK /\ Owned /\ Current /\ Uploads /\ TickOK
  BY DEF SttInv
<1>7. EngineOK'
  <2>1. live' \in SUBSET (1..s_seq') /\ up' \in BOOLEAN
    BY <1>1, <1>2, <1>6 DEF EngineOK
  <2>2. ASSUME NEW i \in live' PROVE ~sess'[i].closed
    <3>1. CASE i = s_seq + 1
      BY <1>4, <1>5, <3>1 DEF Opened
    <3>2. CASE i # s_seq + 1
      <4>1. i \in live /\ i \notin retired /\ i \in 1..s_seq
        BY <1>1, <1>6, <3>2 DEF EngineOK
      <4> QED
        BY <1>2, <1>3, <1>5, <1>6, <4>1 DEF EngineOK
    <3> QED
      BY <3>1, <3>2
  <2> QED
    BY <1>2, <1>5, <2>1, <2>2 DEF EngineOK
<1>8. HandlersOK'
  <2>1. turns' \in [SttClients -> SUBSET (1..s_seq')]
    <3>1. \A d \in SttClients : turns[d] \subseteq 1..s_seq'
      BY <1>2, <1>6 DEF HandlersOK
    <3> QED
      BY <1>1, <1>2, <1>6, <3>1 DEF HandlersOK
  <2>2. cur' \in [SttClients -> 0..s_seq']
    <3>1. s_seq + 1 \in 0..s_seq' /\ \A i \in 0..s_seq : i \in 0..s_seq'
      BY <1>1, <1>2
    <3> QED
      BY <1>1, <1>6, <3>1 DEF HandlersOK
  <2>3. s_phase' \in [SttClients -> {"new", "accepted", "hello", "open", "draining",
                                     "waiting", "lost", "gone"}]
    BY <1>1, <1>6 DEF HandlersOK
  <2>4. s_turn' \in [SttClients -> Nat]
    BY <1>1, <1>6 DEF HandlersOK
  <2> QED
    BY <1>1, <1>6, <2>1, <2>2, <2>3, <2>4 DEF HandlersOK, SendsMore
<1>9. TickOK'
  BY <1>1, <1>6 DEF TickOK
<1>10. /\ \A d \in SttClients : d # c => /\ turns'[d] = turns[d] /\ cur'[d] = cur[d]
                                         /\ s_phase'[d] = s_phase[d]
       /\ turns'[c] = (turns[c] \ retired) \cup {s_seq + 1} /\ cur'[c] = s_seq + 1
       /\ s_phase'[c] = next
  BY <1>1, <1>6 DEF HandlersOK
<1>11. ASSUME NEW d \in SttClients, NEW i \in turns[d] PROVE i \in 1..s_seq
  BY <1>6, <1>11 DEF HandlersOK
<1>12. Owned'
  <2>1. Cardinality(live') <= MaxSessions
    BY <1>1
  <2>2. ASSUME NEW d \in SttClients, NEW i \in turns'[d] PROVE sess'[i].owner = d
    <3>1. CASE i = s_seq + 1
      <4>1. d = c
        BY <1>2, <1>10, <1>11, <2>2, <3>1
      <4> QED
        BY <1>4, <1>5, <3>1, <4>1
    <3>2. CASE i # s_seq + 1
      <4>1. i \in turns[d]
        BY <1>10, <2>2, <3>2
      <4>2. i \in 1..s_seq /\ sess[i].owner = d
        BY <1>6, <1>11, <4>1 DEF Owned
      <4> QED
        BY <1>2, <1>3, <1>5, <4>2
    <3> QED
      BY <3>1, <3>2
  <2>3. ASSUME NEW i \in live' PROVE i \in turns'[sess'[i].owner]
    <3>1. CASE i = s_seq + 1
      BY <1>4, <1>5, <1>10, <3>1
    <3>2. CASE i # s_seq + 1
      <4>1. i \in live /\ i \notin retired /\ i \in 1..s_seq
        BY <1>1, <1>6, <3>2 DEF EngineOK
      <4>2. i \in turns[sess[i].owner] /\ sess[i].owner \in SttClients
        BY <1>2, <1>6, <4>1, SttNumbers DEF Owned
      <4>3. sess'[i].owner = sess[i].owner
        BY <1>2, <1>3, <1>5, <4>1
      <4> QED
        BY <1>10, <4>1, <4>2, <4>3
    <3> QED
      BY <3>1, <3>2
  <2>4. \A d \in SttClients : s_phase'[d] \in {"new", "accepted", "gone"} =>
          turns'[d] = {} /\ outbox'[d] = <<>>
    BY <1>1, <1>6, <1>10 DEF Owned
  <2> QED
    BY <2>1, <2>2, <2>3, <2>4 DEF Owned
<1>13. Current'
  <2> SUFFICES ASSUME NEW d \in SttClients
               PROVE  /\ s_phase'[d] = "new" => s_sent'[d] = 0
                      /\ s_phase'[d] \in {"hello", "open", "draining", "waiting", "lost"} =>
                           cur'[d] \in 1..s_seq' /\ sess'[cur'[d]].owner = d
                      /\ s_phase'[d] \in {"hello", "open"} =>
                         cur'[d] \in turns'[d] /\ ~sess'[cur'[d]].finalize
    BY DEF Current
  <2>1. CASE d = c
    BY <1>1, <1>2, <1>4, <1>5, <1>10, <2>1
  <2>2. CASE d # c
    <3>1. /\ s_phase'[d] = s_phase[d] /\ cur'[d] = cur[d] /\ s_sent'[d] = s_sent[d]
          /\ turns'[d] = turns[d]
      BY <1>10, <2>2 DEF SendsMore
    <3>2. /\ s_phase[d] = "new" => s_sent[d] = 0
          /\ s_phase[d] \in {"hello", "open", "draining", "waiting", "lost"} =>
               cur[d] \in 1..s_seq /\ sess[cur[d]].owner = d
          /\ s_phase[d] \in {"hello", "open"} => cur[d] \in turns[d] /\ ~sess[cur[d]].finalize
      BY <1>6 DEF Current
    <3> QED
      BY <1>2, <1>3, <1>5, <2>2, <3>1, <3>2
  <2> QED
    BY <2>1, <2>2
<1>14. Uploads'
  <2> SUFFICES ASSUME NEW d \in SttClients, s_phase'[d] = "waiting"
               PROVE  /\ turns'[d] = {cur'[d]}
                      /\ \A n \in 1..Len(outbox[d]) : outbox[d][n].final =>
                           /\ n = Len(outbox[d]) /\ sess'[cur'[d]].finalized
                           /\ \A m \in 1..Len(out) : out[m].sid # cur'[d]
                           /\ \A m \in 1..Len(due) : due[m].sid # cur'[d]
    BY <1>1 DEF Uploads
  <2>1. CASE d = c
    <3>1. turns'[d] = {cur'[d]} /\ Len(outbox[d]) = 0
      BY <1>1, <1>10, <2>1, EmptySeq
    <3> QED
      BY <3>1
  <2>2. CASE d # c
    <3>1. turns'[d] = turns[d] /\ cur'[d] = cur[d] /\ s_phase[d] = "waiting"
      BY <1>10, <2>2
    <3>2. cur[d] \in 1..s_seq
      BY <1>6, <3>1 DEF Current
    <3>3. sess'[cur[d]].finalized = sess[cur[d]].finalized
      BY <1>2, <1>3, <1>5, <3>2
    <3> QED
      BY <1>6, <3>1, <3>3 DEF Uploads
  <2> QED
    BY <2>1, <2>2
<1>15. Handled
  <2>1. \A i \in 1..s_seq :
          Grown(sess[i], sess'[i], s_sent[sess[i].owner], s_sent'[sess[i].owner])
    BY <1>2, <1>3, <1>5
  <2>2. \A i \in 1..s_seq' : i \in 1..s_seq \/ Opened(sess'[i], s_sent'[sess'[i].owner])
    BY <1>2, <1>4, <1>5
  <2> QED
    BY <1>1, <1>2, <2>1, <2>2 DEF Handled, CommitsFinals
<1> QED
  BY <1>2, <1>7, <1>8, <1>9, <1>12, <1>13, <1>14, <1>15, HandledStep DEF SttInv

\* A handler that opens the session of its next turn, or ends because it cannot.
LEMMA StartStep ==
  ASSUME SttInv, NEW c \in SttClients, NEW t \in Nat, NEW ss, SendsMore(c), Moved(c, ss),
         NEW retired \in SUBSET turns[c], NEW next \in {"hello", "open"},
         Stt!StartTurn(c, t, ss, retired, next)
  PROVE  SttInv'
<1> DEFINE open == live \ retired
           fresh == [Stt!Unused EXCEPT !.owner = c, !.turn = t]
           cl == Stt!Closed(ss, retired)
<1>1. CASE Stt!Cardinality(open) >= MaxSessions
  <2>1. Stt!Leave(c, ss, retired)
    BY <1>1 DEF Stt!StartTurn
  <2> QED
    BY <2>1, LeaveStep
<1>2. CASE ~(Stt!Cardinality(open) >= MaxSessions)
  <2>1. /\ s_seq < MaxSid /\ s_seq' = s_seq + 1
        /\ sess' = [cl EXCEPT ![s_seq + 1] = fresh]
        /\ live' = open \cup {s_seq + 1}
        /\ turns' = [turns EXCEPT ![c] = (@ \ retired) \cup {s_seq + 1}]
        /\ cur' = [cur EXCEPT ![c] = s_seq + 1] /\ s_turn' = [s_turn EXCEPT ![c] = t]
        /\ s_phase' = [s_phase EXCEPT ![c] = next]
        /\ UNCHANGED <<up, outbox, committed, step, due, out, hurt, s_failures>>
    BY <1>2 DEF Stt!StartTurn, Stt!tickVars
  <2>3. Carried(c, cl, retired)
    BY ClosedMoved DEF Carried
  <2>4. Opened(fresh, s_sent'[c]) /\ fresh.owner = c /\ ~fresh.finalize
    <3>1. s_sent'[c] \in Nat
      BY SttConstants DEF SendsMore
    <3> QED
      BY <3>1, OpenedTurn
  <2>5. Cardinality(open \cup {s_seq + 1}) <= MaxSessions
    <3>1. IsFiniteSet(open) /\ Cardinality(open) \in Nat
      BY LiveIsFinite, FS_Subset, FS_CardinalityType
    <3>2. Cardinality(open) < MaxSessions
      BY <1>2, <3>1, SttConstants, SttOperators
    <3> HIDE DEF open
    <3>3. \/ Cardinality(open \cup {s_seq + 1}) = Cardinality(open)
          \/ Cardinality(open \cup {s_seq + 1}) = Cardinality(open) + 1
      BY <3>1, FS_AddElement
    <3> QED
      BY <3>1, <3>2, <3>3, SttConstants
  <2>6. s_turn' \in [SttClients -> Nat]
    BY <2>1 DEF SttInv, HandlersOK
  <2> HIDE DEF cl, fresh
  <2>7. Opens(c, cl, retired, fresh, next)
    BY <2>1, <2>4, <2>5, <2>6 DEF Opens
  <2> QED
    BY <2>3, <2>7, OpenStep
<1> QED
  BY <1>1, <1>2

\* A handler that goes on with the sessions it has.
LEMMA GrowStep ==
  ASSUME SttInv, NEW c \in SttClients, SendsMore(c), Moved(c, sess'),
         NEW p \in {"accepted", "hello", "open", "draining", "lost", "gone"},
         s_phase' = [s_phase EXCEPT ![c] = p],
         p \in {"accepted", "gone"} => turns[c] = {} /\ outbox[c] = <<>>,
         p \in {"hello", "open", "draining", "lost"} => s_phase[c] \in {"hello", "open"},
         p \in {"hello", "open"} => ~sess'[cur[c]].finalize,
         s_failures' \in 0..MaxFailures,
         UNCHANGED <<s_seq, live, up, s_turn, turns, cur, outbox, committed, step, due, out, hurt>>
  PROVE  SttInv'
<1>1. EngineOK /\ HandlersOK /\ TickOK /\ Owned /\ Current /\ Uploads
  BY DEF SttInv
<1>2. /\ sess' \in [1..MaxSid -> Sessions]
      /\ \A i \in 1..MaxSid :
           /\ Grown(sess[i], sess'[i], s_sent[sess[i].owner], s_sent'[sess[i].owner])
           /\ sess'[i].closed = sess[i].closed
           /\ sess[i].owner # c => sess'[i].finalize = sess[i].finalize
           /\ sess'[i].owner = sess[i].owner /\ sess'[i].finalized = sess[i].finalized
  BY DEF Moved, Grown
<1>3. \A i \in 1..s_seq : i \in 1..MaxSid
  BY SttNumbers
<1>4. EngineOK'
  <2>1. live' \in SUBSET (1..s_seq') /\ up' \in BOOLEAN /\ s_seq' \in 0..MaxSid
    BY <1>1 DEF EngineOK
  <2>2. \A i \in live' : ~sess'[i].closed
    BY <1>1, <1>2, <1>3 DEF EngineOK
  <2> QED
    BY <1>2, <2>1, <2>2 DEF EngineOK
<1>5. HandlersOK'
  <2>1. s_phase' \in [SttClients -> {"new", "accepted", "hello", "open", "draining",
                                     "waiting", "lost", "gone"}]
    BY <1>1 DEF HandlersOK
  <2> QED
    BY <1>1, <2>1 DEF HandlersOK, SendsMore
<1>6. TickOK'
  BY <1>1 DEF TickOK
<1>7. s_phase'[c] = p /\ \A d \in SttClients : d # c => s_phase'[d] = s_phase[d]
  BY <1>1 DEF HandlersOK
<1>8. Owned'
  <2>1. \A d \in SttClients : \A i \in turns[d] : sess'[i].owner = d
    BY <1>1, <1>2, <1>3 DEF Owned, HandlersOK
  <2>2. \A i \in live : i \in turns[sess'[i].owner]
    BY <1>1, <1>2, <1>3 DEF Owned, EngineOK
  <2>3. \A d \in SttClients : s_phase'[d] \in {"new", "accepted", "gone"} =>
          turns'[d] = {} /\ outbox'[d] = <<>>
    BY <1>1, <1>7 DEF Owned
  <2> QED
    BY <1>1, <2>1, <2>2, <2>3 DEF Owned
<1>9. Current'
  <2> SUFFICES ASSUME NEW d \in SttClients
               PROVE  /\ s_phase'[d] = "new" => s_sent'[d] = 0
                      /\ s_phase'[d] \in {"hello", "open", "draining", "waiting", "lost"} =>
                           cur[d] \in 1..s_seq /\ sess'[cur[d]].owner = d
                      /\ s_phase'[d] \in {"hello", "open"} =>
                           cur[d] \in turns[d] /\ ~sess'[cur[d]].finalize
    BY DEF Current
  <2>1. /\ s_phase[d] = "new" => s_sent[d] = 0
        /\ s_phase[d] \in {"hello", "open", "draining", "waiting", "lost"} =>
             cur[d] \in 1..s_seq /\ sess[cur[d]].owner = d
        /\ s_phase[d] \in {"hello", "open"} => cur[d] \in turns[d] /\ ~sess[cur[d]].finalize
    BY <1>1 DEF Current
  <2>2. CASE d = c
    BY <1>2, <1>3, <1>7, <2>1, <2>2
  <2>3. CASE d # c
    <3>1. s_phase'[d] = s_phase[d] /\ s_sent'[d] = s_sent[d]
      BY <1>7, <2>3 DEF SendsMore
    <3> QED
      BY <1>2, <1>3, <2>1, <2>3, <3>1
  <2> QED
    BY <2>2, <2>3
<1>10. Uploads'
  <2> SUFFICES ASSUME NEW d \in SttClients, s_phase'[d] = "waiting"
               PROVE  /\ turns[d] = {cur[d]}
                      /\ \A n \in 1..Len(outbox[d]) : outbox[d][n].final =>
                           /\ n = Len(outbox[d]) /\ sess'[cur[d]].finalized
                           /\ \A m \in 1..Len(out) : out[m].sid # cur[d]
                           /\ \A m \in 1..Len(due) : due[m].sid # cur[d]
    BY DEF Uploads
  <2>1. s_phase[d] = "waiting"
    BY <1>7
  <2>2. sess'[cur[d]].finalized = sess[cur[d]].finalized
    BY <1>1, <1>2, <1>3, <2>1 DEF Current
  <2> QED
    BY <1>1, <2>1, <2>2 DEF Uploads
<1>11. Handled
  <2>1. s_seq <= s_seq' /\ s_seq \in Nat
    BY SttNumbers
  <2> QED
    BY <1>2, <1>3, <2>1 DEF Handled, CommitsFinals
<1>12. s_seq' \in 0..MaxSid
  BY <1>1 DEF EngineOK
<1> QED
  BY <1>4, <1>5, <1>6, <1>8, <1>9, <1>10, <1>11, <1>12, HandledStep DEF SttInv

\* The engine has room for another session exactly when it says so.
LEMMA RoomForOne ==
  ASSUME SttInv, NEW i, Stt!HasRoom
  PROVE  Cardinality(live \cup {i}) <= MaxSessions
<1>1. IsFiniteSet(live) /\ Cardinality(live) \in Nat /\ Cardinality(live) < MaxSessions
  BY LiveIsFinite, FS_CardinalityType, SttOperators DEF Stt!HasRoom
<1>2. Cardinality(live \cup {i}) = Cardinality(live)
      \/ Cardinality(live \cup {i}) = Cardinality(live) + 1
  BY <1>1, FS_AddElement
<1> QED
  BY <1>1, <1>2, SttConstants

\* A stream's handshake.
LEMMA HandshakeSteps ==
  ASSUME SttInv, NEW c \in SttClients,
         \/ c \in Streams /\ Stt!Admit(c)
         \/ Stt!FirstTurn(c) \/ Stt!Handshake(c) \/ Stt!HandshakeFails(c)
  PROVE  SttInv'
<1>1. HandlersOK /\ TickOK /\ Owned /\ Current
  BY DEF SttInv
<1>2. s_sent' = s_sent
  BY DEF Stt!Admit, Stt!FirstTurn, Stt!Handshake, Stt!HandshakeFails
<1>3. SendsMore(c) /\ Moved(c, sess)
  BY <1>2, NothingMoved
<1>4. ASSUME Stt!Admit(c) PROVE SttInv'
  <2>1. turns[c] = {} /\ outbox[c] = <<>>
    BY <1>1, <1>4 DEF Owned, Stt!Admit
  <2>2. PICK p \in {"accepted", "gone"} : s_phase' = [s_phase EXCEPT ![c] = p]
    BY <1>4 DEF Stt!Admit
  <2>3. UNCHANGED <<s_seq, sess, live, up, s_turn, turns, cur, outbox, committed, step, due,
                    out, hurt, s_failures>>
    BY <1>4 DEF Stt!Admit, Stt!engineVars, Stt!tickVars
  <2>4. s_failures' \in 0..MaxFailures
    BY <1>1, <2>3 DEF TickOK
  <2>5. Moved(c, sess')
    BY <1>3, <2>3
  <2> QED
    BY <1>3, <2>1, <2>2, <2>3, <2>4, <2>5, GrowStep
<1>5. ASSUME Stt!FirstTurn(c) PROVE SttInv'
  <2>1. Stt!StartTurn(c, 0, sess, {}, "hello")
    BY <1>5 DEF Stt!FirstTurn
  <2>2. {} \in SUBSET turns[c] /\ 0 \in Nat /\ "hello" \in {"hello", "open"}
    OBVIOUS
  <2> QED
    BY <1>3, <2>1, <2>2, StartStep
<1>6. ASSUME Stt!Handshake(c) PROVE SttInv'
  <2>1. /\ s_phase' = [s_phase EXCEPT ![c] = "open"] /\ s_phase[c] = "hello"
        /\ UNCHANGED <<s_seq, sess, live, up, s_turn, turns, cur, outbox, committed, step, due,
                       out, hurt, s_failures>>
    BY <1>6 DEF Stt!Handshake, Stt!engineVars, Stt!tickVars
  <2>2. s_failures' \in 0..MaxFailures /\ ~sess'[cur[c]].finalize
    BY <1>1, <2>1 DEF TickOK, Current
  <2>3. Moved(c, sess')
    BY <1>3, <2>1
  <2> QED
    BY <1>3, <2>1, <2>2, <2>3, GrowStep
<1>7. ASSUME Stt!HandshakeFails(c) PROVE SttInv'
  <2>1. /\ s_phase' = [s_phase EXCEPT ![c] = "lost"] /\ s_phase[c] = "hello"
        /\ s_failures' = s_failures + 1 /\ s_failures < MaxFailures
        /\ UNCHANGED <<s_seq, sess, live, up, s_turn, turns, cur, outbox, committed, step, due,
                       out, hurt>>
    BY <1>7 DEF Stt!HandshakeFails, Stt!engineVars, Stt!tickVars
  <2>2. s_failures' \in 0..MaxFailures
    BY <1>1, <2>1, SttConstants DEF TickOK
  <2>3. Moved(c, sess')
    BY <1>3, <2>1
  <2> QED
    BY <1>3, <2>1, <2>2, <2>3, GrowStep
<1> QED
  BY <1>4, <1>5, <1>6, <1>7

\* A stream's handler that ends.
LEMMA EndingSteps ==
  ASSUME SttInv, NEW c \in SttClients,
         \/ Stt!ReceiveRaises(c) \/ Stt!CloseStream(c) \/ Stt!Hangup(c)
         \/ Stt!UploadTimesOut(c)
  PROVE  SttInv'
<1>1. s_sent' = s_sent /\ Stt!Leave(c, sess, {})
  BY DEF Stt!ReceiveRaises, Stt!CloseStream, Stt!Hangup, Stt!UploadTimesOut
<1>2. SendsMore(c) /\ Moved(c, sess)
  BY <1>1, NothingMoved
<1>3. {} \in SUBSET turns[c]
  OBVIOUS
<1> QED
  BY <1>1, <1>2, <1>3, LeaveStep

\* The session a stream feeds.
LEMMA CurrentIs ==
  ASSUME SttInv, NEW c \in SttClients, s_phase[c] = "open"
  PROVE  /\ cur[c] \in 1..s_seq /\ cur[c] \in 1..MaxSid /\ sess[cur[c]] \in Sessions
         /\ sess[cur[c]].owner = c /\ ~sess[cur[c]].finalize /\ cur[c] \in turns[c]
         /\ s_sent[c] \in Nat /\ s_turn[c] + 1 \in Nat /\ s_turn[c] \in Nat
<1>1. cur[c] \in 1..s_seq /\ sess[cur[c]].owner = c /\ ~sess[cur[c]].finalize
      /\ cur[c] \in turns[c]
  BY DEF SttInv, Current
<1>2. s_turn[c] \in Nat
  BY DEF SttInv, HandlersOK
<1> QED
  BY <1>1, <1>2, SttNumbers

\* A stream that rolls over to its next turn.
LEMMA RollStep ==
  ASSUME SttInv, NEW c \in SttClients, s_phase[c] = "open", SendsMore(c),
         s_sent[c] <= s_sent'[c], NEW t \in Sessions,
         Grown(sess[cur[c]], t, s_sent[c], s_sent'[c]), t.closed = sess[cur[c]].closed,
         Stt!Roll(c, t)
  PROVE  SttInv'
<1> DEFINE ss == [sess EXCEPT ![cur[c]] = t]
<1>1. Moved(c, ss)
  BY CurrentIs, OneMoved
<1>2. Stt!StartTurn(c, s_turn[c] + 1, ss, {}, "open")
  BY DEF Stt!Roll
<1>3. {} \in SUBSET turns[c] /\ s_turn[c] + 1 \in Nat /\ "open" \in {"hello", "open"}
  BY CurrentIs
<1> HIDE DEF ss
<1> QED
  BY <1>1, <1>2, <1>3, StartStep

\* A stream that ends its turn without having sent anything.
LEMMA TurnSteps ==
  ASSUME SttInv, NEW c \in SttClients, Stt!Commit(c) \/ Stt!Language(c) \/ Stt!Stop(c)
  PROVE  SttInv'
<1> DEFINE s == sess[cur[c]]
           t == Stt!RequestFinalize(s)
<1>1. s_sent' = s_sent /\ s_phase[c] = "open"
  BY DEF Stt!Commit, Stt!Language, Stt!Stop
<1>2. SendsMore(c) /\ Moved(c, sess)
  BY <1>1, NothingMoved
<1>3. /\ s_sent[c] \in Nat /\ s_sent[c] <= s_sent'[c] /\ t \in Sessions
      /\ Grown(s, t, s_sent[c], s_sent'[c]) /\ t.closed = s.closed
  BY <1>1, CurrentIs, GrownAsked
<1>4. ASSUME Stt!Roll(c, t) PROVE SttInv'
  <2> HIDE DEF t
  <2> QED
    BY <1>1, <1>2, <1>3, <1>4, RollStep
<1>5. ASSUME Stt!StartTurn(c, s_turn[c], sess, {cur[c]}, "open") PROVE SttInv'
  <2>1. s_turn[c] \in Nat /\ {cur[c]} \in SUBSET turns[c] /\ "open" \in {"hello", "open"}
    BY <1>1, <1>5, CurrentIs
  <2> QED
    BY <1>2, <1>5, <2>1, StartStep
<1>6. ASSUME Stt!Stop(c) PROVE SttInv'
  <2>1. /\ sess' = [sess EXCEPT ![cur[c]] = t] /\ s_phase' = [s_phase EXCEPT ![c] = "draining"]
        /\ UNCHANGED <<s_seq, live, up, s_turn, turns, cur, outbox, committed, step, due, out,
                       hurt, s_failures>>
    BY <1>6 DEF Stt!Stop, Stt!tickVars
  <2> HIDE DEF t
  <2>2. Moved(c, sess')
    BY <1>1, <1>2, <1>3, <2>1, CurrentIs, OneMoved
  <2>3. s_failures' \in 0..MaxFailures
    BY <2>1 DEF SttInv, TickOK
  <2> QED
    BY <1>1, <1>2, <2>1, <2>2, <2>3, GrowStep
<1> QED
  BY <1>4, <1>5, <1>6 DEF Stt!Commit, Stt!Language

\* A stream that sends audio.
LEMMA ReceiveStep ==
  ASSUME SttInv, NEW c \in SttClients, Stt!Receive(c)
  PROVE  SttInv'
<1>1. PICK us \in Stt!Bursts(c) :
        LET s == Stt!Feed(sess[cur[c]], us) IN
        /\ s_phase[c] = "open" /\ ~sess[cur[c]].closed
        /\ s_sent' = [s_sent EXCEPT ![c] = @ + Len(us)]
        /\ \/ ~s.finalize /\ Stt!Roll(c, Stt!DropPending(s))
           \/ Stt!Roll(c, Stt!RequestFinalize(s))
           \/ /\ sess' = [sess EXCEPT ![cur[c]] = s]
              /\ UNCHANGED <<s_seq, live, up, s_phase, s_turn, turns, cur, outbox, committed,
                             step, due, out, hurt, s_failures>>
  BY DEF Stt!Receive, Stt!tickVars
<1> DEFINE s == Stt!Feed(sess[cur[c]], us)
           later == s_sent[c] + Len(us)
<1>2. /\ Burst(us, s_sent[c]) /\ Len(us) \in Nat \ {0} /\ later <= MaxUnits
      /\ s_sent[c] \in Nat /\ later \in Nat /\ s_sent[c] <= later
  BY <1>1, BurstsAre, CurrentIs
<1>3. s_sent'[c] = later /\ SendsMore(c)
  <2>1. s_sent \in [SttClients -> 0..MaxUnits] /\ MaxUnits \in Nat
    BY SttConstants DEF SttInv, HandlersOK
  <2>2. later \in 0..MaxUnits
    BY <1>2, <2>1
  <2> QED
    BY <1>1, <2>1, <2>2 DEF SendsMore
<1>4. s \in Sessions /\ Grown(sess[cur[c]], s, s_sent[c], later) /\ ~s.finalize
      /\ s.closed = sess[cur[c]].closed
  BY <1>1, <1>2, CurrentIs, GrownFed
<1> HIDE DEF s, later
<1>5. CASE Stt!Roll(c, Stt!DropPending(s))
  <2> DEFINE t == Stt!DropPending(s)
  <2>1. t \in Sessions /\ Grown(s, t, later, later) /\ t.closed = s.closed
    BY <1>2, <1>4, GrownDropped
  <2> HIDE DEF t
  <2>2. Grown(sess[cur[c]], t, s_sent[c], s_sent'[c])
    BY <1>3, <1>4, <2>1, GrownOn
  <2> QED
    BY <1>1, <1>2, <1>3, <1>4, <1>5, <2>1, <2>2, RollStep DEF t
<1>6. CASE Stt!Roll(c, Stt!RequestFinalize(s))
  <2> DEFINE t == Stt!RequestFinalize(s)
  <2>1. t \in Sessions /\ Grown(s, t, later, later) /\ t.closed = s.closed
    BY <1>2, <1>4, GrownAsked
  <2> HIDE DEF t
  <2>2. Grown(sess[cur[c]], t, s_sent[c], s_sent'[c])
    BY <1>3, <1>4, <2>1, GrownOn
  <2> QED
    BY <1>1, <1>2, <1>3, <1>4, <1>6, <2>1, <2>2, RollStep DEF t
<1>7. CASE /\ sess' = [sess EXCEPT ![cur[c]] = s]
           /\ UNCHANGED <<s_seq, live, up, s_phase, s_turn, turns, cur, outbox, committed,
                          step, due, out, hurt, s_failures>>
  <2>1. Moved(c, sess')
    BY <1>1, <1>2, <1>3, <1>4, <1>7, CurrentIs, OneMoved
  <2>2. s_phase' = [s_phase EXCEPT ![c] = "open"]
    BY <1>1, <1>7 DEF SttInv, HandlersOK
  <2>3. s_failures' \in 0..MaxFailures /\ ~sess'[cur[c]].finalize
    BY <1>1, <1>4, <1>7, CurrentIs, SttNumbers DEF SttInv, TickOK
  <2> QED
    BY <1>1, <1>3, <1>7, <2>1, <2>2, <2>3, GrowStep
<1> QED
  BY <1>1, <1>5, <1>6, <1>7 DEF s

\* An upload, which opens its session fed and asked for its final.
LEMMA UploadStep ==
  ASSUME SttInv, NEW c \in SttClients, Stt!Upload(c)
  PROVE  SttInv'
<1>1. PICK us \in Stt!Bursts(c) :
        /\ c \in Files /\ s_phase[c] = "new" /\ up
        /\ IF Stt!HasRoom
           THEN /\ s_seq < MaxSid
                /\ s_seq' = s_seq + 1
                /\ sess' = [sess EXCEPT ![s_seq + 1] =
                              Stt!RequestFinalize(
                                Stt!Feed([Stt!Unused EXCEPT !.owner = c], us))]
                /\ live' = live \cup {s_seq + 1}
                /\ turns' = [turns EXCEPT ![c] = {s_seq + 1}]
                /\ s_phase' = [s_phase EXCEPT ![c] = "waiting"]
                /\ cur' = [cur EXCEPT ![c] = s_seq + 1]
                /\ s_sent' = [s_sent EXCEPT ![c] = Len(us)]
           ELSE /\ s_phase' = [s_phase EXCEPT ![c] = "gone"]
                /\ UNCHANGED <<s_seq, sess, live, turns, cur, s_sent>>
        /\ UNCHANGED <<up, s_turn, outbox, committed, step, due, out, hurt, s_failures>>
  BY DEF Stt!Upload, Stt!tickVars
<1>2. /\ s_sent[c] = 0 /\ turns[c] = {} /\ outbox[c] = <<>> /\ HandlersOK
      /\ s_failures \in 0..MaxFailures
  BY <1>1 DEF SttInv, Current, Owned, TickOK
<1>3. CASE ~Stt!HasRoom
  <2>1. /\ s_phase' = [s_phase EXCEPT ![c] = "gone"]
        /\ UNCHANGED <<s_seq, sess, live, up, s_turn, turns, cur, s_sent, outbox, committed,
                       step, due, out, hurt, s_failures>>
    BY <1>1, <1>3
  <2>2. SendsMore(c) /\ Moved(c, sess')
    BY <2>1, NothingMoved
  <2> QED
    BY <1>2, <2>1, <2>2, GrowStep
<1>4. CASE Stt!HasRoom
  <2> DEFINE unused == [Stt!Unused EXCEPT !.owner = c]
             fed == Stt!Feed(unused, us)
             fresh == Stt!RequestFinalize(fed)
             top == Len(us)
  <2>1. /\ s_seq < MaxSid /\ s_seq' = s_seq + 1
        /\ sess' = [sess EXCEPT ![s_seq + 1] = fresh]
        /\ live' = live \cup {s_seq + 1} /\ turns' = [turns EXCEPT ![c] = {s_seq + 1}]
        /\ s_phase' = [s_phase EXCEPT ![c] = "waiting"]
        /\ cur' = [cur EXCEPT ![c] = s_seq + 1] /\ s_sent' = [s_sent EXCEPT ![c] = top]
        /\ UNCHANGED <<up, s_turn, outbox, committed, step, due, out, hurt, s_failures>>
    BY <1>1, <1>4
  <2>2. Burst(us, 0) /\ top \in Nat /\ top <= MaxUnits
    BY <1>1, <1>2, BurstsAre
  <2>3. unused = [Stt!Unused EXCEPT !.owner = c, !.turn = 0]
    <3> DEFINE u == Stt!Unused
    <3>1. u \in Sessions /\ u.turn = 0
      BY UnusedSession DEF Stt!Unused
    <3> HIDE DEF u
    <3>2. [u EXCEPT !.owner = c] = [u EXCEPT !.owner = c, !.turn = 0]
      BY <3>1 DEF Sessions
    <3> QED
      BY <3>2 DEF u
  <2>4. /\ Opened(unused, 0) /\ unused \in Sessions /\ unused.owner = c /\ ~unused.finalize
    BY <2>3, OpenedTurn DEF Opened
  <2> HIDE DEF unused, fresh, top
  <2>5. /\ fed \in Sessions /\ Grown(unused, fed, 0, top) /\ fed.closed = unused.closed
    BY <2>2, <2>4, GrownFed DEF top
  <2> HIDE DEF fed
  <2>6. fresh \in Sessions /\ Grown(fed, fresh, top, top) /\ fresh.closed = fed.closed
    BY <2>2, <2>5, GrownAsked DEF fresh
  <2>7. Opened(fresh, top) /\ fresh.owner = c
    <3>1. Grown(unused, fresh, 0, top)
      BY <2>5, <2>6, GrownOn
    <3>2. Sound(fresh, top) /\ Lost(fresh) = {} /\ ~fresh.closed /\ ~fresh.finalized
          /\ fresh.owner = c
      BY <2>4, <2>5, <2>6, <3>1 DEF Grown, Opened
    <3> QED
      BY <2>6, <3>2 DEF Opened
  <2>8. SendsMore(c) /\ s_sent'[c] = top
    <3>1. top \in 0..MaxUnits
      BY <2>2, SttConstants
    <3> QED
      BY <1>2, <2>1, <3>1 DEF HandlersOK, SendsMore
  <2>9. Carried(c, sess, {})
    <3>1. s_sent[c] <= s_sent'[c]
      BY <1>2, <2>2, <2>8
    <3>2. Moved(c, sess)
      BY <2>8, <3>1, SentMoved
    <3> QED
      BY <3>2 DEF Moved, Carried, Grown
  <2>10. Cardinality(live') <= MaxSessions
    BY <1>4, <2>1, RoomForOne
  <2>11. Opens(c, sess, {}, fresh, "waiting")
    <3>1. live' = (live \ {}) \cup {s_seq + 1}
      BY <2>1
    <3>2. turns' = [turns EXCEPT ![c] = (@ \ {}) \cup {s_seq + 1}]
      BY <1>2, <2>1 DEF HandlersOK
    <3>3. s_turn' \in [SttClients -> Nat]
      BY <1>2, <2>1 DEF HandlersOK
    <3> QED
      BY <1>2, <2>1, <2>7, <2>8, <2>10, <3>1, <3>2, <3>3 DEF Opens
  <2>12. {} \in SUBSET turns[c]
    OBVIOUS
  <2> QED
    BY <2>8, <2>9, <2>11, <2>12, OpenStep
<1> QED
  BY <1>3, <1>4

\* An upload that has its final.
LEMMA AnsweredStep ==
  ASSUME SttInv, NEW c \in SttClients, Stt!UploadAnswered(c)
  PROVE  SttInv'
<1> DEFINE d == Stt!Last(outbox[c])
           text == [sid |-> d.sid, text |-> d.text]
<1>1. /\ s_phase[c] = "waiting" /\ \E i \in DOMAIN outbox[c] : outbox[c][i].final
      /\ committed' = [committed EXCEPT ![c] = <<text>>]
      /\ live' = live \ turns[c] /\ sess' = Stt!Closed(sess, turns[c])
      /\ turns' = [turns EXCEPT ![c] = {}] /\ s_phase' = [s_phase EXCEPT ![c] = "gone"]
      /\ outbox' = [outbox EXCEPT ![c] = <<>>] /\ s_sent' = s_sent
      /\ UNCHANGED <<s_seq, up, s_turn, cur, step, due, out, hurt, s_failures>>
  BY DEF Stt!UploadAnswered, Stt!tickVars
<1>2. SendsMore(c) /\ Moved(c, sess)
  BY <1>1, NothingMoved
<1>3. /\ outbox[c] \in Seq(Spoken) /\ DOMAIN outbox[c] = 1..Len(outbox[c])
      /\ committed \in [SttClients -> Seq(Finished)]
  BY LenProperties DEF SttInv, HandlersOK
<1>4. Len(outbox[c]) \in 1..Len(outbox[c]) /\ d.final /\ d = outbox[c][Len(outbox[c])]
  <2>1. PICK i \in 1..Len(outbox[c]) : outbox[c][i].final
    BY <1>1, <1>3
  <2>2. i = Len(outbox[c])
    BY <1>1, <2>1 DEF SttInv, Uploads
  <2> QED
    BY <2>1, <2>2 DEF Stt!Last
<1>5. d \in Spoken
  BY <1>3, <1>4, ElementOfSeq
<1> HIDE DEF d
<1>6. text \in Finished
  BY <1>5 DEF Spoken, Finished
<1> HIDE DEF text
<1>7. <<text>> \in Seq(Finished) /\ Len(<<text>>) = 1 /\ <<text>>[1] = text
  BY <1>6
<1>8. committed' \in [SttClients -> Seq(Finished)]
  BY <1>1, <1>3, <1>7
<1>9. CommitsFinals
  <2> SUFFICES ASSUME NEW e \in SttClients, NEW n \in 1..Len(committed'[e])
               PROVE  \/ \E m \in 1..Len(committed[e]) : committed'[e][n] = committed[e][m]
                      \/ \E m \in 1..Len(outbox[e]) :
                           /\ outbox[e][m].final
                           /\ committed'[e][n] = [sid |-> outbox[e][m].sid,
                                                  text |-> outbox[e][m].text]
    BY DEF CommitsFinals
  <2>1. CASE e # c
    BY <1>1, <1>3, <2>1
  <2>2. CASE e = c
    <3>1. committed'[c] = <<text>> /\ n = 1
      BY <1>1, <1>3, <1>7, <2>2
    <3>2. committed'[e][n] = text
      BY <1>7, <2>2, <3>1
    <3> QED
      BY <1>4, <2>2, <3>2 DEF text
  <2> QED
    BY <2>1, <2>2
<1> QED
  BY <1>1, <1>2, <1>8, <1>9, EndStep

\* What waits in an outbox is taken from it in order, and a final commits its turn.
LEMMA PumpStep ==
  ASSUME SttInv, NEW c \in SttClients, Stt!PumpOut(c)
  PROVE  SttInv'
<1> DEFINE d == Head(outbox[c])
           text == [sid |-> d.sid, text |-> d.text]
           over == IF d.final THEN {d.sid} ELSE {}
           ids == over \cap turns[c]
<1>1. EngineOK /\ HandlersOK /\ TickOK /\ Owned /\ Current /\ Uploads
  BY DEF SttInv
<1>2. s_phase[c] \in {"open", "draining"} /\ outbox[c] # <<>>
      /\ outbox' = [outbox EXCEPT ![c] = Tail(@)]
      /\ UNCHANGED <<s_seq, up, s_phase, s_turn, cur, s_sent, step, due, out, hurt,
                     s_failures>>
  BY DEF Stt!PumpOut, Stt!tickVars
<1>3. outbox[c] \in Seq(Spoken) /\ Tail(outbox[c]) \in Seq(Spoken)
      /\ d \in Spoken /\ d = outbox[c][1]
      /\ Len(outbox[c]) \in Nat \ {0} /\ Len(Tail(outbox[c])) = Len(outbox[c]) - 1
      /\ \A n \in 1..Len(Tail(outbox[c])) : Tail(outbox[c])[n] = outbox[c][n + 1]
  <2>1. outbox[c] \in Seq(Spoken)
    BY <1>1 DEF HandlersOK
  <2>2. d = outbox[c][1]
    BY <1>2, <2>1
  <2> QED
    BY <1>2, <2>1, <2>2, HeadTailProperties, EmptySeq
<1>4. d.final => Whole(d.sid, d.text)
  <2>1. 1 \in 1..Len(outbox[c])
    BY <1>3
  <2> QED
    BY <1>3, <2>1 DEF SttInv, Delivered
<1>5. /\ turns' = [turns EXCEPT ![c] = @ \ ids] /\ live' = live \ ids
      /\ \/ sess' = sess /\ ids = {}
         \/ sess' = Stt!Closed(sess, ids)
      /\ \/ committed' = committed
         \/ d.final /\ committed' = [committed EXCEPT ![c] = Append(@, text)]
  <2>1. CASE d.final
    <3>1. /\ turns' = [turns EXCEPT ![c] = @ \ {d.sid}]
          /\ live' = live \ ({d.sid} \cap turns[c])
          /\ sess' = Stt!Closed(sess, {d.sid} \cap turns[c])
          /\ \/ committed' = committed
             \/ committed' = [committed EXCEPT ![c] = Append(@, text)]
      BY <2>1 DEF Stt!PumpOut
    <3>2. turns[c] \ {d.sid} = turns[c] \ ids /\ ids = {d.sid} \cap turns[c]
      BY <2>1
    <3> QED
      BY <2>1, <3>1, <3>2
  <2>2. CASE ~d.final
    <3>1. UNCHANGED <<committed, turns, live, sess>> /\ ids = {}
      BY <2>2 DEF Stt!PumpOut
    <3>2. turns = [turns EXCEPT ![c] = @ \ ids]
      BY <1>1, <3>1 DEF HandlersOK
    <3> QED
      BY <3>1, <3>2
  <2> QED
    BY <2>1, <2>2
<1>6. /\ \A e \in SttClients : e # c => turns'[e] = turns[e] /\ outbox'[e] = outbox[e]
      /\ turns'[c] = turns[c] \ ids /\ outbox'[c] = Tail(outbox[c])
  BY <1>1, <1>2, <1>5 DEF HandlersOK
<1>7. SendsMore(c) /\ Moved(c, sess)
  BY <1>2, NothingMoved
<1>8. ASSUME NEW i \in ids PROVE i = d.sid /\ sess[i].finalize /\ i \in turns[c]
  BY <1>4, <1>8 DEF Whole
<1>9. ids \subseteq turns[c]
  OBVIOUS
<1> HIDE DEF ids
<1>10. Carried(c, sess', ids)
  <2>1. CASE sess' = sess
    BY <1>7, <2>1 DEF Moved, Carried, Grown
  <2>2. CASE sess' = Stt!Closed(sess, ids)
    BY <1>7, <2>2, ClosedMoved DEF Carried
  <2> QED
    BY <1>5, <2>1, <2>2
<1>11. \A i \in 1..s_seq : i \in 1..MaxSid
  BY SttNumbers
<1>12. EngineOK'
  <2>1. live' \in SUBSET (1..s_seq') /\ up' \in BOOLEAN /\ s_seq' \in 0..MaxSid
    BY <1>1, <1>2, <1>5 DEF EngineOK
  <2>2. \A i \in live' : ~sess'[i].closed
    BY <1>1, <1>5, <1>10, <1>11 DEF EngineOK, Carried
  <2> QED
    BY <1>10, <2>1, <2>2 DEF EngineOK, Carried
<1> HIDE DEF d, text
<1>13. HandlersOK'
  <2>1. committed' \in [SttClients -> Seq(Finished)]
    <3>1. text \in Finished
      BY <1>3 DEF Spoken, Finished, text
    <3>2. Append(committed[c], text) \in Seq(Finished)
      BY <1>1, <3>1, AppendProperties DEF HandlersOK
    <3> QED
      BY <1>1, <1>5, <3>2 DEF HandlersOK
  <2>2. outbox' \in [SttClients -> Seq(Spoken)]
    BY <1>1, <1>2, <1>3 DEF HandlersOK
  <2>3. turns' \in [SttClients -> SUBSET (1..s_seq')]
    BY <1>1, <1>2, <1>5 DEF HandlersOK
  <2> QED
    BY <1>1, <1>2, <2>1, <2>2, <2>3 DEF HandlersOK
<1>14. TickOK'
  BY <1>1, <1>2 DEF TickOK
<1>15. Owned'
  <2>1. Cardinality(live') <= MaxSessions
    <3>1. IsFiniteSet(live) /\ live' \subseteq live
      BY <1>5, LiveIsFinite
    <3>2. Cardinality(live') <= Cardinality(live) /\ Cardinality(live') \in Nat
          /\ Cardinality(live) \in Nat
      BY <3>1, FS_Subset, FS_CardinalityType
    <3>3. Cardinality(live) <= MaxSessions
      BY <1>1 DEF Owned
    <3> QED
      BY <3>2, <3>3, SttConstants
  <2>2. ASSUME NEW e \in SttClients, NEW i \in turns'[e] PROVE sess'[i].owner = e
    <3>1. i \in turns[e]
      BY <1>6, <2>2
    <3>2. i \in 1..s_seq /\ sess[i].owner = e
      BY <1>1, <3>1 DEF Owned, HandlersOK
    <3> QED
      BY <1>10, <1>11, <3>2 DEF Carried
  <2>3. ASSUME NEW i \in live' PROVE i \in turns'[sess'[i].owner]
    <3>1. i \in live /\ i \notin ids /\ i \in 1..MaxSid
      BY <1>1, <1>5, <1>11 DEF EngineOK
    <3>2. i \in turns[sess[i].owner] /\ sess[i].owner \in SttClients
      BY <1>1, <3>1, SttNumbers DEF Owned
    <3>3. sess'[i].owner = sess[i].owner
      BY <1>10, <3>1 DEF Carried
    <3> QED
      BY <1>6, <3>1, <3>2, <3>3
  <2>4. \A e \in SttClients : s_phase'[e] \in {"new", "accepted", "gone"} =>
          turns'[e] = {} /\ outbox'[e] = <<>>
    BY <1>1, <1>2, <1>6 DEF Owned
  <2> QED
    BY <2>1, <2>2, <2>3, <2>4 DEF Owned
<1>16. Current'
  <2> SUFFICES ASSUME NEW e \in SttClients
               PROVE  /\ s_phase[e] = "new" => s_sent[e] = 0
                      /\ s_phase[e] \in {"hello", "open", "draining", "waiting", "lost"} =>
                           cur[e] \in 1..s_seq /\ sess'[cur[e]].owner = e
                      /\ s_phase[e] \in {"hello", "open"} =>
                           cur[e] \in turns'[e] /\ ~sess'[cur[e]].finalize
    BY <1>2 DEF Current
  <2>1. /\ s_phase[e] = "new" => s_sent[e] = 0
        /\ s_phase[e] \in {"hello", "open", "draining", "waiting", "lost"} =>
             cur[e] \in 1..s_seq /\ sess[cur[e]].owner = e
        /\ s_phase[e] \in {"hello", "open"} => cur[e] \in turns[e] /\ ~sess[cur[e]].finalize
    BY <1>1 DEF Current
  <2>2. s_phase[e] \in {"hello", "open", "draining", "waiting", "lost"} =>
          cur[e] \in 1..s_seq /\ sess'[cur[e]].owner = e
    BY <1>10, <1>11, <2>1 DEF Carried
  <2>3. ASSUME s_phase[e] \in {"hello", "open"}
        PROVE  cur[e] \in turns'[e] /\ ~sess'[cur[e]].finalize
    <3>1. cur[e] \notin ids
      BY <1>8, <2>1, <2>3
    <3>2. cur[e] \in turns'[e]
      BY <1>6, <2>1, <2>3, <3>1
    <3>3. sess'[cur[e]].finalize = sess[cur[e]].finalize
      <4>1. cur[e] \in 1..MaxSid
        BY <1>11, <2>1, <2>3
      <4>2. CASE sess' = sess
        BY <4>2
      <4>3. CASE sess' = Stt!Closed(sess, ids)
        BY <3>1, <4>1, <4>3, SttConstants DEF Stt!Closed
      <4> QED
        BY <1>5, <4>2, <4>3
    <3> QED
      BY <2>1, <2>3, <3>2, <3>3
  <2> QED
    BY <2>1, <2>2, <2>3
<1>17. Uploads'
  <2> SUFFICES ASSUME NEW e \in SttClients, s_phase[e] = "waiting"
               PROVE  /\ turns'[e] = {cur[e]}
                      /\ \A n \in 1..Len(outbox'[e]) : outbox'[e][n].final =>
                           /\ n = Len(outbox'[e]) /\ sess'[cur[e]].finalized
                           /\ \A m \in 1..Len(out) : out[m].sid # cur[e]
                           /\ \A m \in 1..Len(due) : due[m].sid # cur[e]
    BY <1>2 DEF Uploads
  <2>1. turns'[e] = turns[e] /\ outbox'[e] = outbox[e]
    BY <1>2, <1>6
  <2>2. sess'[cur[e]].finalized = sess[cur[e]].finalized
    BY <1>1, <1>10, <1>11 DEF Current, Carried
  <2> QED
    BY <1>1, <2>1, <2>2 DEF Uploads
<1>18. Handled
  <2>1. \A e \in SttClients : \A n \in 1..Len(outbox'[e]) :
          \E m \in 1..Len(outbox[e]) : outbox'[e][n] = outbox[e][m]
    <3> SUFFICES ASSUME NEW e \in SttClients, NEW n \in 1..Len(outbox'[e])
                 PROVE  \E m \in 1..Len(outbox[e]) : outbox'[e][n] = outbox[e][m]
      OBVIOUS
    <3>1. CASE e = c
      <4>1. n \in 1..Len(Tail(outbox[c]))
        BY <1>6, <3>1
      <4>2. n + 1 \in 1..Len(outbox[c])
        BY <1>3, <4>1
      <4> QED
        BY <1>3, <1>6, <3>1, <4>1, <4>2
    <3>2. CASE e # c
      BY <1>6, <3>2
    <3> QED
      BY <3>1, <3>2
  <2>2. CommitsFinals
    <3> SUFFICES ASSUME NEW e \in SttClients, NEW n \in 1..Len(committed'[e])
                 PROVE  \/ \E m \in 1..Len(committed[e]) : committed'[e][n] = committed[e][m]
                        \/ \E m \in 1..Len(outbox[e]) :
                             /\ outbox[e][m].final
                             /\ committed'[e][n] = [sid |-> outbox[e][m].sid,
                                                    text |-> outbox[e][m].text]
      BY DEF CommitsFinals
    <3>1. CASE committed'[e] = committed[e]
      BY <3>1
    <3>2. CASE e = c /\ d.final /\ committed'[c] = Append(committed[c], text)
      <4>1. text \in Finished
        BY <1>3 DEF Spoken, Finished, text
      <4>2. /\ Len(committed'[c]) = Len(committed[c]) + 1 /\ Len(committed[c]) \in Nat
            /\ \A m \in 1..Len(committed[c]) : committed'[c][m] = committed[c][m]
            /\ committed'[c][Len(committed[c]) + 1] = text
        <5>1. committed[c] \in Seq(Finished)
          BY <1>1 DEF HandlersOK
        <5> QED
          BY <3>2, <4>1, <5>1, AppendProperties, LenProperties
      <4>3. CASE n = Len(committed[c]) + 1
        <5>1. 1 \in 1..Len(outbox[c]) /\ committed'[e][n] = text
          BY <1>3, <3>2, <4>2, <4>3
        <5>2. /\ outbox[c][1].final
              /\ text = [sid |-> outbox[c][1].sid, text |-> outbox[c][1].text]
          BY <1>3, <3>2 DEF text
        <5> QED
          BY <3>2, <5>1, <5>2
      <4>4. CASE n # Len(committed[c]) + 1
        <5>1. n \in 1..Len(committed[c])
          BY <3>2, <4>2, <4>4
        <5> QED
          BY <3>2, <4>2, <5>1
      <4> QED
        BY <4>3, <4>4
    <3> QED
      BY <1>1, <1>5, <3>1, <3>2 DEF HandlersOK
  <2>3. s_seq <= s_seq' /\ s_seq' = s_seq
    BY <1>2, SttNumbers
  <2> QED
    BY <1>2, <1>10, <1>11, <2>1, <2>2, <2>3 DEF Handled, Carried
<1>19. s_seq' \in 0..MaxSid
  BY <1>1, <1>2 DEF EngineOK
<1> QED
  BY <1>12, <1>13, <1>14, <1>15, <1>16, <1>17, <1>18, <1>19, HandledStep DEF SttInv

---------------------------------------------------------------------------
(* SttStream: numbers in order.                                            *)

\* Each of the numbers has its place, which is how many are below it.
LEMMA PlacesAre ==
  ASSUME NEW ids \in SUBSET Nat, IsFiniteSet(ids)
  PROVE  LET place == [i \in ids |-> Cardinality({j \in ids : j < i})] IN
         Numbers(place, ids) /\ Cardinality(ids) \in Nat
<1> DEFINE map == [i \in ids |-> i]
           place == [i \in ids |-> Cardinality({j \in ids : j < i})]
<1>1. map \in [ids -> Nat] /\ \A i, j \in ids : map[i] = map[j] => i = j
  OBVIOUS
<1>2. Numbers(Tts!Compact(map), ids)
  <2> HIDE DEF map
  <2> QED
    BY <1>1, CompactNumbers
<1>3. Tts!Compact(map) = place
  <2>1. \A i \in ids : {j \in ids : map[j] < map[i]} = {j \in ids : j < i}
    OBVIOUS
  <2>2. DOMAIN map = ids
    OBVIOUS
  <2> HIDE DEF map
  <2>3. Tts!Compact(map) = [i \in ids |-> Cardinality({j \in ids : map[j] < map[i]})]
    BY <2>2, TtsCardinality DEF Tts!Compact
  <2> QED
    BY <2>1, <2>3
<1> QED
  BY <1>2, <1>3, FS_CardinalityType

\* In order they are the same numbers, each once.
LEMMA InOrderAre ==
  ASSUME NEW ids \in SUBSET Nat, IsFiniteSet(ids)
  PROVE  LET order == Stt!InOrder(ids) IN
         /\ order \in Seq(ids)
         /\ \A n, m \in 1..Len(order) : order[n] = order[m] => n = m
         /\ \A i \in ids : \E n \in 1..Len(order) : order[n] = i
<1> DEFINE below(i) == Stt!Cardinality({j \in ids : j < i})
           place == [i \in ids |-> Cardinality({j \in ids : j < i})]
           top == Cardinality(ids)
           order == [n \in 1..top |-> CHOOSE i \in ids : below(i) = n - 1]
<1>1. Stt!InOrder(ids) = order /\ \A i \in ids : below(i) = place[i]
  BY SttOperators DEF Stt!InOrder
<1>2. Numbers(place, ids) /\ top \in Nat
  BY PlacesAre
<1>3. \A n \in 1..top : n - 1 \in 0..(top - 1)
  <2> HIDE DEF top
  <2> QED
    BY <1>2
<1> HIDE DEF place, top, below
<1>4. ASSUME NEW n \in 1..top PROVE order[n] \in ids /\ place[order[n]] = n - 1
  <2>1. n - 1 \in {place[i] : i \in ids}
    BY <1>2, <1>3 DEF Numbers, top
  <2>2. \E i \in ids : below(i) = n - 1
    BY <1>1, <2>1
  <2> QED
    BY <1>1, <2>2
<1>5. ASSUME NEW i \in ids PROVE \E n \in 1..top : order[n] = i
  <2>1. place[i] \in 0..(top - 1)
    BY <1>2 DEF Numbers, top
  <2>2. place[i] + 1 \in 1..top /\ (place[i] + 1) - 1 = place[i]
    BY <1>2, <2>1
  <2>3. place[order[place[i] + 1]] = place[i] /\ order[place[i] + 1] \in ids
    BY <1>4, <2>2
  <2> QED
    BY <1>2, <2>2, <2>3 DEF Numbers
<1>6. order \in [1..top -> ids]
  BY <1>4
<1> HIDE DEF order
<1>7. order \in Seq(ids) /\ Len(order) = top
  BY <1>2, <1>6
<1>8. ASSUME NEW n \in 1..top, NEW m \in 1..top, order[n] = order[m] PROVE n = m
  BY <1>2, <1>4, <1>8
<1> QED
  BY <1>1, <1>5, <1>7, <1>8

\* There is a smallest one.
LEMMA SmallestIs ==
  ASSUME NEW ids \in SUBSET Nat, IsFiniteSet(ids), ids # {}
  PROVE  Stt!Min(ids) \in ids /\ \A i \in ids : Stt!Min(ids) <= i
<1> DEFINE place == [i \in ids |-> Cardinality({j \in ids : j < i})]
           top == Cardinality(ids)
<1>1. Numbers(place, ids) /\ top \in Nat
  BY PlacesAre
<1>2. top # 0
  BY FS_EmptySet
<1> HIDE DEF top
<1>3. 0 \in 0..(top - 1)
  BY <1>1, <1>2
<1>4. PICK i \in ids : place[i] = 0
  BY <1>1, <1>3 DEF Numbers, top
<1>5. {j \in ids : j < i} = {}
  <2>1. Cardinality({j \in ids : j < i}) = 0 /\ {j \in ids : j < i} \subseteq ids
    BY <1>4
  <2> QED
    BY <2>1, FS_Subset, FS_EmptySet
<1>6. \A j \in ids : i <= j
  BY <1>5
<1> QED
  BY <1>6 DEF Stt!Min

---------------------------------------------------------------------------
(* SttStream: the tick.                                                    *)

\* What the GPU thread leaves of a session.
Kept(s, t) ==
  /\ t.owner = s.owner /\ t.owed = s.owed /\ t.finalize = s.finalize
  /\ (s.finalized => t.finalized) /\ (s.closed => t.closed)

\* A session the tick has, or may take.
InHand(i) ==
  \/ \E n \in 1..Len(out) : out[n].sid = i
  \/ \E n \in 1..Len(due) : due[n].sid = i
  \/ ~sess[i].finalized

\* What the GPU thread leaves of the handlers.
Ticked ==
  /\ UNCHANGED <<s_seq, up, s_phase, s_turn, turns, cur, s_sent, outbox, committed>>
  /\ live' \subseteq live /\ sess' \in [1..MaxSid -> Sessions] /\ hurt \subseteq hurt'
  /\ \A i \in 1..MaxSid :
       Kept(sess[i], sess'[i]) /\ (i \in live' => sess'[i].closed = sess[i].closed)
  /\ \A n \in 1..Len(out') : InHand(out'[n].sid)
  /\ \A n \in 1..Len(due') : InHand(due'[n].sid)

\* So what the invariant says of the handlers holds on.
LEMMA TickedStep ==
  ASSUME SttInv, Ticked
  PROVE  EngineOK' /\ HandlersOK' /\ Owned' /\ Current' /\ Delivered' /\ Uploads'
<1>1. EngineOK /\ HandlersOK /\ Owned /\ Current /\ Delivered /\ Uploads
  BY DEF SttInv
<1>2. /\ UNCHANGED <<s_seq, up, s_phase, s_turn, turns, cur, s_sent, outbox, committed>>
      /\ live' \subseteq live /\ sess' \in [1..MaxSid -> Sessions] /\ hurt \subseteq hurt'
      /\ \A i \in 1..MaxSid : Kept(sess[i], sess'[i])
  BY DEF Ticked
<1>3. \A i \in 1..s_seq : i \in 1..MaxSid
  BY SttNumbers
<1>4. EngineOK'
  <2>1. \A i \in live' : ~sess'[i].closed
    BY <1>1, <1>2, <1>3 DEF EngineOK, Ticked
  <2> QED
    BY <1>1, <1>2, <2>1 DEF EngineOK
<1>5. HandlersOK'
  BY <1>1, <1>2 DEF HandlersOK
<1>6. Owned'
  <2>1. Cardinality(live') <= MaxSessions
    <3>1. IsFiniteSet(live)
      BY LiveIsFinite
    <3>2. Cardinality(live') <= Cardinality(live) /\ Cardinality(live') \in Nat
          /\ Cardinality(live) \in Nat
      BY <1>2, <3>1, FS_Subset, FS_CardinalityType
    <3>3. Cardinality(live) <= MaxSessions
      BY <1>1 DEF Owned
    <3> QED
      BY <3>2, <3>3, SttConstants
  <2>2. \A c \in SttClients : \A i \in turns[c] : sess'[i].owner = c
    BY <1>1, <1>2, <1>3 DEF Owned, HandlersOK, Kept
  <2>3. \A i \in live' : i \in turns[sess'[i].owner]
    BY <1>1, <1>2, <1>3 DEF Owned, EngineOK, Kept
  <2> QED
    BY <1>1, <1>2, <2>1, <2>2, <2>3 DEF Owned
<1>7. Current'
  <2> SUFFICES ASSUME NEW c \in SttClients
               PROVE  /\ s_phase[c] = "new" => s_sent[c] = 0
                      /\ s_phase[c] \in {"hello", "open", "draining", "waiting", "lost"} =>
                           cur[c] \in 1..s_seq /\ sess'[cur[c]].owner = c
                      /\ s_phase[c] \in {"hello", "open"} =>
                           cur[c] \in turns[c] /\ ~sess'[cur[c]].finalize
    BY <1>2 DEF Current
  <2>1. /\ s_phase[c] = "new" => s_sent[c] = 0
        /\ s_phase[c] \in {"hello", "open", "draining", "waiting", "lost"} =>
             cur[c] \in 1..s_seq /\ sess[cur[c]].owner = c
        /\ s_phase[c] \in {"hello", "open"} => cur[c] \in turns[c] /\ ~sess[cur[c]].finalize
    BY <1>1 DEF Current
  <2> QED
    BY <1>2, <1>3, <2>1 DEF Kept
<1>8. ASSUME NEW i \in 1..MaxSid, NEW text, Whole(i, text) PROVE WholeThen(i, text)
  BY <1>2, <1>8 DEF Whole, WholeThen, Kept
<1>9. Delivered'
  <2>1. ASSUME NEW c \in SttClients, NEW n \in 1..Len(outbox[c]), outbox[c][n].final
        PROVE  WholeThen(outbox[c][n].sid, outbox[c][n].text)
    <3>1. outbox[c][n] \in Spoken
      BY <1>1, ElementOfSeq DEF HandlersOK
    <3>2. Whole(outbox[c][n].sid, outbox[c][n].text) /\ outbox[c][n].sid \in 1..MaxSid
      BY <1>1, <2>1, <3>1 DEF Delivered, Spoken
    <3> QED
      BY <1>8, <3>2
  <2>2. ASSUME NEW c \in SttClients, NEW n \in 1..Len(committed[c])
        PROVE  WholeThen(committed[c][n].sid, committed[c][n].text)
    <3>1. committed[c][n] \in Finished
      BY <1>1, ElementOfSeq DEF HandlersOK
    <3>2. Whole(committed[c][n].sid, committed[c][n].text)
          /\ committed[c][n].sid \in 1..MaxSid
      BY <1>1, <3>1 DEF Delivered, Finished
    <3> QED
      BY <1>8, <3>2
  <2> QED
    BY <1>2, <2>1, <2>2 DEF Delivered, Whole, WholeThen
<1>10. Uploads'
  <2> SUFFICES ASSUME NEW c \in SttClients, s_phase[c] = "waiting"
               PROVE  /\ turns[c] = {cur[c]}
                      /\ \A n \in 1..Len(outbox[c]) : outbox[c][n].final =>
                           /\ n = Len(outbox[c]) /\ sess'[cur[c]].finalized
                           /\ \A m \in 1..Len(out') : out'[m].sid # cur[c]
                           /\ \A m \in 1..Len(due') : due'[m].sid # cur[c]
    BY <1>2 DEF Uploads
  <2>1. cur[c] \in 1..MaxSid
    BY <1>1, <1>3 DEF Current
  <2>2. turns[c] = {cur[c]}
    BY <1>1 DEF Uploads
  <2>3. ASSUME NEW n \in 1..Len(outbox[c]), outbox[c][n].final
        PROVE  n = Len(outbox[c]) /\ sess[cur[c]].finalized /\ ~InHand(cur[c])
    BY <1>1, <2>3 DEF Uploads, InHand
  <2>4. sess[cur[c]].finalized => sess'[cur[c]].finalized
    BY <1>2, <2>1 DEF Kept
  <2> QED
    BY <2>2, <2>3, <2>4 DEF Ticked
<1> QED
  BY <1>4, <1>5, <1>6, <1>7, <1>9, <1>10

\* A chunk taken off the pending audio of a session that is ready.
LEMMA ChunkTaken ==
  ASSUME NEW s \in Sessions, NEW top, Sound(s, top),
         s.finalize \/ Len(s.pending) >= Stt!SamplesNeeded(s)
  PROVE  LET k == Stt!TakeLen(s)
             us == SubSeq(s.pending, 1, k)
             rest == SubSeq(s.pending, k + 1, Len(s.pending))
             t == [s EXCEPT !.pending = rest]
         IN /\ us \in Seq(Nat) /\ rest \in Seq(Nat) /\ t \in Sessions
            /\ Sound(t, top) /\ Fits(t, us, top) /\ Lost(t) \subseteq Lost(s) \cup Of(us)
            /\ Stt!TakesLast(s) \in BOOLEAN
            /\ Stt!TakesLast(s) => s.finalize /\ rest = <<>>
<1> DEFINE k == Stt!TakeLen(s)
           us == SubSeq(s.pending, 1, k)
           rest == SubSeq(s.pending, k + 1, Len(s.pending))
           t == [s EXCEPT !.pending = rest]
<1>1. s.pending \in Seq(Nat) /\ Len(s.pending) \in Nat /\ s.finalize \in BOOLEAN
  BY LenProperties DEF Sessions
<1>2. k \in 0..Len(s.pending) /\ Stt!TakesLast(s) \in BOOLEAN
      /\ (Stt!TakesLast(s) => s.finalize /\ k = Len(s.pending))
  <2>1. Stt!SamplesNeeded(s) \in Nat
    BY DEF Stt!SamplesNeeded
  <2> QED
    BY <1>1, <2>1 DEF Stt!TakeLen, Stt!TakesLast
<1> HIDE DEF k
<1>3. /\ us \in Seq(Nat) /\ rest \in Seq(Nat) /\ Len(rest) = Len(s.pending) - k
      /\ Of(s.pending) = Of(us) \cup Of(rest)
      /\ Ascend(s.pending) => Ascend(us) /\ Ascend(rest) /\ Before(us, rest)
  BY <1>1, <1>2, UnitsCut
<1> HIDE DEF us, rest
<1>4. /\ t \in Sessions /\ t.pending = rest /\ t.heard = s.heard /\ t.said = s.said
      /\ t.owed = s.owed /\ t.speech = s.speech
  BY <1>3 DEF Sessions
<1> HIDE DEF t
<1>5. Sound(t, top)
  <2>1. Before(s.heard, rest) /\ Among(rest, s.owed, top)
    BY <1>3 DEF Sound, Before, Among
  <2> QED
    BY <1>3, <1>4, <2>1 DEF Sound
<1>6. Fits(t, us, top)
  <2>1. Before(s.heard, us) /\ Among(us, s.owed, top)
    BY <1>3 DEF Sound, Before, Among
  <2> QED
    BY <1>3, <1>4, <2>1 DEF Sound, Fits
<1>7. Lost(t) \subseteq Lost(s) \cup Of(us)
  BY <1>3, <1>4 DEF Lost
<1>8. Stt!TakesLast(s) => rest = <<>>
  <2>1. Stt!TakesLast(s) => Len(rest) = 0
    BY <1>1, <1>2, <1>3
  <2> QED
    BY <1>3, <2>1, EmptySeq
<1> QED
  BY <1>2, <1>3, <1>4, <1>5, <1>6, <1>7, <1>8 DEF k, us, rest, t

\* A chunk pushed to the buffer.
LEMMA ChunkPushed ==
  ASSUME NEW s \in Sessions, NEW top, Sound(s, top), NEW us \in Seq(Nat),
         us # <<>> => Fits(s, us, top)
  PROVE  LET t == Stt!Pushed(s, us) IN
         /\ t \in Sessions /\ Sound(t, top) /\ Kept(s, t) /\ t.pending = s.pending
         /\ t.closed = s.closed /\ t.finalized = s.finalized /\ Lost(t) = Lost(s) \ Of(us)
<1> DEFINE t == Stt!Pushed(s, us)
<1>1. CASE us = <<>>
  <2>1. t = s
    BY <1>1 DEF Stt!Pushed
  <2> QED
    BY <1>1, <2>1, NoUnits DEF Kept
<1>2. CASE us # <<>>
  <2>1. t = [s EXCEPT !.heard = s.heard \o us, !.fed = TRUE]
    BY <1>2 DEF Stt!Pushed
  <2>2. s.heard \in Seq(Nat) /\ s.pending \in Seq(Nat)
    BY DEF Sessions
  <2>3. Fits(s, us, top)
    BY <1>2
  <2>4. /\ s.heard \o us \in Seq(Nat) /\ Len(s.heard \o us) = Len(s.heard) + Len(us)
        /\ Of(s.heard \o us) = Of(s.heard) \cup Of(us) /\ Ascend(s.heard \o us)
    BY <2>2, <2>3, UnitsJoin DEF Sound, Fits
  <2> HIDE DEF t
  <2>5. /\ t \in Sessions /\ t.heard = s.heard \o us /\ t.pending = s.pending
        /\ t.said = s.said /\ t.owed = s.owed /\ t.speech = s.speech /\ t.owner = s.owner
        /\ t.finalize = s.finalize /\ t.finalized = s.finalized /\ t.closed = s.closed
    BY <2>1, <2>4 DEF Sessions
  <2>6. Before(t.heard, t.pending) /\ Among(t.heard, t.owed, top)
    BY <2>3, <2>4, <2>5 DEF Sound, Fits, Before, Among
  <2>7. t.said <= Len(t.heard)
    <3>1. s.said <= Len(s.heard) /\ s.said \in Nat /\ Len(s.heard) \in Nat /\ Len(us) \in Nat
      BY <2>2, LenProperties DEF Sound, Sessions
    <3> QED
      BY <2>4, <2>5, <3>1
  <2>8. Sound(t, top)
    BY <2>4, <2>5, <2>6, <2>7 DEF Sound
  <2>9. Lost(t) = Lost(s) \ Of(us)
    BY <2>4, <2>5 DEF Lost
  <2> QED
    BY <2>5, <2>8, <2>9 DEF Kept, t
<1> QED
  BY <1>1, <1>2

---------------------------------------------------------------------------
(* SttStream: a step of the tick.                                          *)

\* Nothing is on its way outside the push.
LEMMA NotFlying ==
  \A i : /\ step # "push" => Flying(i) = {}
         /\ step' # "push" => Flying(i)' = {}
  BY DEF Flying

\* A chunk of the batch.
LEMMA DueIs ==
  ASSUME SttInv, NEW n \in 1..Len(due)
  PROVE  /\ due[n] \in Chunks /\ due[n].sid \in 1..s_seq /\ due[n].sid \in 1..MaxSid
         /\ due[n].units \in Seq(Nat) /\ due[n].last \in BOOLEAN
         /\ ~sess[due[n].sid].finalized
         /\ \A m \in 1..Len(due) : due[m].sid = due[n].sid => m = n
<1>1. due[n] \in Chunks
  BY ElementOfSeq DEF SttInv, TickOK
<1>2. /\ due[n].sid <= s_seq /\ ~sess[due[n].sid].finalized
      /\ \A m \in 1..Len(due) : due[m].sid = due[n].sid => m = n
  BY DEF SttInv, Due
<1>3. due[n].sid \in 1..MaxSid /\ due[n].units \in Seq(Nat) /\ due[n].last \in BOOLEAN
  BY <1>1 DEF Chunks
<1> QED
  BY <1>1, <1>2, <1>3, SttNumbers

\* A delta of the tick.
LEMMA OutIs ==
  ASSUME SttInv, NEW n \in 1..Len(out)
  PROVE  out[n] \in Spoken /\ out[n].sid \in 1..s_seq /\ out[n].sid \in 1..MaxSid
<1>1. out[n] \in Spoken
  BY ElementOfSeq DEF SttInv, TickOK
<1>2. out[n].sid <= s_seq
  BY DEF SttInv, Finals
<1> QED
  BY <1>1, <1>2, SttNumbers DEF Spoken

\* A text that is whole stays whole.
LEMMA WholeKept ==
  ASSUME SttInv, Ticked, NEW i \in 1..MaxSid, NEW text, Whole(i, text)
  PROVE  WholeThen(i, text)
<1>1. s_seq' = s_seq /\ hurt \subseteq hurt' /\ Kept(sess[i], sess'[i])
  BY DEF Ticked
<1> QED
  BY <1>1 DEF Whole, WholeThen, Kept

\* The deltas of the tick stay what they are while others are taken from the batch.
LEMMA FinalsKept ==
  ASSUME SttInv, Ticked, out' = out,
         \A m \in 1..Len(due') : \E k \in 1..Len(due) : due'[m].sid = due[k].sid
  PROVE  Finals'
<1>1. s_seq' = s_seq /\ \A i \in 1..MaxSid : Kept(sess[i], sess'[i])
  BY DEF Ticked
<1>2. ASSUME NEW n \in 1..Len(out)
      PROVE  /\ out[n].sid <= s_seq'
             /\ out[n].final => WholeThen(out[n].sid, out[n].text) /\ sess'[out[n].sid].finalized
             /\ \A m \in 1..Len(out) : out[m].sid = out[n].sid => m = n
             /\ \A m \in 1..Len(due') : due'[m].sid # out[n].sid
  <2>1. out[n].sid \in 1..MaxSid
    BY OutIs
  <2>2. /\ out[n].sid <= s_seq
        /\ out[n].final => Whole(out[n].sid, out[n].text) /\ sess[out[n].sid].finalized
        /\ \A m \in 1..Len(out) : out[m].sid = out[n].sid => m = n
        /\ \A m \in 1..Len(due) : due[m].sid # out[n].sid
    BY DEF SttInv, Finals
  <2>3. out[n].final => WholeThen(out[n].sid, out[n].text)
    BY <2>1, <2>2, WholeKept
  <2>4. Kept(sess[out[n].sid], sess'[out[n].sid])
    BY <1>1, <2>1
  <2> QED
    BY <1>1, <2>2, <2>3, <2>4 DEF Kept
<1> QED
  BY <1>2 DEF Finals, Whole, WholeThen

\* A step of the tick that leaves the sessions alone.
LEMMA StillTicked ==
  ASSUME SttInv, hurt \subseteq hurt',
         UNCHANGED <<s_seq, sess, live, up, s_phase, s_turn, turns, cur, s_sent, outbox,
                     committed>>,
         \A n \in 1..Len(out') : out'[n] \in {out[m] : m \in 1..Len(out)},
         \A n \in 1..Len(due') : due'[n] \in {due[m] : m \in 1..Len(due)}
  PROVE  Ticked
<1>1. sess' \in [1..MaxSid -> Sessions] /\ \A i \in 1..MaxSid : Kept(sess[i], sess'[i])
  BY SttNumbers DEF Kept
<1>2. /\ \A n \in 1..Len(out') : InHand(out'[n].sid)
      /\ \A n \in 1..Len(due') : InHand(due'[n].sid)
  BY DEF InHand
<1> QED
  BY <1>1, <1>2 DEF Ticked

\* The encoder has run over the batch, and the decoder has come to its end.
LEMMA ForwardSteps ==
  ASSUME SttInv, Stt!TickForward \/ Stt!TickEnds
  PROVE  SttInv'
<1>1. /\ UNCHANGED <<s_seq, sess, live, up, s_phase, s_turn, turns, cur, s_sent, outbox,
                     committed, due, out, hurt, s_failures>>
      /\ step # "push" /\ step' \in {"raise", "decode", "route"}
      /\ step' = "route" => due = <<>>
  BY DEF Stt!TickForward, Stt!TickEnds, Stt!clientVars, Stt!engineVars
<1>2. Ticked
  BY <1>1, StillTicked
<1>3. TickOK'
  BY <1>1 DEF SttInv, TickOK
<1>4. Holds'
  BY <1>1, NotFlying DEF SttInv, Holds
<1>5. Due'
  BY <1>1 DEF SttInv, Due
<1>6. Finals'
  BY <1>1, <1>2, FinalsKept
<1> QED
  BY <1>2, <1>3, <1>4, <1>5, <1>6, TickedStep DEF SttInv

\* A tick that raises has nothing left.
LEMMA AbortStep ==
  ASSUME SttInv, Stt!TickAborts
  PROVE  SttInv'
<1>1. /\ UNCHANGED <<s_seq, sess, live, up, s_phase, s_turn, turns, cur, s_sent, outbox,
                     committed, s_failures>>
      /\ step # "push" /\ step' = "poll" /\ due' = <<>> /\ out' = <<>>
      /\ hurt' = hurt \cup {out[n].sid : n \in DOMAIN out}
  BY DEF Stt!TickAborts, Stt!clientVars, Stt!engineVars
<1>2. Len(<<>>) = 0
  BY EmptySeq
<1>3. Ticked
  BY <1>1, <1>2, StillTicked
<1>4. TickOK'
  <2>1. \A n \in DOMAIN out : out[n].sid \in 1..MaxSid
    BY OutIs, LenProperties DEF SttInv, TickOK
  <2> QED
    BY <1>1, <2>1, EmptySeq DEF SttInv, TickOK
<1>5. Holds'
  BY <1>1, NotFlying DEF SttInv, Holds
<1>6. Due' /\ Finals'
  BY <1>1, <1>2 DEF Due, Finals
<1> QED
  BY <1>3, <1>4, <1>5, <1>6, TickedStep DEF SttInv

---------------------------------------------------------------------------
(* SttStream: the chunks go to the buffers.                                *)

\* What is on its way of a session is the chunk that was taken of it.
LEMMA FlyingIs ==
  ASSUME SttInv, step = "push"
  PROVE  /\ \A n \in 1..Len(due) : Flying(due[n].sid) = Of(due[n].units)
         /\ \A i : (\A n \in 1..Len(due) : due[n].sid # i) => Flying(i) = {}
<1>1. ASSUME NEW n \in 1..Len(due) PROVE Flying(due[n].sid) = Of(due[n].units)
  <2>1. {k \in 1..Len(due) : step = "push" /\ due[k].sid = due[n].sid} = {n}
    BY DueIs
  <2> QED
    BY <2>1 DEF Flying
<1>2. ASSUME NEW i, \A n \in 1..Len(due) : due[n].sid # i PROVE Flying(i) = {}
  BY <1>2 DEF Flying
<1> QED
  BY <1>1, <1>2

\* Where the pushes stop: before the first chunk whose session is closed.
LEMMA PushesUpTo ==
  ASSUME SttInv
  PROVE  LET bad == {n \in DOMAIN due : Stt!Gone(due[n].sid) /\ due[n].units # <<>>}
             upto == IF bad = {} THEN Len(due) ELSE Stt!Min(bad) - 1
         IN /\ upto \in Nat /\ upto <= Len(due) /\ (bad = {} => upto = Len(due))
            /\ \A n \in 1..upto : n \in DOMAIN due /\ n \notin bad
<1> DEFINE bad == {n \in DOMAIN due : Stt!Gone(due[n].sid) /\ due[n].units # <<>>}
           upto == IF bad = {} THEN Len(due) ELSE Stt!Min(bad) - 1
<1>1. DOMAIN due = 1..Len(due) /\ Len(due) \in Nat
  BY LenProperties DEF SttInv, TickOK
<1>2. bad \in SUBSET (1..Len(due)) /\ IsFiniteSet(1..Len(due))
  BY <1>1, FS_Interval
<1>3. IsFiniteSet(bad) /\ bad \in SUBSET Nat
  BY <1>1, <1>2, FS_Subset
<1> HIDE DEF bad
<1>4. /\ upto \in Nat /\ upto <= Len(due) /\ (bad = {} => upto = Len(due))
      /\ \A n \in 1..upto : n \in DOMAIN due /\ n \notin bad
  <2>1. CASE bad = {}
    BY <1>1, <2>1
  <2>2. CASE bad # {}
    <3>1. Stt!Min(bad) \in bad /\ \A n \in bad : Stt!Min(bad) <= n
      BY <1>3, <2>2, SmallestIs
    <3>2. Stt!Min(bad) \in 1..Len(due)
      BY <1>2, <3>1
    <3>3. upto = Stt!Min(bad) - 1 /\ upto \in Nat /\ upto < Stt!Min(bad)
      BY <1>1, <2>2, <3>2
    <3>4. \A n \in 1..upto : n \in 1..Len(due) /\ n \notin bad
      BY <1>1, <3>1, <3>2, <3>3
    <3> QED
      BY <1>1, <2>2, <3>2, <3>3, <3>4
  <2> QED
    BY <2>1, <2>2
<1> QED
  BY <1>4 DEF bad

\* What a push leaves of every session.
PushedAll(upto) ==
  \A i \in 1..MaxSid :
    \/ \E n \in 1..upto : due[n].sid = i /\ sess'[i] = Stt!Pushed(sess[i], due[n].units)
    \/ sess'[i] = sess[i] /\ \A n \in 1..upto : due[n].sid # i

\* The chunks go to the buffers of their sessions.
LEMMA PushSteps ==
  ASSUME SttInv, Stt!TickPushes
  PROVE  \E upto \in Nat :
           /\ step = "push" /\ step' \in {"forward", "raise"} /\ upto <= Len(due)
           /\ step' = "forward" => upto = Len(due)
           /\ UNCHANGED <<s_seq, live, up, s_phase, s_turn, turns, cur, s_sent, outbox,
                          committed, due, out, s_failures>>
           /\ \A n \in 1..upto :
                due[n].units = <<>> \/ ~sess[due[n].sid].closed
           /\ DOMAIN sess' = 1..MaxSid /\ sess' = [i \in 1..MaxSid |-> sess'[i]]
           /\ PushedAll(upto)
           /\ hurt' = hurt \cup {due[n].sid : n \in {k \in DOMAIN due :
                                   k > upto /\ due[k].units # <<>>}}
<1> DEFINE bad == {n \in DOMAIN due : Stt!Gone(due[n].sid) /\ due[n].units # <<>>}
           upto == IF bad = {} THEN Len(due) ELSE Stt!Min(bad) - 1
           chunk(i) == LET n == CHOOSE n \in DOMAIN due : due[n].sid = i IN due[n].units
           some == {due[n].sid : n \in 1..upto}
<1>1. /\ step = "push" /\ step' = IF bad = {} THEN "forward" ELSE "raise"
      /\ UNCHANGED <<s_seq, live, up, s_phase, s_turn, turns, cur, s_sent, outbox,
                     committed, due, out, s_failures>>
      /\ hurt' = hurt \cup {due[n].sid : n \in {k \in DOMAIN due :
                                   k > upto /\ due[k].units # <<>>}}
      /\ sess' = [i \in 1..MaxSid |->
                    IF i \in some THEN Stt!Pushed(sess[i], chunk(i)) ELSE sess[i]]
  BY SttConstants DEF Stt!TickPushes, Stt!clientVars
<1>2. /\ upto \in Nat /\ upto <= Len(due) /\ (bad = {} => upto = Len(due))
      /\ \A n \in 1..upto : n \in DOMAIN due /\ n \notin bad
  BY PushesUpTo
<1>3. DOMAIN due = 1..Len(due)
  BY LenProperties DEF SttInv, TickOK
<1>4. \A n \in 1..upto : due[n].units = <<>> \/ ~sess[due[n].sid].closed
  BY <1>2 DEF Stt!Gone
<1> HIDE DEF upto, bad
<1>5. ASSUME NEW n \in 1..upto PROVE chunk(due[n].sid) = due[n].units
  <2>1. n \in DOMAIN due /\ \A m \in DOMAIN due : due[m].sid = due[n].sid => m = n
    BY <1>2, <1>3, DueIs
  <2>2. (CHOOSE m \in DOMAIN due : due[m].sid = due[n].sid) = n
    BY <2>1
  <2> QED
    BY <2>2
<1> HIDE DEF chunk
<1>6. PushedAll(upto)
  <2> SUFFICES ASSUME NEW i \in 1..MaxSid
               PROVE  \/ \E n \in 1..upto :
                           due[n].sid = i /\ sess'[i] = Stt!Pushed(sess[i], due[n].units)
                      \/ sess'[i] = sess[i] /\ \A n \in 1..upto : due[n].sid # i
    BY DEF PushedAll
  <2>1. CASE i \in some
    <3>1. PICK n \in 1..upto : due[n].sid = i
      BY <2>1
    <3>2. sess'[i] = Stt!Pushed(sess[i], chunk(i))
      BY <1>1, <2>1
    <3> QED
      BY <1>5, <3>1, <3>2
  <2>2. CASE i \notin some
    BY <1>1, <2>2
  <2> QED
    BY <2>1, <2>2
<1>7. DOMAIN sess' = 1..MaxSid /\ sess' = [i \in 1..MaxSid |-> sess'[i]]
  BY <1>1
<1>8. step' \in {"forward", "raise"} /\ (step' = "forward" => upto = Len(due))
  BY <1>1, <1>2
<1> HIDE DEF some
<1> QED
  BY <1>1, <1>2, <1>4, <1>6, <1>7, <1>8

\* A push loses nothing: what it does not come to it marks.
LEMMA PushStep ==
  ASSUME SttInv, Stt!TickPushes
  PROVE  SttInv'
<1>1. PICK upto \in Nat :
           /\ step = "push" /\ step' \in {"forward", "raise"} /\ upto <= Len(due)
           /\ step' = "forward" => upto = Len(due)
           /\ UNCHANGED <<s_seq, live, up, s_phase, s_turn, turns, cur, s_sent, outbox,
                          committed, due, out, s_failures>>
           /\ \A n \in 1..upto :
                due[n].units = <<>> \/ ~sess[due[n].sid].closed
           /\ DOMAIN sess' = 1..MaxSid /\ sess' = [i \in 1..MaxSid |-> sess'[i]]
           /\ PushedAll(upto)
           /\ hurt' = hurt \cup {due[n].sid : n \in {k \in DOMAIN due :
                                   k > upto /\ due[k].units # <<>>}}
  BY PushSteps
<1>2. DOMAIN due = 1..Len(due) /\ Len(due) \in Nat
  BY LenProperties DEF SttInv, TickOK
<1>3. ASSUME NEW i \in 1..MaxSid, NEW n \in 1..upto, due[n].sid = i
      PROVE  LET s == sess[i]
                 t == sess'[i]
                 top == s_sent[s.owner]
             IN /\ t \in Sessions /\ Sound(t, top) /\ Kept(s, t) /\ t.pending = s.pending
                /\ t.closed = s.closed /\ t.finalized = s.finalized
                /\ Lost(t) = Lost(s) \ Of(due[n].units)
  <2>1. n \in 1..Len(due)
    BY <1>1, <1>2
  <2>2. due[n].units \in Seq(Nat) /\ i \in 1..s_seq
    BY <1>3, <2>1, DueIs
  <2>3. sess[i] \in Sessions /\ Sound(sess[i], s_sent[sess[i].owner])
    BY <2>2, SttNumbers DEF SttInv, Holds
  <2>4. due[n].units # <<>> => Fits(sess[i], due[n].units, s_sent[sess[i].owner])
    BY <1>1, <1>3, <2>1 DEF SttInv, Due
  <2>5. sess'[i] = Stt!Pushed(sess[i], due[n].units)
    <3>1. \A m \in 1..upto : m \in 1..Len(due)
      BY <1>1, <1>2
    <3>2. \A m \in 1..upto : due[m].sid = i => m = n
      BY <1>3, <2>1, <3>1, DueIs
    <3> QED
      BY <1>1, <1>3, <3>2 DEF PushedAll
  <2> QED
    BY <2>2, <2>3, <2>4, <2>5, ChunkPushed
<1>4. ASSUME NEW i \in 1..MaxSid
      PROVE  /\ sess'[i] \in Sessions /\ Kept(sess[i], sess'[i])
             /\ sess'[i].pending = sess[i].pending /\ sess'[i].closed = sess[i].closed
             /\ sess'[i].finalized = sess[i].finalized
  <2>1. CASE \E n \in 1..upto : due[n].sid = i
    BY <1>3, <2>1
  <2>2. CASE sess'[i] = sess[i]
    BY <2>2, SttNumbers DEF Kept
  <2> QED
    BY <1>1, <2>1, <2>2 DEF PushedAll
<1>5. Ticked
  <2>1. sess' \in [1..MaxSid -> Sessions]
    BY <1>1, <1>4
  <2>2. /\ \A n \in 1..Len(out') : InHand(out'[n].sid)
        /\ \A n \in 1..Len(due') : InHand(due'[n].sid)
    BY <1>1 DEF InHand
  <2> QED
    BY <1>1, <1>4, <2>1, <2>2 DEF Ticked
<1>6. TickOK'
  <2>1. \A k \in DOMAIN due : due[k].sid \in 1..MaxSid
    BY <1>2, DueIs
  <2>2. hurt' \in SUBSET (1..MaxSid)
    BY <1>1, <2>1 DEF SttInv, TickOK
  <2> QED
    BY <1>1, <2>2 DEF SttInv, TickOK
<1>7. Holds'
  <2> SUFFICES ASSUME NEW i \in 1..s_seq
               PROVE  /\ Sound(sess'[i], s_sent[sess'[i].owner])
                      /\ ~sess'[i].closed /\ i \notin hurt' => Lost(sess'[i]) = {}
    BY <1>1, NotFlying DEF Holds
  <2>1. i \in 1..MaxSid
    BY SttNumbers
  <2>2. /\ Sound(sess[i], s_sent[sess[i].owner])
        /\ ~sess[i].closed /\ i \notin hurt => Lost(sess[i]) \subseteq Flying(i)
    BY DEF SttInv, Holds
  <2>3. sess'[i].owner = sess[i].owner
    BY <1>4, <2>1 DEF Kept
  <2>4. CASE \E n \in 1..upto : due[n].sid = i
    <3>1. PICK n \in 1..upto : due[n].sid = i
      BY <2>4
    <3>2. n \in 1..Len(due)
      BY <1>1, <1>2
    <3>3. Flying(i) = Of(due[n].units)
      BY <1>1, <3>1, <3>2, FlyingIs
    <3> QED
      BY <1>1, <1>3, <2>1, <2>2, <2>3, <3>1, <3>3
  <2>5. CASE \A n \in 1..upto : due[n].sid # i
    <3>1. sess'[i] = sess[i]
      BY <1>1, <2>1, <2>5 DEF PushedAll
    <3>2. ASSUME i \notin hurt' PROVE Flying(i) = {}
      <4>1. CASE \E n \in 1..Len(due) : due[n].sid = i
        <5>1. PICK n \in 1..Len(due) : due[n].sid = i
          BY <4>1
        <5>2. n > upto
          BY <1>2, <2>5, <5>1
        <5>3. due[n].units = <<>>
          BY <1>1, <1>2, <3>2, <5>1, <5>2
        <5> QED
          BY <1>1, <5>1, <5>3, FlyingIs, NoUnits
      <4>2. CASE \A n \in 1..Len(due) : due[n].sid # i
        BY <1>1, <4>2, FlyingIs
      <4> QED
        BY <4>1, <4>2
    <3> QED
      BY <1>1, <2>2, <3>1, <3>2
  <2> QED
    BY <2>4, <2>5
<1>8. Due'
  <2> SUFFICES ASSUME NEW n \in 1..Len(due)
               PROVE  LET s == sess'[due[n].sid] IN
                      /\ due[n].sid <= s_seq /\ ~s.finalized
                      /\ \A m \in 1..Len(due) : due[m].sid = due[n].sid => m = n
                      /\ ~s.closed /\ due[n].last => s.finalize /\ s.pending = <<>>
    BY <1>1 DEF Due
  <2>1. LET s == sess[due[n].sid] IN
        /\ due[n].sid <= s_seq /\ ~s.finalized
        /\ \A m \in 1..Len(due) : due[m].sid = due[n].sid => m = n
        /\ ~s.closed /\ due[n].last => s.finalize /\ s.pending = <<>>
    BY DEF SttInv, Due
  <2>2. due[n].sid \in 1..MaxSid
    BY DueIs
  <2> QED
    BY <1>4, <2>1, <2>2 DEF Kept
<1>9. Finals'
  BY <1>1, <1>5, FinalsKept
<1> QED
  BY <1>5, <1>6, <1>7, <1>8, <1>9, TickedStep DEF SttInv

---------------------------------------------------------------------------
(* SttStream: the chunks are taken.                                        *)

\* What the GPU thread takes of a session that is ready, and what it leaves.
Taken(s) == SubSeq(s.pending, 1, Stt!TakeLen(s))

Rest(s) == SubSeq(s.pending, Stt!TakeLen(s) + 1, Len(s.pending))

IsReady(s) == s.finalize \/ Len(s.pending) >= Stt!SamplesNeeded(s)

\* A turn without speech that is at its end.
LEMMA SilentEnds ==
  ASSUME NEW s \in Sessions, NEW top, Sound(s, top), ~s.speech
  PROVE  LET t == [s EXCEPT !.pending = <<>>, !.finalized = TRUE] IN
         /\ t \in Sessions /\ Sound(t, top) /\ Kept(s, t) /\ t.closed = s.closed
         /\ t.finalized /\ Lost(t) = {}
<1> DEFINE t == [s EXCEPT !.pending = <<>>, !.finalized = TRUE]
<1>1. /\ t \in Sessions /\ t.pending = <<>> /\ t.finalized /\ t.heard = s.heard
      /\ t.said = s.said /\ t.speech = s.speech /\ t.owed = s.owed /\ t.closed = s.closed
      /\ t.owner = s.owner /\ t.finalize = s.finalize
  BY NoUnits DEF Sessions
<1> HIDE DEF t
<1>2. Sound(t, top) /\ s.owed = {}
  BY <1>1, NoUnits DEF Sound, Before, Among
<1> QED
  BY <1>1, <1>2 DEF Kept, Lost, t

\* A chunk without speech goes to the buffer at once.
LEMMA SilentChunk ==
  ASSUME NEW s \in Sessions, NEW top, Sound(s, top), ~s.speech, IsReady(s)
  PROVE  LET t == [Stt!Pushed(s, Taken(s)) EXCEPT !.pending = Rest(s)] IN
         /\ t \in Sessions /\ Sound(t, top) /\ Kept(s, t) /\ t.closed = s.closed
         /\ t.finalized = s.finalized /\ Lost(t) = {}
<1> DEFINE us == Taken(s)
           rest == Rest(s)
           v == [s EXCEPT !.pending = rest]
           t == [Stt!Pushed(s, us) EXCEPT !.pending = rest]
<1>1. us \in Seq(Nat) /\ rest \in Seq(Nat) /\ v \in Sessions /\ Sound(v, top)
      /\ Fits(v, us, top)
  BY ChunkTaken DEF Taken, Rest, IsReady
<1> HIDE DEF us, rest
<1>2. /\ v.owner = s.owner /\ v.owed = s.owed /\ v.finalize = s.finalize
      /\ v.finalized = s.finalized /\ v.closed = s.closed /\ v.heard = s.heard
  BY DEF Sessions
<1>3. t = Stt!Pushed(v, us)
  <2>1. CASE us = <<>>
    BY <2>1 DEF Stt!Pushed
  <2>2. CASE us # <<>>
    <3>1. Stt!Pushed(s, us) = [s EXCEPT !.heard = s.heard \o us, !.fed = TRUE]
      BY <2>2 DEF Stt!Pushed
    <3>2. Stt!Pushed(v, us) = [v EXCEPT !.heard = s.heard \o us, !.fed = TRUE]
      BY <1>2, <2>2 DEF Stt!Pushed
    <3> QED
      BY <3>1, <3>2 DEF Sessions
  <2> QED
    BY <2>1, <2>2
<1> HIDE DEF v
<1>4. /\ Stt!Pushed(v, us) \in Sessions /\ Sound(Stt!Pushed(v, us), top)
      /\ Kept(v, Stt!Pushed(v, us)) /\ Stt!Pushed(v, us).closed = v.closed
      /\ Stt!Pushed(v, us).finalized = v.finalized
      /\ Lost(Stt!Pushed(v, us)) = Lost(v) \ Of(us)
  BY <1>1, ChunkPushed
<1>5. Lost(v) = {}
  BY <1>2 DEF Lost, Sound
<1> QED
  BY <1>2, <1>3, <1>4, <1>5 DEF Kept, us, rest

\* A chunk with speech.
LEMMA SpokenChunk ==
  ASSUME NEW s \in Sessions, NEW top, Sound(s, top), IsReady(s)
  PROVE  LET t == [s EXCEPT !.pending = Rest(s)] IN
         /\ t \in Sessions /\ Sound(t, top) /\ Kept(s, t) /\ t.closed = s.closed
         /\ t.finalized = s.finalized /\ t.finalize = s.finalize /\ t.pending = Rest(s)
         /\ Taken(s) \in Seq(Nat)
         /\ Lost(t) \subseteq Lost(s) \cup Of(Taken(s)) /\ Fits(t, Taken(s), top)
         /\ Stt!TakesLast(s) \in BOOLEAN
         /\ Stt!TakesLast(s) => s.finalize /\ Rest(s) = <<>>
<1> DEFINE t == [s EXCEPT !.pending = Rest(s)]
<1>1. /\ Taken(s) \in Seq(Nat) /\ Rest(s) \in Seq(Nat) /\ t \in Sessions
      /\ Sound(t, top) /\ Fits(t, Taken(s), top) /\ Lost(t) \subseteq Lost(s) \cup Of(Taken(s))
      /\ Stt!TakesLast(s) \in BOOLEAN
      /\ Stt!TakesLast(s) => s.finalize /\ Rest(s) = <<>>
  BY ChunkTaken DEF Taken, Rest, IsReady
<1>2. /\ t.owner = s.owner /\ t.owed = s.owed /\ t.finalize = s.finalize
      /\ t.finalized = s.finalized /\ t.closed = s.closed /\ t.pending = Rest(s)
  BY DEF Sessions
<1> QED
  BY <1>1, <1>2 DEF Kept

\* What a final says of a turn without speech, and what any text of a session says.
LEMMA TextIs ==
  ASSUME NEW s \in Sessions, NEW top, Sound(s, top)
  PROVE  LET text == Stt!Text(s) IN
         /\ text \in Seq(Nat) /\ Ascend(text) /\ Of(text) \subseteq {0} \cup s.owed
         /\ s.said = Len(s.heard) => Of(text) = Of(s.heard)
<1> DEFINE text == Stt!Text(s)
           back == SubSeq(s.heard, s.said + 1, Len(s.heard))
<1>1. s.heard \in Seq(Nat) /\ s.said \in 0..Len(s.heard) /\ Len(s.heard) \in Nat
  BY LenProperties DEF Sessions, Sound
<1>2. /\ text \in Seq(Nat) /\ back \in Seq(Nat) /\ Len(back) = Len(s.heard) - s.said
      /\ Of(s.heard) = Of(text) \cup Of(back)
      /\ Ascend(s.heard) => Ascend(text)
  BY <1>1, UnitsCut DEF Stt!Text
<1> HIDE DEF text, back
<1>3. Of(text) \subseteq {0} \cup s.owed
  BY <1>2 DEF Sound, Among
<1>4. ASSUME s.said = Len(s.heard) PROVE Of(text) = Of(s.heard)
  <2>1. Len(back) = 0
    BY <1>1, <1>2, <1>4
  <2>2. Of(back) = {}
    BY <1>2, <2>1, EmptySeq, NoUnits
  <2> QED
    BY <1>2, <2>2
<1> QED
  BY <1>2, <1>3, <1>4 DEF Sound, text

\* The sessions of the tick are in the engine, ready, and have no final yet.
LEMMA ServedAre ==
  ASSUME SttInv
  PROVE  /\ Stt!Served \in SUBSET (1..s_seq) /\ Stt!Served \in SUBSET Nat
         /\ Stt!Served \subseteq live /\ IsFiniteSet(Stt!Served)
         /\ \A i \in Stt!Served :
              i \in 1..MaxSid /\ IsReady(sess[i]) /\ ~sess[i].finalized /\ ~sess[i].closed
<1>1. Stt!Served \subseteq Stt!Candidates
  BY DEF Stt!Served
<1>2. Stt!Candidates \subseteq live /\ \A i \in Stt!Candidates : Stt!Ready(i)
  BY DEF Stt!Candidates
<1>3. live \subseteq 1..s_seq /\ IsFiniteSet(live)
  BY LiveIsFinite DEF SttInv, EngineOK
<1>4. IsFiniteSet(Stt!Served)
  BY <1>1, <1>2, <1>3, FS_Subset
<1>5. \A i \in 1..s_seq : i \in Nat /\ i \in 1..MaxSid
  BY SttNumbers
<1> QED
  BY <1>1, <1>2, <1>3, <1>4, <1>5 DEF Stt!Ready, IsReady

---------------------------------------------------------------------------
(* SttStream: the take, of every session the tick serves.                  *)

\* What the take leaves of a session.
TakenOf(i) ==
  LET s == sess[i]
      t == sess'[i]
      served == i \in Stt!Served
  IN \/ served /\ ~s.speech /\ s.finalize /\ t = [s EXCEPT !.pending = <<>>, !.finalized = TRUE]
     \/ served /\ ~s.speech /\ ~s.finalize
        /\ t = [Stt!Pushed(s, Taken(s)) EXCEPT !.pending = Rest(s)]
     \/ served /\ s.speech /\ t = [s EXCEPT !.pending = Rest(s)]
     \/ ~served /\ t = s

\* A session of the new batch, and one whose final the tick has decided.
BatchOf(n) ==
  LET i == due'[n].sid IN
  /\ i \in Stt!Served /\ sess[i].speech
  /\ due'[n].units = Taken(sess[i]) /\ due'[n].last = Stt!TakesLast(sess[i])
  /\ \A m \in 1..Len(due') : due'[m].sid = i => m = n

FinalOf(n) ==
  LET i == out'[n].sid IN
  /\ i \in Stt!Served /\ ~sess[i].speech /\ sess[i].finalize
  /\ out'[n].text = Stt!Text(sess[i])
  /\ \A m \in 1..Len(out') : out'[m].sid = i => m = n

\* The take in terms of these.
LEMMA TakeIs ==
  ASSUME SttInv, Stt!TickTakes
  PROVE  /\ step = "poll" /\ step' \in {"push", "route"}
         /\ due' \in Seq(Chunks) /\ out' \in Seq(Spoken)
         /\ step' = "route" => due' = <<>>
         /\ UNCHANGED <<s_seq, live, up, s_phase, s_turn, turns, cur, s_sent, outbox,
                        committed, hurt, s_failures>>
         /\ DOMAIN sess' = 1..MaxSid /\ sess' = [i \in 1..MaxSid |-> sess'[i]]
         /\ \A i \in 1..MaxSid : TakenOf(i)
         /\ \A n \in 1..Len(due') : BatchOf(n)
         /\ \A n \in 1..Len(out') : FinalOf(n)
         /\ \A i \in Stt!Served : sess[i].speech => \E n \in 1..Len(due') : due'[n].sid = i
<1> DEFINE silent == {i \in Stt!Served : Stt!ShouldSkip(i)}
           spoken == Stt!Served \ silent
           done == {i \in silent : sess[i].finalize}
           picked == Stt!InOrder(spoken)
           ends == Stt!InOrder(done)
<1>1. /\ step = "poll" /\ step' = IF picked = <<>> THEN "route" ELSE "push"
      /\ UNCHANGED <<s_seq, live, up, s_phase, s_turn, turns, cur, s_sent, outbox,
                     committed, hurt, s_failures>>
  BY DEF Stt!TickTakes, Stt!clientVars
<1>2. sess' = [i \in 1..MaxSid |->
                IF i \in silent /\ sess[i].finalize
                THEN [sess[i] EXCEPT !.pending = <<>>, !.finalized = TRUE]
                ELSE IF i \in silent
                THEN [Stt!Pushed(sess[i], Taken(sess[i])) EXCEPT !.pending = Rest(sess[i])]
                ELSE IF i \in Stt!Served THEN [sess[i] EXCEPT !.pending = Rest(sess[i])]
                ELSE sess[i]]
  BY SttConstants DEF Stt!TickTakes, Taken, Rest
<1>3. due' = [n \in DOMAIN picked |-> [sid |-> picked[n], units |-> Taken(sess[picked[n]]),
                                      last |-> Stt!TakesLast(sess[picked[n]])]]
  BY DEF Stt!TickTakes, Taken
<1>4. out' = [n \in DOMAIN ends |-> [sid |-> ends[n], text |-> Stt!Text(sess[ends[n]]),
                                     final |-> TRUE]]
  BY DEF Stt!TickTakes
<1>5. \A i : i \in silent <=> i \in Stt!Served /\ ~sess[i].speech
  BY DEF Stt!ShouldSkip
<1>6. /\ spoken \in SUBSET Nat /\ IsFiniteSet(spoken)
      /\ done \in SUBSET Nat /\ IsFiniteSet(done)
  BY ServedAre, FS_Subset
<1>7. /\ spoken \subseteq Stt!Served /\ \A i \in spoken : sess[i].speech
      /\ \A i \in Stt!Served : sess[i].speech => i \in spoken
      /\ done \subseteq Stt!Served
      /\ \A i \in done : ~sess[i].speech /\ sess[i].finalize
  BY <1>5
<1>8. \A i \in 1..MaxSid : TakenOf(i)
  BY <1>2, <1>5 DEF TakenOf
<1>9. DOMAIN sess' = 1..MaxSid /\ sess' = [i \in 1..MaxSid |-> sess'[i]]
  BY <1>2
<1> HIDE DEF silent, spoken, done
<1>10. /\ picked \in Seq(spoken)
       /\ \A n, m \in 1..Len(picked) : picked[n] = picked[m] => n = m
       /\ \A i \in spoken : \E n \in 1..Len(picked) : picked[n] = i
  BY <1>6, InOrderAre
<1>11. /\ ends \in Seq(done)
       /\ \A n, m \in 1..Len(ends) : ends[n] = ends[m] => n = m
  BY <1>6, InOrderAre
<1> HIDE DEF picked, ends
<1>12. /\ Len(picked) \in Nat /\ DOMAIN picked = 1..Len(picked)
       /\ Len(ends) \in Nat /\ DOMAIN ends = 1..Len(ends)
       /\ \A n \in 1..Len(picked) : picked[n] \in spoken
       /\ \A n \in 1..Len(ends) : ends[n] \in done
  BY <1>10, <1>11, LenProperties, ElementOfSeq
<1>13. ASSUME NEW i \in Stt!Served
       PROVE  /\ i \in 1..MaxSid /\ Taken(sess[i]) \in Seq(Nat)
              /\ Stt!TakesLast(sess[i]) \in BOOLEAN /\ Stt!Text(sess[i]) \in Seq(Nat)
  <2>1. i \in 1..MaxSid /\ i \in 1..s_seq /\ IsReady(sess[i])
    BY ServedAre
  <2>2. sess[i] \in Sessions /\ Sound(sess[i], s_sent[sess[i].owner])
    BY <2>1, SttNumbers DEF SttInv, Holds
  <2> QED
    BY <2>1, <2>2, SpokenChunk, TextIs
<1>14. /\ due' \in Seq(Chunks) /\ Len(due') = Len(picked)
       /\ \A n \in 1..Len(picked) :
            /\ due'[n].sid = picked[n] /\ due'[n].units = Taken(sess[picked[n]])
            /\ due'[n].last = Stt!TakesLast(sess[picked[n]])
  <2>1. \A n \in 1..Len(picked) :
          [sid |-> picked[n], units |-> Taken(sess[picked[n]]),
           last |-> Stt!TakesLast(sess[picked[n]])] \in Chunks
    BY <1>7, <1>12, <1>13 DEF Chunks
  <2>2. due' \in [1..Len(picked) -> Chunks]
    BY <1>3, <1>12, <2>1
  <2>3. due' \in Seq(Chunks) /\ Len(due') = Len(picked)
    BY <1>12, <2>2
  <2> QED
    BY <1>3, <1>12, <2>3
<1>15. /\ out' \in Seq(Spoken) /\ Len(out') = Len(ends)
       /\ \A n \in 1..Len(ends) :
            out'[n].sid = ends[n] /\ out'[n].text = Stt!Text(sess[ends[n]])
  <2>1. \A n \in 1..Len(ends) :
          [sid |-> ends[n], text |-> Stt!Text(sess[ends[n]]), final |-> TRUE] \in Spoken
    BY <1>7, <1>12, <1>13 DEF Spoken
  <2>2. out' \in [1..Len(ends) -> Spoken]
    BY <1>4, <1>12, <2>1
  <2>3. out' \in Seq(Spoken) /\ Len(out') = Len(ends)
    BY <1>12, <2>2
  <2> QED
    BY <1>4, <1>12, <2>3
<1>16. ASSUME NEW n \in 1..Len(due') PROVE BatchOf(n)
  <2>1. due'[n].sid = picked[n] /\ n \in 1..Len(picked)
    BY <1>14
  <2>2. picked[n] \in Stt!Served /\ sess[picked[n]].speech
    BY <1>7, <1>12, <2>1
  <2>3. \A m \in 1..Len(due') : due'[m].sid = picked[n] => m = n
    BY <1>10, <1>14, <2>1
  <2> QED
    BY <1>14, <2>1, <2>2, <2>3 DEF BatchOf
<1>17. ASSUME NEW n \in 1..Len(out') PROVE FinalOf(n)
  <2>1. out'[n].sid = ends[n] /\ n \in 1..Len(ends)
    BY <1>15
  <2>2. ends[n] \in Stt!Served /\ ~sess[ends[n]].speech /\ sess[ends[n]].finalize
    BY <1>7, <1>12, <2>1
  <2>3. \A m \in 1..Len(out') : out'[m].sid = ends[n] => m = n
    BY <1>11, <1>15, <2>1
  <2> QED
    BY <1>15, <2>1, <2>2, <2>3 DEF FinalOf
<1>18. \A i \in Stt!Served : sess[i].speech => \E n \in 1..Len(due') : due'[n].sid = i
  <2> SUFFICES ASSUME NEW i \in Stt!Served, sess[i].speech
               PROVE  \E n \in 1..Len(due') : due'[n].sid = i
    OBVIOUS
  <2>1. PICK n \in 1..Len(picked) : picked[n] = i
    BY <1>7, <1>10
  <2> QED
    BY <1>14, <2>1
<1>19. step' \in {"push", "route"} /\ (step' = "route" => due' = <<>>)
  <2>1. picked = <<>> => due' = <<>>
    BY <1>12, <1>14, EmptySeq
  <2> QED
    BY <1>1, <2>1
<1> QED
  BY <1>1, <1>8, <1>9, <1>14, <1>15, <1>16, <1>17, <1>18, <1>19

\* The take of one session.
LEMMA TakenIs ==
  ASSUME SttInv, NEW i \in 1..s_seq, TakenOf(i)
  PROVE  LET s == sess[i]
             t == sess'[i]
             top == s_sent[s.owner]
         IN /\ t \in Sessions /\ Sound(t, top) /\ Kept(s, t) /\ t.closed = s.closed
            /\ t.finalized = s.finalized \/ ~s.speech
            /\ i \in Stt!Served /\ ~s.speech => Lost(t) = {} /\ (s.finalize => t.finalized)
            /\ i \in Stt!Served /\ s.speech =>
                 /\ Lost(t) \subseteq Lost(s) \cup Of(Taken(s)) /\ Fits(t, Taken(s), top)
                 /\ Stt!TakesLast(s) => t.finalize /\ t.pending = <<>>
            /\ i \notin Stt!Served => Lost(t) = Lost(s)
<1> DEFINE s == sess[i]
           t == sess'[i]
           top == s_sent[s.owner]
<1>1. s \in Sessions /\ Sound(s, top)
  BY SttNumbers DEF SttInv, Holds
<1>2. i \in Stt!Served => IsReady(s)
  BY ServedAre
<1>3. \/ i \in Stt!Served /\ ~s.speech /\ s.finalize
         /\ t = [s EXCEPT !.pending = <<>>, !.finalized = TRUE]
      \/ i \in Stt!Served /\ ~s.speech /\ ~s.finalize
         /\ t = [Stt!Pushed(s, Taken(s)) EXCEPT !.pending = Rest(s)]
      \/ i \in Stt!Served /\ s.speech /\ t = [s EXCEPT !.pending = Rest(s)]
      \/ i \notin Stt!Served /\ t = s
  BY DEF TakenOf
<1> HIDE DEF s, t, top
<1> DEFINE Result ==
            /\ t \in Sessions /\ Sound(t, top) /\ Kept(s, t) /\ t.closed = s.closed
            /\ t.finalized = s.finalized \/ ~s.speech
            /\ i \in Stt!Served /\ ~s.speech => Lost(t) = {} /\ (s.finalize => t.finalized)
            /\ i \in Stt!Served /\ s.speech =>
                 /\ Lost(t) \subseteq Lost(s) \cup Of(Taken(s)) /\ Fits(t, Taken(s), top)
                 /\ Stt!TakesLast(s) => t.finalize /\ t.pending = <<>>
            /\ i \notin Stt!Served => Lost(t) = Lost(s)
<1>4. CASE i \in Stt!Served /\ ~s.speech /\ s.finalize
           /\ t = [s EXCEPT !.pending = <<>>, !.finalized = TRUE]
  <2>1. Result
    BY <1>1, <1>4, SilentEnds
  <2> QED
    BY <2>1 DEF s, t, top
<1>5. CASE i \in Stt!Served /\ ~s.speech /\ ~s.finalize
           /\ t = [Stt!Pushed(s, Taken(s)) EXCEPT !.pending = Rest(s)]
  <2>1. Result
    BY <1>1, <1>2, <1>5, SilentChunk
  <2> QED
    BY <2>1 DEF s, t, top
<1>6. CASE i \in Stt!Served /\ s.speech /\ t = [s EXCEPT !.pending = Rest(s)]
  <2>1. Result
    BY <1>1, <1>2, <1>6, SpokenChunk
  <2> QED
    BY <2>1 DEF s, t, top
<1>7. CASE i \notin Stt!Served /\ t = s
  <2>1. Result
    BY <1>1, <1>7 DEF Kept
  <2> QED
    BY <2>1 DEF s, t, top
<1> QED
  BY <1>3, <1>4, <1>5, <1>6, <1>7

\* The chunks that are taken of sessions with speech are on their way; those without
\* speech hold nothing they are owed, and a final of theirs is whole.
LEMMA TakeStep ==
  ASSUME SttInv, Stt!TickTakes
  PROVE  SttInv'
<1>1. /\ step = "poll" /\ step' \in {"push", "route"}
      /\ due' \in Seq(Chunks) /\ out' \in Seq(Spoken)
      /\ step' = "route" => due' = <<>>
      /\ UNCHANGED <<s_seq, live, up, s_phase, s_turn, turns, cur, s_sent, outbox,
                     committed, hurt, s_failures>>
      /\ DOMAIN sess' = 1..MaxSid /\ sess' = [i \in 1..MaxSid |-> sess'[i]]
      /\ \A i \in 1..MaxSid : TakenOf(i)
      /\ \A n \in 1..Len(due') : BatchOf(n)
      /\ \A n \in 1..Len(out') : FinalOf(n)
      /\ \A i \in Stt!Served : sess[i].speech => \E n \in 1..Len(due') : due'[n].sid = i
  BY TakeIs
<1>2. ASSUME NEW i \in 1..s_seq
      PROVE  LET s == sess[i]
                 t == sess'[i]
                 top == s_sent[s.owner]
             IN /\ t \in Sessions /\ Sound(t, top) /\ Kept(s, t) /\ t.closed = s.closed
                /\ t.finalized = s.finalized \/ ~s.speech
                /\ i \in Stt!Served /\ ~s.speech => Lost(t) = {} /\ (s.finalize => t.finalized)
                /\ i \in Stt!Served /\ s.speech =>
                     /\ Lost(t) \subseteq Lost(s) \cup Of(Taken(s)) /\ Fits(t, Taken(s), top)
                     /\ Stt!TakesLast(s) => t.finalize /\ t.pending = <<>>
                /\ i \notin Stt!Served => Lost(t) = Lost(s)
  BY <1>1, SttNumbers, TakenIs
<1>3. ASSUME NEW i \in 1..MaxSid
      PROVE  sess'[i] \in Sessions /\ Kept(sess[i], sess'[i]) /\ sess'[i].closed = sess[i].closed
  <2>1. CASE i \in 1..s_seq
    BY <1>2, <2>1
  <2>2. CASE i \notin 1..s_seq
    <3>1. i \notin Stt!Served
      BY <2>2, ServedAre
    <3>2. sess'[i] = sess[i]
      BY <1>1, <3>1 DEF TakenOf
    <3> QED
      BY <3>2, SttNumbers DEF Kept
  <2> QED
    BY <2>1, <2>2
<1>4. ASSUME NEW n \in 1..Len(due')
      PROVE  LET i == due'[n].sid IN
             /\ i \in Stt!Served /\ i \in 1..s_seq /\ i \in 1..MaxSid /\ sess[i].speech
             /\ ~sess[i].finalized /\ ~sess[i].closed
             /\ due'[n].units = Taken(sess[i]) /\ due'[n].last = Stt!TakesLast(sess[i])
             /\ \A m \in 1..Len(due') : due'[m].sid = i => m = n
  BY <1>1, ServedAre DEF BatchOf
<1>5. ASSUME NEW n \in 1..Len(out')
      PROVE  LET i == out'[n].sid IN
             /\ i \in Stt!Served /\ i \in 1..s_seq /\ i \in 1..MaxSid /\ ~sess[i].speech
             /\ ~sess[i].finalized /\ sess[i].finalize /\ out'[n].text = Stt!Text(sess[i])
             /\ \A m \in 1..Len(out') : out'[m].sid = i => m = n
  BY <1>1, ServedAre DEF FinalOf
<1>6. Ticked
  <2>1. sess' \in [1..MaxSid -> Sessions]
    BY <1>1, <1>3
  <2>2. /\ \A n \in 1..Len(out') : InHand(out'[n].sid)
        /\ \A n \in 1..Len(due') : InHand(due'[n].sid)
    BY <1>4, <1>5 DEF InHand
  <2> QED
    BY <1>1, <1>3, <2>1, <2>2 DEF Ticked
<1>7. TickOK'
  BY <1>1 DEF SttInv, TickOK
<1>8. Holds'
  <2> SUFFICES ASSUME NEW i \in 1..s_seq
               PROVE  /\ Sound(sess'[i], s_sent[sess'[i].owner])
                      /\ ~sess'[i].closed /\ i \notin hurt =>
                           \A u \in Lost(sess'[i]) : u \in Flying(i)'
    BY <1>1 DEF Holds
  <2>1. Lost(sess[i]) = {} \/ sess[i].closed \/ i \in hurt
    BY <1>1, NotFlying DEF SttInv, Holds
  <2>2. Sound(sess'[i], s_sent[sess'[i].owner]) /\ sess'[i].closed = sess[i].closed
    BY <1>2 DEF Kept
  <2>3. CASE i \in Stt!Served /\ sess[i].speech
    <3>1. PICK n \in 1..Len(due') : due'[n].sid = i
      BY <1>1, <2>3
    <3>2. step' = "push"
      <4>1. step' = "route" => Len(due') = 0
        BY <1>1, EmptySeq
      <4> QED
        BY <1>1, <3>1, <4>1
    <3>3. \A u \in Of(Taken(sess[i])) : u \in Flying(i)'
      BY <1>4, <3>1, <3>2 DEF Flying
    <3> QED
      BY <1>2, <2>1, <2>2, <2>3, <3>3
  <2>4. CASE ~(i \in Stt!Served /\ sess[i].speech)
    BY <1>2, <2>1, <2>2, <2>4
  <2> QED
    BY <2>3, <2>4
<1>9. Due'
  <2> SUFFICES ASSUME NEW n \in 1..Len(due')
               PROVE  LET t == sess'[due'[n].sid] IN
                      /\ due'[n].sid <= s_seq /\ ~t.finalized
                      /\ \A m \in 1..Len(due') : due'[m].sid = due'[n].sid => m = n
                      /\ Fits(t, due'[n].units, s_sent[t.owner])
                      /\ due'[n].last => t.finalize /\ t.pending = <<>>
    BY <1>1 DEF Due
  <2>1. LET s == sess[due'[n].sid]
            t == sess'[due'[n].sid]
            top == s_sent[s.owner]
        IN /\ Kept(s, t) /\ t.finalized = s.finalized /\ Fits(t, Taken(s), top)
           /\ Stt!TakesLast(s) => t.finalize /\ t.pending = <<>>
    BY <1>2, <1>4
  <2>2. due'[n].sid <= s_seq
    BY <1>4, SttNumbers
  <2> QED
    BY <1>4, <2>1, <2>2 DEF Kept
<1>10. Finals'
  <2>1. ASSUME NEW n \in 1..Len(out')
        PROVE  /\ WholeThen(out'[n].sid, out'[n].text) /\ sess'[out'[n].sid].finalized
               /\ \A m \in 1..Len(due') : due'[m].sid # out'[n].sid
    <3> DEFINE i == out'[n].sid
               s == sess[i]
    <3>1. /\ i \in Stt!Served /\ i \in 1..s_seq /\ i <= s_seq /\ ~s.speech /\ s.finalize
          /\ out'[n].text = Stt!Text(s)
      BY <1>5, SttNumbers
    <3>2. s \in Sessions /\ Sound(s, s_sent[s.owner])
      BY <3>1, SttNumbers DEF SttInv, Holds
    <3>3. Ascend(Stt!Text(s)) /\ Of(Stt!Text(s)) \subseteq {0} \cup s.owed
      BY <3>2, TextIs
    <3>4. s.owed = {}
      BY <3>1, <3>2 DEF Sound
    <3>5. Kept(s, sess'[i]) /\ sess'[i].finalized
      BY <1>2, <3>1
    <3>6. \A m \in 1..Len(due') : due'[m].sid # i
      BY <1>4, <3>1
    <3> HIDE DEF s
    <3> QED
      BY <1>1, <3>1, <3>3, <3>4, <3>5, <3>6 DEF WholeThen, Kept, s
  <2>2. \A n \in 1..Len(out') : out'[n].sid <= s_seq
    BY <1>5, SttNumbers
  <2> QED
    BY <1>1, <1>5, <2>1, <2>2 DEF Finals, Whole, WholeThen
<1> QED
  BY <1>6, <1>7, <1>8, <1>9, <1>10, TickedStep DEF SttInv

---------------------------------------------------------------------------
(* SttStream: the decode.                                                  *)

\* The chunk at the head of the batch, and what is left of it.
LEMMA HeadIs ==
  ASSUME SttInv, due # <<>>
  PROVE  /\ 1 \in 1..Len(due) /\ Head(due) = due[1] /\ Tail(due) \in Seq(Chunks)
         /\ \A m \in 1..Len(Tail(due)) :
              \E k \in 1..Len(due) :
                /\ Tail(due)[m] = due[k] /\ due[k].sid # due[1].sid
                /\ \A l \in 1..Len(Tail(due)) : Tail(due)[l] = due[k] => l = m
<1>1. due \in Seq(Chunks) /\ Len(due) \in Nat /\ Len(due) # 0
  BY LenProperties, EmptySeq DEF SttInv, TickOK
<1>2. /\ Tail(due) \in Seq(Chunks) /\ Len(Tail(due)) = Len(due) - 1 /\ Head(due) = due[1]
      /\ \A m \in 1..Len(Tail(due)) : Tail(due)[m] = due[m + 1]
  BY <1>1, HeadTailProperties
<1>3. 1 \in 1..Len(due)
  BY <1>1
<1>4. ASSUME NEW m \in 1..Len(Tail(due))
      PROVE  /\ m + 1 \in 1..Len(due) /\ Tail(due)[m] = due[m + 1]
             /\ due[m + 1].sid # due[1].sid
             /\ \A l \in 1..Len(Tail(due)) : Tail(due)[l] = due[m + 1] => l = m
  <2>1. m + 1 \in 1..Len(due) /\ m + 1 # 1
    BY <1>1, <1>2
  <2>2. due[m + 1].sid # due[1].sid
    BY <1>3, <2>1, DueIs
  <2>3. ASSUME NEW l \in 1..Len(Tail(due)), Tail(due)[l] = due[m + 1] PROVE l = m
    <3>1. l + 1 \in 1..Len(due) /\ due[l + 1].sid = due[m + 1].sid
      BY <1>1, <1>2, <2>3
    <3>2. l + 1 = m + 1
      BY <2>1, <3>1, DueIs
    <3> QED
      BY <1>1, <1>2, <3>2
  <2> QED
    BY <1>2, <2>1, <2>2, <2>3
<1> QED
  BY <1>2, <1>3, <1>4

\* The batch without its head, whose session alone has changed.
LEMMA TailKept ==
  ASSUME SttInv, Ticked, due # <<>>, due' = Tail(due), step = "decode", step' = step,
         \A i \in 1..MaxSid : i # due[1].sid => sess'[i] = sess[i]
  PROVE  /\ due' \in Seq(Chunks) /\ Due'
         /\ \A m \in 1..Len(due') : \E k \in 1..Len(due) :
              due'[m].sid = due[k].sid /\ due[k].sid # due[1].sid
<1>1. due' \in Seq(Chunks)
      /\ \A m \in 1..Len(due') : \E k \in 1..Len(due) :
           /\ due'[m] = due[k] /\ due[k].sid # due[1].sid
           /\ \A l \in 1..Len(due') : due'[l] = due[k] => l = m
  BY HeadIs
<1>2. s_seq' = s_seq
  BY DEF Ticked
<1>3. ASSUME NEW m \in 1..Len(due')
      PROVE  LET s == sess'[due'[m].sid] IN
             /\ due'[m].sid <= s_seq /\ ~s.finalized
             /\ \A l \in 1..Len(due') : due'[l].sid = due'[m].sid => l = m
             /\ ~s.closed /\ due'[m].last => s.finalize /\ s.pending = <<>>
  <2>1. PICK k \in 1..Len(due) :
          /\ due'[m] = due[k] /\ due[k].sid # due[1].sid
          /\ \A l \in 1..Len(due') : due'[l] = due[k] => l = m
    BY <1>1
  <2>2. sess'[due[k].sid] = sess[due[k].sid]
    BY <2>1, DueIs
  <2>3. LET s == sess[due[k].sid] IN
        /\ due[k].sid <= s_seq /\ ~s.finalized
        /\ ~s.closed /\ due[k].last => s.finalize /\ s.pending = <<>>
    BY DEF SttInv, Due
  <2>4. ASSUME NEW l \in 1..Len(due'), due'[l].sid = due'[m].sid PROVE l = m
    <3>1. PICK j \in 1..Len(due) : due'[l] = due[j]
      BY <1>1
    <3>2. due[j].sid = due[k].sid
      BY <2>1, <2>4, <3>1
    <3>3. j = k
      BY <3>2, DueIs
    <3> QED
      BY <2>1, <3>1, <3>3
  <2> QED
    BY <2>1, <2>2, <2>3, <2>4
<1>4. Due'
  BY <1>2, <1>3 DEF Due
<1> QED
  BY <1>1, <1>4

\* The engine closes a session whose decode fails.
LEMMA DecodeFailsStep ==
  ASSUME SttInv, Stt!DecodeFails
  PROVE  SttInv'
<1> DEFINE i == due[1].sid
<1>1. /\ step = "decode" /\ due # <<>> /\ due' = Tail(due) /\ Head(due) = due[1]
      /\ i \in 1..MaxSid /\ i \in 1..s_seq
      /\ live' = live \ {i} /\ sess' = Stt!Closed(sess, {i})
      /\ UNCHANGED <<s_seq, up, s_phase, s_turn, turns, cur, s_sent, outbox, committed,
                     step, out, hurt>>
      /\ s_failures' \in 0..MaxFailures
  <2>1. /\ step = "decode" /\ due # <<>> /\ due' = Tail(due)
        /\ live' = live \ {Head(due).sid} /\ sess' = Stt!Closed(sess, {Head(due).sid})
        /\ UNCHANGED <<s_seq, up, s_phase, s_turn, turns, cur, s_sent, outbox, committed,
                       step, out, hurt>>
        /\ s_failures' = s_failures \/ (s_failures < MaxFailures /\ s_failures' = s_failures + 1)
    BY DEF Stt!DecodeFails, Stt!clientVars
  <2>2. Head(due) = due[1] /\ 1 \in 1..Len(due)
    BY <2>1, HeadIs
  <2>3. s_failures' \in 0..MaxFailures
    BY <2>1, SttConstants DEF SttInv, TickOK
  <2> QED
    BY <2>1, <2>2, <2>3, DueIs
<1> HIDE DEF i
<1>2. sess' = [j \in 1..MaxSid |-> IF j \in {i} THEN Stt!Close(sess[j]) ELSE sess[j]]
  BY <1>1, SttConstants DEF Stt!Closed
<1>3. /\ sess'[i] = Stt!Close(sess[i])
      /\ \A j \in 1..MaxSid : j # i => sess'[j] = sess[j]
  BY <1>1, <1>2
<1>4. /\ sess'[i] \in Sessions /\ sess'[i].closed
      /\ Grown(sess[i], sess'[i], s_sent[sess[i].owner], s_sent[sess[i].owner])
      /\ sess'[i].owed = sess[i].owed /\ sess'[i].finalize = sess[i].finalize
  <2>1. sess[i] \in Sessions /\ s_sent[sess[i].owner] \in Nat
    BY <1>1, SttNumbers
  <2>2. Stt!Close(sess[i]).owed = sess[i].owed /\ Stt!Close(sess[i]).finalize = sess[i].finalize
    BY <2>1 DEF Stt!Close, Sessions
  <2> QED
    BY <1>3, <2>1, <2>2, GrownClosed
<1>5. Ticked
  <2>1. \A j \in 1..MaxSid : sess'[j] \in Sessions /\ Kept(sess[j], sess'[j])
    BY <1>3, <1>4, SttNumbers DEF Kept, Grown
  <2>2. sess' \in [1..MaxSid -> Sessions]
    BY <1>2, <2>1
  <2>3. /\ \A n \in 1..Len(out') : InHand(out'[n].sid)
        /\ \A n \in 1..Len(due') : InHand(due'[n].sid)
    BY <1>1, HeadIs DEF InHand
  <2> QED
    BY <1>1, <1>3, <2>1, <2>2, <2>3 DEF Ticked
<1>6. /\ due' \in Seq(Chunks) /\ Due'
      /\ \A m \in 1..Len(due') : \E k \in 1..Len(due) :
           due'[m].sid = due[k].sid /\ due[k].sid # due[1].sid
  BY <1>1, <1>3, <1>5, TailKept DEF i
<1>7. TickOK'
  BY <1>1, <1>6 DEF SttInv, TickOK
<1>8. Holds'
  <2> SUFFICES ASSUME NEW j \in 1..s_seq
               PROVE  /\ Sound(sess'[j], s_sent[sess'[j].owner])
                      /\ ~sess'[j].closed /\ j \notin hurt => Lost(sess'[j]) = {}
    BY <1>1, NotFlying DEF Holds
  <2>1. /\ Sound(sess[j], s_sent[sess[j].owner])
        /\ ~sess[j].closed /\ j \notin hurt => Lost(sess[j]) = {}
    BY <1>1, NotFlying DEF SttInv, Holds
  <2> QED
    BY <1>3, <1>4, <2>1, SttNumbers DEF Grown
<1>9. Finals'
  BY <1>1, <1>5, <1>6, FinalsKept
<1> QED
  BY <1>5, <1>6, <1>7, <1>8, <1>9, TickedStep DEF SttInv

\* What a decode leaves of its session.
LEMMA DecodedIs ==
  ASSUME NEW s \in Sessions, NEW top, Sound(s, top), ~s.finalized, NEW last \in BOOLEAN,
         NEW n \in Stt!Commits(s, last)
  PROVE  LET t == [s EXCEPT !.said = n, !.finalized = last] IN
         /\ t \in Sessions /\ Sound(t, top) /\ Kept(s, t) /\ t.closed = s.closed
         /\ t.heard = s.heard /\ Lost(t) = Lost(s)
         /\ last => t.said = Len(t.heard) /\ t.finalized
<1> DEFINE t == [s EXCEPT !.said = n, !.finalized = last]
<1>1. s.heard \in Seq(Nat) /\ Len(s.heard) \in Nat /\ s.said \in Nat /\ s.said <= Len(s.heard)
  BY LenProperties DEF Sessions, Sound
<1>2. n \in Nat /\ n <= Len(s.heard) /\ (last => n = Len(s.heard))
  BY <1>1 DEF Stt!Commits
<1>3. /\ t \in Sessions /\ t.said = n /\ t.finalized = last /\ t.heard = s.heard
      /\ t.pending = s.pending /\ t.owed = s.owed /\ t.speech = s.speech
      /\ t.owner = s.owner /\ t.finalize = s.finalize /\ t.closed = s.closed
  BY <1>2 DEF Sessions
<1> HIDE DEF t
<1>4. Sound(t, top) /\ Lost(t) = Lost(s)
  BY <1>2, <1>3 DEF Sound, Lost
<1> QED
  BY <1>2, <1>3, <1>4 DEF Kept, t

\* The deltas and one more of a session that has none.
LEMMA FinalsGrown ==
  ASSUME SttInv, Ticked, NEW d \in Spoken, out' = Append(out, d), d.sid \in 1..s_seq,
         \A n \in 1..Len(out) : out[n].sid # d.sid,
         d.final => WholeThen(d.sid, d.text) /\ sess'[d.sid].finalized,
         \A m \in 1..Len(due') : due'[m].sid # d.sid,
         \A m \in 1..Len(due') : \E k \in 1..Len(due) : due'[m].sid = due[k].sid
  PROVE  Finals' /\ out' \in Seq(Spoken)
<1>1. out \in Seq(Spoken) /\ Len(out) \in Nat
  BY LenProperties DEF SttInv, TickOK
<1>2. /\ out' \in Seq(Spoken) /\ Len(out') = Len(out) + 1
      /\ \A n \in 1..Len(out) : out'[n] = out[n]
      /\ out'[Len(out) + 1] = d
  BY <1>1, AppendProperties
<1>3. s_seq' = s_seq /\ \A i \in 1..MaxSid : Kept(sess[i], sess'[i])
  BY DEF Ticked
<1>4. ASSUME NEW n \in 1..Len(out)
      PROVE  /\ out[n].sid <= s_seq
             /\ out[n].final => WholeThen(out[n].sid, out[n].text) /\ sess'[out[n].sid].finalized
             /\ \A m \in 1..Len(out) : out[m].sid = out[n].sid => m = n
             /\ \A m \in 1..Len(due') : due'[m].sid # out[n].sid
  <2>1. out[n].sid \in 1..MaxSid
    BY OutIs
  <2>2. /\ out[n].sid <= s_seq
        /\ out[n].final => Whole(out[n].sid, out[n].text) /\ sess[out[n].sid].finalized
        /\ \A m \in 1..Len(out) : out[m].sid = out[n].sid => m = n
        /\ \A m \in 1..Len(due) : due[m].sid # out[n].sid
    BY DEF SttInv, Finals
  <2>3. out[n].final => WholeThen(out[n].sid, out[n].text)
    BY <2>1, <2>2, WholeKept
  <2>4. Kept(sess[out[n].sid], sess'[out[n].sid])
    BY <1>3, <2>1
  <2> QED
    BY <2>2, <2>3, <2>4 DEF Kept
<1>5. ASSUME NEW n \in 1..Len(out')
      PROVE  /\ out'[n].sid <= s_seq'
             /\ out'[n].final => WholeThen(out'[n].sid, out'[n].text)
                                 /\ sess'[out'[n].sid].finalized
             /\ \A m \in 1..Len(out') : out'[m].sid = out'[n].sid => m = n
             /\ \A m \in 1..Len(due') : due'[m].sid # out'[n].sid
  <2>1. d.sid <= s_seq
    BY SttNumbers
  <2>2. n \in 1..Len(out) \/ n = Len(out) + 1
    BY <1>1, <1>2
  <2>3. \A m \in 1..Len(out') : m \in 1..Len(out) \/ m = Len(out) + 1
    BY <1>1, <1>2
  <2>4. CASE n \in 1..Len(out)
    BY <1>2, <1>3, <1>4, <2>3, <2>4
  <2>5. CASE n = Len(out) + 1
    BY <1>2, <1>3, <2>1, <2>3, <2>5
  <2> QED
    BY <2>2, <2>4, <2>5
<1> QED
  BY <1>2, <1>5 DEF Finals, Whole, WholeThen

\* The decode of a last chunk says all that its session is owed.
LEMMA DecodeStep ==
  ASSUME SttInv, Stt!Decode
  PROVE  SttInv'
<1> DEFINE i == due[1].sid
           s == sess[i]
           last == due[1].last
           now(n) == [s EXCEPT !.said = n, !.finalized = last]
<1>1. /\ step = "decode" /\ due # <<>> /\ due' = Tail(due) /\ Head(due) = due[1]
      /\ UNCHANGED <<s_seq, live, up, s_phase, s_turn, turns, cur, s_sent, outbox,
                     committed, step, hurt, s_failures>>
  BY HeadIs DEF Stt!Decode, Stt!clientVars
<1>2. PICK n \in Stt!Commits(s, last) :
        /\ sess' = [sess EXCEPT ![i] = now(n)]
        /\ out' = IF n = s.said /\ ~last THEN out
                  ELSE Append(out, [sid |-> i, text |-> Stt!Text(now(n)), final |-> last])
  BY <1>1 DEF Stt!Decode
<1>3. /\ 1 \in 1..Len(due) /\ i \in 1..MaxSid /\ i \in 1..s_seq /\ last \in BOOLEAN
      /\ ~s.finalized /\ ~s.closed
  BY <1>1, HeadIs, DueIs DEF Stt!Decode, Stt!Gone
<1>4. s \in Sessions /\ Sound(s, s_sent[s.owner]) /\ (i \notin hurt => Lost(s) = {})
  BY <1>1, <1>3, SttNumbers, NotFlying DEF SttInv, Holds
<1>5. last => s.finalize /\ s.pending = <<>>
  BY <1>3 DEF SttInv, Due
<1> HIDE DEF last, s
<1> DEFINE t == now(n)
<1>6. /\ t \in Sessions /\ Sound(t, s_sent[s.owner]) /\ Kept(s, t) /\ t.closed = s.closed
      /\ t.heard = s.heard /\ Lost(t) = Lost(s)
      /\ last => t.said = Len(t.heard) /\ t.finalized
  <2>1. n \in Stt!Commits(s, last)
    BY <1>2
  <2> QED
    BY <1>3, <1>4, <2>1, DecodedIs, ZenonT(40)
<1>7. sess' = [sess EXCEPT ![i] = t]
  BY <1>2
<1>8. out' = out \/ out' = Append(out, [sid |-> i, text |-> Stt!Text(t), final |-> last])
  BY <1>2
<1> HIDE DEF now, i
<1>9. /\ sess'[i] = t /\ \A j \in 1..MaxSid : j # i => sess'[j] = sess[j]
      /\ sess' \in [1..MaxSid -> Sessions]
  BY <1>3, <1>6, <1>7, SttNumbers
<1>10. /\ Stt!Text(t) \in Seq(Nat) /\ Ascend(Stt!Text(t))
       /\ Of(Stt!Text(t)) \subseteq {0} \cup t.owed
       /\ t.said = Len(t.heard) => Of(Stt!Text(t)) = Of(t.heard)
  BY <1>6, TextIs
<1>11. ASSUME NEW d, d = [sid |-> i, text |-> Stt!Text(t), final |-> last]
       PROVE  d \in Spoken /\ d.sid = i /\ d.final = last /\ d.text = Stt!Text(t)
  BY <1>3, <1>10, <1>11 DEF Spoken
<1>12. \A j \in 1..MaxSid : Kept(sess[j], sess'[j]) /\ sess'[j].closed = sess[j].closed
  BY <1>6, <1>9 DEF Kept, s
<1>13. /\ \A m \in 1..Len(due) : due[m].sid = i => m = 1
       /\ \A m \in 1..Len(out) : out[m].sid # i
  BY <1>3, DueIs DEF SttInv, Finals, i
<1>14. Ticked
  <2>1. InHand(i)
    BY <1>3 DEF InHand, s
  <2>2. \A m \in 1..Len(due') : InHand(due'[m].sid)
    BY <1>1, HeadIs DEF InHand
  <2>3. \A m \in 1..Len(out) : InHand(out[m].sid)
    BY DEF InHand
  <2>4. \A m \in 1..Len(out') : InHand(out'[m].sid)
    <3>1. CASE out' = out
      BY <2>3, <3>1
    <3>2. CASE out' = Append(out, [sid |-> i, text |-> Stt!Text(t), final |-> last])
      <4> DEFINE d == [sid |-> i, text |-> Stt!Text(t), final |-> last]
      <4>1. d \in Spoken /\ d.sid = i
        BY <1>11
      <4> HIDE DEF d
      <4>2. out \in Seq(Spoken) /\ out' = Append(out, d)
        BY <3>2 DEF SttInv, TickOK, d
      <4>3. /\ Len(out') = Len(out) + 1 /\ Len(out) \in Nat /\ out'[Len(out) + 1] = d
            /\ \A m \in 1..Len(out) : out'[m] = out[m]
        BY <4>1, <4>2, AppendProperties, LenProperties
      <4>4. \A m \in 1..Len(out') : m \in 1..Len(out) \/ m = Len(out) + 1
        BY <4>3
      <4> QED
        BY <2>1, <2>3, <4>1, <4>3, <4>4
    <3> QED
      BY <1>8, <3>1, <3>2
  <2> QED
    BY <1>1, <1>9, <1>12, <2>2, <2>4 DEF Ticked
<1>15. /\ due' \in Seq(Chunks) /\ Due'
       /\ \A m \in 1..Len(due') : \E k \in 1..Len(due) :
            due'[m].sid = due[k].sid /\ due[k].sid # i
  BY <1>1, <1>9, <1>14, TailKept DEF i
<1>16. Holds'
  <2> SUFFICES ASSUME NEW j \in 1..s_seq
               PROVE  /\ Sound(sess'[j], s_sent[sess'[j].owner])
                      /\ ~sess'[j].closed /\ j \notin hurt => Lost(sess'[j]) = {}
    BY <1>1, NotFlying DEF Holds
  <2>1. /\ Sound(sess[j], s_sent[sess[j].owner])
        /\ ~sess[j].closed /\ j \notin hurt => Lost(sess[j]) = {}
    BY <1>1, NotFlying DEF SttInv, Holds
  <2> QED
    BY <1>4, <1>6, <1>9, <2>1, SttNumbers DEF Kept
<1>17. Finals' /\ out' \in Seq(Spoken)
  <2>1. CASE out' = out
    BY <1>14, <1>15, <2>1, FinalsKept DEF SttInv, TickOK
  <2>2. CASE out' = Append(out, [sid |-> i, text |-> Stt!Text(t), final |-> last])
    <3> DEFINE d == [sid |-> i, text |-> Stt!Text(t), final |-> last]
    <3>1. d \in Spoken /\ d.sid = i /\ d.final = last /\ d.text = Stt!Text(t)
      BY <1>11
    <3> HIDE DEF d
    <3>2. out' = Append(out, d)
      BY <2>2 DEF d
    <3>3. ASSUME d.final PROVE WholeThen(d.sid, d.text) /\ sess'[d.sid].finalized
      <4>1. t.finalized /\ t.said = Len(t.heard) /\ s.finalize /\ s.pending = <<>>
        BY <1>5, <1>6, <3>1, <3>3
      <4>2. i <= s_seq' /\ sess'[i].finalize /\ sess'[i].finalized /\ sess'[i].owed = s.owed
        <5>1. i <= s_seq' /\ sess'[i] = t
          BY <1>1, <1>3, <1>9, SttNumbers
        <5>2. t.finalize /\ t.owed = s.owed
          BY <1>6, <4>1 DEF Kept
        <5> QED
          BY <4>1, <5>1, <5>2
      <4>3. Of(d.text) \subseteq {0} \cup s.owed /\ Ascend(d.text)
        BY <1>6, <1>10, <3>1 DEF Kept
      <4>4. i \notin hurt => s.owed \subseteq Of(d.text)
        BY <1>4, <1>6, <1>10, <3>1, <4>1, NoUnits DEF Lost
      <4> QED
        BY <1>1, <3>1, <4>2, <4>3, <4>4 DEF WholeThen
    <3>4. \A m \in 1..Len(due') : due'[m].sid # i
      BY <1>15
    <3> QED
      BY <1>3, <1>13, <1>14, <1>15, <3>1, <3>2, <3>3, <3>4, FinalsGrown
  <2> QED
    BY <1>8, <2>1, <2>2
<1>18. TickOK'
  BY <1>1, <1>15, <1>17 DEF SttInv, TickOK
<1> QED
  BY <1>14, <1>15, <1>16, <1>17, <1>18, TickedStep DEF SttInv

---------------------------------------------------------------------------
(* SttStream: the deltas go to their streams, and the process is replaced. *)

\* What a stream is given is the tick's, of the sessions it has, each once.
LEMMA SinkIs ==
  ASSUME SttInv, NEW c
  PROVE  LET given == Stt!Sink(c) IN
         /\ given \in Seq(Spoken) /\ Len(given) \in Nat
         /\ \A k \in 1..Len(given) :
              \E n \in 1..Len(out) : given[k] = out[n] /\ out[n].sid \in turns[c]
         /\ \A k, m \in 1..Len(given) : given[k].sid = given[m].sid => k = m
<1> DEFINE places == {n \in DOMAIN out : out[n].sid \in turns[c]}
           mine == Stt!InOrder(places)
           given == [k \in DOMAIN mine |-> out[mine[k]]]
<1>1. Stt!Sink(c) = given
  BY DEF Stt!Sink
<1>2. /\ out \in Seq(Spoken) /\ DOMAIN out = 1..Len(out) /\ Len(out) \in Nat
      /\ \A n \in 1..Len(out) : out[n] \in Spoken
  BY LenProperties, ElementOfSeq DEF SttInv, TickOK
<1>3. places \in SUBSET Nat /\ IsFiniteSet(places)
      /\ \A n \in places : n \in 1..Len(out) /\ out[n].sid \in turns[c]
  <2>1. places \subseteq 1..Len(out) /\ \A n \in places : out[n].sid \in turns[c]
    BY <1>2
  <2> HIDE DEF places
  <2>2. IsFiniteSet(1..Len(out))
    BY <1>2, FS_Interval
  <2>3. IsFiniteSet(places)
    BY <2>1, <2>2, FS_Subset
  <2> QED
    BY <1>2, <2>1, <2>3
<1> HIDE DEF places
<1>4. /\ mine \in Seq(places)
      /\ \A k, m \in 1..Len(mine) : mine[k] = mine[m] => k = m
  BY <1>3, InOrderAre
<1> HIDE DEF mine
<1>5. /\ DOMAIN mine = 1..Len(mine) /\ Len(mine) \in Nat
      /\ \A k \in 1..Len(mine) : mine[k] \in places
  BY <1>4, LenProperties, ElementOfSeq
<1>6. \A k \in 1..Len(mine) :
        given[k] = out[mine[k]] /\ mine[k] \in 1..Len(out) /\ out[mine[k]].sid \in turns[c]
  BY <1>3, <1>5
<1>7. given \in [1..Len(mine) -> Spoken]
  BY <1>2, <1>5, <1>6
<1> HIDE DEF given
<1>8. given \in Seq(Spoken) /\ Len(given) = Len(mine)
  BY <1>5, <1>7
<1>9. ASSUME NEW k \in 1..Len(mine), NEW m \in 1..Len(mine), given[k].sid = given[m].sid
      PROVE  k = m
  <2>1. mine[k] = mine[m]
    BY <1>6, <1>9 DEF SttInv, Finals
  <2> QED
    BY <1>4, <2>1
<1> QED
  BY <1>1, <1>5, <1>6, <1>8, <1>9

\* What is in an outbox once the deltas are routed.
LEMMA RoutedIs ==
  ASSUME SttInv, NEW c \in SttClients, outbox'[c] = outbox[c] \o Stt!Sink(c)
  PROVE  /\ outbox'[c] \in Seq(Spoken)
         /\ Len(outbox'[c]) = Len(outbox[c]) + Len(Stt!Sink(c))
         /\ Len(outbox[c]) \in Nat /\ Len(Stt!Sink(c)) \in Nat
         /\ \A n \in 1..Len(outbox'[c]) :
              \/ n \in 1..Len(outbox[c]) /\ outbox'[c][n] = outbox[c][n]
              \/ /\ n - Len(outbox[c]) \in 1..Len(Stt!Sink(c))
                 /\ outbox'[c][n] = Stt!Sink(c)[n - Len(outbox[c])]
<1> DEFINE box == outbox[c]
           given == Stt!Sink(c)
<1>1. box \in Seq(Spoken) /\ given \in Seq(Spoken) /\ outbox'[c] = box \o given
  BY SinkIs DEF SttInv, HandlersOK
<1> HIDE DEF box, given
<1>2. /\ Len(box) \in Nat /\ Len(given) \in Nat /\ box \o given \in Seq(Spoken)
      /\ Len(box \o given) = Len(box) + Len(given)
      /\ \A n \in 1..(Len(box) + Len(given)) :
           (box \o given)[n] = IF n <= Len(box) THEN box[n] ELSE given[n - Len(box)]
  BY <1>1, LenProperties, ConcatProperties
<1>3. ASSUME NEW n \in 1..(Len(box) + Len(given))
      PROVE  \/ n \in 1..Len(box) /\ (box \o given)[n] = box[n]
             \/ n - Len(box) \in 1..Len(given) /\ (box \o given)[n] = given[n - Len(box)]
  BY <1>2
<1> QED
  BY <1>1, <1>2, <1>3 DEF box, given

\* A final reaches its stream as it was decided, and an upload has nothing after it.
LEMMA RouteStep ==
  ASSUME SttInv, Stt!Route
  PROVE  SttInv'
<1>1. /\ step = "route" /\ step' = "poll" /\ out' = <<>> /\ due' = due /\ due = <<>>
      /\ DOMAIN outbox' = SttClients /\ outbox' = [c \in SttClients |-> outbox'[c]]
      /\ \A c \in SttClients : outbox'[c] = outbox[c] \o Stt!Sink(c)
      /\ UNCHANGED <<s_seq, sess, live, up, s_phase, s_turn, turns, cur, s_sent,
                     committed, hurt, s_failures>>
  BY SttConstants DEF Stt!Route, Stt!engineVars, SttInv, Due
<1>2. Len(<<>>) = 0
  BY EmptySeq
<1>3. \A c \in SttClients :
         /\ outbox'[c] \in Seq(Spoken)
         /\ Len(outbox'[c]) = Len(outbox[c]) + Len(Stt!Sink(c))
         /\ Len(outbox[c]) \in Nat /\ Len(Stt!Sink(c)) \in Nat
         /\ \A n \in 1..Len(outbox'[c]) :
              \/ n \in 1..Len(outbox[c]) /\ outbox'[c][n] = outbox[c][n]
              \/ /\ n - Len(outbox[c]) \in 1..Len(Stt!Sink(c))
                 /\ outbox'[c][n] = Stt!Sink(c)[n - Len(outbox[c])]
  BY <1>1, RoutedIs
<1>4. \A c : /\ \A k \in 1..Len(Stt!Sink(c)) :
                  \E n \in 1..Len(out) : Stt!Sink(c)[k] = out[n] /\ out[n].sid \in turns[c]
             /\ \A k, m \in 1..Len(Stt!Sink(c)) :
                  Stt!Sink(c)[k].sid = Stt!Sink(c)[m].sid => k = m
  BY SinkIs
<1>5. EngineOK' /\ Current'
  BY <1>1 DEF SttInv, EngineOK, Current
<1>6. HandlersOK'
  <2>1. outbox' \in [SttClients -> Seq(Spoken)]
    BY <1>1, <1>3
  <2> QED
    BY <1>1, <2>1 DEF SttInv, HandlersOK
<1>7. TickOK'
  BY <1>1, EmptySeq DEF SttInv, TickOK
<1>8. Owned'
  <2>1. ASSUME NEW c \in SttClients, s_phase[c] \in {"new", "accepted", "gone"}
        PROVE  turns[c] = {} /\ outbox'[c] = <<>>
    <3>1. turns[c] = {} /\ outbox[c] = <<>>
      BY <2>1 DEF SttInv, Owned
    <3>2. Len(Stt!Sink(c)) = 0
      BY <1>3, <1>4, <3>1
    <3>3. Len(outbox'[c]) = 0 /\ outbox'[c] \in Seq(Spoken)
      BY <1>2, <1>3, <3>1, <3>2
    <3> QED
      BY <3>1, <3>3, EmptySeq
  <2> QED
    BY <1>1, <2>1 DEF SttInv, Owned
<1>9. Holds'
  BY <1>1, NotFlying DEF SttInv, Holds
<1>10. Due' /\ Finals'
  BY <1>1, <1>2 DEF Due, Finals
<1>11. Delivered'
  <2>1. ASSUME NEW c \in SttClients, NEW n \in 1..Len(outbox'[c]), outbox'[c][n].final
        PROVE  Whole(outbox'[c][n].sid, outbox'[c][n].text)
    <3>1. CASE n \in 1..Len(outbox[c]) /\ outbox'[c][n] = outbox[c][n]
      BY <2>1, <3>1 DEF SttInv, Delivered
    <3>2. CASE \E m \in 1..Len(out) : outbox'[c][n] = out[m]
      BY <2>1, <3>2 DEF SttInv, Finals
    <3>3. CASE /\ n - Len(outbox[c]) \in 1..Len(Stt!Sink(c))
               /\ outbox'[c][n] = Stt!Sink(c)[n - Len(outbox[c])]
      <4>1. \E m \in 1..Len(out) : outbox'[c][n] = out[m]
        BY <1>4, <3>3
      <4> QED
        BY <3>2, <4>1
    <3> QED
      BY <1>3, <3>1, <3>3
  <2>2. \A c \in SttClients : \A n \in 1..Len(committed[c]) :
          Whole(committed[c][n].sid, committed[c][n].text)
    BY DEF SttInv, Delivered
  <2>3. \A i, text : Whole(i, text) => WholeThen(i, text)
    BY <1>1 DEF Whole, WholeThen
  <2> QED
    BY <1>1, <2>1, <2>2, <2>3 DEF Delivered, Whole, WholeThen
<1>12. Uploads'
  <2> SUFFICES ASSUME NEW c \in SttClients, s_phase[c] = "waiting"
               PROVE  /\ turns[c] = {cur[c]}
                      /\ \A n \in 1..Len(outbox'[c]) : outbox'[c][n].final =>
                           n = Len(outbox'[c]) /\ sess[cur[c]].finalized
    BY <1>1, <1>2 DEF Uploads
  <2>1. /\ turns[c] = {cur[c]}
        /\ \A n \in 1..Len(outbox[c]) : outbox[c][n].final =>
             /\ n = Len(outbox[c]) /\ sess[cur[c]].finalized
             /\ \A m \in 1..Len(out) : out[m].sid # cur[c]
    BY DEF SttInv, Uploads
  <2>2. \A k \in 1..Len(Stt!Sink(c)) : k = 1
    <3>1. \A k \in 1..Len(Stt!Sink(c)) : Stt!Sink(c)[k].sid = cur[c] /\ 1 \in 1..Len(Stt!Sink(c))
      BY <1>3, <1>4, <2>1
    <3> QED
      BY <1>4, <3>1
  <2>3. Len(Stt!Sink(c)) <= 1
    <3>1. Len(Stt!Sink(c)) # 0 => Len(Stt!Sink(c)) \in 1..Len(Stt!Sink(c))
      BY <1>3
    <3> QED
      BY <1>3, <2>2, <3>1
  <2> SUFFICES ASSUME NEW n \in 1..Len(outbox'[c]), outbox'[c][n].final
               PROVE  n = Len(outbox'[c]) /\ sess[cur[c]].finalized
    BY <2>1
  <2>4. CASE n \in 1..Len(outbox[c]) /\ outbox'[c][n] = outbox[c][n]
    <3>1. n = Len(outbox[c]) /\ sess[cur[c]].finalized
          /\ \A m \in 1..Len(out) : out[m].sid # cur[c]
      BY <2>1, <2>4
    <3>2. Len(Stt!Sink(c)) = 0
      <4>1. ASSUME NEW k \in 1..Len(Stt!Sink(c)) PROVE FALSE
        BY <1>4, <2>1, <3>1
      <4> QED
        BY <1>3, <4>1
    <3> QED
      BY <1>3, <3>1, <3>2
  <2>5. CASE /\ n - Len(outbox[c]) \in 1..Len(Stt!Sink(c))
             /\ outbox'[c][n] = Stt!Sink(c)[n - Len(outbox[c])]
    <3>1. /\ Len(outbox'[c]) = Len(outbox[c]) + Len(Stt!Sink(c))
          /\ Len(outbox[c]) \in Nat /\ Len(Stt!Sink(c)) \in Nat
      BY <1>3
    <3>2. n = Len(outbox'[c])
      <4>1. n - Len(outbox[c]) = 1
        BY <2>2, <2>5
      <4>2. Len(Stt!Sink(c)) = 1
        <5>1. 1 \in 1..Len(Stt!Sink(c))
          BY <2>5, <4>1
        <5>2. \A l \in Nat : l <= 1 /\ 1 \in 1..l => l = 1
          OBVIOUS
        <5> QED
          BY <2>3, <3>1, <5>1, <5>2
      <4>3. n \in Nat
        BY <3>1
      <4> QED
        BY <3>1, <4>1, <4>2, <4>3
    <3>3. PICK m \in 1..Len(out) : outbox'[c][n] = out[m] /\ out[m].sid \in turns[c]
      BY <1>4, <2>5
    <3>4. out[m].sid = cur[c] /\ sess[out[m].sid].finalized
      BY <2>1, <3>3 DEF SttInv, Finals
    <3> QED
      BY <3>2, <3>4
  <2> QED
    BY <1>3, <2>4, <2>5
<1> QED
  BY <1>5, <1>6, <1>7, <1>8, <1>9, <1>10, <1>11, <1>12 DEF SttInv

\* The process is replaced: no session, no stream, nothing on its way.
LEMMA CudaStep ==
  ASSUME SttInv, Stt!CudaFails
  PROVE  SttInv'
<1>1. /\ step = "decode" /\ step' = "poll" /\ due' = <<>> /\ out' = <<>>
      /\ s_failures < MaxFailures /\ s_failures' = s_failures + 1
      /\ up' = FALSE /\ live' = {} /\ sess' = Stt!Closed(sess, live)
      /\ s_phase' = [c \in SttClients |-> IF s_phase[c] = "new" THEN "new" ELSE "gone"]
      /\ turns' = [c \in SttClients |-> {}] /\ outbox' = [c \in SttClients |-> <<>>]
      /\ UNCHANGED <<s_seq, s_turn, cur, s_sent, committed, hurt>>
  BY SttConstants DEF Stt!CudaFails
<1>2. Len(<<>>) = 0
  BY EmptySeq
<1>3. sess' = [i \in 1..MaxSid |-> IF i \in live THEN Stt!Close(sess[i]) ELSE sess[i]]
  BY <1>1, SttConstants DEF Stt!Closed
<1>4. ASSUME NEW i \in 1..MaxSid
      PROVE  /\ sess'[i] \in Sessions
             /\ sess'[i].closed \/ sess'[i] = sess[i]
             /\ Grown(sess[i], sess'[i], s_sent[sess[i].owner], s_sent[sess[i].owner])
             /\ sess'[i].owed = sess[i].owed /\ sess'[i].finalize = sess[i].finalize
  <2>1. sess[i] \in Sessions /\ s_sent[sess[i].owner] \in Nat
    BY SttNumbers
  <2>2. CASE i \in live
    <3>1. sess'[i] = Stt!Close(sess[i])
      BY <1>3, <2>2
    <3>2. Stt!Close(sess[i]).owed = sess[i].owed /\ Stt!Close(sess[i]).finalize = sess[i].finalize
      BY <2>1 DEF Stt!Close, Sessions
    <3> QED
      BY <2>1, <3>1, <3>2, GrownClosed
  <2>3. CASE i \notin live
    <3>1. sess'[i] = sess[i]
      BY <1>3, <2>3
    <3>2. s_sent[sess[i].owner] <= s_sent[sess[i].owner]
      BY <2>1
    <3> QED
      BY <2>1, <3>1, <3>2, GrownSame
  <2> QED
    BY <2>2, <2>3
<1>5. sess' \in [1..MaxSid -> Sessions]
  <2>1. DOMAIN sess' = 1..MaxSid /\ sess' = [i \in 1..MaxSid |-> sess'[i]]
    BY <1>3
  <2> QED
    BY <1>4, <2>1
<1>6. EngineOK'
  BY <1>1, <1>5 DEF SttInv, EngineOK
<1>7. HandlersOK'
  BY <1>1, EmptySeq DEF SttInv, HandlersOK
<1>8. TickOK'
  <2>1. s_failures' \in 0..MaxFailures
    BY <1>1, SttConstants DEF SttInv, TickOK
  <2> QED
    BY <1>1, <2>1, EmptySeq DEF SttInv, TickOK
<1>9. Owned'
  <2>1. Cardinality({}) <= MaxSessions
    BY FS_EmptySet, SttConstants
  <2> QED
    BY <1>1, <2>1 DEF Owned
<1>10. Current'
  BY <1>1 DEF SttInv, Current
<1>11. Holds'
  <2> SUFFICES ASSUME NEW i \in 1..s_seq
               PROVE  /\ Sound(sess'[i], s_sent[sess'[i].owner])
                      /\ ~sess'[i].closed /\ i \notin hurt => Lost(sess'[i]) = {}
    BY <1>1, NotFlying DEF Holds
  <2>1. /\ Sound(sess[i], s_sent[sess[i].owner])
        /\ ~sess[i].closed /\ i \notin hurt => Lost(sess[i]) = {}
    BY <1>1, NotFlying DEF SttInv, Holds
  <2> QED
    BY <1>4, <2>1, SttNumbers DEF Grown
<1>12. Due' /\ Finals' /\ Uploads'
  BY <1>1, <1>2 DEF Due, Finals, Uploads
<1>13. Delivered'
  <2>1. ASSUME NEW c \in SttClients, NEW n \in 1..Len(committed[c])
        PROVE  WholeThen(committed[c][n].sid, committed[c][n].text)
    <3>1. committed[c][n] \in Finished
      BY ElementOfSeq DEF SttInv, HandlersOK
    <3>2. Whole(committed[c][n].sid, committed[c][n].text)
          /\ committed[c][n].sid \in 1..MaxSid
      BY <3>1 DEF SttInv, Delivered, Finished
    <3> QED
      BY <1>1, <1>4, <3>2 DEF Whole, WholeThen
  <2>2. ASSUME NEW c \in SttClients, NEW n \in 1..Len(committed'[c])
        PROVE  WholeThen(committed'[c][n].sid, committed'[c][n].text)
    BY <1>1, <2>1
  <2>3. ASSUME NEW c \in SttClients, NEW n \in 1..Len(outbox'[c]), outbox'[c][n].final
        PROVE  WholeThen(outbox'[c][n].sid, outbox'[c][n].text)
    BY <1>1, <1>2
  <2> QED
    BY <2>2, <2>3 DEF Delivered, Whole, WholeThen
<1> QED
  BY <1>6, <1>7, <1>8, <1>9, <1>10, <1>11, <1>12, <1>13 DEF SttInv

\* The model is loaded again.
LEMMA LoadStep ==
  ASSUME SttInv, Stt!Load
  PROVE  SttInv'
<1>1. /\ up' = TRUE
      /\ UNCHANGED <<s_seq, sess, live, s_phase, s_turn, turns, cur, s_sent, outbox,
                     committed, step, due, out, hurt, s_failures>>
  BY DEF Stt!Load, Stt!clientVars, Stt!tickVars
<1>2. EngineOK' /\ HandlersOK' /\ TickOK' /\ Owned' /\ Current' /\ Due' /\ Uploads'
  BY <1>1 DEF SttInv, EngineOK, HandlersOK, TickOK, Owned, Current, Due, Uploads
<1>3. Holds'
  BY <1>1 DEF SttInv, Holds, Flying
<1>4. Finals' /\ Delivered'
  BY <1>1 DEF SttInv, Finals, Delivered, Whole
<1> QED
  BY <1>2, <1>3, <1>4 DEF SttInv

---------------------------------------------------------------------------
(* SttStream: every state.                                                 *)

LEMMA SttInit == Stt!Init => SttInv
<1> SUFFICES ASSUME Stt!Init PROVE SttInv
  OBVIOUS
<1>1. /\ s_seq = 0 /\ sess = [i \in 1..MaxSid |-> Stt!Unused] /\ live = {} /\ up = TRUE
      /\ s_phase = [c \in SttClients |-> "new"] /\ s_turn = [c \in SttClients |-> 0]
      /\ turns = [c \in SttClients |-> {}] /\ cur = [c \in SttClients |-> 0]
      /\ s_sent = [c \in SttClients |-> 0] /\ outbox = [c \in SttClients |-> <<>>]
      /\ committed = [c \in SttClients |-> <<>>]
      /\ step = "poll" /\ due = <<>> /\ out = <<>> /\ hurt = {} /\ s_failures = 0
  BY SttConstants DEF Stt!Init
<1>2. Len(<<>>) = 0 /\ 1..0 = {}
  BY EmptySeq
<1>3. EngineOK
  BY <1>1, SttConstants, UnusedSession DEF EngineOK
<1>4. HandlersOK
  BY <1>1, SttConstants, EmptySeq DEF HandlersOK
<1>5. TickOK
  BY <1>1, SttConstants, EmptySeq DEF TickOK
<1>6. Owned
  <2>1. Cardinality({}) <= MaxSessions
    BY FS_EmptySet, SttConstants
  <2> QED
    BY <1>1, <2>1 DEF Owned
<1>7. Current /\ Uploads
  BY <1>1 DEF Current, Uploads
<1>8. Holds
  BY <1>1, <1>2 DEF Holds
<1>9. Due /\ Finals /\ Delivered
  BY <1>1, <1>2 DEF Due, Finals, Delivered
<1> QED
  BY <1>3, <1>4, <1>5, <1>6, <1>7, <1>8, <1>9 DEF SttInv

\* Every action of a client, of the loop and of the GPU thread.
LEMMA SttStep ==
  ASSUME SttInv, Stt!Next
  PROVE  SttInv'
<1>1. ASSUME NEW c \in SttClients, Stt!Client(c) PROVE SttInv'
  <2>1. CASE Stt!FirstTurn(c) \/ Stt!Handshake(c) \/ Stt!HandshakeFails(c)
    BY <2>1, HandshakeSteps
  <2>2. CASE Stt!Receive(c)
    BY <2>2, ReceiveStep
  <2>3. CASE Stt!ReceiveRaises(c) \/ Stt!CloseStream(c) \/ Stt!Hangup(c)
             \/ Stt!UploadTimesOut(c)
    BY <2>3, EndingSteps
  <2>4. CASE Stt!Commit(c) \/ Stt!Language(c) \/ Stt!Stop(c)
    BY <2>4, TurnSteps
  <2>5. CASE Stt!Upload(c)
    BY <2>5, UploadStep
  <2>6. CASE Stt!UploadAnswered(c)
    BY <2>6, AnsweredStep
  <2> QED
    BY <1>1, <2>1, <2>2, <2>3, <2>4, <2>5, <2>6 DEF Stt!Client
<1>2. ASSUME NEW c \in SttClients, Stt!PumpOut(c) PROVE SttInv'
  BY <1>2, PumpStep
<1>3. ASSUME NEW c \in Streams, Stt!Admit(c) PROVE SttInv'
  <2>1. c \in SttClients
    BY DEF SttClients
  <2> QED
    BY <1>3, <2>1, HandshakeSteps
<1>4. ASSUME Stt!Tick PROVE SttInv'
  BY <1>4, TakeStep, PushStep, ForwardSteps, AbortStep, DecodeStep, DecodeFailsStep,
     RouteStep DEF Stt!Tick
<1> QED
  BY <1>1, <1>2, <1>3, <1>4, CudaStep, LoadStep, SttConstants DEF Stt!Next

SttPart == part = "stt" => SttInv

\* In every state of the server the part has its invariant.
LEMMA SttInvariance == Spec => []SttPart
<1>1. Init => SttPart
  BY SttInit DEF Init, SttPart
<1>2. SttPart /\ [Next]_vars => SttPart'
  <2> SUFFICES ASSUME SttPart, [Next]_vars, part' = "stt" PROVE SttInv'
    BY DEF SttPart
  <2>1. part = "stt" /\ SttInv
    BY DEF Next, vars, SttPart
  <2>2. CASE UNCHANGED sttVars
    <3>1. UNCHANGED <<s_seq, sess, live, up, s_phase, s_turn, turns, cur, s_sent, outbox,
                      committed, step, due, out, hurt, s_failures>>
      BY <2>2 DEF sttVars
    <3>2. EngineOK' /\ HandlersOK' /\ TickOK' /\ Owned' /\ Current' /\ Due' /\ Uploads'
      BY <2>1, <3>1 DEF SttInv, EngineOK, HandlersOK, TickOK, Owned, Current, Due, Uploads
    <3>3. Holds'
      BY <2>1, <3>1 DEF SttInv, Holds, Flying
    <3>4. Finals' /\ Delivered'
      BY <2>1, <3>1 DEF SttInv, Finals, Delivered, Whole
    <3> QED
      BY <3>2, <3>3, <3>4 DEF SttInv
  <2>3. CASE Next /\ ~UNCHANGED sttVars
    BY <2>1, <2>3, SttStep DEF Next
  <2> QED
    BY <2>2, <2>3 DEF vars
<1> QED
  BY <1>1, <1>2, PTL DEF Spec

\* Every session of the engine is in the dict of a handler that has not ended and will
\* close it, and there are never more than the engine allows: for any streams, uploads,
\* batches and failures.
THEOREM SessionsStayOwned == Spec => []SessionsAreOwned
<1>1. SttPart => SessionsAreOwned
  <2> SUFFICES ASSUME SttInv PROVE Stt!SessionsAreOwned
    BY DEF SttPart, SessionsAreOwned
  <2>1. Stt!Cardinality(live) <= MaxSessions
    BY SttOperators DEF SttInv, Owned
  <2>2. ASSUME NEW i \in live
        PROVE  /\ i \in turns[sess[i].owner]
               /\ s_phase[sess[i].owner] \notin {"new", "accepted", "gone"}
    <3>1. i \in turns[sess[i].owner] /\ i \in 1..s_seq
      BY DEF SttInv, Owned, EngineOK
    <3>2. sess[i].owner \in SttClients
      BY <3>1, SttNumbers
    <3> QED
      BY <3>1, <3>2 DEF SttInv, Owned
  <2> QED
    BY <2>1, <2>2 DEF Stt!SessionsAreOwned
<1> QED
  BY <1>1, SttInvariance, PTL

\* A turn that is committed says every unit of speech it is owed, each once and in
\* order, whatever the tick was doing when it was asked for its final, closed or fed.
THEOREM FinalsSayAll == Spec => []FinalSaysAll
<1>1. SttPart => FinalSaysAll
  <2> SUFFICES ASSUME SttInv, NEW c \in SttClients, NEW k \in DOMAIN committed[c]
               PROVE  LET t == committed[c][k] IN
                      /\ \A i, j \in DOMAIN t.text :
                           i < j => t.text[j] = 0 \/ t.text[i] < t.text[j]
                      /\ Stt!Speech(t.text) \subseteq sess[t.sid].owed
                      /\ t.sid \notin hurt => Stt!Speech(t.text) = sess[t.sid].owed
    BY SttConstants DEF SttPart, FinalSaysAll, Stt!FinalSaysAll
  <2> DEFINE t == committed[c][k]
  <2>1. k \in 1..Len(committed[c]) /\ t \in Finished
    BY LenProperties, ElementOfSeq DEF SttInv, HandlersOK
  <2>2. t.text \in Seq(Nat) /\ t.sid \in 1..MaxSid /\ Whole(t.sid, t.text)
    BY <2>1 DEF SttInv, Delivered, Finished
  <2>3. Stt!Speech(t.text) = Of(t.text) \ {0} /\ DOMAIN t.text = 1..Len(t.text)
    BY <2>2, SttOperators, LenProperties
  <2>4. sess[t.sid].owed \subseteq Nat \ {0}
    BY <2>2, SttNumbers DEF Sessions
  <2> HIDE DEF t
  <2> QED
    BY <2>2, <2>3, <2>4 DEF Whole, Ascend, t
<1> QED
  BY <1>1, SttInvariance, PTL
==============================================================================
