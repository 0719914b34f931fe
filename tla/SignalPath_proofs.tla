--------------------------- MODULE SignalPath_proofs ---------------------------
(***************************************************************************)
(* Theorems about SignalPath for every value of its constants.             *)
(*                                                                         *)
(* Inv, the conjunction of TypeOK, HistoryIsStreak, Counted and Clock, is  *)
(* inductive.  Clock gives EachCandleOnce; the streak gives the step of    *)
(* the refinement of Confirmation.                                         *)
(***************************************************************************)
EXTENDS SignalPath, SequenceTheorems, FiniteSetTheorems, WellFoundedInduction, TLAPS

\* A signal that was heard was heard at least once.
Counted == streak = NoStreak \/ (streak.dir \in Signals /\ streak.count >= 1)

\* As long as the open times could be read: the newest candle a forecast was made of is
\* not newer than the one remembered, and a prediction goes on with a newer one only.
Clock ==
  ~blind => /\ counted <= lastInfer
            /\ pc = "read" => lastInfer < candle
            /\ pc = "infer" /\ seen # 0 => lastInfer < seen

Inv == TypeOK /\ HistoryIsStreak /\ Counted /\ Clock

-----------------------------------------------------------------------------
(* The percentile of the scores *)

\* round(p / 100 * n) is an index of n + 1 sorted scores.
LEMMA RankIsIndex ==
  ASSUME NEW n \in Nat
  PROVE  Rank(n) \in 0 .. n
<1> DEFINE m == Percent * n
           down == m \div 100
           rest == m % 100
<1>1. m \in Nat /\ m <= 100 * n
  BY SignalAssumption, SMTT(30)
<1>2. down \in Nat /\ rest \in 0 .. 99 /\ m = 100 * down + rest
  <2> HIDE DEF m
  <2> QED BY <1>1
<1>3. down <= n /\ (down = n => rest = 0)
  <2> HIDE DEF m, down, rest
  <2> QED BY <1>1, <1>2
<1>4. Rank(n) = IF rest > 50 \/ (rest = 50 /\ down % 2 = 1) THEN down + 1 ELSE down
  BY DEF Rank
<1> HIDE DEF m, down, rest
<1> QED BY <1>2, <1>3, <1>4

\* A nonempty set of naturals has a least member.
LEMMA LeastNatural ==
  ASSUME NEW T \in SUBSET Nat, T # {}
  PROVE  \E x \in T : \A y \in T : x <= y
<1>1. PICK x \in T : \A y \in T : ~(<<y, x>> \in OpToRel(<, Nat))
  BY NatLessThanWellFounded, WFMin
<1>2. \A y \in T : y < x => <<y, x>> \in OpToRel(<, Nat)
  BY Zenon DEF OpToRel
<1>3. \A y \in T : y \in Nat /\ x \in Nat /\ ~(y < x)
  BY <1>1, <1>2
<1> QED BY <1>3

\* The naturals of a sequence are bounded.
LEMMA SeqIsBounded ==
  ASSUME NEW s \in Seq(Nat)
  PROVE  \E b \in Nat : \A i \in 1 .. Len(s) : s[i] <= b
<1> DEFINE Bounded(n) == \E b \in Nat : \A i \in 1 .. n : s[i] <= b
           T == {n \in 0 .. Len(s) : ~Bounded(n)}
<1>0. Len(s) \in Nat /\ \A i \in 1 .. Len(s) : s[i] \in Nat
  OBVIOUS
<1>1. Bounded(0)
  <2>1. 0 \in Nat /\ \A i \in 1 .. 0 : s[i] <= 0
    OBVIOUS
  <2> QED BY <2>1
<1>2. ASSUME NEW n \in 1 .. Len(s), Bounded(n - 1)
      PROVE  Bounded(n)
  <2>1. PICK b \in Nat : \A i \in 1 .. (n - 1) : s[i] <= b
    BY <1>2
  <2>2. PICK c \in Nat : b <= c /\ s[n] <= c
    <3>1. s[n] \in Nat /\ (b <= s[n] \/ s[n] <= b)
      BY <1>0
    <3> QED BY <3>1
  <2>3. \A i \in 1 .. n : s[i] <= c
    BY <1>0, <2>1, <2>2
  <2> QED BY <2>3
<1>3. T = {}
  <2> HIDE DEF Bounded
  <2> SUFFICES ASSUME T # {} PROVE FALSE
    OBVIOUS
  <2>1. T \subseteq Nat
    BY <1>0
  <2>2. PICK n \in T : \A y \in T : n <= y
    <3> HIDE DEF T
    <3> QED BY <2>1, LeastNatural
  <2>3. n \in 1 .. Len(s) /\ n - 1 \in 0 .. Len(s) /\ ~Bounded(n)
    BY <1>0, <1>1
  <2>4. n - 1 \notin T
    BY <2>2, <2>3
  <2> QED BY <1>2, <2>3, <2>4
<1>4. Bounded(Len(s))
  <2> HIDE DEF Bounded
  <2> QED BY <1>0, <1>3
<1> QED BY <1>4

\* The percentile is one of the scores: the threshold is a number.
LEMMA PercentileIsAScore ==
  ASSUME NEW s \in Seq(Nat), s # <<>>
  PROVE  Percentile(s) \in {s[i] : i \in DOMAIN s} /\ Percentile(s) \in Nat
<1> DEFINE idx == Rank(Len(s) - 1)
           AtMost(v) == {i \in DOMAIN s : s[i] <= v}
           Below(v) == {i \in DOMAIN s : s[i] < v}
           Vals == {s[i] : i \in DOMAIN s}
           Is(v) == Cardinality(Below(v)) <= idx /\ idx < Cardinality(AtMost(v))
           T == {v \in Nat : idx < Cardinality(AtMost(v))}
<1>0. Len(s) \in Nat \ {0} /\ DOMAIN s = 1 .. Len(s) /\ \A i \in DOMAIN s : s[i] \in Nat
  BY EmptySeq
<1>1. idx \in 0 .. (Len(s) - 1)
  BY <1>0, RankIsIndex
<1>2. IsFiniteSet(DOMAIN s) /\ Cardinality(DOMAIN s) = Len(s)
  BY <1>0, FS_Interval
<1>3. T # {}
  <2>1. PICK b \in Nat : \A i \in 1 .. Len(s) : s[i] <= b
    BY SeqIsBounded
  <2>2. AtMost(b) = DOMAIN s
    BY <1>0, <2>1
  <2>3. idx < Cardinality(AtMost(b))
    <3> HIDE DEF idx, AtMost
    <3> QED BY <1>0, <1>1, <1>2, <2>2
  <2> QED BY <2>3
<1>4. PICK v \in T : \A y \in T : v <= y
  BY <1>3, LeastNatural
<1>5. Cardinality(Below(v)) <= idx
  <2>1. CASE v = 0
    <3>1. Below(v) = {}
      BY <1>0, <2>1
    <3>2. Cardinality(Below(v)) = 0
      <4> HIDE DEF Below
      <4> QED BY <3>1, FS_EmptySet
    <3> HIDE DEF Below, idx
    <3> QED BY <1>1, <3>2
  <2>2. CASE v # 0
    <3>1. v - 1 \in Nat /\ v - 1 \notin T
      BY <1>4, <2>2
    <3>2. Below(v) = AtMost(v - 1)
      BY <1>0, <1>4
    <3>3. Cardinality(AtMost(v - 1)) \in Nat
      BY <1>2, FS_Subset, FS_CardinalityType
    <3> HIDE DEF AtMost, Below
    <3> QED BY <1>1, <3>1, <3>2, <3>3
  <2> QED BY <2>1, <2>2
<1>6. v \in Vals
  <2> SUFFICES ASSUME v \notin Vals PROVE FALSE
    OBVIOUS
  <2>1. Below(v) = AtMost(v)
    BY <1>0, <1>4
  <2>2. idx < Cardinality(AtMost(v)) /\ Cardinality(AtMost(v)) \in Nat
    BY <1>2, <1>4, FS_Subset, FS_CardinalityType
  <2> HIDE DEF AtMost, Below, idx
  <2> QED BY <1>1, <1>5, <2>1, <2>2
<1>7. Is(v)
  BY <1>4, <1>5
<1>8. Percentile(s) = CHOOSE x \in Vals : Is(x)
  BY DEF Percentile
<1>9. Percentile(s) \in Vals
  <2> HIDE DEF Is, Vals
  <2> QED BY <1>6, <1>7, <1>8
<1> QED BY <1>0, <1>9

\* The percentile is the ranked element of the sorted scores, whatever the window: t is the
\* scores in rising order, in which pi finds them (ThresholdCalibrator.compute_threshold).
THEOREM PercentileExact ==
  ASSUME NEW s \in Seq(Nat), s # <<>>, NEW t \in [1 .. Len(s) -> Nat],
         NEW pi \in Bijection(1 .. Len(s), 1 .. Len(s)),
         \A i \in 1 .. Len(s) : t[i] = s[pi[i]],
         \A i, j \in 1 .. Len(s) : i <= j => t[i] <= t[j]
  PROVE  Percentile(s) = t[1 + Rank(Len(s) - 1)]
<1> DEFINE idx == Rank(Len(s) - 1)
           D == 1 .. Len(s)
           AtMost(v) == {i \in D : s[i] <= v}
           Below(v) == {i \in D : s[i] < v}
           Vals == {s[i] : i \in D}
           Is(v) == Cardinality(Below(v)) <= idx /\ idx < Cardinality(AtMost(v))
           v == t[1 + idx]
<1>1. Len(s) \in Nat \ {0} /\ DOMAIN s = D /\ \A i \in D : s[i] \in Nat
  BY EmptySeq
<1>2. idx \in 0 .. (Len(s) - 1) /\ idx + 1 \in D
  <2>1. idx \in 0 .. (Len(s) - 1)
    BY <1>1, RankIsIndex
  <2> HIDE DEF idx
  <2> QED BY <1>1, <2>1
<1>3. IsFiniteSet(D) /\ \A S \in SUBSET D : IsFiniteSet(S) /\ Cardinality(S) \in Nat
  <2>1. IsFiniteSet(D)
    BY <1>1, FS_Interval
  <2> QED BY <2>1, FS_Subset, FS_CardinalityType
<1>4. Percentile(s) = CHOOSE x \in Vals : Is(x)
  BY <1>1 DEF Percentile
<1>5. v \in Vals /\ v \in Nat
  <2>1. pi[1 + idx] \in D
    BY <1>2 DEF Bijection, Injection
  <2> QED BY <1>1, <1>2, <2>1
\* What pi makes of a set of positions is as large as the set.
<1>6. ASSUME NEW S \in SUBSET D
      PROVE  Cardinality({pi[i] : i \in S}) = Cardinality(S)
  <2> DEFINE T == {pi[i] : i \in S}
             g == [i \in S |-> pi[i]]
  <2>1. g \in [S -> T] /\ \A y \in T : \E i \in S : g[i] = y
    OBVIOUS
  <2>2. \A i, j \in S : g[i] = g[j] => i = j
    BY DEF Bijection, Injection, IsInjective
  <2>3. ExistsBijection(S, T)
    <3> HIDE DEF g, T
    <3>1. g \in Bijection(S, T)
      BY <2>1, <2>2 DEF Bijection, Injection, Surjection, IsInjective
    <3> QED BY <3>1 DEF ExistsBijection
  <2> HIDE DEF T
  <2>4. Cardinality(T) = Cardinality(S)
    BY <1>3, <2>3, FS_Bijection
  <2> QED BY <2>4 DEF T
<1>7. Cardinality(Below(v)) <= idx
  <2> DEFINE S == {j \in D : t[j] < v}
  <2>1. Below(v) = {pi[j] : j \in S}
    BY DEF Bijection, Surjection
  <2>2. S \in SUBSET (1 .. idx)
    BY <1>1, <1>2
  <2>3. Cardinality(1 .. idx) = idx /\ IsFiniteSet(1 .. idx)
    <3> HIDE DEF idx
    <3> QED BY <1>2, FS_Interval
  <2>4. Cardinality(Below(v)) = Cardinality(S)
    BY <1>6, <2>1
  <2> HIDE DEF S, Below, idx
  <2> QED BY <2>2, <2>3, <2>4, FS_Subset
<1>8. idx < Cardinality(AtMost(v))
  <2> DEFINE S == 1 .. (idx + 1)
             T == {pi[j] : j \in S}
  <2>1. S \in SUBSET D
    BY <1>1, <1>2
  <2>2. T \in SUBSET AtMost(v)
    <3> SUFFICES ASSUME NEW j \in S PROVE pi[j] \in AtMost(v)
      OBVIOUS
    <3>1. j \in D /\ pi[j] \in D /\ j <= idx + 1
      <4>1. pi \in [D -> D]
        BY DEF Bijection, Injection
      <4>2. j \in D
        BY <2>1
      <4>3. j <= idx + 1
        <5> HIDE DEF idx
        <5> QED BY <1>2
      <4> QED BY <4>1, <4>2, <4>3
    <3>2. t[j] <= v
      BY <1>2, <3>1
    <3> QED BY <3>1, <3>2
  <2>3. Cardinality(S) = idx + 1
    <3> HIDE DEF idx
    <3> QED BY <1>2, FS_Interval
  <2>4. Cardinality(T) = idx + 1
    BY <1>6, <2>1, <2>3
  <2>5. AtMost(v) \in SUBSET D
    OBVIOUS
  <2> HIDE DEF S, T, AtMost, idx
  <2>6. Cardinality(T) <= Cardinality(AtMost(v)) /\ Cardinality(AtMost(v)) \in Nat
    BY <1>3, <2>2, <2>5, FS_Subset
  <2> QED BY <1>2, <2>4, <2>6
<1>9. ASSUME NEW x \in Vals, NEW y \in Vals, Is(x), Is(y), x < y PROVE FALSE
  <2>1. AtMost(x) \in SUBSET Below(y) /\ Below(y) \in SUBSET D
    BY <1>1, <1>9
  <2>2. Cardinality(AtMost(x)) \in Nat /\ Cardinality(Below(y)) \in Nat
    BY <1>3, <2>1
  <2>3. Cardinality(AtMost(x)) <= Cardinality(Below(y))
    <3> HIDE DEF AtMost, Below
    <3> QED BY <1>3, <2>1, FS_Subset
  <2>4. Cardinality(Below(y)) <= idx /\ idx < Cardinality(AtMost(x))
    BY <1>9
  <2> HIDE DEF AtMost, Below, idx
  <2> QED BY <1>2, <2>2, <2>3, <2>4
<1>10. \A x \in Vals : Is(x) => x = v
  <2> SUFFICES ASSUME NEW x \in Vals, Is(x), x # v PROVE FALSE
    OBVIOUS
  <2>1. Is(v) /\ x \in Nat
    BY <1>1, <1>7, <1>8
  <2>2. x < v \/ v < x
    BY <1>5, <2>1
  <2> HIDE DEF Is, Vals, v
  <2> QED BY <1>5, <1>9, <2>1, <2>2
<1>11. Is(v)
  BY <1>7, <1>8
<1> HIDE DEF Is, Vals, v
<1>12. Percentile(s) = v
  BY <1>4, <1>5, <1>10, <1>11
<1> QED BY <1>12 DEF v

\* The threshold of the calibrator is a number.
LEMMA ThresholdIsNatural ==
  ASSUME NEW s \in Seq(Nat)
  PROVE  ComputeThreshold(s) \in Nat
<1>1. CASE Len(s) < MinSamples
  BY <1>1, SignalAssumption DEF ComputeThreshold
<1>2. CASE ~(Len(s) < MinSamples)
  <2>1. s # <<>>
    BY <1>2, SignalAssumption, EmptySeq
  <2>2. Percentile(s) \in Nat
    BY <2>1, PercentileIsAScore
  <2>3. ComputeThreshold(s) = MaxOf(Floor, 100 * Percentile(s))
    BY <1>2 DEF ComputeThreshold
  <2> QED BY <2>2, <2>3, SignalAssumption DEF MaxOf
<1> QED BY <1>1, <1>2

-----------------------------------------------------------------------------
(* The sequences *)

\* The newest n of a sequence.
LEMMA LastOfFacts ==
  ASSUME NEW s \in Seq(Nat), NEW n \in Nat \ {0}
  PROVE  LastOf(s, n) \in Seq(Nat) /\ Len(LastOf(s, n)) <= n
<1>1. CASE Len(s) <= n
  BY <1>1 DEF LastOf
<1>2. CASE ~(Len(s) <= n)
  <2> DEFINE m == Len(s) - n + 1
             l == Len(s)
  <2>1. /\ m \in Int /\ l \in Int /\ 1 <= m /\ m <= l /\ l - m + 1 = n
        /\ \A i \in 1 .. l : s[i] \in Nat
    BY <1>2, LenProperties
  <2> HIDE DEF m, l
  <2>2. \A i \in m .. l : s[i] \in Nat
    BY <2>1
  <2>3. SubSeq(s, m, l) \in Seq(Nat) /\ Len(SubSeq(s, m, l)) = n
    BY <2>1, <2>2, SubSeqProperties
  <2>4. LastOf(s, n) = SubSeq(s, m, l)
    BY <1>2 DEF LastOf, m, l
  <2> QED BY <2>3, <2>4
<1> QED BY <1>1, <1>2

LEMMA ScoreFacts ==
  ASSUME NEW s \in Seq(Nat), NEW x \in Int
  PROVE  LastOf(Append(s, Abs(x)), Window) \in Seq(Nat)
           /\ Len(LastOf(Append(s, Abs(x)), Window)) <= Window
<1>1. Append(s, Abs(x)) \in Seq(Nat)
  BY AppendProperties DEF Abs
<1> QED BY <1>1, LastOfFacts, SignalAssumption

\* What the deque holds after one more signal.
LEMMA RecordEntries ==
  ASSUME TypeOK, NEW a \in Signals
  PROVE  LET h == Record(history, a) IN
         /\ h \in Seq(Signals)
         /\ Len(h) = IF Len(history) < required THEN Len(history) + 1 ELSE required
         /\ h[Len(h)] = a
         /\ \A i \in 1 .. (Len(h) - 1) :
              h[i] = history[IF Len(history) < required THEN i ELSE i + 1]
<1>0. history \in Seq(Signals) /\ Len(history) \in 0 .. required /\ required \in Nat \ {0}
  BY LenProperties DEF TypeOK
<1>1. CASE Len(history) < required
  BY <1>0, <1>1, AppendProperties DEF Record
<1>2. CASE ~(Len(history) < required)
  <2>1. history # <<>> /\ Len(history) = required
    BY <1>0, <1>2, EmptySeq
  <2>2. Tail(history) \in Seq(Signals) /\ Len(Tail(history)) = required - 1
          /\ \A i \in 1 .. (required - 1) : Tail(history)[i] = history[i + 1]
    BY <1>0, <2>1, HeadTailProperties
  <2>3. Record(history, a) = Append(Tail(history), a)
    BY <1>2 DEF Record
  <2> QED BY <1>0, <1>2, <2>2, <2>3, AppendProperties
<1> QED BY <1>1, <1>2

\* A run of equal signals goes on, or a new one begins, as the deque moves on; the deque
\* is full of one signal only at the end of a run of that length.
LEMMA StreakFollows ==
  ASSUME TypeOK, HistoryIsStreak, Counted, NEW a \in Signals
  PROVE  LET h == Record(history, a)  s == Heard(a) IN
         /\ h \in Seq(Signals) /\ Len(h) \in 1 .. required
         /\ s.dir = a /\ s.count \in 1 .. Len(h) /\ s \in [dir : Signals, count : Nat]
         /\ \A i \in 1 .. Len(h) :
              /\ i > Len(h) - s.count => h[i] = a
              /\ i = Len(h) - s.count => h[i] # a
         /\ IsConsecutive(h, a) => s.count = required
<1> DEFINE h == Record(history, a)
           s == Heard(a)
           n == Len(history)
           c == streak.count
<1>0. n \in 0 .. required /\ required \in Nat \ {0} /\ c \in 0 .. n
        /\ (n = 0 <=> streak = NoStreak) /\ DOMAIN history = 1 .. n
  BY EmptySeq, LenProperties DEF TypeOK, HistoryIsStreak
<1>1. /\ h \in Seq(Signals)
      /\ Len(h) = IF n < required THEN n + 1 ELSE required
      /\ h[Len(h)] = a
      /\ \A i \in 1 .. (Len(h) - 1) : h[i] = history[IF n < required THEN i ELSE i + 1]
  BY RecordEntries
<1>2. /\ s.dir = a /\ s \in [dir : Signals, count : Nat]
      /\ s.count = IF a # streak.dir THEN 1 ELSE IF c < required THEN c + 1 ELSE c
  BY <1>0 DEF Heard
<1>3. \A i \in 1 .. n : (i > n - c => history[i] = streak.dir)
                          /\ (i = n - c => history[i] # streak.dir)
  BY <1>0 DEF HistoryIsStreak
<1>4. n # 0 => c >= 1 /\ streak.dir \in Signals
  BY <1>0 DEF Counted
<1>5. n = 0 => a # streak.dir
  BY <1>0 DEF NoStreak, Signals
<1> HIDE DEF h, s, n, c
<1> DEFINE k == s.count
<1>9. \/ a # streak.dir /\ k = 1
      \/ a = streak.dir /\ c < required /\ k = c + 1
      \/ a = streak.dir /\ c = required /\ k = c
  BY <1>0, <1>2
<1> HIDE DEF k
<1>6. Len(h) \in 1 .. required /\ s.count \in 1 .. Len(h)
  <2>1. Len(h) \in 1 .. required /\ k \in 1 .. Len(h)
    BY <1>0, <1>1, <1>4, <1>5, <1>9
  <2> QED BY <2>1 DEF k
<1>7. ASSUME NEW i \in 1 .. Len(h)
      PROVE  (i > Len(h) - s.count => h[i] = a) /\ (i = Len(h) - s.count => h[i] # a)
  <2>1. CASE i = Len(h)
    BY <1>1, <1>6, <2>1
  <2>2. CASE i # Len(h) /\ n < required
    <3>1. i \in 1 .. n /\ Len(h) = n + 1 /\ h[i] = history[i]
      BY <1>0, <1>1, <2>2
    <3>2. (i > Len(h) - k => h[i] = a) /\ (i = Len(h) - k => h[i] # a)
      BY <1>0, <1>3, <1>4, <1>9, <2>2, <3>1
    <3> QED BY <3>2 DEF k
  <2>3. CASE i # Len(h) /\ ~(n < required)
    <3>1. i + 1 \in 1 .. n /\ Len(h) = n /\ n = required /\ h[i] = history[i + 1]
      BY <1>0, <1>1, <2>3
    <3>2. (i > Len(h) - k => h[i] = a) /\ (i = Len(h) - k => h[i] # a)
      BY <1>0, <1>3, <1>4, <1>9, <2>3, <3>1
    <3> QED BY <3>2 DEF k
  <2> QED BY <2>1, <2>2, <2>3
<1>8. IsConsecutive(h, a) => s.count = required
  <2> SUFFICES ASSUME IsConsecutive(h, a), s.count < required PROVE FALSE
    BY <1>0, <1>6
  <2>1. Len(h) = required /\ \A i \in 1 .. Len(h) : h[i] = a
    BY <1>1, LenProperties DEF IsConsecutive
  <2>2. Len(h) - s.count \in 1 .. Len(h)
    BY <1>0, <1>6, <2>1
  <2> QED BY <1>7, <2>1, <2>2
<1> QED BY <1>1, <1>2, <1>6, <1>7, <1>8 DEF h, s

-----------------------------------------------------------------------------
(* The policy *)

\* What a step may do to the deque: nothing, empty it, or one more signal.
Keeps == UNCHANGED <<history, streak, required, mode>>
Empties == Reset /\ required' \in Nat \ {0} /\ mode' \in Modes
Hears ==
  /\ UNCHANGED <<required, mode>>
  /\ \E a \in Signals : history' = Record(history, a) /\ streak' = Heard(a)

PolicyTypes ==
  /\ required \in Nat \ {0} /\ mode \in Modes
  /\ history \in Seq(Signals) /\ Len(history) <= required
  /\ streak \in [dir : Signals \cup {"none"}, count : Nat] /\ streak.count <= required

LEMMA ConfigFacts ==
  \A c \in Config : /\ c.need \in Nat \ {0} /\ c.mode \in Modes
                    /\ \A r : c.apNeed + ConsecutiveDelta(r) \in Nat \ {0}
<1>1. \A r : ConsecutiveDelta(r) \in Nat
  BY SignalAssumption DEF ConsecutiveDelta
<1>2. \A c \in Config : c.need \in Needs /\ c.apNeed \in ApNeeds /\ c.mode \in Modes
  BY DEF Config
<1>3. ASSUME NEW c \in Config
      PROVE  /\ c.need \in Nat \ {0} /\ c.mode \in Modes /\ c.apNeed \in Nat \ {0}
  BY <1>2, SignalAssumption
<1>4. \A n \in Nat \ {0}, d \in Nat : n + d \in Nat \ {0}
  OBVIOUS
<1> QED BY <1>1, <1>3, <1>4

LEMMA PolicyStep ==
  ASSUME TypeOK, HistoryIsStreak, Counted, Keeps \/ Empties \/ Hears
  PROVE  PolicyTypes' /\ HistoryIsStreak' /\ Counted'
<1>1. CASE Keeps
  <2>1. PolicyTypes /\ HistoryIsStreak /\ Counted
    BY DEF TypeOK, PolicyTypes
  <2> QED BY <1>1, <2>1 DEF Keeps, PolicyTypes, HistoryIsStreak, Counted
<1>2. CASE Empties
  <2>1. history' = <<>> /\ streak' = NoStreak /\ required' \in Nat \ {0} /\ mode' \in Modes
    BY <1>2 DEF Empties, Reset
  <2>2. Len(history') = 0 /\ history' \in Seq(Signals) /\ DOMAIN history' = {}
    BY <2>1, EmptySeq
  <2>3. streak' \in [dir : Signals \cup {"none"}, count : Nat] /\ streak'.count = 0
    BY <2>1 DEF NoStreak
  <2> QED BY <2>1, <2>2, <2>3 DEF PolicyTypes, HistoryIsStreak, Counted
<1>3. CASE Hears
  <2>1. PICK a \in Signals : history' = Record(history, a) /\ streak' = Heard(a)
    BY <1>3 DEF Hears
  <2>2. /\ history' \in Seq(Signals) /\ Len(history') \in 1 .. required
        /\ streak'.dir = a /\ streak'.count \in 1 .. Len(history')
        /\ streak' \in [dir : Signals, count : Nat]
        /\ \A i \in 1 .. Len(history') :
             /\ i > Len(history') - streak'.count => history'[i] = a
             /\ i = Len(history') - streak'.count => history'[i] # a
    BY <2>1, StreakFollows
  <2>3. history' # <<>> /\ DOMAIN history' = 1 .. Len(history')
    BY <2>2, EmptySeq, LenProperties
  <2>4. streak' # NoStreak
    BY <2>2 DEF NoStreak, Signals
  <2>5. required' = required /\ mode' = mode /\ required \in Nat \ {0} /\ mode \in Modes
    BY <1>3 DEF Hears, TypeOK
  <2>6. PolicyTypes'
    BY <2>2, <2>5 DEF PolicyTypes
  <2>7. HistoryIsStreak'
    BY <2>2, <2>3, <2>4 DEF HistoryIsStreak
  <2>8. Counted'
    BY <2>2 DEF Counted
  <2> QED BY <2>6, <2>7, <2>8
<1> QED BY <1>1, <1>2, <1>3

\* Every answer of a predictor lets the policy hear a signal, or resets it.
LEMMA AnswerHears ==
  ASSUME TypeOK, NEW a \in Signals, NEW x, Answer(a, x)
  PROVE  Empties \/ Hears
  BY DEF Answer, Hear, Empties, Hears, TypeOK, Reset

LEMMA ActionFacts == \A x : ToAction(x) \in Signals
  BY DEF ToAction, Signals

LEMMA NextMoves ==
  ASSUME TypeOK, [Next]_vars
  PROVE  Keeps \/ Empties \/ Hears
<1> USE DEF policyVars, predictorVars, engineVars, ghostVars, dbVars
<1>1. CASE Ingest \/ SkipTick \/ (\E b \in BOOLEAN : SetTrading(b)) \/ UNCHANGED vars
  BY <1>1 DEF Ingest, SkipTick, SetTrading, Keeps, vars
<1>2. CASE Sync \/ TakeExit
  BY <1>2 DEF Sync, TakeExit, Keeps, Empties, TypeOK
<1>3. CASE BeginPrediction
  <2>1. PICK r : ApplyAutopilot(r)
    BY <1>3 DEF BeginPrediction
  <2>2. CASE autopilot = "on"
    <3>1. SetRequired(config.apNeed + ConsecutiveDelta(r))
            /\ config.apNeed + ConsecutiveDelta(r) \in Nat \ {0}
      BY <2>1, <2>2, ConfigFacts DEF ApplyAutopilot, TypeOK
    <3> QED BY <1>3, <3>1 DEF SetRequired, BeginPrediction, Keeps, Empties, TypeOK
  <2>3. CASE autopilot # "on"
    BY <1>3, <2>1, <2>3 DEF ApplyAutopilot, BeginPrediction, Keeps
  <2> QED BY <2>2, <2>3
<1>4. CASE Predict
  <2>1. CASE AwaitCandle \/ PassGate
    BY <2>1 DEF AwaitCandle, PassGate, Keeps
  <2>2. CASE ReadHistory
    BY <2>2, AnswerHears DEF ReadHistory, Keeps, Signals
  <2>3. CASE Forecast
    BY <2>3, AnswerHears, ActionFacts DEF Forecast
  <2>4. CASE ForecastFails
    BY <2>4, AnswerHears DEF ForecastFails, Signals
  <2> QED BY <1>4, <2>1, <2>2, <2>3, <2>4 DEF Predict
<1>5. ASSUME NEW c \in Config, NEW reload \in BOOLEAN, ApplyConfig(c, reload)
      PROVE  Keeps \/ Empties
  BY <1>5, ConfigFacts DEF ApplyConfig, Keeps, Empties
<1>6. CASE Restart
  BY <1>6, ConfigFacts DEF Restart, Empties, TypeOK
<1> QED
  BY <1>1, <1>2, <1>3, <1>4, <1>5, <1>6 DEF Next, TimesFMPredict, FinCastPredict

-----------------------------------------------------------------------------
(* Types *)

\* The conjuncts of TypeOK that PolicyTypes leaves.
OtherTypes ==
  /\ candle \in 0 .. MaxCandle /\ config \in Config
  /\ rows \in Seq(Nat) /\ Len(rows) <= Window
  /\ scores \in Seq(Nat) /\ Len(scores) <= Window
  /\ lastInfer \in 0 .. candle /\ seen \in 0 .. candle /\ counted \in 0 .. candle
  /\ entryThr \in Nat
  /\ autopilot \in {"none", "on", "off"}
  /\ pos \in {"flat", "LONG", "SHORT"}
  /\ pc \in {"idle", "decide", "gate", "read", "infer"}

Flags ==
  /\ loaded \in BOOLEAN /\ broken \in BOOLEAN /\ blind \in BOOLEAN
  /\ trading \in BOOLEAN

LEMMA TypeParts == TypeOK <=> PolicyTypes /\ OtherTypes /\ Flags
  BY DEF TypeOK, PolicyTypes, OtherTypes, Flags

LEMMA TypePartsNext == TypeOK' <=> PolicyTypes' /\ OtherTypes' /\ Flags'
  BY DEF TypeOK, PolicyTypes, OtherTypes, Flags

LEMMA FlagStep ==
  ASSUME Flags, [Next]_vars
  PROVE  Flags'
<1> USE DEF policyVars, predictorVars, engineVars, ghostVars, dbVars, Flags
<1>1. CASE Ingest \/ SkipTick \/ Sync \/ TakeExit \/ BeginPrediction \/ UNCHANGED vars
             \/ (\E b \in BOOLEAN : SetTrading(b))
  BY <1>1, Zenon DEF Ingest, SkipTick, Sync, TakeExit, BeginPrediction, SetTrading, vars
<1>2. CASE Predict
  <2>1. CASE AwaitCandle \/ ForecastFails
    BY <2>1, Zenon DEF AwaitCandle, ForecastFails, Answer
  <2>2. CASE PassGate
    BY <2>2, Zenon DEF PassGate
  <2>3. CASE ReadHistory
    <3>1. broken' \in BOOLEAN /\ loaded' = loaded /\ blind' = blind
      BY <2>3, Zenon DEF ReadHistory
    <3>2. trading' = trading
      BY <2>3, Zenon DEF ReadHistory, Answer
    <3> QED BY <3>1, <3>2
  <2>4. CASE Forecast
    BY <2>4, Zenon DEF Forecast, Answer
  <2> QED BY <1>2, <2>1, <2>2, <2>3, <2>4 DEF Predict
<1>3. ASSUME NEW c \in Config, NEW reload \in BOOLEAN, ApplyConfig(c, reload)
      PROVE  Flags'
  <2>1. CASE reload
    BY <1>3, <2>1, Zenon DEF ApplyConfig, LoadPredictor
  <2>2. CASE ~reload
    BY <1>3, <2>2, Zenon DEF ApplyConfig
  <2> QED BY <2>1, <2>2
<1>4. CASE Restart
  BY <1>4, Zenon DEF Restart, LoadPredictor
<1> QED
  BY <1>1, <1>2, <1>3, <1>4 DEF Next, TimesFMPredict, FinCastPredict

LEMMA SavedFacts ==
  ASSUME OtherTypes, NEW x \in Int
  PROVE  /\ SaveInference(x) => rows' \in Seq(Nat) /\ Len(rows') <= Window
         /\ RecordScore(x) => scores' \in Seq(Nat) /\ Len(scores') <= Window
  BY ScoreFacts DEF OtherTypes, SaveInference, RecordScore, AddScore

LEMMA AnswerTypes ==
  ASSUME OtherTypes, NEW a \in Signals, NEW x \in Int, Answer(a, x)
  PROVE  /\ candle' = candle /\ config' = config
         /\ rows' \in Seq(Nat) /\ Len(rows') <= Window
         /\ scores' \in Seq(Nat) /\ Len(scores') <= Window
         /\ autopilot' = autopilot /\ trading' = trading /\ pc' = "idle" /\ seen' = 0
         /\ pos' \in {"flat", "LONG", "SHORT"}
<1>1. SaveInference(x) /\ RecordScore(x) /\ Hear(a)
  BY DEF Answer
<1>2. pos' \in {"flat", "LONG", "SHORT"}
  BY <1>1 DEF Hear, OtherTypes
<1> QED BY <1>1, <1>2, SavedFacts DEF Answer

\* A positive threshold is one that was computed from numbers.
LEMMA ThresholdStep ==
  ASSUME OtherTypes, NEW r, ApplyAutopilot(r)
  PROVE  entryThr' \in Nat
<1>1. CASE autopilot = "on"
  <2> DEFINE t == (ComputeThreshold(scores) * ThresholdPct(r)) \div 100
  <2>1. ComputeThreshold(scores) \in Nat
    BY ThresholdIsNatural DEF OtherTypes
  <2>2. ThresholdPct(r) \in {150, 85, 120, 100}
    BY DEF ThresholdPct
  <2>3. t \in Nat
    BY <2>1, <2>2
  <2>4. entryThr' = IF t > 0 THEN t ELSE entryThr
    BY <1>1 DEF ApplyAutopilot, SetThreshold
  <2> HIDE DEF t
  <2> QED BY <2>3, <2>4 DEF OtherTypes
<1>2. CASE autopilot # "on"
  BY <1>2 DEF ApplyAutopilot, OtherTypes
<1> QED BY <1>1, <1>2

LEMMA OtherStep ==
  ASSUME OtherTypes, [Next]_vars
  PROVE  OtherTypes'
<1> USE DEF policyVars, predictorVars, engineVars, ghostVars, dbVars
<1>1. CASE Ingest
  BY <1>1, SignalAssumption DEF Ingest, OtherTypes
<1>2. CASE SkipTick \/ (\E b \in BOOLEAN : SetTrading(b)) \/ UNCHANGED vars
  BY <1>2 DEF SkipTick, SetTrading, OtherTypes, vars
<1>3. CASE Sync \/ TakeExit
  BY <1>3 DEF Sync, TakeExit, OtherTypes
<1>4. CASE BeginPrediction
  <2>1. entryThr' \in Nat
    BY <1>4, ThresholdStep DEF BeginPrediction
  <2> QED BY <1>4, <2>1 DEF BeginPrediction, OtherTypes
<1>5. CASE Predict
  <2>1. CASE AwaitCandle
    <3>1. rows' \in Seq(Nat) /\ Len(rows') <= Window
      BY <2>1, SavedFacts DEF AwaitCandle, OtherTypes
    <3>2. scores' \in Seq(Nat) /\ Len(scores') <= Window
      BY <2>1, SavedFacts DEF AwaitCandle
    <3> QED BY <2>1, <3>1, <3>2 DEF AwaitCandle, OtherTypes
  <2>2. CASE PassGate
    BY <2>2 DEF PassGate, OtherTypes
  <2>3. CASE ReadHistory
    <3>1. CASE Answer("HOLD", 0)
      <4>1. "HOLD" \in Signals /\ 0 \in Int
        BY DEF Signals
      <4>2. UNCHANGED <<lastInfer, entryThr, counted>>
        BY <2>3 DEF ReadHistory
      <4> QED BY <3>1, <4>1, <4>2, AnswerTypes DEF OtherTypes
    <3>2. CASE ~Answer("HOLD", 0)
      <4>1. /\ pc' = "infer" /\ seen' \in {0, candle}
            /\ UNCHANGED <<candle, rows, config, policyVars, autopilot, scores, engineVars,
                           streak, lastInfer, entryThr, counted>>
        BY <2>3, <3>2 DEF ReadHistory, OpenTimes
      <4> QED BY <4>1 DEF OtherTypes
    <3> QED BY <3>1, <3>2
  <2>4. CASE Forecast
    <3>1. PICK x \in Scores, open \in OpenTimes :
            /\ lastInfer' = StampedOpen(open)
            /\ blind' = (open = 0)
            /\ counted' = IF seen # 0 THEN seen ELSE counted
            /\ Answer(ToAction(x), x)
      BY <2>4 DEF Forecast
    <3>2. x \in Int /\ ToAction(x) \in Signals
      BY SignalAssumption, ActionFacts
    <3>3. candle' = candle /\ lastInfer' \in 0 .. candle' /\ counted' \in 0 .. candle'
      BY <3>1, <3>2, AnswerTypes DEF OtherTypes, StampedOpen, OpenTimes
    <3> QED BY <2>4, <3>1, <3>2, <3>3, AnswerTypes DEF Forecast, OtherTypes
  <2>5. CASE ForecastFails
    <3>1. "HOLD" \in Signals /\ 0 \in Int
      BY DEF Signals
    <3> QED BY <2>5, <3>1, AnswerTypes DEF ForecastFails, OtherTypes
  <2> QED BY <1>5, <2>1, <2>2, <2>3, <2>4, <2>5 DEF Predict
<1>6. ASSUME NEW c \in Config, NEW reload \in BOOLEAN, ApplyConfig(c, reload)
      PROVE  OtherTypes'
  <2>1. entryThr' \in Nat
    BY <1>6, SignalAssumption DEF ApplyConfig, LoadPredictor, SetThreshold, OtherTypes
  <2>2. scores' \in Seq(Nat) /\ Len(scores') <= Window /\ autopilot' \in {"none", "on", "off"}
    <3>1. CASE autopilot = "none"
      BY <1>6, <3>1 DEF ApplyConfig, OtherTypes
    <3>2. CASE autopilot # "none"
      <4>1. scores' = <<>> /\ autopilot' \in {"on", "off"}
        BY <1>6, <3>2 DEF ApplyConfig
      <4> QED BY <4>1, EmptySeq, SignalAssumption
    <3> QED BY <3>1, <3>2
  <2>3. /\ UNCHANGED <<candle, rows, pos, pc, seen>> /\ config' = c
        /\ lastInfer' \in {lastInfer, 0} /\ counted' \in {counted, 0}
    BY <1>6 DEF ApplyConfig, LoadPredictor
  <2> QED BY <2>1, <2>2, <2>3 DEF OtherTypes
<1>7. CASE Restart
  <2>1. scores' \in Seq(Nat) /\ Len(scores') <= Window
    BY <1>7, EmptySeq, SignalAssumption DEF Restart, OtherTypes
  <2>2. /\ autopilot' \in {"none", "on", "off"} /\ pc' = "idle" /\ seen' = 0
        /\ lastInfer' = 0 /\ counted' = 0 /\ entryThr' = Floor
        /\ UNCHANGED <<candle, rows, config, pos>>
    BY <1>7 DEF Restart, LoadPredictor
  <2> QED BY <2>1, <2>2, SignalAssumption DEF OtherTypes
<1> QED
  BY <1>1, <1>2, <1>3, <1>4, <1>5, <1>6, <1>7 DEF Next, TimesFMPredict, FinCastPredict

-----------------------------------------------------------------------------
(* The candle clock *)

LEMMA ClockStep ==
  ASSUME OtherTypes, Clock, [Next]_vars
  PROVE  Clock'
<1> USE DEF policyVars, predictorVars, engineVars, ghostVars, dbVars
<1>1. CASE Ingest
  BY <1>1 DEF Ingest, OtherTypes, Clock
<1>2. CASE SkipTick \/ Sync \/ TakeExit \/ BeginPrediction \/ UNCHANGED vars
             \/ (\E b \in BOOLEAN : SetTrading(b))
  BY <1>2 DEF SkipTick, Sync, TakeExit, BeginPrediction, SetTrading, OtherTypes, Clock, vars
<1>3. CASE Predict
  <2>1. CASE AwaitCandle \/ ForecastFails
    BY <2>1 DEF AwaitCandle, ForecastFails, Answer, OtherTypes, Clock
  <2>2. CASE PassGate
    BY <2>2 DEF PassGate, OpenTimes, IsNewCandle, OtherTypes, Clock
  <2>3. CASE ReadHistory
    BY <2>3 DEF ReadHistory, Answer, OpenTimes, OtherTypes, Clock
  <2>4. CASE Forecast
    <3>1. PICK open \in OpenTimes :
            /\ lastInfer' = StampedOpen(open) /\ (blind' <=> open = 0)
            /\ counted' = IF seen # 0 THEN seen ELSE counted
            /\ pc' = "idle"
      BY <2>4 DEF Forecast, Answer
    <3>2. CASE open = 0
      BY <3>1, <3>2 DEF Clock
    <3>3. CASE open # 0
      <4>1. lastInfer' = candle /\ counted' \in {seen, counted}
        BY <3>1, <3>3 DEF OpenTimes, StampedOpen
      <4> QED BY <3>1, <4>1 DEF OtherTypes, Clock
    <3> QED BY <3>2, <3>3
  <2> QED BY <1>3, <2>1, <2>2, <2>3, <2>4 DEF Predict
<1>4. ASSUME NEW c \in Config, NEW reload \in BOOLEAN, ApplyConfig(c, reload)
      PROVE  Clock'
  BY <1>4 DEF ApplyConfig, LoadPredictor, OtherTypes, Clock
<1>5. CASE Restart
  BY <1>5 DEF Restart, LoadPredictor, Clock
<1> QED
  BY <1>1, <1>2, <1>3, <1>4, <1>5 DEF Next, TimesFMPredict, FinCastPredict

-----------------------------------------------------------------------------
(* The theorems *)

LEMMA InitInv == Init => Inv
<1> SUFFICES ASSUME Init PROVE Inv
  OBVIOUS
<1>1. required \in Nat \ {0} /\ mode \in Modes /\ Len(history) = 0 /\ DOMAIN history = {}
  BY ConfigFacts, EmptySeq DEF Init
<1>2. PolicyTypes
  BY <1>1, EmptySeq DEF Init, PolicyTypes, NoStreak
<1>3. OtherTypes /\ Flags
  <2>1. /\ rows \in Seq(Nat) /\ Len(rows) <= Window /\ scores \in Seq(Nat) /\ Len(scores) <= Window
    BY SignalAssumption, EmptySeq DEF Init
  <2>2. autopilot \in {"none", "on", "off"} /\ config \in Config
    BY DEF Init
  <2>3. OtherTypes
    BY <2>1, <2>2, SignalAssumption DEF Init, OtherTypes
  <2>4. Flags
    BY Zenon DEF Init, Flags
  <2> QED BY <2>3, <2>4
<1>4. HistoryIsStreak /\ Counted /\ Clock
  BY <1>1 DEF Init, HistoryIsStreak, Counted, Clock, NoStreak
<1> QED BY <1>2, <1>3, <1>4, TypeParts DEF Inv

LEMMA NextInv == Inv /\ [Next]_vars => Inv'
<1> SUFFICES ASSUME Inv, [Next]_vars PROVE Inv'
  OBVIOUS
<1>1. TypeOK /\ HistoryIsStreak /\ Counted /\ Clock /\ OtherTypes /\ Flags
  BY TypeParts DEF Inv
<1>2. PolicyTypes' /\ HistoryIsStreak' /\ Counted'
  BY <1>1, NextMoves, PolicyStep
<1>3. OtherTypes' /\ Flags' /\ Clock'
  BY <1>1, OtherStep, FlagStep, ClockStep
<1> QED BY <1>2, <1>3, TypePartsNext DEF Inv

LEMMA Invariant == Spec => []Inv
  BY InitInv, NextInv, PTL DEF Spec

\* The variables of the signal path keep their types and the deques of the policy and of
\* the calibrator their bounds, whatever the window, the confirmations and the scores are.
THEOREM SignalTypes == Spec => []TypeOK
<1>1. Inv => TypeOK
  BY DEF Inv
<1> QED BY <1>1, Invariant, PTL

\* The signals the policy keeps are the end of what it heard since it was last reset.
THEOREM PolicyHearsStreaks == Spec => []HistoryIsStreak
<1>1. Inv => HistoryIsStreak
  BY DEF Inv
<1> QED BY <1>1, Invariant, PTL

\* One candle is not counted twice by the gate of a predictor (_is_new_candle), however
\* the ingest interleaves with a prediction.
THEOREM CandlesCountOnce == Spec => []EachCandleOnce
<1>1. Inv => EachCandleOnce
  BY DEF Inv, TypeOK, Clock, EachCandleOnce
<1> QED BY <1>1, Invariant, PTL

-----------------------------------------------------------------------------
(* The refinement of Confirmation *)

Hearing == pc \in {"gate", "read", "infer"}

\* What one answer is for the abstract policy: it is listened to, or it confirms.
LEMMA AnswerConfirms ==
  ASSUME TypeOK, HistoryIsStreak, Counted, Hearing, NEW a \in Signals, NEW x, Answer(a, x)
  PROVE  Promise!Listen(a) \/ Promise!Enter(a) \/ Promise!Leave(a)
<1> DEFINE h == Record(history, a)
<1>1. Hear(a) /\ pc' = "idle" /\ required' = required /\ mode' = mode
  BY DEF Answer
<1>2. Heard(a).dir = a /\ Heard(a).count = Promise!CountWith(a)
  BY DEF Heard, Promise!CountWith
<1>3. IsConsecutive(h, a) => Promise!CountWith(a) = required
  BY <1>2, StreakFollows
<1>4. CASE history' = h /\ streak' = Heard(a) /\ UNCHANGED pos
  BY <1>1, <1>2, <1>4 DEF Hearing, Promise!Listen
<1>5. CASE /\ pos = "flat" /\ AllowsEntry(h, a)
           /\ pos' = (IF a = "BUY" THEN "LONG" ELSE "SHORT") /\ Reset
  <2>1. Promise!CountWith(a) = required
    BY <1>3, <1>5 DEF AllowsEntry
  <2>2. Promise!EntrySide(a) = pos' /\ Promise!EntrySide(a) # "none"
    BY <1>5 DEF AllowsEntry, Promise!EntrySide
  <2>3. Promise!FreshStart
    BY <1>5 DEF Reset, NoStreak, Promise!FreshStart
  <2> QED BY <1>1, <1>5, <2>1, <2>2, <2>3 DEF Hearing, Promise!Enter
<1>6. CASE /\ (pos = "LONG" /\ AllowsLongExit(h)) \/ (pos = "SHORT" /\ AllowsShortExit(h))
           /\ pos' = "flat" /\ Reset
  <2>1. h[Len(h)] = a /\ Len(h) \in 1 .. required /\ h \in Seq(Signals)
    BY RecordEntries, StreakFollows
  <2>2. \A b \in Signals : IsConsecutive(h, b) => b = a
    <3> HIDE DEF h
    <3> QED BY <2>1, LenProperties DEF IsConsecutive
  <2>3. IsConsecutive(h, a) /\ Promise!Leaves(a)
    <3> HIDE DEF h
    <3>1. CASE pos = "LONG" /\ AllowsLongExit(h)
      BY <2>2, <3>1 DEF AllowsLongExit, Promise!Leaves, Signals
    <3>2. CASE pos = "SHORT" /\ AllowsShortExit(h)
      BY <2>2, <3>2 DEF AllowsShortExit, Promise!Leaves, Signals
    <3> QED BY <1>6, <3>1, <3>2
  <2>4. Promise!FreshStart
    BY <1>6 DEF Reset, NoStreak, Promise!FreshStart
  <2> QED BY <1>1, <1>3, <1>6, <2>3, <2>4 DEF Hearing, Promise!Leave
<1> QED BY <1>1, <1>4, <1>5, <1>6 DEF Hear

\* A step that empties the deque and leaves the position is a reconfiguration.
LEMMA EmptiesIsReconfigured ==
  ASSUME Empties, UNCHANGED pos
  PROVE  Promise!Reconfigured
  BY DEF Empties, Reset, NoStreak, Promise!Reconfigured, Promise!FreshStart

LEMMA StepConfirms ==
  ASSUME TypeOK, HistoryIsStreak, Counted, [Next]_vars
  PROVE  [Promise!Next]_(Promise!vars)
<1> USE DEF policyVars, predictorVars, engineVars, ghostVars, dbVars
<1>1. CASE Ingest \/ SkipTick \/ (\E b \in BOOLEAN : SetTrading(b)) \/ UNCHANGED vars
  BY <1>1 DEF Ingest, SkipTick, SetTrading, vars, Promise!vars
<1>2. CASE Sync \/ TakeExit
  <2>1. pc \in {"idle", "decide"} /\ pc' \in {"idle", "decide"} /\ UNCHANGED <<required, mode>>
    BY <1>2 DEF Sync, TakeExit
  <2>2. CASE UNCHANGED <<pos, history, streak>>
    BY <2>1, <2>2 DEF Promise!vars
  <2>3. CASE pos # "flat" /\ pos' = "flat" /\ Reset
    <3>1. Promise!Ended
      BY <2>1, <2>3 DEF Reset, NoStreak, Promise!Ended, Promise!FreshStart
    <3> QED BY <3>1 DEF Promise!Next
  <2>4. CASE pos' \in {"LONG", "SHORT"} /\ UNCHANGED <<history, streak>>
    <3>1. Promise!Adopted
      BY <2>1, <2>4 DEF Promise!Adopted
    <3> QED BY <3>1 DEF Promise!Next
  <2> QED BY <1>2, <2>2, <2>3, <2>4 DEF Sync, TakeExit
<1>3. CASE BeginPrediction
  <2>1. pc = "decide" /\ pc' = "gate" /\ UNCHANGED <<pos, mode>>
    BY <1>3 DEF BeginPrediction
  <2>2. CASE Keeps
    <3>1. Promise!Ask
      BY <2>1, <2>2 DEF Keeps, Promise!Ask
    <3> QED BY <3>1 DEF Promise!Next
  <2>3. CASE Empties
    BY <2>1, <2>3, EmptiesIsReconfigured DEF Promise!Next
  <2>4. Keeps \/ Empties
    <3>1. PICK r : ApplyAutopilot(r)
      BY <1>3 DEF BeginPrediction
    <3>2. CASE autopilot = "on"
      <4>1. SetRequired(config.apNeed + ConsecutiveDelta(r))
              /\ config.apNeed + ConsecutiveDelta(r) \in Nat \ {0}
        BY <3>1, <3>2, ConfigFacts DEF ApplyAutopilot, TypeOK
      <4> QED BY <2>1, <4>1 DEF SetRequired, Keeps, Empties, TypeOK
    <3>3. CASE autopilot # "on"
      BY <2>1, <3>1, <3>3 DEF ApplyAutopilot, Keeps
    <3> QED BY <3>2, <3>3
  <2> QED BY <2>2, <2>3, <2>4
<1>4. CASE Predict
  <2>1. CASE AwaitCandle
    <3>1. Promise!Ask
      BY <2>1 DEF AwaitCandle, Promise!Ask
    <3> QED BY <3>1 DEF Promise!Next
  <2>2. CASE PassGate
    BY <2>2 DEF PassGate, Promise!vars
  <2>3. ASSUME NEW a \in Signals, NEW x, Hearing, Answer(a, x)
        PROVE  Promise!Next
    BY <2>3, AnswerConfirms DEF Promise!Next, Promise!Signals, Signals
  <2>4. CASE ReadHistory
    <3>1. CASE Answer("HOLD", 0)
      BY <2>3, <2>4, <3>1 DEF ReadHistory, Hearing, Signals
    <3>2. CASE ~Answer("HOLD", 0)
      BY <2>4, <3>2 DEF ReadHistory, Promise!vars
    <3> QED BY <3>1, <3>2
  <2>5. CASE Forecast
    BY <2>3, <2>5, ActionFacts DEF Forecast, Hearing
  <2>6. CASE ForecastFails
    BY <2>3, <2>6 DEF ForecastFails, Hearing, Signals
  <2> QED BY <1>4, <2>1, <2>2, <2>4, <2>5, <2>6 DEF Predict
<1>5. ASSUME NEW c \in Config, NEW reload \in BOOLEAN, ApplyConfig(c, reload)
      PROVE  [Promise!Next]_(Promise!vars)
  <2>1. Keeps \/ Empties
    BY <1>5, ConfigFacts DEF ApplyConfig, Keeps, Empties
  <2>2. UNCHANGED <<pos, pc>>
    BY <1>5 DEF ApplyConfig
  <2> QED
    BY <2>1, <2>2, EmptiesIsReconfigured DEF Keeps, Promise!Next, Promise!vars
<1>6. CASE Restart
  <2>1. Empties /\ UNCHANGED pos
    BY <1>6, ConfigFacts DEF Restart, Empties, TypeOK
  <2> QED BY <2>1, EmptiesIsReconfigured DEF Promise!Next
<1> QED
  BY <1>1, <1>2, <1>3, <1>4, <1>5, <1>6 DEF Next, TimesFMPredict, FinCastPredict

\* The signal path implements Confirmation: the engine enters and leaves a position on the
\* model's word only at the end of a full run of equal signals heard since the position
\* last changed hands, the parameters changed or the process started.
THEOREM ImplementsConfirmation == Spec => ConfirmedOnly
<1>1. Init => Promise!Init
  BY ConfigFacts DEF Init, Promise!Init, NoStreak
<1>2. Inv /\ [Next]_vars => [Promise!Next]_(Promise!vars)
  BY StepConfirms DEF Inv
<1> QED BY <1>1, <1>2, Invariant, PTL DEF Spec, ConfirmedOnly, Promise!Spec
===============================================================================
