----------------------------- MODULE Records_proofs -----------------------------
(***************************************************************************)
(* Theorems about Records for every set of runs, results and balances and  *)
(* every size of the tables: types, what the order page says, what a       *)
(* client that pages through the orders gets to see, and that the daily    *)
(* aggregate, the dashboard and the summaries add up to the same.          *)
(*                                                                         *)
(* The sums are folds of the community modules over finite sets; a set     *)
(* without its counterexamples of least size (SubsetInduction) stands in   *)
(* for induction.                                                          *)
(***************************************************************************)
EXTENDS Records, SequenceTheorems, FiniteSetTheorems, TLAPS

Fates == {"none", "open", "partial", "filled", "cancelled"}

\* The order tables and the exchange: an execution is of an order that is filled there.
Orders ==
  /\ orders \in Seq(OrderRow) /\ exch \in Seq(Fates) /\ Len(exch) = Len(orders)
  /\ \A i \in Ids(exch) : (exch[i] = "none") = ~orders[i].sent
  /\ executions \subseteq Ids(orders) /\ \A i \in executions : exch[i] = "filled"
  /\ aged \in 0 .. Len(orders)
  /\ work.at = "execution" => orders # <<>> /\ exch[Len(orders)] = "filled"

\* Rows as the engine makes them: a closed one has a result.
Made == {row \in SnapshotRow : row.status = "CLOSED" => row.pnl \in Pnls}

\* What may follow a snapshot or a trade ...
Nexts == {Idle, Booted} \cup [at : {"protect"}, left : 1 .. 2]

\* ... and what may be due at all.
Works ==
  Nexts \cup {Booting} \cup [at : {"execution"}]
    \cup [at : {"request"}, said : {"rejected", "open", "filled"}]
    \cup [at : {"snapshot"}, row : Made, next : Nexts]
    \cup [at : {"trade"}, row : {row \in Made : Books(row)}, next : Nexts, snap : Nat \ {0}]
    \cup [at : {"equity", "opening"}, amount : Balances]

\* The engine and the tables of positions, trades and balances.
Engine ==
  /\ run \in Runs /\ day \in Days /\ work \in Works
  /\ mem = NoPosition \/ mem \in [run : Runs, small : BOOLEAN]
  /\ snaps \in Seq(SnapshotRow) /\ trades \in Seq(TradeRow) /\ equity \in Seq(EquityRow)
  /\ daily \in [Runs \X Days -> DailyRow \cup {None}]
  /\ work.at = "opening" => equity # <<>>

Reading == [at : {"count", "rows", "done"}, offset : Nat, total : Nat, seen : SUBSET Nat,
            raced : BOOLEAN, start : SUBSET Nat]

\* A client has seen every old order that is among the first of the list.
Reader ==
  \/ reader = [at |-> "off"]
  \/ /\ reader \in Reading /\ reader.start \subseteq Ids(orders)
     /\ reader.at # "done" =>
          \A i \in reader.start : i > Len(orders) - reader.offset => i \in reader.seen
     /\ PagesSkipNothing

-----------------------------------------------------------------------------
(* Sums over finite sets *)

\* A nonempty set of naturals has a least member.
LEMMA LeastNatural ==
  ASSUME NEW T \in SUBSET Nat, T # {}
  PROVE  \E x \in T : \A y \in T : x <= y
<1>1. PICK x \in T : \A y \in T : ~(<<y, x>> \in OpToRel(<, Nat))
  BY NatLessThanWellFounded, WFMin
<1>2. \A y \in T : y < x => <<y, x>> \in OpToRel(<, Nat)
  BY Zenon DEF OpToRel
<1>3. \A y \in T : y \in Nat /\ x \in Nat /\ ~(y < x)
  BY <1>1, <1>2
<1> QED BY <1>3

\* Induction on the size of a finite set: what passes from the sets with one element less
\* to a set is so for all.
LEMMA SubsetInduction ==
  ASSUME NEW S, IsFiniteSet(S), NEW G,
         \A T \in SUBSET S : (\A x \in T : T \ {x} \in G) => T \in G
  PROVE  \A T \in SUBSET S : T \in G
<1> DEFINE Bad == {n \in Nat : \E T \in SUBSET S : T \notin G /\ Cardinality(T) = n}
<1>1. \A T \in SUBSET S : IsFiniteSet(T) /\ Cardinality(T) \in Nat
  BY FS_Subset, FS_CardinalityType
<1>2. SUFFICES ASSUME NEW T \in SUBSET S, T \notin G PROVE FALSE
  OBVIOUS
<1>3. Bad \in SUBSET Nat /\ Bad # {}
  BY <1>1, <1>2
<1>4. PICK n \in Bad : \A m \in Bad : n <= m
  <2> HIDE DEF Bad
  <2> QED BY <1>3, LeastNatural
<1>5. PICK U \in SUBSET S : U \notin G /\ Cardinality(U) = n
  BY <1>4
<1>6. PICK x \in U : U \ {x} \notin G
  BY <1>5
<1>7. U \ {x} \in SUBSET S /\ Cardinality(U \ {x}) = n - 1 /\ n \in Nat
  BY <1>1, <1>5, FS_RemoveElement
<1>8. n - 1 \in Nat
  BY <1>1, <1>7
<1> QED BY <1>4, <1>6, <1>7, <1>8

\* The fold behind a sum: the function SumFunctionOnSet chooses, and its equation.
Chosen(s) == CHOOSE x \in s : TRUE
FoldStep(f, S, g) == [s \in SUBSET S |-> IF s = {} THEN 0 ELSE f[Chosen(s)] + g[s \ {Chosen(s)}]]
Fold(f, S) == CHOOSE g : g = FoldStep(f, S, g)

\* What is chosen is a member.
LEMMA ChosenIsIn ==
  ASSUME NEW s, s # {} PROVE Chosen(s) \in s
  BY DEF Chosen

\* A sum is the value of that function for the whole set.
LEMMA SumIsFold ==
  ASSUME NEW f, NEW S PROVE SumFunctionOnSet(f, S) = Fold(f, S)[S]
  BY DEF SumFunctionOnSet, FoldFunctionOnSet, MapThenFoldSet, Fold, FoldStep, Chosen

\* There is such a function: up to every number of elements, hence for all of them.
LEMMA FoldExists ==
  ASSUME NEW f, NEW S, IsFiniteSet(S)
  PROVE  \E g : g = FoldStep(f, S, g)
<1> DEFINE Right(g, s) == g[s] = IF s = {} THEN 0 ELSE f[Chosen(s)] + g[s \ {Chosen(s)}]
           UpTo(n) == \E g : \A s \in SUBSET S : Cardinality(s) <= n => Right(g, s)
           Bad == {n \in Nat : ~UpTo(n)}
<1>1. \A s \in SUBSET S : IsFiniteSet(s) /\ Cardinality(s) \in Nat
  BY FS_Subset, FS_CardinalityType
<1>2. UpTo(0)
  <2> DEFINE g == [s \in SUBSET S |-> 0]
  <2>1. \A s \in SUBSET S : Cardinality(s) <= 0 => s = {}
    BY <1>1, FS_EmptySet
  <2>2. \A s \in SUBSET S : Cardinality(s) <= 0 => Right(g, s)
    BY <2>1
  <2> HIDE DEF g, Right
  <2> QED BY <2>2
<1>3. ASSUME NEW n \in Nat, UpTo(n) PROVE UpTo(n + 1)
  <2>1. PICK g : \A s \in SUBSET S : Cardinality(s) <= n => Right(g, s)
    BY <1>3
  <2> DEFINE h == FoldStep(f, S, g)
  <2>2. ASSUME NEW s \in SUBSET S, Cardinality(s) <= n + 1 PROVE Right(h, s)
    <3>1. h[s] = IF s = {} THEN 0 ELSE f[Chosen(s)] + g[s \ {Chosen(s)}]
      BY DEF FoldStep
    <3>2. CASE s = {}
      BY <3>1, <3>2
    <3>3. CASE s # {}
      <4> DEFINE t == s \ {Chosen(s)}
      <4>1. t \in SUBSET S /\ Cardinality(t) = Cardinality(s) - 1
        BY <1>1, <3>3, ChosenIsIn, FS_RemoveElement
      <4>2. Cardinality(t) <= n
        BY <1>1, <2>2, <4>1
      <4>3. Right(g, t)
        BY <2>1, <4>1, <4>2
      <4>4. h[t] = IF t = {} THEN 0 ELSE f[Chosen(t)] + g[t \ {Chosen(t)}]
        BY <4>1 DEF FoldStep
      <4>5. h[t] = g[t]
        BY <4>3, <4>4
      <4> QED BY <3>1, <3>3, <4>5
    <3> QED BY <3>2, <3>3
  <2> HIDE DEF h, Right
  <2> QED BY <2>2
<1>4. UpTo(Cardinality(S))
  <2> HIDE DEF UpTo
  <2>1. SUFFICES ASSUME Bad # {} PROVE FALSE
    BY <1>1
  <2>2. PICK n \in Bad : \A m \in Bad : n <= m
    <3>1. Bad \in SUBSET Nat
      OBVIOUS
    <3> HIDE DEF Bad
    <3> QED BY <2>1, <3>1, LeastNatural
  <2>3. n \in Nat /\ n # 0
    BY <1>2
  <2>4. n - 1 \in Nat /\ n - 1 \notin Bad
    BY <2>2, <2>3
  <2>5. UpTo((n - 1) + 1)
    BY <1>3, <2>4
  <2>6. (n - 1) + 1 = n
    BY <2>3
  <2> QED BY <2>5, <2>6
<1>5. PICK g : \A s \in SUBSET S : Cardinality(s) <= Cardinality(S) => Right(g, s)
  BY <1>4
<1>6. \A s \in SUBSET S : Right(g, s)
  BY <1>1, <1>5, FS_Subset
<1> DEFINE h == [s \in SUBSET S |-> g[s]]
<1>7. h = FoldStep(f, S, h)
  <2>1. ASSUME NEW s \in SUBSET S PROVE h[s] = IF s = {} THEN 0 ELSE f[Chosen(s)] + h[s \ {Chosen(s)}]
    BY <1>6
  <2> QED BY <2>1 DEF FoldStep
<1> QED BY <1>7

\* So it is the one chosen.
LEMMA FoldValue ==
  ASSUME NEW f, NEW S, IsFiniteSet(S)
  PROVE  \A s \in SUBSET S :
           Fold(f, S)[s] = IF s = {} THEN 0 ELSE f[Chosen(s)] + Fold(f, S)[s \ {Chosen(s)}]
<1>1. Fold(f, S) = FoldStep(f, S, Fold(f, S))
  BY FoldExists, Zenon DEF Fold
<1> QED BY <1>1 DEF FoldStep

\* What a fold gives for a part does not depend on the whole.
LEMMA FoldOfPart ==
  ASSUME NEW f, NEW S, IsFiniteSet(S)
  PROVE  \A T \in SUBSET S : Fold(f, S)[T] = Fold(f, T)[T]
<1> DEFINE G == {T \in SUBSET S : \A R \in SUBSET S : T \subseteq R => Fold(f, R)[T] = Fold(f, T)[T]}
<1>1. ASSUME NEW T \in SUBSET S, \A x \in T : T \ {x} \in G PROVE T \in G
  <2>1. SUFFICES ASSUME NEW R \in SUBSET S, T \subseteq R PROVE Fold(f, R)[T] = Fold(f, T)[T]
    OBVIOUS
  <2>2. IsFiniteSet(R) /\ IsFiniteSet(T)
    BY FS_Subset
  <2>3. /\ Fold(f, R)[T] = IF T = {} THEN 0 ELSE f[Chosen(T)] + Fold(f, R)[T \ {Chosen(T)}]
        /\ Fold(f, T)[T] = IF T = {} THEN 0 ELSE f[Chosen(T)] + Fold(f, T)[T \ {Chosen(T)}]
    <3>1. T \in SUBSET R /\ T \in SUBSET T
      BY <2>1
    <3>2. Fold(f, R)[T] = IF T = {} THEN 0 ELSE f[Chosen(T)] + Fold(f, R)[T \ {Chosen(T)}]
      <4> HIDE DEF G
      <4>1. \A s \in SUBSET R :
           Fold(f, R)[s] = IF s = {} THEN 0 ELSE f[Chosen(s)] + Fold(f, R)[s \ {Chosen(s)}]
        BY <2>2, FoldValue
      <4> QED BY <3>1, <4>1
    <3>3. Fold(f, T)[T] = IF T = {} THEN 0 ELSE f[Chosen(T)] + Fold(f, T)[T \ {Chosen(T)}]
      <4> HIDE DEF G
      <4>1. \A s \in SUBSET T :
           Fold(f, T)[s] = IF s = {} THEN 0 ELSE f[Chosen(s)] + Fold(f, T)[s \ {Chosen(s)}]
        BY <2>2, FoldValue
      <4> QED BY <3>1, <4>1
    <3> QED BY <3>2, <3>3
  <2>4. ASSUME T # {} PROVE Fold(f, R)[T \ {Chosen(T)}] = Fold(f, T)[T \ {Chosen(T)}]
    <3> DEFINE U == T \ {Chosen(T)}
    <3>1. U \in G
      BY <1>1, <2>4, ChosenIsIn
    <3>2. U \subseteq R /\ U \subseteq T
      BY <2>1
    <3> QED BY <2>1, <3>1, <3>2
  <2> QED BY <2>3, <2>4
<1>2. \A T \in SUBSET S : T \in G
  <2> HIDE DEF G
  <2> QED BY <1>1, SubsetInduction
<1> QED BY <1>2

\* A sum is empty, or the value of an element and the sum of the others.
LEMMA SumOfChosen ==
  ASSUME NEW f, NEW S, IsFiniteSet(S)
  PROVE  SumFunctionOnSet(f, S) =
           IF S = {} THEN 0 ELSE f[Chosen(S)] + SumFunctionOnSet(f, S \ {Chosen(S)})
<1> DEFINE T == S \ {Chosen(S)}
<1>1. Fold(f, S)[S] = IF S = {} THEN 0 ELSE f[Chosen(S)] + Fold(f, S)[T]
  BY FoldValue
<1>2. Fold(f, S)[T] = Fold(f, T)[T]
  BY FoldOfPart
<1>3. SumFunctionOnSet(f, S) = Fold(f, S)[S] /\ SumFunctionOnSet(f, T) = Fold(f, T)[T]
  BY SumIsFold
<1> QED BY <1>1, <1>2, <1>3

\* ... and an integer.
LEMMA SumIsInt ==
  ASSUME NEW f, NEW S, IsFiniteSet(S), \A x \in S : f[x] \in Int
  PROVE  SumFunctionOnSet(f, S) \in Int
<1> DEFINE G == {T \in SUBSET S : SumFunctionOnSet(f, T) \in Int}
<1>1. ASSUME NEW T \in SUBSET S, \A x \in T : T \ {x} \in G PROVE T \in G
  <2>1. SumFunctionOnSet(f, T) =
           IF T = {} THEN 0 ELSE f[Chosen(T)] + SumFunctionOnSet(f, T \ {Chosen(T)})
    BY FS_Subset, SumOfChosen
  <2>2. T # {} => f[Chosen(T)] \in Int /\ SumFunctionOnSet(f, T \ {Chosen(T)}) \in Int
    BY <1>1, ChosenIsIn
  <2> QED BY <2>1, <2>2
<1>2. \A T \in SUBSET S : T \in G
  <2> HIDE DEF G
  <2> QED BY <1>1, SubsetInduction
<1> QED BY <1>2

\* ... and that for every element, whatever the order.
LEMMA SumOfElement ==
  ASSUME NEW f, NEW S, IsFiniteSet(S), \A x \in S : f[x] \in Int, NEW e \in S
  PROVE  SumFunctionOnSet(f, S) = f[e] + SumFunctionOnSet(f, S \ {e})
<1> DEFINE Sum(T) == SumFunctionOnSet(f, T)
           G == {T \in SUBSET S : \A x \in T : Sum(T) = f[x] + Sum(T \ {x})}
<1>0. \A T \in SUBSET S : IsFiniteSet(T) /\ Sum(T) \in Int
  BY FS_Subset, SumIsInt
<1>1. ASSUME NEW T \in SUBSET S, \A x \in T : T \ {x} \in G PROVE T \in G
  <2>1. SUFFICES ASSUME NEW x \in T PROVE Sum(T) = f[x] + Sum(T \ {x})
    OBVIOUS
  <2> DEFINE c == Chosen(T)
  <2>2. c \in T /\ Sum(T) = f[c] + Sum(T \ {c})
    BY <1>0, ChosenIsIn, SumOfChosen
  <2> HIDE DEF c
  <2>3. CASE x = c
    BY <2>2, <2>3
  <2>4. CASE x # c
    <3> HIDE DEF Sum
    <3>1. Sum(T \ {c}) = f[x] + Sum((T \ {c}) \ {x})
      BY <1>1, <2>2, <2>4
    <3>2. Sum(T \ {x}) = f[c] + Sum((T \ {x}) \ {c})
      BY <1>1, <2>2, <2>4
    <3>3. (T \ {c}) \ {x} = (T \ {x}) \ {c}
      OBVIOUS
    <3> DEFINE rest == Sum((T \ {x}) \ {c})
    <3>4. rest \in Int /\ f[x] \in Int /\ f[c] \in Int
      BY <1>0, <2>2
    <3>5. Sum(T) = f[c] + (f[x] + rest) /\ Sum(T \ {x}) = f[c] + rest
      BY <2>2, <3>1, <3>2, <3>3
    <3> HIDE DEF rest
    <3>6. f[c] + (f[x] + rest) = f[x] + (f[c] + rest)
      BY <3>4
    <3> QED BY <3>5, <3>6
  <2> QED BY <2>3, <2>4
<1>2. \A T \in SUBSET S : T \in G
  <2> HIDE DEF G
  <2> QED BY <1>1, SubsetInduction
<1> QED BY <1>2

\* Values that are the same have the same sum.
LEMMA SumOfSame ==
  ASSUME NEW f, NEW g, NEW S, IsFiniteSet(S), \A x \in S : f[x] = g[x]
  PROVE  SumFunctionOnSet(f, S) = SumFunctionOnSet(g, S)
<1> DEFINE G == {T \in SUBSET S : SumFunctionOnSet(f, T) = SumFunctionOnSet(g, T)}
<1>1. ASSUME NEW T \in SUBSET S, \A x \in T : T \ {x} \in G PROVE T \in G
  <2>1. /\ SumFunctionOnSet(f, T) =
             IF T = {} THEN 0 ELSE f[Chosen(T)] + SumFunctionOnSet(f, T \ {Chosen(T)})
        /\ SumFunctionOnSet(g, T) =
             IF T = {} THEN 0 ELSE g[Chosen(T)] + SumFunctionOnSet(g, T \ {Chosen(T)})
    BY FS_Subset, SumOfChosen
  <2>2. T # {} => /\ f[Chosen(T)] = g[Chosen(T)]
                  /\ SumFunctionOnSet(f, T \ {Chosen(T)}) = SumFunctionOnSet(g, T \ {Chosen(T)})
    BY <1>1, ChosenIsIn
  <2> QED BY <2>1, <2>2
<1>2. \A T \in SUBSET S : T \in G
  <2> HIDE DEF G
  <2> QED BY <1>1, SubsetInduction
<1> QED BY <1>2

\* No value, no sum.
LEMMA SumOfZeros ==
  ASSUME NEW f, NEW S, IsFiniteSet(S), \A x \in S : f[x] = 0
  PROVE  SumFunctionOnSet(f, S) = 0
<1> DEFINE G == {T \in SUBSET S : SumFunctionOnSet(f, T) = 0}
<1>1. ASSUME NEW T \in SUBSET S, \A x \in T : T \ {x} \in G PROVE T \in G
  <2>1. SumFunctionOnSet(f, T) =
          IF T = {} THEN 0 ELSE f[Chosen(T)] + SumFunctionOnSet(f, T \ {Chosen(T)})
    BY FS_Subset, SumOfChosen
  <2>2. T # {} => f[Chosen(T)] = 0 /\ SumFunctionOnSet(f, T \ {Chosen(T)}) = 0
    BY <1>1, ChosenIsIn
  <2> QED BY <2>1, <2>2
<1>2. \A T \in SUBSET S : T \in G
  <2> HIDE DEF G
  <2> QED BY <1>1, SubsetInduction
<1> QED BY <1>2

\* One value that changes changes the sum by as much.
LEMMA SumOfChanged ==
  ASSUME NEW f, NEW g, NEW S, IsFiniteSet(S), NEW e \in S, NEW c \in Int,
         \A x \in S : f[x] \in Int /\ g[x] = IF x = e THEN f[x] + c ELSE f[x]
  PROVE  SumFunctionOnSet(g, S) = SumFunctionOnSet(f, S) + c
<1>1. IsFiniteSet(S \ {e}) /\ (\A x \in S : g[x] \in Int) /\ f[e] \in Int /\ g[e] = f[e] + c
  BY FS_RemoveElement
<1>2. SumFunctionOnSet(f, S) = f[e] + SumFunctionOnSet(f, S \ {e})
  BY SumOfElement
<1>3. SumFunctionOnSet(g, S) = g[e] + SumFunctionOnSet(g, S \ {e})
  BY <1>1, SumOfElement
<1>4. SumFunctionOnSet(f, S \ {e}) = SumFunctionOnSet(g, S \ {e})
  BY <1>1, SumOfSame
<1>5. SumFunctionOnSet(f, S \ {e}) \in Int
  BY <1>1, SumIsInt
<1> QED BY <1>1, <1>2, <1>3, <1>4, <1>5

-----------------------------------------------------------------------------
(* The newest of a list *)

\* What is cut from a table has as many newer rows in what is kept of it as are kept.
LEMMA CutRowsAreOlder ==
  ASSUME NEW S, S \subseteq Int, IsFiniteSet(S), NEW n \in Nat,
         NEW t \in Int, NEW u \in S, u > t, u \notin Newest(S, n)
  PROVE  \E A \in SUBSET (Newest(S, n) \cap Newer(S, t)) : n <= Count(A)
<1> DEFINE Cut == {v \in S : v > t /\ v \notin Newest(S, n)}
           Sizes == {Count(Newer(S, v)) : v \in Cut}
<1>1. \A v \in S : Newer(S, v) \in SUBSET S
  BY DEF Newer
<1>2. \A T \in SUBSET S : IsFiniteSet(T) /\ Count(T) \in Nat
  BY FS_Subset, FS_CardinalityType DEF Count
<1>3. Sizes \in SUBSET Nat /\ Sizes # {}
  <2>1. u \in Cut
    OBVIOUS
  <2>2. \A v \in Cut : Count(Newer(S, v)) \in Nat
    BY <1>1, <1>2
  <2> QED BY <2>1, <2>2
<1>4. PICK v \in Cut : \A m \in Sizes : Count(Newer(S, v)) <= m
  <2>1. PICK k \in Sizes : \A m \in Sizes : k <= m
    <3> HIDE DEF Sizes
    <3> QED BY <1>3, LeastNatural
  <2> QED BY <2>1
<1>5. n <= Count(Newer(S, v))
  <2>1. v \in S /\ ~(Count(Newer(S, v)) < n)
    BY <1>4 DEF Newest
  <2> QED BY <1>1, <1>2, <2>1
<1>6. ASSUME NEW w \in Newer(S, v) PROVE w \in Newest(S, n) \cap Newer(S, t)
  <2>1. w \in S /\ w \in Int /\ v \in S /\ v \in Int /\ w > v /\ v > t
    BY <1>4, <1>6 DEF Newer
  <2>2. w > t
    BY <2>1
  <2>3. Newer(S, w) \in SUBSET Newer(S, v) /\ w \notin Newer(S, w)
    <3>1. ASSUME NEW x \in Newer(S, w) PROVE x \in Newer(S, v)
      <4>1. x \in S /\ x \in Int /\ x > w
        BY <3>1 DEF Newer
      <4>2. x > v
        BY <2>1, <4>1
      <4> QED BY <4>1, <4>2 DEF Newer
    <3>2. ~(w > w)
      BY <2>1
    <3> QED BY <3>1, <3>2 DEF Newer
  <2>4. Count(Newer(S, w)) < Count(Newer(S, v))
    <3>1. IsFiniteSet(Newer(S, v)) /\ Count(Newer(S, w)) \in Nat /\ Count(Newer(S, v)) \in Nat
      BY <1>1, <1>2, <2>1
    <3>2. /\ Count(Newer(S, w)) <= Count(Newer(S, v))
          /\ Count(Newer(S, v)) = Count(Newer(S, w)) => Newer(S, v) = Newer(S, w)
      BY <2>3, <3>1, FS_Subset DEF Count
    <3> QED BY <1>6, <2>3, <3>1, <3>2
  <2>5. w \notin Cut
    <3>1. ASSUME w \in Cut PROVE FALSE
      <4>1. Count(Newer(S, w)) \in Sizes
        BY <3>1
      <4>2. Count(Newer(S, v)) <= Count(Newer(S, w))
        <5> HIDE DEF Sizes
        <5> QED BY <1>4, <4>1
      <4> QED BY <1>1, <1>2, <2>1, <2>4, <4>2
    <3> QED BY <3>1
  <2> QED BY <2>1, <2>2, <2>5 DEF Newer
<1> QED BY <1>5, <1>6

\* A row with n newer ones in a list has n newer ones among the newest n.
LEMMA CutHasNewer ==
  ASSUME NEW S, S \subseteq Int, IsFiniteSet(S), NEW n \in Nat, NEW t \in Int,
         Count(Newer(S, t)) >= n
  PROVE  Count(Newer(Newest(S, n), t)) >= n
<1>1. CASE Newer(S, t) \subseteq Newest(S, n)
  <2>1. Newer(Newest(S, n), t) = Newer(S, t)
    BY <1>1 DEF Newer, Newest
  <2> QED BY <2>1
<1>2. CASE ~(Newer(S, t) \subseteq Newest(S, n))
  <2>1. PICK u \in S : u > t /\ u \notin Newest(S, n)
    BY <1>2 DEF Newer
  <2>2. PICK A \in SUBSET (Newest(S, n) \cap Newer(S, t)) : n <= Count(A)
    BY <2>1, CutRowsAreOlder
  <2>3. A \in SUBSET Newer(Newest(S, n), t) /\ Newer(Newest(S, n), t) \in SUBSET S
    BY <2>2 DEF Newer, Newest
  <2>4. IsFiniteSet(Newer(Newest(S, n), t))
    BY <2>3, FS_Subset
  <2>5. /\ Count(A) <= Count(Newer(Newest(S, n), t)) /\ Count(A) \in Nat
        /\ Count(Newer(Newest(S, n), t)) \in Nat
    BY <2>3, <2>4, FS_Subset, FS_CardinalityType DEF Count
  <2> QED BY <2>2, <2>5
<1> QED BY <1>1, <1>2

\* Every place of a list is on a page.
LEMMA PageOfPlace ==
  ASSUME NEW r \in Nat
  PROVE  \E k \in 0 .. r : k * Limit <= r /\ r < k * Limit + Limit
<1>0. Limit \in Nat \ {0}
  BY RecordsAssumption
<1> DEFINE K == {k \in Nat : r < k * Limit + Limit}
<1>1. r < r * Limit + Limit
  <2>1. \A k \in Nat : k <= k * Limit
    BY <1>0
  <2>2. r * Limit \in Nat /\ r <= r * Limit
    BY <1>0, <2>1
  <2> QED BY <1>0, <2>2
<1>2. PICK k \in K : \A m \in K : k <= m
  <2>1. K \in SUBSET Nat /\ r \in K
    BY <1>1
  <2> HIDE DEF K
  <2> QED BY <2>1, LeastNatural
<1>3. k \in Nat /\ r < k * Limit + Limit /\ k <= r
  BY <1>1, <1>2
<1>4. CASE k = 0
  BY <1>0, <1>3, <1>4
<1>5. CASE k # 0
  <2>1. k - 1 \in Nat /\ ~(k <= k - 1)
    BY <1>3, <1>5
  <2>2. ~(r < (k - 1) * Limit + Limit)
    BY <1>2, <2>1
  <2>3. (k - 1) * Limit + Limit = k * Limit
    BY <1>0, <1>3
  <2>4. k * Limit \in Nat
    BY <1>0, <1>3
  <2>5. k * Limit <= r
    BY <2>2, <2>3, <2>4
  <2> QED BY <1>3, <2>5
<1> QED BY <1>4, <1>5

-----------------------------------------------------------------------------
(* Facts about the data *)

\* What a commit that is due holds.
LEMMA WorkFacts ==
  ASSUME work \in Works
  PROVE  /\ work.at = "request" => work.said \in {"rejected", "open", "filled"}
         /\ work.at = "snapshot" => work.row \in Made /\ work.next \in Nexts
         /\ work.at = "trade" => /\ work.row \in Made /\ Books(work.row)
                                 /\ work.next \in Nexts /\ work.snap \in Nat \ {0}
         /\ work.at = "protect" => work.left \in 1 .. 2
         /\ work.at \in {"equity", "opening"} => work \in [at : {"equity", "opening"}, amount : Balances]
  BY DEF Works, Nexts, Idle, Booting, Booted

\* The commits that follow are such commits.
LEMMA WorksMade ==
  /\ Idle \in Works /\ Idle.at = "idle" /\ Idle \in Nexts
  /\ Booting \in Works /\ Booting.at = "boot" /\ AfterSync \in Nexts
  /\ \A w \in Nexts : w \in Works /\ w.at \in {"idle", "booted", "protect"}
  /\ [at |-> "execution"] \in Works /\ [at |-> "execution"].at = "execution"
  /\ \A said \in {"rejected", "open", "filled"} :
       LET w == [at |-> "request", said |-> said] IN w \in Works /\ w.at = "request"
  /\ \A row \in Made, x \in Nexts :
       LET w == Snapshot(row, x) IN w \in Works /\ w.at = "snapshot"
  /\ \A row \in {row \in Made : Books(row)}, x \in Nexts, n \in Nat \ {0} :
       LET w == [at |-> "trade", row |-> row, next |-> x, snap |-> n]
       IN w \in Works /\ w.at = "trade"
  /\ \A n \in 0 .. 2 : Protecting(n) \in Nexts /\ Protecting(n).at \in {"idle", "protect"}
  /\ \A b \in Balances : LET w == [at |-> "equity", amount |-> b] IN w \in Works /\ w.at = "equity"
<1>1. /\ Idle \in Works /\ Idle.at = "idle" /\ Idle \in Nexts
      /\ Booting \in Works /\ Booting.at = "boot" /\ AfterSync \in Nexts
      /\ \A w \in Nexts : w \in Works /\ w.at \in {"idle", "booted", "protect"}
  BY DEF Works, Nexts, Idle, Booting, Booted, AfterSync
<1>2. [at |-> "execution"] \in Works
  BY DEF Works
<1>3. ASSUME NEW said \in {"rejected", "open", "filled"}
      PROVE  [at |-> "request", said |-> said] \in Works
  BY DEF Works
<1>4. ASSUME NEW row \in Made, NEW x \in Nexts
      PROVE  Snapshot(row, x) \in Works /\ Snapshot(row, x).at = "snapshot"
  BY DEF Works, Snapshot
<1>5. ASSUME NEW row \in {row \in Made : Books(row)}, NEW x \in Nexts, NEW n \in Nat \ {0}
      PROVE  [at |-> "trade", row |-> row, next |-> x, snap |-> n] \in Works
  BY DEF Works
<1>6. ASSUME NEW n \in 0 .. 2
      PROVE  Protecting(n) \in Nexts /\ Protecting(n).at \in {"idle", "protect"}
  BY DEF Nexts, Protecting, Idle
<1>7. ASSUME NEW b \in Balances
      PROVE  [at |-> "equity", amount |-> b] \in Works
  BY DEF Works
<1> QED BY <1>1, <1>2, <1>3, <1>4, <1>5, <1>6, <1>7

\* The rows that a position leaves are rows.
LEMMA RowFacts ==
  ASSUME day \in Days, NEW p \in [run : Runs, small : BOOLEAN], NEW pnl \in Pnls
  PROVE  OpenRow(p) \in Made /\ ClosedRow(p, pnl) \in Made
  BY DEF OpenRow, ClosedRow, SnapshotRow, Made

\* The aggregate of a day stays one when a trade or an opening balance is added.
LEMMA DailyFacts ==
  ASSUME Engine, NEW r \in Runs, NEW d \in Days
  PROVE  /\ Row(r, d) \in DailyRow
         /\ \A pnl \in Pnls \cup {0} : Upsert(Row(r, d), pnl) \in DailyRow
         /\ \A b \in Balances : Closing([Row(r, d) EXCEPT !.opening = b]) \in DailyRow
<1>1. Row(r, d) \in DailyRow
  <2>1. daily \in [Runs \X Days -> DailyRow \cup {None}]
    BY DEF Engine
  <2>2. <<r, d>> \in Runs \X Days
    OBVIOUS
  <2>3. daily[<<r, d>>] \in DailyRow \cup {None}
    BY <2>1, <2>2, Zenon
  <2>4. EmptyDay \in DailyRow
    BY DEF EmptyDay, DailyRow
  <2> QED BY <2>3, <2>4 DEF Row
<1>2. ASSUME NEW e \in DailyRow PROVE Closing(e) \in DailyRow
  <2>1. /\ e.opening \in Balances \cup {None} /\ e.sum \in Int /\ e.closing \in Int \cup {None}
    BY DEF DailyRow
  <2>2. Balances \subseteq Int
    BY RecordsAssumption
  <2> DEFINE c == IF e.opening = None THEN e.closing ELSE e.opening + e.sum
  <2>3. c \in Int \cup {None}
    <3>1. CASE e.opening = None
      BY <2>1, <3>1
    <3>2. CASE e.opening # None
      <4>1. e.opening \in Int
        BY <2>1, <2>2, <3>2
      <4>2. e.opening + e.sum \in Int
        BY <2>1, <4>1
      <4> QED BY <3>2, <4>2
    <3> QED BY <3>1, <3>2
  <2>4. Closing(e) = [e EXCEPT !.closing = c]
    BY DEF Closing
  <2> HIDE DEF c
  <2> QED BY <2>3, <2>4 DEF DailyRow
<1>3. ASSUME NEW pnl \in Pnls \cup {0}, NEW e \in DailyRow PROVE Added(e, pnl) \in DailyRow
  <2>1. pnl \in Int
    BY RecordsAssumption
  <2>2. Sign(pnl).win \in Nat /\ Sign(pnl).loss \in Nat /\ Sign(pnl).even \in Nat
    BY DEF Sign
  <2>3. /\ e.count \in Nat /\ e.wins \in Nat /\ e.losses \in Nat /\ e.even \in Nat /\ e.sum \in Int
        /\ e.profit \in Nat /\ e.loss \in Nat
    BY DEF DailyRow
  <2> DEFINE n == e.count + 1
             w == e.wins + Sign(pnl).win
             l == e.losses + Sign(pnl).loss
             v == e.even + Sign(pnl).even
             t == e.sum + pnl
             g == IF pnl > 0 THEN e.profit + pnl ELSE e.profit
             h == IF pnl < 0 THEN e.loss - pnl ELSE e.loss
  <2>4. n \in Nat /\ w \in Nat /\ l \in Nat /\ v \in Nat /\ t \in Int /\ g \in Nat /\ h \in Nat
    BY <2>1, <2>2, <2>3
  <2>5. Added(e, pnl) = [e EXCEPT !.count = n, !.sum = t, !.wins = w, !.losses = l, !.even = v,
                                  !.profit = g, !.loss = h]
    BY DEF Added
  <2> HIDE DEF n, w, l, v, t, g, h
  <2> QED BY <2>4, <2>5 DEF DailyRow
<1>4. ASSUME NEW b \in Balances PROVE [Row(r, d) EXCEPT !.opening = b] \in DailyRow
  BY <1>1 DEF DailyRow
<1>5. ASSUME NEW pnl \in Pnls \cup {0} PROVE Upsert(Row(r, d), pnl) \in DailyRow
  BY <1>1, <1>2, <1>3 DEF Upsert
<1>6. ASSUME NEW b \in Balances PROVE Closing([Row(r, d) EXCEPT !.opening = b]) \in DailyRow
  BY <1>2, <1>4
<1> QED BY <1>1, <1>5, <1>6

-----------------------------------------------------------------------------
(* Orders *)

\* A new row at the end of both the orders and what became of them.
LEMMA OrderAdded ==
  ASSUME Orders, NEW o \in OrderRow, NEW e \in Fates, (e = "none") = ~o.sent,
         orders' = Append(orders, o), exch' = Append(exch, e)
  PROVE  /\ orders' \in Seq(OrderRow) /\ exch' \in Seq(Fates) /\ Len(exch') = Len(orders')
         /\ Len(orders') = Len(orders) + 1 /\ Len(orders) \in Nat /\ orders' # <<>>
         /\ \A i \in Ids(exch') : (exch'[i] = "none") = ~orders'[i].sent
         /\ exch'[Len(orders')] = e
         /\ \A i \in Ids(exch) : i \in Ids(exch') /\ exch'[i] = exch[i]
<1>1. /\ orders \in Seq(OrderRow) /\ exch \in Seq(Fates) /\ Len(exch) = Len(orders)
      /\ \A i \in Ids(exch) : (exch[i] = "none") = ~orders[i].sent
  BY DEF Orders
<1>2. /\ orders' \in Seq(OrderRow) /\ orders' # <<>> /\ Len(orders') = Len(orders) + 1
      /\ \A i \in 1 .. Len(orders) : orders'[i] = orders[i]
      /\ orders'[Len(orders) + 1] = o
  BY <1>1, AppendProperties
<1>3. /\ exch' \in Seq(Fates) /\ Len(exch') = Len(exch) + 1
      /\ \A i \in 1 .. Len(exch) : exch'[i] = exch[i]
      /\ exch'[Len(exch) + 1] = e
  BY <1>1, AppendProperties
<1>4. Len(orders) \in Nat
  BY <1>1
<1>5. ASSUME NEW i \in Ids(exch') PROVE (exch'[i] = "none") = ~orders'[i].sent
  <2>1. CASE i \in Ids(exch)
    BY <1>1, <1>2, <1>3, <2>1 DEF Ids
  <2>2. CASE i = Len(exch) + 1
    BY <1>1, <1>2, <1>3, <2>2
  <2> QED BY <1>1, <1>3, <1>4, <2>1, <2>2 DEF Ids
<1> QED BY <1>1, <1>2, <1>3, <1>4, <1>5 DEF Ids

\* Order tables and exchange stay in step, and nothing is executed that is not filled.
LEMMA OrdersStep == Orders /\ Engine /\ [Next]_vars => Orders'
<1> SUFFICES ASSUME Orders, Engine, [Next]_vars PROVE Orders'
  OBVIOUS
<1> USE DEF tables, engine, time
<1>0. /\ orders \in Seq(OrderRow) /\ exch \in Seq(Fates) /\ Len(exch) = Len(orders)
      /\ Len(orders) \in Nat /\ executions \subseteq Ids(orders) /\ \A i \in executions : exch[i] = "filled"
      /\ aged \in 0 .. Len(orders) /\ work \in Works /\ run \in Runs
  BY DEF Orders, Engine
<1>1. ASSUME UNCHANGED <<orders, executions, exch>>, aged' \in {aged, Len(orders)},
             work'.at = "execution" => work.at = "execution"
      PROVE  Orders'
  BY <1>0, <1>1 DEF Orders
<1>2. ASSUME NEW said \in {"rejected", "open", "filled"}, Send(said) PROVE Orders'
  BY <1>1, <1>2, WorksMade DEF Send, Goes
<1>3. CASE SaveRequest
  <2> DEFINE o == [run |-> run, type |-> "MARKET", sent |-> work.said # "rejected"]
  <2>1. work.said \in {"rejected", "open", "filled"} /\ o \in OrderRow
    BY <1>0, <1>3, WorkFacts DEF SaveRequest, OrderRow
  <2> DEFINE e == IF work.said = "rejected" THEN "none" ELSE work.said
  <2>2. /\ e \in Fates /\ exch' = Append(exch, e) /\ (work.said = "filled" => e = "filled")
        /\ (work.said = "rejected" => e = "none") /\ (work.said # "rejected" => e # "none")
    BY <1>3, <2>1 DEF SaveRequest, Fates
  <2>3. orders' = Append(orders, o) /\ UNCHANGED <<executions, aged>>
    BY <1>3 DEF SaveRequest
  <2>4. (e = "none") = ~o.sent
    BY <2>1, <2>2
  <2>5. /\ orders' \in Seq(OrderRow) /\ exch' \in Seq(Fates) /\ Len(exch') = Len(orders')
        /\ Len(orders') = Len(orders) + 1 /\ orders' # <<>>
        /\ \A i \in Ids(exch') : (exch'[i] = "none") = ~orders'[i].sent
        /\ exch'[Len(orders')] = e
        /\ \A i \in Ids(exch) : i \in Ids(exch') /\ exch'[i] = exch[i]
    <3> HIDE DEF o, e
    <3> QED BY <2>1, <2>2, <2>3, <2>4, OrderAdded
  <2>6. work'.at = "execution" => work.said = "filled"
    BY <1>3, WorksMade DEF SaveRequest, Goes, Executed
  <2>7. executions' \subseteq Ids(orders') /\ \A i \in executions' : exch'[i] = "filled"
    BY <1>0, <2>3, <2>5 DEF Ids
  <2>8. aged' \in 0 .. Len(orders')
    BY <1>0, <2>3, <2>5
  <2> QED BY <2>2, <2>5, <2>6, <2>7, <2>8 DEF Orders
<1>4. CASE SaveExecution
  <2>1. /\ UNCHANGED <<orders, exch, aged>> /\ executions' = executions \cup {Len(orders)}
        /\ orders # <<>> /\ exch[Len(orders)] = "filled"
    BY <1>4 DEF SaveExecution, Orders
  <2>2. work'.at # "execution"
    <3>1. \E row, n : work' = Snapshot(row, n)
      <4>1. CASE mem = NoPosition
        BY <1>4, <4>1, Zenon DEF SaveExecution, Goes
      <4>2. CASE mem # NoPosition
        BY <1>4, <4>2, Zenon DEF SaveExecution, Goes
      <4> QED BY <4>1, <4>2
    <3> QED BY <3>1 DEF Snapshot
  <2>3. Len(orders) \in Ids(orders)
    BY <1>0, <2>1, EmptySeq DEF Ids
  <2> QED BY <1>0, <2>1, <2>2, <2>3 DEF Orders
<1>5. CASE SaveProtection
  <2>1. PICK sent \in BOOLEAN :
          /\ orders' = Append(orders, [run |-> run, type |-> "TRIGGER", sent |-> sent])
          /\ exch' = Append(exch, IF sent THEN "open" ELSE "none")
    BY <1>5 DEF SaveProtection
  <2> DEFINE o == [run |-> run, type |-> "TRIGGER", sent |-> sent]
             e == IF sent THEN "open" ELSE "none"
  <2>2. o \in OrderRow /\ e \in Fates /\ (e = "none") = ~o.sent /\ e # "filled"
    BY <1>0 DEF OrderRow, Fates
  <2>3. orders' = Append(orders, o) /\ exch' = Append(exch, e) /\ UNCHANGED <<executions, aged>>
    BY <1>5, <2>1 DEF SaveProtection
  <2>4. /\ orders' \in Seq(OrderRow) /\ exch' \in Seq(Fates) /\ Len(exch') = Len(orders')
        /\ Len(orders') = Len(orders) + 1
        /\ \A i \in Ids(exch') : (exch'[i] = "none") = ~orders'[i].sent
        /\ \A i \in Ids(exch) : i \in Ids(exch') /\ exch'[i] = exch[i]
    <3> HIDE DEF o, e
    <3> QED BY <2>2, <2>3, OrderAdded
  <2>5. work'.at # "execution"
    <3>1. work.left - 1 \in 0 .. 2
      BY <1>0, <1>5, WorkFacts DEF SaveProtection
    <3>2. work' = Protecting(work.left - 1)
      BY <1>5 DEF SaveProtection, Goes
    <3> QED BY <3>1, <3>2, WorksMade
  <2>6. executions' \subseteq Ids(orders') /\ \A i \in executions' : exch'[i] = "filled"
    BY <1>0, <2>3, <2>4 DEF Ids
  <2>7. aged' \in 0 .. Len(orders')
    BY <1>0, <2>3, <2>4
  <2> QED BY <2>4, <2>5, <2>6, <2>7 DEF Orders
<1>6. CASE Gone \/ TakeOver \/ SaveSnapshot \/ RecordClosedTrade \/ Crash \/ ReadBalance
           \/ SaveEquity \/ SaveOpening \/ \E r \in Runs : Start(r) \/ ApplyRun(r)
  <2>1. UNCHANGED <<orders, executions, exch, aged>>
    BY <1>6 DEF Gone, TakeOver, SaveSnapshot, RecordClosedTrade, Crash, ReadBalance, SaveEquity,
       SaveOpening, Start, ApplyRun
  <2>2. work'.at = "execution" => work.at = "execution"
    <3>1. CASE Gone \/ TakeOver \/ Crash \/ ReadBalance \/ SaveOpening
      BY <3>1 DEF Gone, TakeOver, Crash, ReadBalance, SaveOpening, Goes, Snapshot, Idle
    <3>2. CASE SaveSnapshot \/ RecordClosedTrade
      <4>1. work.next \in Nexts
        BY <1>0, <3>2, WorkFacts DEF SaveSnapshot, RecordClosedTrade
      <4>2. work' = work.next \/ work'.at = "trade"
        BY <3>2 DEF SaveSnapshot, RecordClosedTrade, Goes
      <4> QED BY <4>1, <4>2, WorksMade
    <3>3. CASE SaveEquity
      <4>1. work \in [at : {"equity", "opening"}, amount : Balances]
        BY <1>0, <3>3, WorkFacts DEF SaveEquity
      <4> QED BY <3>3, <4>1 DEF SaveEquity, Goes, Idle
    <3>4. CASE \E r \in Runs : Start(r) \/ ApplyRun(r)
      BY <3>4 DEF Start, ApplyRun, Goes, Booting
    <3> QED BY <1>6, <3>1, <3>2, <3>3, <3>4
  <2> QED BY <1>1, <2>1, <2>2
<1>7. CASE ExchangeMoves
  <2>1. PICK i \in Ids(exch), e \in {"partial", "filled", "cancelled"} :
          exch[i] \in {"open", "partial"} /\ exch' = [exch EXCEPT ![i] = e]
    BY <1>7 DEF ExchangeMoves
  <2>2. UNCHANGED <<orders, executions, aged, work>>
    BY <1>7 DEF ExchangeMoves
  <2>3. /\ exch' \in Seq(Fates) /\ Len(exch') = Len(exch)
        /\ \A j \in Ids(exch) : exch'[j] = IF j = i THEN e ELSE exch[j]
    BY <1>0, <2>1 DEF Ids, Fates
  <2>4. \A j \in Ids(exch) : exch[j] = "filled" => exch'[j] = "filled"
    BY <2>1, <2>3
  <2>5. \A j \in Ids(exch) : (exch'[j] = "none") = (exch[j] = "none")
    BY <2>1, <2>3
  <2>6. orders # <<>> => Len(orders) \in Ids(exch)
    BY <1>0, EmptySeq DEF Ids
  <2>7. Ids(exch') = Ids(exch) /\ Ids(exch) = Ids(orders)
    BY <1>0, <2>3 DEF Ids
  <2> QED BY <1>0, <2>2, <2>3, <2>4, <2>5, <2>6, <2>7 DEF Orders
<1>8. CASE Passes \/ BeginReading \/ CountRows \/ SelectRows \/ UNCHANGED vars
  BY <1>1, <1>8 DEF Passes, BeginReading, CountRows, SelectRows, vars
<1> QED BY <1>2, <1>3, <1>4, <1>5, <1>6, <1>7, <1>8 DEF Next

\* What the order page shows is what became of the order (enrich_order_fill_status).
LEMMA StatusShown == Orders => StatusRight
<1> SUFFICES ASSUME Orders PROVE StatusRight
  OBVIOUS
<1>0. /\ orders \in Seq(OrderRow) /\ Len(exch) = Len(orders) /\ Len(orders) \in Nat
      /\ Ids(exch) = Ids(orders)
      /\ executions \subseteq Ids(orders) /\ \A i \in executions : exch[i] = "filled"
  BY DEF Orders, Ids
<1>1. ASSUME NEW i \in Ids(orders)
      PROVE  /\ orders[i].sent \in BOOLEAN /\ exch[i] \in Fates /\ (orders[i].sent <=> exch[i] # "none")
             /\ (i \in executions => exch[i] = "filled")
  <2>1. orders[i] \in OrderRow
    BY <1>0 DEF Ids
  <2>2. exch[i] \in Fates
    BY <1>0 DEF Ids, Orders
  <2>3. (exch[i] = "none") = ~orders[i].sent
    BY <1>0 DEF Orders
  <2> QED BY <1>0, <2>1, <2>2, <2>3 DEF OrderRow
<1>2. ASSUME NEW i \in Ids(orders), NEW reachable \in BOOLEAN
      PROVE  LET shown == Enriched(i, reachable) IN
               /\ shown = "FILLED" => exch[i] = "filled"
               /\ reachable /\ orders[i].sent => shown = ExchangeStatus(exch[i])
               /\ shown = "PENDING" /\ orders[i].type = "MARKET" /\ i <= aged =>
                    reachable /\ exch[i] = "open"
  <2>1. CASE i \in executions
    <3>1. FillStatus(i) = "FILLED" /\ exch[i] = "filled"
      BY <1>1, <2>1 DEF FillStatus
    <3>2. Enriched(i, reachable) = "FILLED" /\ ExchangeStatus(exch[i]) = "FILLED"
      BY <3>1 DEF Enriched, ExchangeStatus
    <3> QED BY <3>1, <3>2
  <2>2. CASE i \notin executions /\ orders[i].sent
    <3>1. FillStatus(i) = "PENDING" /\ exch[i] \in {"filled", "partial", "open", "cancelled"}
      BY <1>1, <2>2 DEF FillStatus, Fates
    <3>2. CASE reachable
      <4>1. Enriched(i, reachable) = ExchangeStatus(exch[i])
        BY <3>1, <3>2 DEF Enriched
      <4> QED BY <3>1, <3>2, <4>1 DEF ExchangeStatus
    <3>3. CASE ~reachable
      <4>1. Enriched(i, reachable) = IF orders[i].type = "MARKET" /\ i <= aged THEN "UNKNOWN" ELSE "PENDING"
        BY <3>1, <3>3 DEF Enriched
      <4> QED BY <3>3, <4>1
    <3> QED BY <3>2, <3>3
  <2>3. CASE i \notin executions /\ ~orders[i].sent
    <3>1. FillStatus(i) = "REJECTED"
      BY <2>3 DEF FillStatus
    <3>2. Enriched(i, reachable) = "REJECTED"
      BY <3>1 DEF Enriched
    <3> QED BY <2>3, <3>2
  <2> QED BY <2>1, <2>2, <2>3
<1> QED BY <1>2 DEF StatusRight

\* The lists that the page of executions is made of.
LEMMA OrderSets ==
  ASSUME Orders
  PROVE  /\ Len(orders) \in Nat /\ Ids(orders) \subseteq Int /\ IsFiniteSet(Ids(orders))
         /\ \A T \in SUBSET Ids(orders) : IsFiniteSet(T) /\ T \subseteq Int /\ Count(T) \in Nat
         /\ \A T \in SUBSET Ids(orders) : Count(T) <= Len(orders)
         /\ executions \in SUBSET Ids(orders) /\ Page(0) \in SUBSET Ids(orders)
         /\ \A T, n : Newest(T, n) \in SUBSET T /\ \A i : Newer(T, i) \in SUBSET T
<1>1. Len(orders) \in Nat /\ executions \in SUBSET Ids(orders)
  BY DEF Orders
<1>2. IsFiniteSet(Ids(orders)) /\ Cardinality(Ids(orders)) = Len(orders) /\ Ids(orders) \subseteq Int
  <2>1. CASE Len(orders) = 0
    BY <1>1, <2>1, FS_EmptySet DEF Ids
  <2>2. CASE Len(orders) # 0
    <3>1. IsFiniteSet(1 .. Len(orders)) /\ Cardinality(1 .. Len(orders)) = Len(orders) - 1 + 1
      BY <1>1, <2>2, FS_Interval
    <3> QED BY <1>1, <3>1 DEF Ids
  <2> QED BY <2>1, <2>2
<1>3. ASSUME NEW T \in SUBSET Ids(orders)
      PROVE  IsFiniteSet(T) /\ T \subseteq Int /\ Count(T) \in Nat /\ Count(T) <= Len(orders)
  BY <1>2, FS_Subset, FS_CardinalityType DEF Count
<1>4. Page(0) \in SUBSET Ids(orders)
  BY <1>1 DEF Page, Ids
<1>5. \A T, n : Newest(T, n) \in SUBSET T /\ \A i : Newer(T, i) \in SUBSET T
  BY DEF Newest, Newer
<1> QED BY <1>1, <1>2, <1>3, <1>4, <1>5

\* Only fills are listed, and a filled order of which no execution was saved is synthetic as
\* long as the exchange answers (synthetic_execution_from_order).
LEMMA ListedAreFilled ==
  ASSUME Orders
  PROVE  /\ \A i \in executions : exch[i] = "filled"
         /\ \A reachable \in BOOLEAN : \A i \in Extras(reachable) : exch[i] = "filled"
         /\ \A i \in Ids(orders) \ executions : exch[i] = "filled" => Synthetic(i, TRUE)
<1>1. \A i \in executions : exch[i] = "filled"
  BY DEF Orders
<1>2. ASSUME NEW reachable \in BOOLEAN, NEW i \in Extras(reachable) PROVE exch[i] = "filled"
  <2>1. i \in Ids(orders) /\ Enriched(i, reachable) = "FILLED"
    BY OrderSets DEF Extras, Synthetic
  <2> QED BY <2>1, StatusShown DEF StatusRight
<1>3. ASSUME NEW i \in Ids(orders) \ executions, exch[i] = "filled" PROVE Synthetic(i, TRUE)
  <2>1. i \in Ids(exch) /\ orders[i] \in OrderRow
    BY DEF Orders, Ids
  <2>2. orders[i].sent
    <3>1. (exch[i] = "none") = ~orders[i].sent /\ orders[i].sent \in BOOLEAN
      BY <2>1 DEF Orders, OrderRow
    <3> QED BY <1>3, <3>1
  <2>3. Enriched(i, TRUE) = "FILLED"
    <3>1. Enriched(i, TRUE) = ExchangeStatus(exch[i])
      BY <2>2, StatusShown DEF StatusRight
    <3> QED BY <1>3, <3>1 DEF ExchangeStatus
  <2> QED BY <2>2, <2>3 DEF Synthetic
<1> QED BY <1>1, <1>2, <1>3

\* Where a fill is listed: on the first page, behind a page of newer ones, or on no page for want
\* of an execution row or because a fill without one took its place (list_executions).
LEMMA PagesRight ==
  ASSUME Orders, NEW reachable \in BOOLEAN
  PROVE  PagesOfFills(reachable)
<1> DEFINE S == ExecutionPage(0) \cup Extras(reachable)
           first == ListedExecutions(0, reachable)
<1>0. Limit \in Nat \ {0} /\ Len(orders) \in Nat
  BY RecordsAssumption, OrderSets
<1>1. first = Newest(S, Limit)
  BY DEF ListedExecutions
<1>2. /\ S \in SUBSET Ids(orders) /\ IsFiniteSet(S) /\ S \subseteq Int
      /\ executions \in SUBSET Ids(orders) /\ IsFiniteSet(executions) /\ executions \subseteq Int
  <2>1. S \in SUBSET Ids(orders)
    BY OrderSets DEF ExecutionPage, Extras
  <2> HIDE DEF S
  <2> QED BY <2>1, OrderSets
<1>3. ExecutionPage(0) = Newest(executions, Limit)
  <2>1. ASSUME NEW i \in executions PROVE Count(Newer(executions, i)) \in Nat
    BY OrderSets
  <2> QED BY <1>0, <2>1 DEF ExecutionPage, Newest
<1> HIDE DEF S, first
<1>4. \A T \in SUBSET Ids(orders) : \A V \in SUBSET T : Count(V) <= Count(T)
  <2> SUFFICES ASSUME NEW T \in SUBSET Ids(orders), NEW V \in SUBSET T PROVE Count(V) <= Count(T)
    OBVIOUS
  <2> QED BY OrderSets, FS_Subset DEF Count
<1>5. ASSUME NEW i \in Ids(orders), i \in S \/ Count(Newer(S, i)) >= Limit
      PROVE  i \in first \/ Count(Newer(first, i)) >= Limit
  <2>1. i \in Int /\ Count(Newer(S, i)) \in Nat
    BY <1>2, OrderSets
  <2>2. CASE Count(Newer(S, i)) >= Limit
    BY <1>0, <1>1, <1>2, <2>1, <2>2, CutHasNewer
  <2>3. CASE i \in S /\ ~(Count(Newer(S, i)) >= Limit)
    BY <1>0, <1>1, <2>1, <2>3 DEF Newest
  <2> QED BY <1>5, <2>2, <2>3
<1>6. ASSUME NEW i \in Ids(orders), reachable, exch[i] = "filled"
      PROVE  \/ i \in first
             \/ Count(Newer(first, i)) >= Limit
             \/ i \notin executions /\ i <= Len(orders) - Limit
  <2>0. i \in Int
    BY OrderSets
  <2>1. CASE i \in ExecutionPage(0)
    BY <1>5, <2>1 DEF S
  <2>2. CASE i \in executions /\ i \notin ExecutionPage(0)
    <3>1. Count(Newer(executions, i)) >= Limit
      <4>1. Count(Newer(executions, i)) \in Nat
        BY <1>2, OrderSets
      <4> QED BY <1>0, <1>3, <2>2, <4>1 DEF Newest
    <3>2. Count(Newer(ExecutionPage(0), i)) >= Limit
      BY <1>0, <1>2, <1>3, <2>0, <3>1, CutHasNewer
    <3>3. Newer(ExecutionPage(0), i) \in SUBSET Newer(S, i) /\ Newer(S, i) \in SUBSET Ids(orders)
      <4>1. Newer(S, i) \in SUBSET Ids(orders)
        BY <1>2, OrderSets
      <4> QED BY <4>1 DEF Newer, S
    <3>4. /\ Count(Newer(ExecutionPage(0), i)) <= Count(Newer(S, i))
          /\ Count(Newer(ExecutionPage(0), i)) \in Nat /\ Count(Newer(S, i)) \in Nat
      BY <1>4, <3>3, OrderSets
    <3>5. Count(Newer(S, i)) >= Limit
      BY <1>0, <3>2, <3>4
    <3> QED BY <1>5, <3>5
  <2>3. CASE i \notin executions
    <3>1. Synthetic(i, reachable)
      <4>1. Synthetic(i, TRUE) /\ reachable = TRUE
        BY <1>6, <2>3, ListedAreFilled
      <4> QED BY <4>1
    <3>2. CASE i \in Page(0)
      <4>1. i \in S
        BY <3>1, <3>2 DEF S, Extras
      <4> QED BY <1>5, <4>1
    <3>3. CASE i \notin Page(0)
      <4>1. SUFFICES ASSUME i > Len(orders) - Limit PROVE FALSE
        BY <1>0, <2>0, <2>3
      <4>2. Len(orders) + 1 - i \in {k \in Ids(orders) : k > 0 /\ k <= 0 + Limit}
        BY <1>0, <2>0, <4>1 DEF Ids
      <4>3. i = Len(orders) + 1 - (Len(orders) + 1 - i)
        BY <1>0, <2>0
      <4> QED BY <3>3, <4>2, <4>3 DEF Page
    <3> QED BY <3>2, <3>3
  <2> QED BY <2>1, <2>2, <2>3
<1>7. ASSUME NEW i \in executions
      PROVE  \/ \E k \in 0 .. Len(orders) : i \in ListedExecutions(k * Limit, reachable)
             \/ \E j \in first \ executions : j > i
  <2> DEFINE r == Count(Newer(executions, i))
  <2>1. r \in Nat /\ r <= Len(orders) /\ i \in Ids(orders) /\ i \in Int
    BY <1>2, OrderSets
  <2>2. PICK k \in 0 .. r : k * Limit <= r /\ r < k * Limit + Limit
    <3> HIDE DEF r
    <3> QED BY <2>1, PageOfPlace
  <2>3. k \in 0 .. Len(orders) /\ i \in ExecutionPage(k * Limit)
    <3>1. k \in 0 .. Len(orders)
      BY <1>0, <2>1, <2>2
    <3> QED BY <2>2, <3>1 DEF ExecutionPage
  <2>4. CASE k # 0
    <3>1. k * Limit # 0
      BY <1>0, <2>3, <2>4
    <3> QED BY <2>3, <3>1 DEF ListedExecutions
  <2>5. CASE k = 0
    <3>1. k * Limit = 0 /\ r < Limit
      BY <1>0, <2>1, <2>2, <2>5
    <3>2. i \in S
      BY <2>3, <3>1 DEF S
    <3>3. CASE i \in first
      <4>1. i \in ListedExecutions(k * Limit, reachable)
        BY <3>1, <3>3 DEF first
      <4> QED BY <2>3, <4>1
    <3>4. CASE i \notin first
      <4> DEFINE X == {x \in Newer(S, i) : x \notin executions}
                 D == {Len(orders) - x : x \in X}
      <4>1. Newer(S, i) \in SUBSET Ids(orders) /\ Count(Newer(S, i)) \in Nat
              /\ Newer(executions, i) \in SUBSET Ids(orders)
        BY <1>2, OrderSets
      <4>2. Count(Newer(S, i)) >= Limit
        BY <1>0, <1>1, <3>2, <3>4, <4>1 DEF Newest
      <4>3. X # {}
        <5>1. SUFFICES ASSUME X = {} PROVE FALSE
          OBVIOUS
        <5>2. Newer(S, i) \in SUBSET Newer(executions, i)
          BY <5>1 DEF Newer
        <5>3. Count(Newer(S, i)) <= r
          BY <1>4, <4>1, <5>2
        <5> QED BY <1>0, <2>1, <3>1, <4>1, <4>2, <5>3
      <4>4. D \in SUBSET Nat /\ D # {}
        <5>1. \A x \in X : Len(orders) - x \in Nat
          BY <1>0, <4>1 DEF Ids
        <5> QED BY <4>3, <5>1
      <4>5. PICK j \in X : \A x \in X : Len(orders) - j <= Len(orders) - x
        <5>1. PICK e \in D : \A m \in D : e <= m
          <6> HIDE DEF D
          <6> QED BY <4>4, LeastNatural
        <5> QED BY <5>1
      <4>6. j \in S /\ j \notin executions /\ j > i /\ j \in Int
        BY <4>1, <4>5, OrderSets DEF Newer
      <4>7. \A x \in X : x \in Int /\ ~(x > j)
        <5>1. \A x \in X : x \in Int
          BY <4>1, OrderSets
        <5> QED BY <1>0, <4>5, <4>6, <5>1
      <4>8. Newer(S, j) \in SUBSET Newer(executions, i)
        <5>1. ASSUME NEW x \in Newer(S, j) PROVE x \in Newer(executions, i)
          <6>1. x \in S /\ x > j /\ x \in Int
            BY <1>2, <5>1 DEF Newer
          <6>2. x > i
            BY <2>1, <4>6, <6>1
          <6>3. x \in executions
            BY <4>7, <6>1, <6>2 DEF Newer
          <6> QED BY <6>2, <6>3 DEF Newer
        <5> QED BY <5>1
      <4>9. Count(Newer(S, j)) <= r /\ Count(Newer(S, j)) \in Nat
        <5>1. Newer(S, j) \in SUBSET Ids(orders)
          BY <1>2, OrderSets
        <5> QED BY <1>4, <4>1, <4>8, <5>1, OrderSets
      <4>10. j \in first
        BY <1>0, <1>1, <2>1, <3>1, <4>6, <4>9 DEF Newest
      <4> QED BY <4>6, <4>10
    <3> QED BY <3>3, <3>4
  <2> QED BY <2>4, <2>5
<1> QED BY <1>6, <1>7 DEF PagesOfFills, first

\* The order page and the pages of executions.
LEMMA OrdersShown == Orders => FillsShown
<1> SUFFICES ASSUME Orders PROVE FillsShown
  OBVIOUS
<1>1. ASSUME NEW offset, NEW reachable \in BOOLEAN, NEW i \in ListedExecutions(offset, reachable)
      PROVE  exch[i] = "filled"
  <2>1. i \in executions \cup Extras(reachable)
    BY <1>1 DEF ListedExecutions, ExecutionPage, Newest
  <2> QED BY <2>1, ListedAreFilled
<1> QED BY <1>1, StatusShown, PagesRight DEF FillsShown

-----------------------------------------------------------------------------
(* The engine and the other tables *)

\* Every commit writes rows of its table.
LEMMA EngineStep == Engine /\ [Next]_vars => Engine'
<1> SUFFICES ASSUME Engine, [Next]_vars PROVE Engine'
  OBVIOUS
<1> USE DEF tables, engine, time
<1> DEFINE Mems == {NoPosition} \cup [run : Runs, small : BOOLEAN]
           Days2 == [Runs \X Days -> DailyRow \cup {None}]
<1>0. /\ run \in Runs /\ day \in Days /\ work \in Works /\ mem \in Mems
      /\ snaps \in Seq(SnapshotRow) /\ trades \in Seq(TradeRow) /\ equity \in Seq(EquityRow)
      /\ daily \in Days2 /\ (work.at = "opening" => equity # <<>>)
  BY DEF Engine
<1>1. ASSUME UNCHANGED <<snaps, trades, equity, daily>>, run' \in Runs, day' \in Days, mem' \in Mems,
             work' \in Works, work'.at = "opening" => work.at = "opening"
      PROVE  Engine'
  BY <1>0, <1>1 DEF Engine
<1>2. ASSUME NEW row \in Made, NEW x \in Nexts, work' = Snapshot(row, x), mem' \in Mems,
             UNCHANGED <<snaps, trades, equity, daily, run, day>>
      PROVE  Engine'
  BY <1>0, <1>1, <1>2, WorksMade
<1>3. ASSUME NEW said \in {"rejected", "open", "filled"}, Send(said) PROVE Engine'
  BY <1>0, <1>1, <1>3, WorksMade DEF Send, Goes
<1>4. CASE SaveRequest
  <2>1. work' \in Works /\ work'.at # "opening"
    BY <1>4, WorksMade DEF SaveRequest, Goes
  <2> QED BY <1>0, <1>1, <1>4, <2>1 DEF SaveRequest
<1>5. CASE SaveExecution
  <2>1. UNCHANGED <<snaps, trades, equity, daily, run, day>>
    BY <1>5 DEF SaveExecution
  <2>2. CASE mem = NoPosition
    <3>1. PICK small \in BOOLEAN, n \in 0 .. 2 :
            /\ mem' = [run |-> run, small |-> small]
            /\ work' = Snapshot(OpenRow([run |-> run, small |-> small]), Protecting(n))
      BY <1>5, <2>2 DEF SaveExecution, Goes
    <3>2. [run |-> run, small |-> small] \in [run : Runs, small : BOOLEAN]
      BY <1>0
    <3>3. OpenRow([run |-> run, small |-> small]) \in Made
      <4>1. 0 \in Pnls \cup {0}
        OBVIOUS
      <4> QED BY <1>0, <3>2 DEF OpenRow, SnapshotRow, Made
    <3>4. Protecting(n) \in Nexts
      BY WorksMade
    <3> QED BY <1>2, <2>1, <3>1, <3>2, <3>3, <3>4
  <2>3. CASE mem # NoPosition
    <3>1. PICK pnl \in Pnls : mem' = NoPosition /\ work' = Snapshot(ClosedRow(mem, pnl), Idle)
      BY <1>5, <2>3 DEF SaveExecution, Goes
    <3>2. ClosedRow(mem, pnl) \in Made
      BY <1>0, <2>3, RowFacts
    <3> QED BY <1>2, <2>1, <3>1, <3>2, WorksMade
  <2> QED BY <2>2, <2>3
<1>6. CASE Gone
  <2>1. PICK pnl \in Pnls : mem' = NoPosition /\ work' = Snapshot(ClosedRow(mem, pnl), AfterSync)
    BY <1>6 DEF Gone, Goes
  <2>2. ClosedRow(mem, pnl) \in Made
    BY <1>0, <1>6, RowFacts DEF Gone
  <2> QED BY <1>2, <1>6, <2>1, <2>2, WorksMade DEF Gone
<1>7. CASE TakeOver
  <2> DEFINE p == [run |-> run, small |-> FALSE]
  <2>1. p \in [run : Runs, small : BOOLEAN] /\ mem' = p /\ work' = Snapshot(OpenRow(p), AfterSync)
    BY <1>0, <1>7 DEF TakeOver, Goes, OpenRow
  <2>2. OpenRow(p) \in Made
    BY <1>0 DEF OpenRow, SnapshotRow, Made
  <2> QED BY <1>2, <1>7, <2>1, <2>2, WorksMade DEF TakeOver
<1>8. CASE SaveSnapshot
  <2>1. work.row \in Made /\ work.next \in Nexts /\ work.row \in SnapshotRow
    BY <1>0, <1>8, WorkFacts DEF SaveSnapshot, Made
  <2>2. snaps' = Append(snaps, work.row) /\ UNCHANGED <<trades, equity, daily, run, day, mem>>
    BY <1>8 DEF SaveSnapshot
  <2>3. snaps' \in Seq(SnapshotRow)
    BY <1>0, <2>1, <2>2, AppendProperties
  <2>4. work' \in Works /\ work'.at # "opening"
    <3>1. Len(snaps) + 1 \in Nat \ {0}
      BY <1>0
    <3>2. CASE Books(work.row)
      BY <1>8, <2>1, <3>1, <3>2, WorksMade DEF SaveSnapshot, Goes
    <3>3. CASE ~Books(work.row)
      BY <1>8, <2>1, <3>3, WorksMade DEF SaveSnapshot, Goes
    <3> QED BY <3>2, <3>3
  <2> QED BY <1>0, <2>2, <2>3, <2>4 DEF Engine
<1>9. CASE RecordClosedTrade
  <2>1. /\ work.row \in SnapshotRow /\ work.row.pnl \in Pnls /\ work.snap \in Nat \ {0}
        /\ work.next \in Nexts
    BY <1>0, <1>9, WorkFacts DEF RecordClosedTrade, Made, Books
  <2> DEFINE t == [run |-> work.row.run, pnl |-> work.row.pnl, day |-> work.row.day, snap |-> work.snap]
  <2>2. /\ trades' = Append(trades, t) /\ work' = work.next
        /\ UNCHANGED <<snaps, equity, run, day, mem>>
        /\ daily' = [daily EXCEPT ![<<work.row.run, work.row.day>>]
                       = Upsert(Row(work.row.run, work.row.day), work.row.pnl)]
    BY <1>9 DEF RecordClosedTrade, BookedDay, Goes
  <2>3. work.row.run \in Runs /\ work.row.day \in Days /\ work.row.pnl \in Pnls \cup {0}
    BY <2>1 DEF SnapshotRow
  <2>4. Upsert(Row(work.row.run, work.row.day), work.row.pnl) \in DailyRow
    BY <2>3, DailyFacts
  <2>5. daily' \in Days2
    BY <1>0, <2>2, <2>4
  <2>6. t \in TradeRow
    BY <2>1, <2>3, RecordsAssumption DEF TradeRow
  <2>7. trades' \in Seq(TradeRow)
    BY <1>0, <2>2, <2>6, AppendProperties
  <2>8. work' \in Works /\ work'.at # "opening"
    BY <2>1, <2>2, WorksMade
  <2> QED BY <1>0, <2>2, <2>5, <2>7, <2>8 DEF Engine
<1>10. CASE SaveProtection
  <2>1. work.left \in 1 .. 2
    BY <1>0, <1>10, WorkFacts DEF SaveProtection
  <2>2. work' \in Works /\ work'.at # "opening"
    <3>1. work.left - 1 \in 0 .. 2 /\ work' = Protecting(work.left - 1)
      BY <1>10, <2>1 DEF SaveProtection, Goes
    <3> QED BY <3>1, WorksMade
  <2> QED BY <1>0, <1>1, <1>10, <2>2 DEF SaveProtection
<1>11. CASE Crash
  BY <1>0, <1>1, <1>11, WorksMade DEF Crash, Goes
<1>12. ASSUME NEW r \in Runs, Start(r) PROVE Engine'
  <2>1. mem' \in Mems
    <3>1. CASE LatestOpen = {}
      BY <1>12, <3>1 DEF Start
    <3>2. CASE LatestOpen # {}
      <4>1. snaps # <<>> /\ mem' = [run |-> Last(snaps).run, small |-> Last(snaps).small]
        BY <1>12, <3>2 DEF Start, LatestOpen
      <4>2. Last(snaps) \in SnapshotRow
        BY <1>0, <4>1, EmptySeq DEF Last
      <4> QED BY <4>1, <4>2 DEF SnapshotRow
    <3> QED BY <3>1, <3>2
  <2>2. work' \in Works /\ work'.at # "opening"
    BY <1>12, WorksMade DEF Start, Goes
  <2> QED BY <1>0, <1>1, <1>12, <2>1, <2>2 DEF Start
<1>13. CASE SaveEquity
  <2>1. work \in [at : {"equity", "opening"}, amount : Balances]
    BY <1>0, <1>13, WorkFacts DEF SaveEquity
  <2>2. CASE equity' = Append(equity, [run |-> run, day |-> day, amount |-> work.amount])
             /\ work' = [work EXCEPT !.at = "opening"]
    <3>1. [run |-> run, day |-> day, amount |-> work.amount] \in EquityRow
      BY <1>0, <2>1 DEF EquityRow
    <3>2. equity' \in Seq(EquityRow) /\ equity' # <<>>
      BY <1>0, <2>2, <3>1, AppendProperties
    <3>3. work' \in [at : {"equity", "opening"}, amount : Balances]
      BY <2>1, <2>2
    <3>4. work' \in Works
      BY <3>3 DEF Works
    <3> QED BY <1>0, <1>13, <3>2, <3>4 DEF SaveEquity, Engine
  <2>3. CASE work' = Idle /\ equity' = equity
    BY <1>0, <1>1, <1>13, <2>3, WorksMade DEF SaveEquity
  <2> QED BY <1>13, <2>2, <2>3 DEF SaveEquity, Goes
<1>14. CASE SaveOpening
  <2>1. work \in [at : {"equity", "opening"}, amount : Balances] /\ equity # <<>>
    BY <1>0, <1>14, WorkFacts DEF SaveOpening
  <2>2. Last(equity) \in EquityRow
    BY <1>0, <2>1, EmptySeq DEF Last
  <2>3. Last(equity).day \in Days /\ work.amount \in Balances
    BY <2>1, <2>2 DEF EquityRow
  <2> DEFINE d == Last(equity).day
             e == Closing([Row(run, d) EXCEPT !.opening = work.amount])
  <2>4. e \in DailyRow
    BY <1>0, <2>3, DailyFacts
  <2>5. daily' \in {daily, [daily EXCEPT ![<<run, d>>] = e]}
    BY <1>14 DEF SaveOpening
  <2>6. daily' \in Days2
    <3> HIDE DEF e, d
    <3> QED BY <1>0, <2>4, <2>5
  <2>7. /\ work' = Idle /\ UNCHANGED <<snaps, trades, equity, run, day, mem>>
    BY <1>14 DEF SaveOpening, Goes
  <2> QED BY <1>0, <2>6, <2>7, WorksMade DEF Engine
<1>15. ASSUME NEW r \in Runs, ApplyRun(r) PROVE Engine'
  BY <1>0, <1>1, <1>15 DEF ApplyRun
<1>16. CASE Passes
  <2>1. day' \in Days
    BY <1>0, <1>16, RecordsAssumption DEF Passes, Days
  <2> QED BY <1>0, <1>1, <1>16, <2>1 DEF Passes
<1>17. CASE ExchangeMoves \/ BeginReading \/ CountRows \/ SelectRows \/ UNCHANGED vars
  BY <1>0, <1>1, <1>17 DEF ExchangeMoves, BeginReading, CountRows, SelectRows, vars
<1>18. CASE ReadBalance
  <2>1. work' \in Works /\ work'.at # "opening"
    BY <1>18, WorksMade DEF ReadBalance, Goes
  <2> QED BY <1>0, <1>1, <1>18, <2>1 DEF ReadBalance
<1> QED BY <1>3, <1>4, <1>5, <1>6, <1>7, <1>8, <1>9, <1>10, <1>11, <1>12, <1>13, <1>14, <1>15,
           <1>16, <1>17, <1>18 DEF Next

\* The tables are empty at first.
LEMMA RecordsInit == Init => Orders /\ Engine /\ Reader
<1> SUFFICES ASSUME Init PROVE Orders /\ Engine /\ Reader
  OBVIOUS
<1>1. 0 \in Days
  BY RecordsAssumption DEF Days
<1>2. Orders
  BY DEF Init, Orders, Ids, Idle
<1>3. daily \in [Runs \X Days -> DailyRow \cup {None}]
  BY DEF Init
<1>4. Engine
  BY <1>1, <1>3, WorksMade DEF Init, Engine
<1>5. Reader
  BY DEF Init, Reader
<1> QED BY <1>2, <1>4, <1>5

\* Every row has its type, for any sets of runs, results and balances.
THEOREM RecordsTypes == Spec => []TypeOK
<1>1. ASSUME Orders, Engine PROVE TypeOK
  <2>1. /\ orders \in Seq(OrderRow) /\ executions \subseteq Ids(orders) /\ Len(exch) = Len(orders)
        /\ \A i \in Ids(exch) : (exch[i] = "none") = ~orders[i].sent
        /\ aged \in 0 .. Len(orders)
    BY <1>1 DEF Orders
  <2>2. /\ snaps \in Seq(SnapshotRow) /\ trades \in Seq(TradeRow) /\ equity \in Seq(EquityRow)
        /\ (mem = NoPosition \/ mem \in [run : Runs, small : BOOLEAN])
        /\ run \in Runs /\ day \in Days
        /\ daily \in [Runs \X Days -> DailyRow \cup {None}]
    BY <1>1 DEF Engine
  <2>3. ASSUME NEW r \in Runs, NEW d \in Days, daily[<<r, d>>] # None
        PROVE  daily[<<r, d>>] \in DailyRow
    BY <2>2, <2>3
  <2> QED BY <2>1, <2>2, <2>3 DEF TypeOK
<1> QED BY <1>1, RecordsInit, OrdersStep, EngineStep, PTL DEF Spec

\* The order page shows what became of every order, filled only if it is filled, only fills are
\* listed as executions, and those that are on no page are the ones its rule of merging leaves
\* out, for any limit of a page (list_orders, list_executions).
THEOREM FillsAreShown == Spec => []FillsShown
  BY RecordsInit, OrdersStep, EngineStep, OrdersShown, PTL DEF Spec

-----------------------------------------------------------------------------
(* Paging *)

\* A full page has as many rows as the limit.
LEMMA FullPage ==
  ASSUME Len(orders) \in Nat, NEW o \in Nat, o + Limit <= Len(orders)
  PROVE  Count(Page(o)) = Limit
<1>0. Limit \in Nat \ {0}
  BY RecordsAssumption
<1> DEFINE a == Len(orders) - o - Limit + 1
           b == Len(orders) - o
<1>1. Page(o) = a .. b
  <2>1. ASSUME NEW i \in a .. b PROVE i \in Page(o)
    <3>1. Len(orders) + 1 - i \in {k \in Ids(orders) : k > o /\ k <= o + Limit}
      BY <1>0 DEF Ids
    <3>2. i = Len(orders) + 1 - (Len(orders) + 1 - i)
      OBVIOUS
    <3> QED BY <3>1, <3>2 DEF Page
  <2>2. ASSUME NEW i \in Page(o) PROVE i \in a .. b
    <3>1. PICK k \in Ids(orders) : k > o /\ k <= o + Limit /\ i = Len(orders) + 1 - k
      BY DEF Page
    <3> QED BY <1>0, <3>1 DEF Ids
  <2> QED BY <2>1, <2>2
<1>2. a \in Int /\ b \in Int /\ a <= b /\ b - a + 1 = Limit
  BY <1>0
<1>3. Cardinality(a .. b) = b - a + 1
  <2> HIDE DEF a, b
  <2> QED BY <1>2, FS_Interval
<1> QED BY <1>1, <1>2, <1>3 DEF Count

\* What a client read stays with it while orders are added.
LEMMA ReaderWaits ==
  ASSUME Reader, Len(orders) \in Nat, Len(orders') \in Nat, Len(orders) <= Len(orders'), reader' = reader
  PROVE  Reader'
<1>1. CASE reader = [at |-> "off"]
  BY <1>1 DEF Reader
<1>2. CASE reader # [at |-> "off"]
  <2>1. /\ reader \in Reading /\ reader.start \subseteq Ids(orders) /\ PagesSkipNothing
        /\ reader.at # "done" =>
             \A i \in reader.start : i > Len(orders) - reader.offset => i \in reader.seen
    BY <1>2 DEF Reader
  <2>2. reader.offset \in Nat
    BY <2>1 DEF Reading
  <2>3. reader.start \subseteq Ids(orders') /\ \A i \in reader.start : i \in Int
    BY <2>1 DEF Ids
  <2>4. \A i \in reader.start : i > Len(orders') - reader.offset => i > Len(orders) - reader.offset
    BY <2>2, <2>3
  <2> QED BY <2>1, <2>3, <2>4 DEF Reader, PagesSkipNothing
<1> QED BY <1>1, <1>2

\* The list only grows.
LEMMA ListGrows ==
  ASSUME Orders, Engine, [Next]_vars
  PROVE  /\ Len(orders) \in Nat /\ Len(orders') \in Nat /\ Len(orders) <= Len(orders')
         /\ reader' = reader \/ BeginReading \/ CountRows \/ SelectRows
<1> USE DEF tables, engine, time
<1>1. orders \in Seq(OrderRow) /\ orders' \in Seq(OrderRow)
  BY OrdersStep DEF Orders
<1>2. orders' = orders \/ \E o : orders' = Append(orders, o)
  BY DEF Next, Send, SaveRequest, SaveExecution, Gone, TakeOver, SaveSnapshot, RecordClosedTrade,
     SaveProtection, Crash, ReadBalance, SaveEquity, SaveOpening, Start, ApplyRun, ExchangeMoves, Passes,
     BeginReading, CountRows, SelectRows, vars
<1>3. reader' = reader \/ BeginReading \/ CountRows \/ SelectRows
  BY DEF Next, Send, SaveRequest, SaveExecution, Gone, TakeOver, SaveSnapshot, RecordClosedTrade,
     SaveProtection, Crash, ReadBalance, SaveEquity, SaveOpening, Start, ApplyRun, ExchangeMoves, Passes, vars
<1>4. Len(orders) <= Len(orders')
  <2>1. ASSUME NEW o, orders' = Append(orders, o) PROVE Len(orders') = Len(orders) + 1
    BY <1>1, <2>1
  <2> QED BY <1>1, <1>2, <2>1
<1> QED BY <1>1, <1>3, <1>4

\* Pages that are read follow on one another, however many orders are added between them; the
\* last one reaches the first order unless one was added since the count.
LEMMA ReaderStep == Orders /\ Engine /\ Reader /\ [Next]_vars => Reader'
<1> SUFFICES ASSUME Orders, Engine, Reader, [Next]_vars PROVE Reader'
  OBVIOUS
<1>0. /\ Len(orders) \in Nat /\ Len(orders') \in Nat /\ Len(orders) <= Len(orders')
      /\ reader' = reader \/ BeginReading \/ CountRows \/ SelectRows
      /\ Limit \in Nat \ {0}
  BY ListGrows, RecordsAssumption
<1> USE DEF tables
<1>1. CASE reader' = reader
  BY <1>0, <1>1, ReaderWaits
<1>2. CASE BeginReading
  <2>1. /\ orders' = orders
        /\ reader' = [at |-> "count", offset |-> 0, total |-> 0, seen |-> {}, raced |-> FALSE,
                      start |-> Ids(orders)]
    BY <1>2 DEF BeginReading
  <2>2. Ids(orders) \in SUBSET Nat
    BY <1>0 DEF Ids
  <2>3. reader' \in Reading
    BY <2>1, <2>2 DEF Reading
  <2>4. \A i \in Ids(orders) : ~(i > Len(orders) - 0)
    BY <1>0 DEF Ids
  <2> QED BY <2>1, <2>3, <2>4 DEF Reader, PagesSkipNothing
<1>3. CASE CountRows
  <2>1. reader.at = "count" /\ reader' = [reader EXCEPT !.at = "rows", !.total = Len(orders)]
          /\ orders' = orders
    BY <1>3 DEF CountRows
  <2>2. /\ reader \in Reading /\ reader.start \subseteq Ids(orders)
        /\ \A i \in reader.start : i > Len(orders) - reader.offset => i \in reader.seen
    BY <2>1 DEF Reader
  <2>3. /\ reader' \in Reading /\ reader'.at = "rows" /\ reader'.start = reader.start
        /\ reader'.seen = reader.seen /\ reader'.offset = reader.offset
    BY <1>0, <2>1, <2>2 DEF Reading
  <2> QED BY <2>1, <2>2, <2>3 DEF Reader, PagesSkipNothing
<1>4. CASE SelectRows
  <2> DEFINE page == Page(reader.offset)
             more == HasMore(reader.offset, Count(page), reader.total)
  <2>1. /\ reader.at = "rows" /\ orders' = orders
        /\ reader' = [reader EXCEPT !.at = IF more THEN "count" ELSE "done",
                                    !.seen = @ \cup page,
                                    !.raced = Len(orders) # reader.total,
                                    !.offset = IF more THEN @ + Limit ELSE @]
    BY <1>4 DEF SelectRows
  <2>2. /\ reader \in Reading /\ reader.start \subseteq Ids(orders)
        /\ \A i \in reader.start : i > Len(orders) - reader.offset => i \in reader.seen
    BY <2>1 DEF Reader
  <2>3. reader.offset \in Nat /\ reader.total \in Nat /\ reader.seen \subseteq Nat
          /\ reader.start \subseteq Nat
    BY <2>2 DEF Reading
  <2>4. page \subseteq Nat
    BY <1>0, <2>3 DEF Page, Ids
  <2>5. \A i \in reader.start : i > Len(orders) - reader.offset - Limit => i \in reader.seen \cup page
    <3>1. SUFFICES ASSUME NEW i \in reader.start, i > Len(orders) - reader.offset - Limit,
                          ~(i > Len(orders) - reader.offset)
                   PROVE  i \in page
      BY <2>2
    <3>2. i \in Nat /\ i >= 1 /\ i <= Len(orders)
      BY <1>0, <2>2, <2>3 DEF Ids
    <3>3. Len(orders) + 1 - i \in {k \in Ids(orders) : k > reader.offset /\ k <= reader.offset + Limit}
      BY <1>0, <2>3, <3>1, <3>2 DEF Ids
    <3>4. i = Len(orders) + 1 - (Len(orders) + 1 - i)
      BY <1>0, <3>2
    <3> QED BY <3>3, <3>4 DEF Page
  <2>6. ASSUME ~more, Len(orders) = reader.total PROVE reader.start \subseteq reader.seen \cup page
    <3>1. reader.offset + Limit >= Len(orders)
      <4>1. SUFFICES ASSUME reader.offset + Limit <= Len(orders)
                     PROVE  reader.offset + Limit >= Len(orders)
        BY <1>0, <2>3
      <4>2. Count(page) = Limit
        BY <1>0, <2>3, <4>1, FullPage
      <4> QED BY <1>0, <2>3, <2>6, <4>2 DEF HasMore
    <3>2. \A i \in reader.start : i >= 1 /\ i \in Nat
      BY <1>0, <2>2 DEF Ids
    <3> QED BY <1>0, <2>3, <2>5, <3>1, <3>2
  <2>7. more \in BOOLEAN /\ (Len(orders) # reader.total) \in BOOLEAN
    BY DEF HasMore
  <2> HIDE DEF page, more
  <2>8. /\ reader' \in Reading /\ reader'.start = reader.start
        /\ reader'.seen = reader.seen \cup page
        /\ reader'.at = (IF more THEN "count" ELSE "done")
        /\ reader'.offset = (IF more THEN reader.offset + Limit ELSE reader.offset)
    <3> DEFINE a == IF more THEN "count" ELSE "done"
               sn == reader.seen \cup page
               rc == Len(orders) # reader.total
               o == IF more THEN reader.offset + Limit ELSE reader.offset
    <3>1. a \in {"count", "rows", "done"} /\ sn \in SUBSET Nat /\ rc \in BOOLEAN /\ o \in Nat
      <4>1. a \in {"count", "rows", "done"} /\ sn \in SUBSET Nat
        BY <2>3, <2>4
      <4>2. rc \in BOOLEAN
        BY <2>7, Zenon
      <4>3. o \in Nat
        BY <1>0, <2>3
      <4> QED BY <4>1, <4>2, <4>3
    <3>2. reader' = [reader EXCEPT !.at = a, !.seen = sn, !.raced = rc, !.offset = o]
      BY <2>1
    <3> HIDE DEF a, sn, rc, o
    <3>3. /\ reader' \in Reading /\ reader'.start = reader.start
          /\ reader'.seen = sn /\ reader'.at = a /\ reader'.offset = o
      BY <2>2, <3>1, <3>2 DEF Reading
    <3> QED BY <3>3 DEF a, sn, o
  <2>9. reader'.raced = (Len(orders) # reader.total)
    BY <2>1, <2>2, Zenon DEF Reading
  <2>10. CASE more
    <3>1. \A i \in reader.start : i > Len(orders) - (reader.offset + Limit) => i \in reader.seen \cup page
      BY <1>0, <2>3, <2>5
    <3> QED BY <2>1, <2>2, <2>8, <2>10, <3>1 DEF Reader, PagesSkipNothing
  <2>11. CASE ~more
    <3>1. ~reader'.raced => reader.start \subseteq reader.seen \cup page
      BY <2>6, <2>9, <2>11
    <3> QED BY <2>1, <2>2, <2>8, <2>11, <3>1 DEF Reader, PagesSkipNothing
  <2> QED BY <2>10, <2>11
<1> QED BY <1>0, <1>1, <1>2, <1>3, <1>4

\* A client that pages through the orders misses none that was there when it began, unless one was
\* added between the count and the rows of its last page, for any limit (list_orders).
THEOREM PagesComplete == Spec => []PagesSkipNothing
<1>1. Reader => PagesSkipNothing
  BY DEF Reader, PagesSkipNothing
<1> QED BY <1>1, RecordsInit, OrdersStep, EngineStep, ReaderStep, PTL DEF Spec

-----------------------------------------------------------------------------
(* Sums over the rows of a table *)

\* A table with one row more.
LEMMA Grown ==
  ASSUME NEW R, NEW rows \in Seq(R), NEW row \in R
  PROVE  LET n == Len(rows) + 1  more == Append(rows, row) IN
           /\ n \in Nat \ {0} /\ n \notin Ids(rows) /\ more \in Seq(R) /\ Len(more) = n
           /\ Ids(more) = Ids(rows) \cup {n} /\ more[n] = row
           /\ \A i \in Ids(rows) : more[i] = rows[i]
<1>1. Len(rows) \in Nat
  OBVIOUS
<1>2. /\ Append(rows, row) \in Seq(R) /\ Len(Append(rows, row)) = Len(rows) + 1
      /\ \A i \in 1 .. Len(rows) : Append(rows, row)[i] = rows[i]
      /\ Append(rows, row)[Len(rows) + 1] = row
  BY AppendProperties
<1> QED BY <1>1, <1>2 DEF Ids

\* What some rows of a table add up to is a number.
LEMMA TableSums ==
  ASSUME NEW rows, IsFiniteSet(Ids(rows)), \A i \in Ids(rows) : rows[i].pnl \in Int,
         NEW S \in SUBSET Ids(rows)
  PROVE  IsFiniteSet(S) /\ Count(S) \in Nat /\ SumPnl(rows, S) \in Int
<1> DEFINE f == [i \in Ids(rows) |-> rows[i].pnl]
<1>1. IsFiniteSet(S) /\ Count(S) \in Nat
  BY FS_Subset, FS_CardinalityType DEF Count
<1>2. SumPnl(rows, S) = SumFunctionOnSet(f, S) /\ \A i \in S : f[i] \in Int
  BY DEF SumPnl
<1> HIDE DEF f
<1> QED BY <1>1, <1>2, SumIsInt

\* A table of results and the same table with one row more
OneMore(rows, more, n) ==
  /\ n \notin Ids(rows) /\ Ids(more) = Ids(rows) \cup {n} /\ IsFiniteSet(Ids(rows))
  /\ more[n].pnl \in Int /\ \A i \in Ids(rows) : rows[i].pnl \in Int /\ more[i] = rows[i]

\* It stays so when another row comes, which counts when it is one of them ...
LEMMA RowAdded ==
  ASSUME NEW rows, NEW more, NEW n, OneMore(rows, more, n), NEW S \in SUBSET Ids(rows)
  PROVE  /\ SumPnl(more, S) = SumPnl(rows, S)
         /\ SumPnl(more, S \cup {n}) = SumPnl(rows, S) + more[n].pnl
         /\ Count(S \cup {n}) = Count(S) + 1
<1> DEFINE f == [i \in Ids(rows) |-> rows[i].pnl]
           g == [i \in Ids(more) |-> more[i].pnl]
           T == S \cup {n}
<1>0. /\ n \notin Ids(rows) /\ Ids(more) = Ids(rows) \cup {n} /\ IsFiniteSet(Ids(rows))
      /\ more[n].pnl \in Int /\ \A i \in Ids(rows) : rows[i].pnl \in Int /\ more[i] = rows[i]
  BY DEF OneMore
<1>1. \A i \in T : g[i] \in Int /\ (i \in S => g[i] = f[i])
  BY <1>0
<1>2. IsFiniteSet(S) /\ SumPnl(rows, S) \in Int
  BY <1>0, TableSums
<1>3. IsFiniteSet(T) /\ Count(T) = Count(S) + 1 /\ T \ {n} = S /\ n \in T
  BY <1>0, <1>2, FS_AddElement DEF Count
<1>4. /\ SumPnl(rows, S) = SumFunctionOnSet(f, S)
      /\ SumPnl(more, S) = SumFunctionOnSet(g, S) /\ SumPnl(more, T) = SumFunctionOnSet(g, T)
  BY DEF SumPnl
<1>5. g[n] = more[n].pnl
  BY <1>0
<1> HIDE DEF f, g, T
<1>6. SumFunctionOnSet(g, S) = SumFunctionOnSet(f, S)
  <2>1. \A i \in S : g[i] = f[i]
    BY <1>1, <1>3
  <2> QED BY <1>2, <2>1, SumOfSame
<1>7. SumFunctionOnSet(g, T) = g[n] + SumFunctionOnSet(g, T \ {n})
  BY <1>1, <1>3, SumOfElement
<1>8. SumPnl(more, T) = more[n].pnl + SumPnl(rows, S)
  BY <1>3, <1>4, <1>5, <1>6, <1>7, Zenon
<1>9. SumPnl(more, T) = SumPnl(rows, S) + more[n].pnl
  <2> DEFINE a == SumPnl(rows, S)
             b == more[n].pnl
  <2>1. a \in Int /\ b \in Int /\ SumPnl(more, T) = b + a
    BY <1>0, <1>2, <1>8
  <2> HIDE DEF a, b
  <2>2. SumPnl(more, T) = a + b
    BY <2>1
  <2> QED BY <2>2 DEF a, b
<1> QED BY <1>3, <1>4, <1>6, <1>9 DEF T

\* ... and no longer when it is not.
LEMMA RowTaken ==
  ASSUME NEW rows, IsFiniteSet(Ids(rows)), \A i \in Ids(rows) : rows[i].pnl \in Int,
         NEW S \in SUBSET Ids(rows), NEW e \in S
  PROVE  SumPnl(rows, S) = SumPnl(rows, S \ {e}) + rows[e].pnl /\ Count(S) = Count(S \ {e}) + 1
<1> DEFINE f == [i \in Ids(rows) |-> rows[i].pnl]
<1>1. /\ SumPnl(rows, S) = SumFunctionOnSet(f, S)
      /\ SumPnl(rows, S \ {e}) = SumFunctionOnSet(f, S \ {e})
      /\ f[e] = rows[e].pnl /\ \A i \in S : f[i] \in Int
  BY DEF SumPnl
<1>2. IsFiniteSet(S) /\ Count(S) \in Nat
  BY TableSums
<1>3. IsFiniteSet(S \ {e}) /\ Cardinality(S \ {e}) = Cardinality(S) - 1
  BY <1>2, FS_RemoveElement
<1>4. Count(S) = Count(S \ {e}) + 1
  BY <1>2, <1>3 DEF Count
<1> HIDE DEF f
<1>5. SumFunctionOnSet(f, S) = f[e] + SumFunctionOnSet(f, S \ {e})
  BY <1>1, <1>2, SumOfElement
<1>6. SumFunctionOnSet(f, S \ {e}) \in Int
  BY <1>1, <1>3, SumIsInt
<1> QED BY <1>1, <1>4, <1>5, <1>6

-----------------------------------------------------------------------------
(* Reports *)

TradesOn(r, d) == {i \in TradesOf(r) : trades[i].day = d}
ClosedOn(r, d) ==
  {i \in Ids(snaps) : snaps[i].status = "CLOSED" /\ snaps[i].run = r /\ snaps[i].day = d}

\* A trade names the one closed snapshot it was booked for; the trade to be booked next is that
\* of the newest snapshot.
Linked ==
  /\ \A j \in Ids(trades) :
       LET i == trades[j].snap IN
         /\ i \in Ids(snaps) /\ snaps[i].status = "CLOSED" /\ snaps[i].run = trades[j].run
         /\ snaps[i].day = trades[j].day /\ snaps[i].pnl = trades[j].pnl
  /\ \A i, j \in Ids(trades) : trades[i].snap = trades[j].snap => i = j
  /\ work.at = "trade" =>
       /\ work.snap = Len(snaps) /\ work.snap \in Ids(snaps) /\ snaps[work.snap] = work.row
       /\ \A j \in Ids(trades) : trades[j].snap # work.snap
  /\ \A i \in Unbooked :
       snaps[i].small \/ i \in lost \/ (work.at = "trade" /\ work.snap = i)
  /\ \A i \in Ids(snaps) : snaps[i].day <= day
  /\ work.at = "snapshot" => work.row.day <= day
  /\ ~up => work = Idle

\* The balance that opens a day is that of the newest equity row, of this run.
Opening ==
  work.at = "opening" =>
    equity # <<>> /\ Last(equity).run = run /\ Last(equity).amount = work.amount

\* What is not the commit of a snapshot or of a trade leaves both tables alone, and forgets a
\* trade to be booked only when the engine ends.
LEMMA WorkMoves ==
  ASSUME Engine, Linked, [Next]_vars
  PROVE  \/ SaveSnapshot \/ RecordClosedTrade
         \/ /\ UNCHANGED <<snaps, trades>> /\ lost \subseteq lost' /\ day <= day'
            /\ work'.at = "trade" => work' = work
            /\ work.at = "trade" => work' = work \/ work.snap \in lost'
            /\ work'.at = "snapshot" => work' = work \/ work'.row.day = day
            /\ ~up' => work' = Idle
<1> USE DEF tables, engine, time
<1> DEFINE Quiet ==
      /\ UNCHANGED <<snaps, trades>> /\ lost \subseteq lost' /\ day <= day'
      /\ work'.at = "trade" => work' = work
      /\ work.at = "trade" => work' = work \/ work.snap \in lost'
      /\ work'.at = "snapshot" => work' = work \/ work'.row.day = day
      /\ ~up' => work' = Idle
<1>0. day \in Nat /\ work \in Works /\ (~up => work = Idle) /\ Idle.at = "idle"
  BY RecordsAssumption DEF Engine, Linked, Days, Idle
<1>1. ASSUME UNCHANGED <<snaps, trades, lost, day, up>>, work.at # "trade",
             work'.at # "trade", work'.at = "snapshot" => work'.row.day = day, up
      PROVE  Quiet
  BY <1>0, <1>1
<1>2. ASSUME NEW said \in {"rejected", "open", "filled"}, Send(said) PROVE Quiet
  BY <1>0, <1>1, <1>2 DEF Send, Tick, Goes
<1>3. CASE SaveRequest
  <2>1. up /\ work.at = "request"
    BY <1>0, <1>3 DEF SaveRequest
  <2>2. work'.at \in {"execution", "idle"}
    BY <1>0, <1>3 DEF SaveRequest, Goes
  <2> QED BY <1>1, <1>3, <2>1, <2>2 DEF SaveRequest
<1>4. ASSUME NEW row, row.day = day, NEW x, work' = Snapshot(row, x)
      PROVE  work'.at = "snapshot" /\ work'.row.day = day
  BY <1>4 DEF Snapshot
<1>5. \A p : OpenRow(p).day = day /\ \A pnl : ClosedRow(p, pnl).day = day
  BY DEF OpenRow, ClosedRow
<1>6. CASE SaveExecution
  <2>1. up /\ work.at = "execution"
    BY <1>0, <1>6 DEF SaveExecution
  <2>2. work'.at = "snapshot" /\ work'.row.day = day
    <3>1. CASE mem = NoPosition
      <4>1. PICK p, x : work' = Snapshot(OpenRow(p), x)
        BY <1>6, <3>1, Zenon DEF SaveExecution, Goes
      <4> QED BY <1>4, <1>5, <4>1
    <3>2. CASE mem # NoPosition
      <4>1. PICK pnl : work' = Snapshot(ClosedRow(mem, pnl), Idle)
        BY <1>6, <3>2, Zenon DEF SaveExecution, Goes
      <4> QED BY <1>4, <1>5, <4>1
    <3> QED BY <3>1, <3>2
  <2> QED BY <1>1, <1>6, <2>1, <2>2 DEF SaveExecution
<1>7. CASE Gone
  <2>1. PICK pnl : work' = Snapshot(ClosedRow(mem, pnl), AfterSync)
    BY <1>7, Zenon DEF Gone, Goes
  <2>2. work'.at = "snapshot" /\ work'.row.day = day
    BY <1>4, <1>5, <2>1
  <2> QED BY <1>0, <1>1, <1>7, <2>2 DEF Gone, Syncs, Booting
<1>8. CASE TakeOver
  <2>1. work' = Snapshot(OpenRow(mem'), AfterSync)
    BY <1>8 DEF TakeOver, Goes
  <2>2. OpenRow(mem').day = day
    BY <1>5
  <2>3. work'.at = "snapshot" /\ work'.row.day = day
    BY <2>1, <2>2 DEF Snapshot
  <2> QED BY <1>0, <1>1, <1>8, <2>3 DEF TakeOver, Syncs, Booting
<1>9. CASE SaveProtection
  <2>1. up /\ work.at = "protect"
    BY <1>0, <1>9 DEF SaveProtection
  <2>2. work'.at \in {"protect", "idle"}
    <3>1. work.left - 1 \in 0 .. 2 /\ work' = Protecting(work.left - 1)
      BY <1>0, <1>9, WorkFacts DEF SaveProtection, Goes
    <3> QED BY <3>1, WorksMade
  <2> QED BY <1>1, <1>9, <2>1, <2>2 DEF SaveProtection
<1>10. CASE Crash
  <2>1. UNCHANGED <<snaps, trades, day>> /\ work' = Idle
          /\ lost' = IF work.at = "trade" THEN lost \cup {work.snap} ELSE lost
    BY <1>10 DEF Crash, Goes
  <2> QED BY <1>0, <2>1
<1>11. ASSUME NEW r \in Runs, Start(r) PROVE Quiet
  <2>1. UNCHANGED <<snaps, trades, day, lost>> /\ work = Idle /\ up'
    BY <1>0, <1>11 DEF Start
  <2>2. work'.at = "boot"
    BY <1>11 DEF Start, Goes, Booting
  <2> QED BY <1>0, <2>1, <2>2
<1>12. CASE SaveEquity
  <2>1. up /\ work \in [at : {"equity", "opening"}, amount : Balances]
    BY <1>0, <1>12, WorkFacts DEF SaveEquity
  <2>2. work'.at \in {"opening", "idle"}
    BY <1>0, <1>12, <2>1 DEF SaveEquity, Goes
  <2> QED BY <1>1, <1>12, <2>1, <2>2 DEF SaveEquity
<1>13. CASE SaveOpening
  <2>1. up /\ work.at = "opening" /\ work' = Idle
    BY <1>0, <1>13 DEF SaveOpening, Goes
  <2> QED BY <1>0, <1>1, <1>13, <2>1 DEF SaveOpening
<1>14. ASSUME NEW r \in Runs, ApplyRun(r) PROVE Quiet
  BY <1>0, <1>14 DEF ApplyRun
<1>15. CASE ExchangeMoves \/ Passes \/ BeginReading \/ CountRows \/ SelectRows \/ UNCHANGED vars
  <2>1. UNCHANGED <<snaps, trades, work, up, lost>> /\ day <= day'
    BY <1>0, <1>15 DEF ExchangeMoves, Passes, BeginReading, CountRows, SelectRows, vars
  <2> QED BY <1>0, <2>1
<1>16. CASE ReadBalance
  <2>1. up /\ work.at \in {"boot", "booted"}
    BY <1>0, <1>16 DEF ReadBalance, Booting, Booted
  <2>2. work'.at \in {"idle", "equity"}
    BY <1>0, <1>16 DEF ReadBalance, Goes
  <2> QED BY <1>1, <1>16, <2>1, <2>2 DEF ReadBalance
<1> QED BY <1>2, <1>3, <1>6, <1>7, <1>8, <1>9, <1>10, <1>11, <1>12, <1>13, <1>14, <1>15, <1>16 DEF Next

\* What the engine has in its tables: rows with a result.
LEMMA TableFacts ==
  ASSUME Engine
  PROVE  /\ snaps \in Seq(SnapshotRow) /\ trades \in Seq(TradeRow) /\ equity \in Seq(EquityRow)
         /\ \A x \in SnapshotRow : x.pnl \in Int /\ x.day \in Days /\ x.run \in Runs
         /\ \A x \in TradeRow : x.pnl \in Int /\ x.day \in Days /\ x.run \in Runs
         /\ \A i \in Ids(snaps) : snaps[i] \in SnapshotRow
         /\ \A i \in Ids(trades) : trades[i] \in TradeRow
         /\ \A i \in Ids(equity) : equity[i] \in EquityRow
         /\ Len(snaps) \in Nat /\ Len(trades) \in Nat /\ Len(equity) \in Nat
         /\ IsFiniteSet(Ids(snaps)) /\ IsFiniteSet(Ids(trades))
         /\ day \in Nat /\ Days \subseteq Nat
<1>1. snaps \in Seq(SnapshotRow) /\ trades \in Seq(TradeRow) /\ equity \in Seq(EquityRow)
        /\ day \in Days
  BY DEF Engine
<1>2. Pnls \subseteq Int /\ Days \subseteq Nat
  BY RecordsAssumption DEF Days
<1>3. ASSUME NEW x \in SnapshotRow PROVE x.pnl \in Int /\ x.day \in Days /\ x.run \in Runs
  <2>1. x.pnl \in Pnls \cup {0} /\ x.day \in Days /\ x.run \in Runs
    BY DEF SnapshotRow
  <2>2. Pnls \cup {0} \subseteq Int
    BY <1>2
  <2>3. x.pnl \in Int
    BY <2>1, <2>2, Zenon
  <2> QED BY <2>1, <2>3
<1>4. ASSUME NEW x \in TradeRow PROVE x.pnl \in Int /\ x.day \in Days /\ x.run \in Runs
  <2>1. x.pnl \in Pnls /\ x.day \in Days /\ x.run \in Runs
    BY DEF TradeRow
  <2> QED BY <1>2, <2>1
<1>5. /\ \A i \in Ids(snaps) : snaps[i] \in SnapshotRow
      /\ \A i \in Ids(trades) : trades[i] \in TradeRow
      /\ \A i \in Ids(equity) : equity[i] \in EquityRow
  BY <1>1 DEF Ids
<1>6. Len(snaps) \in Nat /\ Len(trades) \in Nat /\ Len(equity) \in Nat
  BY <1>1
<1>7. IsFiniteSet(Ids(snaps)) /\ IsFiniteSet(Ids(trades))
  <2>1. Len(snaps) \in Int /\ Len(trades) \in Int /\ 1 \in Int
    BY <1>6
  <2>2. IsFiniteSet(1 .. Len(snaps)) /\ IsFiniteSet(1 .. Len(trades))
    BY <2>1, FS_Interval
  <2> QED BY <2>2 DEF Ids
<1> QED BY <1>1, <1>2, <1>3, <1>4, <1>5, <1>6, <1>7

\* The commit of a snapshot.
LEMMA SnapshotSaved ==
  ASSUME Engine, SaveSnapshot
  PROVE  LET n == Len(snaps) + 1  row == work.row IN
         /\ row \in SnapshotRow /\ snaps' = Append(snaps, row)
         /\ UNCHANGED <<trades, daily, equity, lost, day, run>>
         /\ Ids(snaps') = Ids(snaps) \cup {n} /\ n \notin Ids(snaps) /\ snaps'[n] = row
         /\ Len(snaps') = n /\ \A i \in Ids(snaps) : snaps'[i] = snaps[i]
<1>1. work.row \in SnapshotRow
  BY WorkFacts DEF Engine, SaveSnapshot, Made
<1>2. snaps' = Append(snaps, work.row) /\ UNCHANGED <<trades, daily, equity, lost, day, run>>
  BY DEF SaveSnapshot, tables, time
<1>3. snaps \in Seq(SnapshotRow)
  BY DEF Engine
<1> DEFINE n == Len(snaps) + 1
           row == work.row
<1>4. ASSUME NEW i \in Ids(snaps) PROVE Append(snaps, row)[i] = snaps[i]
  BY <1>1, <1>3, <1>4, AppendProperties DEF Ids
<1>5. /\ n \notin Ids(snaps) /\ Ids(Append(snaps, row)) = Ids(snaps) \cup {n}
      /\ Append(snaps, row)[n] = row /\ Len(Append(snaps, row)) = n
  BY <1>1, <1>3, Grown
<1> QED BY <1>1, <1>2, <1>4, <1>5

\* The commit of a trade.
LEMMA TradeSaved ==
  ASSUME Engine, RecordClosedTrade
  PROVE  LET m == Len(trades) + 1  row == work.row  old == Row(row.run, row.day)
             t == [run |-> row.run, pnl |-> row.pnl, day |-> row.day, snap |-> work.snap] IN
         /\ row \in SnapshotRow /\ row.pnl \in Pnls /\ row.status = "CLOSED"
         /\ t \in TradeRow /\ trades' = Append(trades, t)
         /\ work' = work.next /\ work.next \in Nexts
         /\ daily' = [daily EXCEPT ![<<row.run, row.day>>] = Upsert(old, row.pnl)]
         /\ UNCHANGED <<snaps, equity, lost, day, run, up>>
         /\ Ids(trades') = Ids(trades) \cup {m} /\ m \notin Ids(trades) /\ trades'[m] = t
         /\ \A i \in Ids(trades) : trades'[i] = trades[i]
<1>1. work.row \in SnapshotRow /\ work.row.pnl \in Pnls /\ work.row.status = "CLOSED"
        /\ work.snap \in Nat \ {0} /\ work.next \in Nexts
  BY WorkFacts DEF Engine, RecordClosedTrade, Made, Books
<1> DEFINE row == work.row
           old == Row(row.run, row.day)
           t == [run |-> row.run, pnl |-> row.pnl, day |-> row.day, snap |-> work.snap]
           m == Len(trades) + 1
<1>2. /\ trades' = Append(trades, t) /\ work' = work.next
      /\ daily' = [daily EXCEPT ![<<row.run, row.day>>] = Upsert(old, row.pnl)]
      /\ UNCHANGED <<snaps, equity, lost, day, run, up>>
  BY DEF RecordClosedTrade, BookedDay, Goes, time
<1>3. t \in TradeRow
  BY <1>1 DEF TradeRow, SnapshotRow
<1>4. trades \in Seq(TradeRow)
  BY DEF Engine
<1> HIDE DEF t
<1>5. ASSUME NEW i \in Ids(trades) PROVE Append(trades, t)[i] = trades[i]
  BY <1>3, <1>4, <1>5, AppendProperties DEF Ids
<1>6. /\ m \notin Ids(trades) /\ Ids(Append(trades, t)) = Ids(trades) \cup {m}
      /\ Append(trades, t)[m] = t
  BY <1>3, <1>4, Grown
<1> QED BY <1>1, <1>2, <1>3, <1>5, <1>6 DEF t

\* A trade keeps the snapshot it was booked for, and none is booked for the same.
LEMMA LinkedStep == Engine /\ Linked /\ [Next]_vars => Linked'
<1> SUFFICES ASSUME Engine, Linked, [Next]_vars PROVE Linked'
  OBVIOUS
<1> USE TableFacts
<1>1. CASE SaveSnapshot
  <2> DEFINE n == Len(snaps) + 1
             row == work.row
  <2>1. /\ row \in SnapshotRow /\ UNCHANGED <<trades, lost, day>>
        /\ Ids(snaps') = Ids(snaps) \cup {n} /\ n \notin Ids(snaps) /\ snaps'[n] = row
        /\ Len(snaps') = n /\ \A i \in Ids(snaps) : snaps'[i] = snaps[i]
    BY <1>1, SnapshotSaved
  <2>2. work.at = "snapshot" /\ row.day <= day
    BY <1>1 DEF SaveSnapshot, Linked
  <2>3. /\ Books(row) => /\ work'.at = "trade" /\ work'.row = row /\ work'.snap = n
        /\ ~Books(row) => work'.at \in {"protect", "booted", "idle"}
    <3>1. CASE Books(row)
      <4>1. work' = [at |-> "trade", row |-> row, next |-> work.next, snap |-> n]
        BY <1>1, <3>1 DEF SaveSnapshot, Goes
      <4> QED BY <3>1, <4>1
    <3>2. CASE ~Books(row)
      <4>1. work' = work.next
        BY <1>1, <3>2 DEF SaveSnapshot, Goes
      <4>2. work.next \in Nexts
        BY <1>1, WorkFacts DEF Engine, SaveSnapshot
      <4> QED BY <3>2, <4>1, <4>2, WorksMade
    <3> QED BY <3>1, <3>2
  <2>4. work'.at # "snapshot" /\ up' /\ (work'.at = "trade" => Books(row))
    <3>1. up'
      BY <1>1, <2>2 DEF SaveSnapshot, Linked, Idle
    <3> QED BY <2>3, <3>1
  <2> HIDE DEF n, row
  <2>5. \A j \in Ids(trades') :
          LET i == trades'[j].snap IN
            /\ i \in Ids(snaps') /\ snaps'[i].status = "CLOSED" /\ snaps'[i].run = trades'[j].run
            /\ snaps'[i].day = trades'[j].day /\ snaps'[i].pnl = trades'[j].pnl
    BY <2>1 DEF Linked
  <2>6. \A i, j \in Ids(trades') : trades'[i].snap = trades'[j].snap => i = j
    BY <2>1 DEF Linked
  <2>7. \A j \in Ids(trades) : trades[j].snap # n
    BY <2>1 DEF Linked
  <2>8. work'.at = "trade" =>
          /\ work'.snap = Len(snaps') /\ work'.snap \in Ids(snaps') /\ snaps'[work'.snap] = work'.row
          /\ \A j \in Ids(trades') : trades'[j].snap # work'.snap
    BY <2>1, <2>3, <2>4, <2>7
  <2>9. \A i \in Unbooked' : snaps'[i].small \/ i \in lost' \/ (work'.at = "trade" /\ work'.snap = i)
    <3> SUFFICES ASSUME NEW i \in Unbooked', ~snaps'[i].small, i \notin lost'
                 PROVE  work'.at = "trade" /\ work'.snap = i
      OBVIOUS
    <3>1. i \in Ids(snaps') /\ snaps'[i].status = "CLOSED" /\ i \notin {trades'[j].snap : j \in Ids(trades')}
      BY DEF Unbooked
    <3>2. CASE i \in Ids(snaps)
      <4>1. i \in Unbooked
        BY <2>1, <3>1, <3>2 DEF Unbooked
      <4> QED BY <2>1, <2>2, <3>2, <4>1 DEF Linked
    <3>3. CASE i = n
      <4>1. Books(row)
        BY <2>1, <3>1, <3>3 DEF Books
      <4> QED BY <2>3, <3>3, <4>1
    <3> QED BY <2>1, <3>1, <3>2, <3>3
  <2>10. \A i \in Ids(snaps') : snaps'[i].day <= day'
    BY <2>1, <2>2 DEF Linked
  <2> QED BY <2>4, <2>5, <2>6, <2>8, <2>9, <2>10 DEF Linked
<1>2. CASE RecordClosedTrade
  <2> DEFINE m == Len(trades) + 1
             row == work.row
             t == [run |-> row.run, pnl |-> row.pnl, day |-> row.day, snap |-> work.snap]
  <2>1. /\ UNCHANGED <<snaps, lost, day, up>> /\ row.status = "CLOSED"
        /\ work' = work.next /\ work.next \in Nexts
        /\ Ids(trades') = Ids(trades) \cup {m} /\ m \notin Ids(trades) /\ trades'[m] = t
        /\ \A i \in Ids(trades) : trades'[i] = trades[i]
    BY <1>2, TradeSaved
  <2>2. work.at = "trade" /\ work.snap \in Ids(snaps) /\ snaps[work.snap] = row
          /\ \A j \in Ids(trades) : trades[j].snap # work.snap
    BY <1>2 DEF RecordClosedTrade, Linked
  <2>3. t.snap = work.snap /\ t.run = row.run /\ t.day = row.day /\ t.pnl = row.pnl
    OBVIOUS
  <2>4. work'.at \in {"idle", "booted", "protect"} /\ up'
    <3>1. up
      BY <2>2 DEF Linked, Idle
    <3> QED BY <2>1, <3>1, WorksMade
  <2> HIDE DEF m, row, t
  <2>5. \A j \in Ids(trades') :
          LET i == trades'[j].snap IN
            /\ i \in Ids(snaps') /\ snaps'[i].status = "CLOSED" /\ snaps'[i].run = trades'[j].run
            /\ snaps'[i].day = trades'[j].day /\ snaps'[i].pnl = trades'[j].pnl
    BY <2>1, <2>2, <2>3 DEF Linked
  <2>6. \A i, j \in Ids(trades') : trades'[i].snap = trades'[j].snap => i = j
    BY <2>1, <2>2, <2>3 DEF Linked
  <2>7. \A i \in Unbooked' : snaps'[i].small \/ i \in lost' \/ (work'.at = "trade" /\ work'.snap = i)
    <3> SUFFICES ASSUME NEW i \in Unbooked' PROVE snaps'[i].small \/ i \in lost'
      OBVIOUS
    <3>1. i \in Ids(snaps) /\ snaps[i].status = "CLOSED" /\ \A j \in Ids(trades') : trades'[j].snap # i
      BY <2>1 DEF Unbooked
    <3>2. m \in Ids(trades') /\ trades'[m].snap = work.snap
      BY <2>1, <2>3
    <3>3. \A j \in Ids(trades) : trades[j].snap # i
      BY <2>1, <3>1
    <3>4. i \in Unbooked /\ i # work.snap
      BY <3>1, <3>2, <3>3 DEF Unbooked
    <3> QED BY <2>1, <2>2, <3>4 DEF Linked
  <2>8. \A i \in Ids(snaps') : snaps'[i].day <= day'
    BY <2>1 DEF Linked
  <2> QED BY <2>1, <2>4, <2>5, <2>6, <2>7, <2>8 DEF Linked
<1>3. ASSUME UNCHANGED <<snaps, trades>>, lost \subseteq lost', day <= day',
             work'.at = "trade" => work' = work,
             work.at = "trade" => work' = work \/ work.snap \in lost',
             work'.at = "snapshot" => work' = work \/ work'.row.day = day,
             ~up' => work' = Idle
      PROVE  Linked'
  <2>1. day' \in Nat
    BY EngineStep, RecordsAssumption DEF Engine, Days
  <2>2. Unbooked' = Unbooked
    BY <1>3 DEF Unbooked
  <2>3. \A i \in Unbooked : snaps[i].small \/ i \in lost' \/ (work'.at = "trade" /\ work'.snap = i)
    BY <1>3 DEF Linked
  <2>4. \A i \in Ids(snaps) : snaps[i].day <= day'
    BY <1>3, <2>1 DEF Linked
  <2>5. work'.at = "snapshot" => work'.row.day <= day'
    <3>1. SUFFICES ASSUME work'.at = "snapshot", work' = work PROVE work.row.day <= day'
      BY <1>3, <2>1
    <3>2. work.row \in SnapshotRow
      BY <3>1, WorkFacts DEF Engine, Made
    <3>3. work.row.day \in Nat /\ work.row.day <= day
      BY <3>1, <3>2 DEF Linked
    <3> QED BY <1>3, <2>1, <3>3
  <2>6. work'.at = "trade" =>
          /\ work'.snap = Len(snaps) /\ work'.snap \in Ids(snaps) /\ snaps[work'.snap] = work'.row
          /\ \A j \in Ids(trades) : trades[j].snap # work'.snap
    BY <1>3 DEF Linked
  <2>7. /\ \A j \in Ids(trades) :
             LET i == trades[j].snap IN
               /\ i \in Ids(snaps) /\ snaps[i].status = "CLOSED" /\ snaps[i].run = trades[j].run
               /\ snaps[i].day = trades[j].day /\ snaps[i].pnl = trades[j].pnl
        /\ \A i, j \in Ids(trades) : trades[i].snap = trades[j].snap => i = j
    BY DEF Linked
  <2> QED BY <1>3, <2>2, <2>3, <2>4, <2>5, <2>6, <2>7 DEF Linked
<1> QED BY <1>1, <1>2, <1>3, WorkMoves

\* The closes of a day that are not booked
Missing(r, d) == Unbooked \cap ClosedOn(r, d)

\* Day by day, the closes are the booked ones and those that are not booked.
Closes ==
  \A r \in Runs, d \in Days :
    /\ SumPnl(snaps, ClosedOn(r, d)) = SumPnl(trades, TradesOn(r, d)) + SumPnl(snaps, Missing(r, d))
    /\ Count(ClosedOn(r, d)) = Count(TradesOn(r, d)) + Count(Missing(r, d))

\* Run by run, the days add up to the trades.
DaysAddUp ==
  \A r \in Runs :
    /\ SumPnl(trades, TradesOf(r)) = SumFunction([d \in Days |-> DailyOf(r, d).sum])
    /\ Count({i \in TradesOf(r) : trades[i].pnl = 0}) = SumFunction([d \in Days |-> DailyOf(r, d).even])

\* The rows of a run and a day are rows.
LEMMA DaySets ==
  ASSUME NEW r, NEW d
  PROVE  /\ ClosedOn(r, d) \in SUBSET Ids(snaps) /\ Missing(r, d) \in SUBSET Ids(snaps)
         /\ TradesOn(r, d) \in SUBSET Ids(trades) /\ TradesOf(r) \in SUBSET Ids(trades)
  BY DEF ClosedOn, Missing, TradesOn, TradesOf

\* A snapshot that is saved is a close that is not booked yet, or no close.
LEMMA SnapshotSets ==
  ASSUME Engine, Linked, SaveSnapshot, NEW r \in Runs, NEW d \in Days
  PROVE  LET n == Len(snaps) + 1  row == work.row
             hit == row.status = "CLOSED" /\ row.run = r /\ row.day = d IN
         /\ TradesOn(r, d)' = TradesOn(r, d) /\ n \notin Ids(snaps)
         /\ ClosedOn(r, d)' = IF hit THEN ClosedOn(r, d) \cup {n} ELSE ClosedOn(r, d)
         /\ Missing(r, d)' = IF hit THEN Missing(r, d) \cup {n} ELSE Missing(r, d)
<1> DEFINE n == Len(snaps) + 1
           row == work.row
           hit == row.status = "CLOSED" /\ row.run = r /\ row.day = d
<1>1. /\ trades' = trades /\ Ids(snaps') = Ids(snaps) \cup {n} /\ n \notin Ids(snaps)
      /\ snaps'[n] = row /\ \A i \in Ids(snaps) : snaps'[i] = snaps[i]
  BY SnapshotSaved
<1>2. \A j \in Ids(trades) : trades[j].snap \in Ids(snaps)
  BY DEF Linked
<1> HIDE DEF n, row
<1>3. TradesOn(r, d)' = TradesOn(r, d)
  BY <1>1 DEF TradesOn, TradesOf
<1>4. ClosedOn(r, d)' = IF hit THEN ClosedOn(r, d) \cup {n} ELSE ClosedOn(r, d)
  BY <1>1 DEF ClosedOn
<1>5. Missing(r, d)' = IF hit THEN Missing(r, d) \cup {n} ELSE Missing(r, d)
  <2>1. ASSUME NEW i PROVE i \in Missing(r, d)' <=> i \in Missing(r, d) \/ (hit /\ i = n)
    <3>1. i \in Missing(r, d)' <=>
            /\ i \in Ids(snaps') /\ snaps'[i].status = "CLOSED" /\ snaps'[i].run = r /\ snaps'[i].day = d
            /\ \A j \in Ids(trades) : trades[j].snap # i
      BY <1>1 DEF Missing, Unbooked, ClosedOn
    <3>2. i \in Missing(r, d) <=>
            /\ i \in Ids(snaps) /\ snaps[i].status = "CLOSED" /\ snaps[i].run = r /\ snaps[i].day = d
            /\ \A j \in Ids(trades) : trades[j].snap # i
      BY DEF Missing, Unbooked, ClosedOn
    <3>3. CASE i \in Ids(snaps)
      BY <1>1, <3>1, <3>2, <3>3
    <3>4. CASE i = n
      <4>1. \A j \in Ids(trades) : trades[j].snap # i
        BY <1>1, <1>2, <3>4
      <4> QED BY <1>1, <3>1, <3>2, <3>4, <4>1
    <3>5. CASE i \notin Ids(snaps) /\ i # n
      BY <1>1, <3>1, <3>2, <3>5
    <3> QED BY <3>3, <3>4, <3>5
  <2> HIDE DEF hit
  <2> QED BY <2>1
<1> QED BY <1>1, <1>3, <1>4, <1>5 DEF n, row

\* A trade that is saved is of a close that was not booked.
LEMMA TradeSets ==
  ASSUME Engine, Linked, RecordClosedTrade, NEW r \in Runs, NEW d \in Days
  PROVE  LET m == Len(trades) + 1  row == work.row
             hit == row.run = r /\ row.day = d IN
         /\ ClosedOn(r, d)' = ClosedOn(r, d) /\ m \notin Ids(trades)
         /\ TradesOn(r, d)' = IF hit THEN TradesOn(r, d) \cup {m} ELSE TradesOn(r, d)
         /\ TradesOf(r)' = IF row.run = r THEN TradesOf(r) \cup {m} ELSE TradesOf(r)
         /\ Missing(r, d)' = IF hit THEN Missing(r, d) \ {work.snap} ELSE Missing(r, d)
         /\ hit => work.snap \in Missing(r, d) /\ snaps[work.snap].pnl = row.pnl
<1> DEFINE m == Len(trades) + 1
           row == work.row
           t == [run |-> row.run, pnl |-> row.pnl, day |-> row.day, snap |-> work.snap]
           hit == row.run = r /\ row.day = d
<1>1. /\ snaps' = snaps /\ row.status = "CLOSED"
      /\ Ids(trades') = Ids(trades) \cup {m} /\ m \notin Ids(trades) /\ trades'[m] = t
      /\ \A i \in Ids(trades) : trades'[i] = trades[i]
  BY TradeSaved
<1>2. work.snap \in Ids(snaps) /\ snaps[work.snap] = row /\ \A j \in Ids(trades) : trades[j].snap # work.snap
  BY DEF RecordClosedTrade, Linked
<1>3. t.snap = work.snap /\ t.run = row.run /\ t.day = row.day
  OBVIOUS
<1> HIDE DEF m, row, t
<1>4. ClosedOn(r, d)' = ClosedOn(r, d)
  BY <1>1 DEF ClosedOn
<1>5. TradesOf(r)' = IF row.run = r THEN TradesOf(r) \cup {m} ELSE TradesOf(r)
  BY <1>1, <1>3 DEF TradesOf
<1>6. TradesOn(r, d)' = IF hit THEN TradesOn(r, d) \cup {m} ELSE TradesOn(r, d)
  BY <1>1, <1>3 DEF TradesOn, TradesOf
<1>7. hit => work.snap \in Missing(r, d) /\ snaps[work.snap].pnl = row.pnl
  BY <1>1, <1>2 DEF Missing, Unbooked, ClosedOn
<1>8. Missing(r, d)' = IF hit THEN Missing(r, d) \ {work.snap} ELSE Missing(r, d)
  <2>1. ASSUME NEW i PROVE i \in Missing(r, d)' <=> i \in Missing(r, d) /\ i # work.snap
    <3>1. i \in Missing(r, d)' <=>
            /\ i \in Ids(snaps) /\ snaps[i].status = "CLOSED" /\ snaps[i].run = r /\ snaps[i].day = d
            /\ \A j \in Ids(trades') : trades'[j].snap # i
      BY <1>1 DEF Missing, Unbooked, ClosedOn
    <3>2. i \in Missing(r, d) <=>
            /\ i \in Ids(snaps) /\ snaps[i].status = "CLOSED" /\ snaps[i].run = r /\ snaps[i].day = d
            /\ \A j \in Ids(trades) : trades[j].snap # i
      BY DEF Missing, Unbooked, ClosedOn
    <3>3. (\A j \in Ids(trades') : trades'[j].snap # i) <=>
            (\A j \in Ids(trades) : trades[j].snap # i) /\ i # work.snap
      BY <1>1, <1>3
    <3> QED BY <3>1, <3>2, <3>3
  <2>2. ~hit => work.snap \notin Missing(r, d)
    BY <1>2 DEF Missing, ClosedOn
  <2> HIDE DEF hit
  <2> QED BY <2>1, <2>2
<1> QED BY <1>1, <1>4, <1>5, <1>6, <1>7, <1>8 DEF m, row

\* Closes are booked or not booked.
LEMMA ClosesStep == Engine /\ Linked /\ Closes /\ [Next]_vars => Closes'
<1> SUFFICES ASSUME Engine, Linked, Closes, [Next]_vars, NEW r \in Runs, NEW d \in Days
             PROVE  /\ SumPnl(snaps, ClosedOn(r, d))' =
                         SumPnl(trades, TradesOn(r, d))' + SumPnl(snaps, Missing(r, d))'
                    /\ Count(ClosedOn(r, d))' = Count(TradesOn(r, d))' + Count(Missing(r, d))'
  BY DEF Closes
<1> DEFINE C == ClosedOn(r, d)
           B == TradesOn(r, d)
           U == Missing(r, d)
<1>1. C \in SUBSET Ids(snaps) /\ U \in SUBSET Ids(snaps) /\ B \in SUBSET Ids(trades)
  BY DaySets
<1>2. /\ IsFiniteSet(Ids(snaps)) /\ IsFiniteSet(Ids(trades))
      /\ \A x \in SnapshotRow : x.pnl \in Int
      /\ \A x \in TradeRow : x.pnl \in Int
      /\ \A i \in Ids(snaps) : snaps[i] \in SnapshotRow
      /\ \A i \in Ids(trades) : trades[i] \in TradeRow
  BY TableFacts
<1>3. /\ \A i \in Ids(snaps) : snaps[i].pnl \in Int
      /\ \A i \in Ids(trades) : trades[i].pnl \in Int
  BY <1>2
<1>4. /\ SumPnl(snaps, C) = SumPnl(trades, B) + SumPnl(snaps, U)
      /\ Count(C) = Count(B) + Count(U)
  BY DEF Closes
<1>5. /\ SumPnl(snaps, C) \in Int /\ SumPnl(snaps, U) \in Int /\ SumPnl(trades, B) \in Int
      /\ Count(C) \in Nat /\ Count(U) \in Nat /\ Count(B) \in Nat
  <2> HIDE DEF C, U, B
  <2>1. SumPnl(snaps, C) \in Int /\ Count(C) \in Nat
    BY <1>1, <1>2, <1>3, TableSums
  <2>2. SumPnl(snaps, U) \in Int /\ Count(U) \in Nat
    BY <1>1, <1>2, <1>3, TableSums
  <2>3. SumPnl(trades, B) \in Int /\ Count(B) \in Nat
    BY <1>1, <1>2, <1>3, TableSums
  <2> QED BY <2>1, <2>2, <2>3
<1>6. CASE SaveSnapshot
  <2> DEFINE n == Len(snaps) + 1
             row == work.row
             hit == row.status = "CLOSED" /\ row.run = r /\ row.day = d
  <2>1. /\ B' = B
        /\ C' = IF hit THEN C \cup {n} ELSE C
        /\ U' = IF hit THEN U \cup {n} ELSE U
    BY <1>6, SnapshotSets
  <2>2. /\ row \in SnapshotRow /\ trades' = trades /\ n \notin Ids(snaps)
        /\ Ids(snaps') = Ids(snaps) \cup {n} /\ snaps'[n] = row
        /\ \A i \in Ids(snaps) : snaps'[i] = snaps[i]
    BY <1>6, SnapshotSaved
  <2>3. row.pnl \in Int
    BY <1>2, <2>2
  <2> HIDE DEF C, U, B, row, n
  <2>4. OneMore(snaps, snaps', n)
    <3>1. /\ snaps'[n].pnl \in Int
          /\ \A i \in Ids(snaps) : snaps[i].pnl \in Int /\ snaps'[i] = snaps[i]
      BY <1>3, <2>2, <2>3
    <3> QED BY <1>2, <2>2, <3>1 DEF OneMore
  <2>5. /\ SumPnl(snaps', C) = SumPnl(snaps, C)
        /\ SumPnl(snaps', C \cup {n}) = SumPnl(snaps, C) + row.pnl
        /\ Count(C \cup {n}) = Count(C) + 1
    <3>1. /\ SumPnl(snaps', C) = SumPnl(snaps, C)
          /\ SumPnl(snaps', C \cup {n}) = SumPnl(snaps, C) + snaps'[n].pnl
          /\ Count(C \cup {n}) = Count(C) + 1
      BY <1>1, <2>4, RowAdded
    <3> QED BY <2>2, <3>1
  <2>6. /\ SumPnl(snaps', U) = SumPnl(snaps, U)
        /\ SumPnl(snaps', U \cup {n}) = SumPnl(snaps, U) + row.pnl
        /\ Count(U \cup {n}) = Count(U) + 1
    <3>1. /\ SumPnl(snaps', U) = SumPnl(snaps, U)
          /\ SumPnl(snaps', U \cup {n}) = SumPnl(snaps, U) + snaps'[n].pnl
          /\ Count(U \cup {n}) = Count(U) + 1
      BY <1>1, <2>4, RowAdded
    <3> QED BY <2>2, <3>1
  <2> DEFINE sc == SumPnl(snaps, C)
             su == SumPnl(snaps, U)
             sb == SumPnl(trades, B)
             kc == Count(C)
             ku == Count(U)
             kb == Count(B)
  <2> HIDE DEF n, hit
  <2>7. SumPnl(trades', B') = sb /\ Count(B') = kb
    BY <2>1, <2>2
  <2>8. CASE hit
    <3>1. /\ SumPnl(snaps', C') = sc + row.pnl /\ Count(C') = kc + 1
          /\ SumPnl(snaps', U') = su + row.pnl /\ Count(U') = ku + 1
      BY <2>1, <2>5, <2>6, <2>8
    <3> HIDE DEF sc, su, sb, kc, ku, kb
    <3>2. sc + row.pnl = sb + (su + row.pnl) /\ kc + 1 = kb + (ku + 1)
      BY <1>4, <1>5, <2>3 DEF sc, su, sb, kc, ku, kb
    <3> QED BY <2>7, <3>1, <3>2 DEF C, U, B
  <2>9. CASE ~hit
    <3>1. /\ SumPnl(snaps', C') = sc /\ Count(C') = kc
          /\ SumPnl(snaps', U') = su /\ Count(U') = ku
      BY <2>1, <2>5, <2>6, <2>9
    <3> QED BY <1>4, <2>7, <3>1 DEF C, U, B
  <2> QED BY <2>8, <2>9
<1>7. CASE RecordClosedTrade
  <2> DEFINE m == Len(trades) + 1
             row == work.row
             t == [run |-> row.run, pnl |-> row.pnl, day |-> row.day, snap |-> work.snap]
             hit == row.run = r /\ row.day = d
             k == work.snap
  <2>1. /\ C' = C
        /\ B' = IF hit THEN B \cup {m} ELSE B
        /\ U' = IF hit THEN U \ {k} ELSE U
        /\ hit => k \in U /\ snaps[k].pnl = row.pnl
    BY <1>7, TradeSets
  <2>2. /\ t \in TradeRow /\ snaps' = snaps /\ row \in SnapshotRow /\ m \notin Ids(trades)
        /\ Ids(trades') = Ids(trades) \cup {m} /\ trades'[m] = t
        /\ \A i \in Ids(trades) : trades'[i] = trades[i]
    BY <1>7, TradeSaved
  <2>3. t.pnl = row.pnl /\ row.pnl \in Int
    BY <1>2, <2>2
  <2> HIDE DEF C, U, B, row, t, k, m
  <2>4. OneMore(trades, trades', m)
    <3>1. /\ trades'[m].pnl \in Int
          /\ \A i \in Ids(trades) : trades[i].pnl \in Int /\ trades'[i] = trades[i]
      BY <1>3, <2>2, <2>3
    <3> QED BY <1>2, <2>2, <3>1 DEF OneMore
  <2>5. /\ SumPnl(trades', B) = SumPnl(trades, B)
        /\ SumPnl(trades', B \cup {m}) = SumPnl(trades, B) + t.pnl
        /\ Count(B \cup {m}) = Count(B) + 1
    <3>1. /\ SumPnl(trades', B) = SumPnl(trades, B)
          /\ SumPnl(trades', B \cup {m}) = SumPnl(trades, B) + trades'[m].pnl
          /\ Count(B \cup {m}) = Count(B) + 1
      BY <1>1, <2>4, RowAdded
    <3> QED BY <2>2, <3>1
  <2>6. ASSUME k \in U
        PROVE  SumPnl(snaps, U) = SumPnl(snaps, U \ {k}) + snaps[k].pnl /\ Count(U) = Count(U \ {k}) + 1
    BY <1>1, <1>2, <1>3, <2>6, RowTaken
  <2>7. SumPnl(snaps, U \ {k}) \in Int /\ Count(U \ {k}) \in Nat
    BY <1>1, <1>2, <1>3, TableSums
  <2> DEFINE sc == SumPnl(snaps, C)
             su == SumPnl(snaps, U)
             sv == SumPnl(snaps, U \ {k})
             sb == SumPnl(trades, B)
             kc == Count(C)
             ku == Count(U)
             kv == Count(U \ {k})
             kb == Count(B)
  <2> HIDE DEF m, hit
  <2>8. SumPnl(snaps', C') = sc /\ Count(C') = kc
    BY <2>1, <2>2
  <2>9. CASE hit
    <3>1. /\ SumPnl(trades', B') = sb + row.pnl /\ Count(B') = kb + 1
          /\ SumPnl(snaps', U') = sv /\ Count(U') = kv
      BY <2>1, <2>2, <2>3, <2>5, <2>9
    <3>2. su = sv + row.pnl /\ ku = kv + 1
      BY <2>1, <2>6, <2>9
    <3> HIDE DEF sc, su, sv, sb, kc, ku, kv, kb
    <3>3. sc = (sb + row.pnl) + sv /\ kc = (kb + 1) + kv
      BY <1>4, <1>5, <2>3, <2>7, <3>2 DEF sc, su, sv, sb, kc, ku, kv, kb
    <3> QED BY <2>8, <3>1, <3>3 DEF C, U, B
  <2>10. CASE ~hit
    <3>1. /\ SumPnl(trades', B') = sb /\ Count(B') = kb
          /\ SumPnl(snaps', U') = su /\ Count(U') = ku
      BY <2>1, <2>2, <2>5, <2>10
    <3> QED BY <1>4, <2>8, <3>1 DEF C, U, B
  <2> QED BY <2>9, <2>10
<1>8. CASE UNCHANGED <<snaps, trades>>
  <2>1. C' = C /\ U' = U /\ B' = B
    BY <1>8 DEF ClosedOn, Missing, Unbooked, TradesOn, TradesOf
  <2> HIDE DEF C, U, B
  <2>2. /\ SumPnl(snaps', C') = SumPnl(snaps, C) /\ SumPnl(snaps', U') = SumPnl(snaps, U)
        /\ SumPnl(trades', B') = SumPnl(trades, B)
        /\ Count(C') = Count(C) /\ Count(U') = Count(U) /\ Count(B') = Count(B)
    BY <1>8, <2>1
  <2> QED BY <1>4, <2>2 DEF C, U, B
<1> QED BY <1>6, <1>7, <1>8, WorkMoves

\* What a trade does to the aggregate of its day
LEMMA UpsertFields ==
  ASSUME NEW e \in DailyRow, NEW pnl \in Int
  PROVE  LET u == Upsert(e, pnl) IN
         /\ u.count = e.count + 1 /\ u.sum = e.sum + pnl
         /\ u.wins = e.wins + Sign(pnl).win /\ u.losses = e.losses + Sign(pnl).loss
         /\ u.even = e.even + Sign(pnl).even
         /\ u.profit = (IF pnl > 0 THEN e.profit + pnl ELSE e.profit)
         /\ u.loss = (IF pnl < 0 THEN e.loss - pnl ELSE e.loss)
         /\ u.opening = e.opening
         /\ e.opening # None => u.closing = e.opening + (e.sum + pnl)
<1> DEFINE n == e.count + 1
           w == e.wins + Sign(pnl).win
           l == e.losses + Sign(pnl).loss
           v == e.even + Sign(pnl).even
           t == e.sum + pnl
           g == IF pnl > 0 THEN e.profit + pnl ELSE e.profit
           h == IF pnl < 0 THEN e.loss - pnl ELSE e.loss
           a == Added(e, pnl)
           c == IF a.opening = None THEN a.closing ELSE a.opening + a.sum
<1>1. a = [e EXCEPT !.count = n, !.sum = t, !.wins = w, !.losses = l, !.even = v, !.profit = g, !.loss = h]
  BY DEF Added
<1>2. Upsert(e, pnl) = [a EXCEPT !.closing = c]
  BY DEF Upsert, Closing
<1> HIDE DEF n, w, l, v, t, g, h, a, c
<1>3. \E k1, k2, k3, k4, k5, k6, k7, k8, k9 :
        e = [count |-> k1, wins |-> k2, losses |-> k3, even |-> k4, sum |-> k5, profit |-> k6,
             loss |-> k7, opening |-> k8, closing |-> k9]
  BY DEF DailyRow
<1>4. /\ a.count = n /\ a.sum = t /\ a.wins = w /\ a.losses = l /\ a.even = v /\ a.profit = g /\ a.loss = h
      /\ a.opening = e.opening
      /\ a = [count |-> n, wins |-> w, losses |-> l, even |-> v, sum |-> t, profit |-> g,
              loss |-> h, opening |-> e.opening, closing |-> e.closing]
  BY <1>1, <1>3
<1>5. e.opening # None => c = e.opening + t
  BY <1>4 DEF c
<1>6. LET u == Upsert(e, pnl) IN
        /\ u.count = n /\ u.sum = t /\ u.wins = w /\ u.losses = l /\ u.even = v /\ u.profit = g
        /\ u.loss = h /\ u.opening = e.opening /\ u.closing = c
  BY <1>2, <1>4
<1> QED BY <1>5, <1>6 DEF n, w, l, v, t, g, h

\* ... and what an opening balance does.
LEMMA OpeningFields ==
  ASSUME NEW e \in DailyRow, NEW b \in Balances
  PROVE  LET u == Closing([e EXCEPT !.opening = b]) IN
         /\ u.count = e.count /\ u.sum = e.sum /\ u.wins = e.wins /\ u.losses = e.losses
         /\ u.even = e.even /\ u.profit = e.profit /\ u.loss = e.loss
         /\ u.opening = b /\ u.closing = b + e.sum
<1> DEFINE o == [e EXCEPT !.opening = b]
           c == IF o.opening = None THEN o.closing ELSE o.opening + o.sum
<1>1. Closing(o) = [o EXCEPT !.closing = c] /\ o = [e EXCEPT !.opening = b]
  BY DEF Closing
<1>2. b # None
  BY RecordsAssumption
<1> HIDE DEF o, c
<1>3. \E k1, k2, k3, k4, k5, k6, k7, k8, k9 :
        e = [count |-> k1, wins |-> k2, losses |-> k3, even |-> k4, sum |-> k5, profit |-> k6,
             loss |-> k7, opening |-> k8, closing |-> k9]
  BY DEF DailyRow
<1>4. o = [count |-> e.count, wins |-> e.wins, losses |-> e.losses, even |-> e.even, sum |-> e.sum,
           profit |-> e.profit, loss |-> e.loss, opening |-> b, closing |-> e.closing]
  BY <1>1, <1>3
<1>5. c = b + e.sum
  BY <1>2, <1>4 DEF c
<1> QED BY <1>1, <1>4, <1>5 DEF o

\* The row of a run and a day is written.
Writes(q, c, e) == daily' = [daily EXCEPT ![<<q, c>>] = e]

\* A row that is written is the row that is read; the others stay.
LEMMA RowWritten ==
  ASSUME Engine, NEW q \in Runs, NEW c \in Days, NEW e \in DailyRow, Writes(q, c, e),
         NEW r \in Runs, NEW d \in Days
  PROVE  Row(r, d)' = IF r = q /\ d = c THEN e ELSE Row(r, d)
<1>1. daily \in [Runs \X Days -> DailyRow \cup {None}] /\ <<r, d>> \in Runs \X Days
  BY DEF Engine
<1>2. e # None
  BY NoneAssumption
<1>3. daily'[<<r, d>>] = IF r = q /\ d = c THEN e ELSE daily[<<r, d>>]
  BY <1>1 DEF Writes
<1> QED BY <1>2, <1>3 DEF Row

\* The rows of a day change only with a trade, and with the balance that opens the day.
LEMMA DailyMoves ==
  ASSUME Engine, Linked, [Next]_vars
  PROVE  \/ RecordClosedTrade
         \/ UNCHANGED <<trades, daily>>
         \/ /\ SaveOpening /\ UNCHANGED <<trades, equity>>
            /\ Last(equity).day \in Days /\ work.amount \in Balances
            /\ Row(run, Last(equity).day).opening = None
            /\ daily' = [daily EXCEPT ![<<run, Last(equity).day>>] =
                           Closing([Row(run, Last(equity).day) EXCEPT !.opening = work.amount])]
<1> USE DEF tables, engine, time
<1>1. CASE SaveOpening
  <2>1. UNCHANGED <<trades, equity>>
    BY <1>1 DEF SaveOpening
  <2>2. work \in [at : {"equity", "opening"}, amount : Balances] /\ equity # <<>>
    BY <1>1, WorkFacts DEF SaveOpening, Engine
  <2>3. Last(equity) \in EquityRow
    BY <2>2, EmptySeq DEF Last, Engine
  <2>4. Last(equity).day \in Days /\ work.amount \in Balances
    BY <2>2, <2>3 DEF EquityRow
  <2>5. \/ daily' = daily
        \/ /\ Row(run, Last(equity).day).opening = None
           /\ daily' = [daily EXCEPT ![<<run, Last(equity).day>>] =
                           Closing([Row(run, Last(equity).day) EXCEPT !.opening = work.amount])]
    BY <1>1 DEF SaveOpening
  <2> QED BY <1>1, <2>1, <2>4, <2>5
<1>2. CASE [Next]_vars /\ ~SaveOpening /\ ~RecordClosedTrade
  BY <1>2 DEF Next, Send, SaveRequest, SaveExecution, Gone, TakeOver, SaveSnapshot,
     SaveProtection, Crash, ReadBalance, SaveEquity, Start, ApplyRun, ExchangeMoves, Passes,
     BeginReading, CountRows, SelectRows, vars
<1> QED BY <1>1, <1>2

\* Days are a finite set.
LEMMA DaysFinite == IsFiniteSet(Days)
<1>1. MaxDay \in Int /\ 0 \in Int
  BY RecordsAssumption
<1> QED BY <1>1, FS_Interval DEF Days

\* A value for every day, and the same but for one day, which has c more
OneDayDiffers(f, g, e, c) ==
  /\ DOMAIN f = Days /\ DOMAIN g = Days
  /\ \A d \in Days : f[d] \in Int /\ g[d] = IF d = e THEN f[d] + c ELSE f[d]

\* What the days add up to, and what becomes of it when one day changes.
LEMMA OneDayMore ==
  ASSUME NEW f, NEW g, NEW e \in Days, NEW c \in Int, OneDayDiffers(f, g, e, c)
  PROVE  SumFunction(g) = SumFunction(f) + c
<1>1. SumFunction(g) = SumFunctionOnSet(g, Days) /\ SumFunction(f) = SumFunctionOnSet(f, Days)
  BY DEF SumFunction, OneDayDiffers
<1>2. SumFunctionOnSet(g, Days) = SumFunctionOnSet(f, Days) + c
  BY DaysFinite, SumOfChanged DEF OneDayDiffers
<1> QED BY <1>1, <1>2

\* ... and when none changes.
LEMMA DaysSame ==
  ASSUME NEW f, NEW g, DOMAIN f = Days, DOMAIN g = Days, \A d \in Days : g[d] = f[d]
  PROVE  SumFunction(g) = SumFunction(f)
<1>1. SumFunction(g) = SumFunctionOnSet(g, Days) /\ SumFunction(f) = SumFunctionOnSet(f, Days)
  BY DEF SumFunction
<1> QED BY <1>1, DaysFinite, SumOfSame

\* The aggregate of a day is that of a row.
LEMMA RowTypes ==
  ASSUME Engine, NEW r \in Runs, NEW d \in Days
  PROVE  Row(r, d) \in DailyRow /\ Row(r, d).sum \in Int /\ Row(r, d).even \in Nat
<1>1. Row(r, d) \in DailyRow
  BY DailyFacts
<1> QED BY <1>1 DEF DailyRow

\* What a trade does to the row of a day.
LEMMA TradeRowMoves ==
  ASSUME Engine, RecordClosedTrade, NEW r \in Runs, NEW d \in Days
  PROVE  /\ work.row.pnl \in Int /\ work.row.run \in Runs /\ work.row.day \in Days
         /\ Row(r, d)' = IF work.row.run = r /\ work.row.day = d
                         THEN Upsert(Row(r, d), work.row.pnl) ELSE Row(r, d)
<1> DEFINE q == work.row.run
           c == work.row.day
           p == work.row.pnl
           u == Upsert(Row(q, c), p)
<1>1. work.row \in SnapshotRow /\ p \in Pnls /\ daily' = [daily EXCEPT ![<<q, c>>] = u]
  BY TradeSaved
<1>2. q \in Runs /\ c \in Days /\ p \in Int
  BY <1>1, TableFacts
<1>3. u \in DailyRow
  <2>1. \A x \in Pnls \cup {0} : Upsert(Row(q, c), x) \in DailyRow
    BY <1>2, DailyFacts
  <2> QED BY <1>1, <2>1
<1>4. Row(r, d)' = IF r = q /\ d = c THEN u ELSE Row(r, d)
  <2>1. Writes(q, c, u)
    BY <1>1 DEF Writes
  <2> HIDE DEF q, c, u
  <2> QED BY <1>2, <1>3, <2>1, RowWritten
<1> QED BY <1>2, <1>4

\* The days add up to the trades, in the sum and in the count of the trades that are even.
LEMMA DaysAddUpStep == Engine /\ Linked /\ DaysAddUp /\ [Next]_vars => DaysAddUp'
<1> DEFINE Even(r) == {i \in TradesOf(r) : trades[i].pnl = 0}
           SumOf(r) == [d \in Days |-> DailyOf(r, d).sum]
           EvenOf(r) == [d \in Days |-> DailyOf(r, d).even]
<1> SUFFICES ASSUME Engine, Linked, DaysAddUp, [Next]_vars, NEW r \in Runs
             PROVE  /\ SumPnl(trades, TradesOf(r))' = SumFunction(SumOf(r)')
                    /\ Count(Even(r)') = SumFunction(EvenOf(r)')
  BY DEF DaysAddUp
<1>1. SumPnl(trades, TradesOf(r)) = SumFunction(SumOf(r)) /\ Count(Even(r)) = SumFunction(EvenOf(r))
  BY DEF DaysAddUp
<1>2. /\ \A d \in Days : SumOf(r)[d] = Row(r, d).sum /\ SumOf(r)'[d] = Row(r, d)'.sum
      /\ \A d \in Days : EvenOf(r)[d] = Row(r, d).even /\ EvenOf(r)'[d] = Row(r, d)'.even
      /\ DOMAIN SumOf(r) = Days /\ DOMAIN SumOf(r)' = Days
      /\ DOMAIN EvenOf(r) = Days /\ DOMAIN EvenOf(r)' = Days
  BY DEF DailyOf
<1>3. CASE RecordClosedTrade
  <2> DEFINE m == Len(trades) + 1
             row == work.row
             t == [run |-> row.run, pnl |-> row.pnl, day |-> row.day, snap |-> work.snap]
             T == TradesOf(r)
             Z == Even(r)
  <2>1. /\ t \in TradeRow /\ row \in SnapshotRow /\ m \notin Ids(trades)
        /\ Ids(trades') = Ids(trades) \cup {m} /\ trades'[m] = t
        /\ \A i \in Ids(trades) : trades'[i] = trades[i]
    BY <1>3, TradeSaved
  <2>2. row.pnl \in Int /\ t.pnl = row.pnl /\ row.day \in Days
    BY <2>1, TableFacts
  <2>3. OneMore(trades, trades', m)
    <3>1. \A i \in Ids(trades) : trades[i].pnl \in Int
      BY TableFacts
    <3>2. IsFiniteSet(Ids(trades)) /\ trades'[m].pnl \in Int
      BY <2>1, <2>2, TableFacts
    <3> QED BY <2>1, <3>1, <3>2 DEF OneMore
  <2>4. T \in SUBSET Ids(trades) /\ Z \in SUBSET Ids(trades)
    BY DEF TradesOf
  <2>5. T' = IF row.run = r THEN T \cup {m} ELSE T
    <3>1. row.day \in Days
      BY <2>2
    <3> QED BY <1>3, <3>1, TradeSets
  <2>6. Z' = IF row.run = r /\ row.pnl = 0 THEN Z \cup {m} ELSE Z
    <3>1. trades'[m].pnl = row.pnl
      BY <2>1, <2>2
    <3> HIDE DEF t, m, row
    <3> QED BY <2>1, <2>5, <3>1 DEF TradesOf
  <2>7. \A d \in Days : Row(r, d)' = IF row.run = r /\ row.day = d THEN Upsert(Row(r, d), row.pnl) ELSE Row(r, d)
    BY <1>3, TradeRowMoves
  <2>8. \A d \in Days : Row(r, d) \in DailyRow /\ Row(r, d).sum \in Int /\ Row(r, d).even \in Int
    BY RowTypes
  <2>9. \A d \in Days : /\ Upsert(Row(r, d), row.pnl).sum = Row(r, d).sum + row.pnl
                        /\ Upsert(Row(r, d), row.pnl).even = Row(r, d).even + Sign(row.pnl).even
    BY <2>2, <2>8, UpsertFields
  <2> HIDE DEF m, row, t, T, Z, SumOf, EvenOf
  <2>10. /\ SumPnl(trades', T) = SumPnl(trades, T)
         /\ SumPnl(trades', T \cup {m}) = SumPnl(trades, T) + trades'[m].pnl
    BY <2>3, <2>4, RowAdded
  <2>11. Count(Z \cup {m}) = Count(Z) + 1
    BY <2>3, <2>4, RowAdded
  <2>12. CASE row.run = r
    <3>1. Sign(row.pnl).even = (IF row.pnl = 0 THEN 1 ELSE 0) /\ Sign(row.pnl).even \in Int
      BY DEF Sign
    <3>2. \A d \in Days : /\ SumOf(r)[d] \in Int
                          /\ SumOf(r)'[d] = IF d = row.day THEN SumOf(r)[d] + row.pnl ELSE SumOf(r)[d]
      BY <1>2, <2>7, <2>8, <2>9, <2>12
    <3>3. SumFunction(SumOf(r)') = SumFunction(SumOf(r)) + row.pnl
      <4>1. OneDayDiffers(SumOf(r), SumOf(r)', row.day, row.pnl)
        BY <1>2, <3>2 DEF OneDayDiffers
      <4> QED BY <2>2, <4>1, OneDayMore
    <3>4. \A d \in Days : /\ EvenOf(r)[d] \in Int
                          /\ EvenOf(r)'[d] = IF d = row.day THEN EvenOf(r)[d] + Sign(row.pnl).even ELSE EvenOf(r)[d]
      BY <1>2, <2>7, <2>8, <2>9, <2>12
    <3>5. SumFunction(EvenOf(r)') = SumFunction(EvenOf(r)) + Sign(row.pnl).even
      <4>1. OneDayDiffers(EvenOf(r), EvenOf(r)', row.day, Sign(row.pnl).even)
        BY <1>2, <3>4 DEF OneDayDiffers
      <4> QED BY <2>2, <3>1, <4>1, OneDayMore
    <3>6. SumPnl(trades', T') = SumFunction(SumOf(r)')
      BY <1>1, <2>1, <2>2, <2>5, <2>10, <2>12, <3>3 DEF T
    <3>7. Count(Z') = SumFunction(EvenOf(r)')
      <4>1. Count(Z) \in Nat
        <5>1. IsFiniteSet(Ids(trades))
          BY TableFacts
        <5> QED BY <2>4, <5>1, FS_Subset, FS_CardinalityType DEF Count
      <4>2. CASE row.pnl = 0
        BY <1>1, <2>6, <2>11, <2>12, <3>1, <3>5, <4>2 DEF Z
      <4>3. CASE row.pnl # 0
        <5>1. Count(Z') = Count(Z) /\ SumFunction(EvenOf(r)') = SumFunction(EvenOf(r)) + 0
          BY <2>6, <3>1, <3>5, <4>3
        <5>2. SumFunction(EvenOf(r)) = Count(Z)
          BY <1>1 DEF Z
        <5> QED BY <4>1, <5>1, <5>2
      <4> QED BY <4>2, <4>3
    <3> QED BY <3>6, <3>7 DEF T, Z
  <2>13. CASE row.run # r
    <3>1. \A d \in Days : SumOf(r)'[d] = SumOf(r)[d] /\ EvenOf(r)'[d] = EvenOf(r)[d]
      BY <1>2, <2>7, <2>13
    <3>2. SumFunction(SumOf(r)') = SumFunction(SumOf(r)) /\ SumFunction(EvenOf(r)') = SumFunction(EvenOf(r))
      BY <1>2, <3>1, DaysSame
    <3>3. SumPnl(trades', T') = SumPnl(trades, T) /\ Count(Z') = Count(Z)
      BY <2>5, <2>6, <2>10, <2>13
    <3> QED BY <1>1, <3>2, <3>3 DEF T, Z
  <2> QED BY <2>12, <2>13
<1>4. CASE UNCHANGED trades /\ \A d \in Days : Row(r, d)'.sum = Row(r, d).sum /\ Row(r, d)'.even = Row(r, d).even
  <2>1. \A d \in Days : SumOf(r)'[d] = SumOf(r)[d] /\ EvenOf(r)'[d] = EvenOf(r)[d]
    BY <1>2, <1>4
  <2>2. TradesOf(r)' = TradesOf(r) /\ Even(r)' = Even(r)
    BY <1>4 DEF TradesOf
  <2> HIDE DEF SumOf, EvenOf, Even
  <2>3. SumFunction(SumOf(r)') = SumFunction(SumOf(r)) /\ SumFunction(EvenOf(r)') = SumFunction(EvenOf(r))
    BY <1>2, <2>1, DaysSame
  <2> QED BY <1>1, <1>4, <2>2, <2>3
<1>5. CASE UNCHANGED <<trades, daily>>
  <2>1. \A d \in Days : Row(r, d)' = Row(r, d)
    BY <1>5 DEF Row
  <2> QED BY <1>4, <1>5, <2>1
<1>6. ASSUME UNCHANGED trades, NEW c \in Days, work.amount \in Balances,
             daily' = [daily EXCEPT ![<<run, c>>] = Closing([Row(run, c) EXCEPT !.opening = work.amount])]
      PROVE  \A d \in Days : Row(r, d)'.sum = Row(r, d).sum /\ Row(r, d)'.even = Row(r, d).even
  <2> DEFINE e == Closing([Row(run, c) EXCEPT !.opening = work.amount])
  <2>1. run \in Runs /\ e \in DailyRow /\ Row(run, c) \in DailyRow
    <3>1. run \in Runs
      BY DEF Engine
    <3>2. \A b \in Balances : Closing([Row(run, c) EXCEPT !.opening = b]) \in DailyRow
      BY <3>1, DailyFacts
    <3> QED BY <1>6, <3>1, <3>2, RowTypes
  <2>2. e.sum = Row(run, c).sum /\ e.even = Row(run, c).even
    BY <1>6, <2>1, OpeningFields
  <2>3. Writes(run, c, e)
    BY <1>6 DEF Writes
  <2> HIDE DEF e
  <2>4. \A d \in Days : Row(r, d)' = IF r = run /\ d = c THEN e ELSE Row(r, d)
    BY <2>1, <2>3, RowWritten
  <2> QED BY <2>2, <2>4
<1> QED BY <1>3, <1>4, <1>5, <1>6, DailyMoves

\* What opens a day is the balance that was saved last.
LEMMA OpeningStep == Engine /\ Linked /\ Opening /\ [Next]_vars => Opening'
<1> SUFFICES ASSUME Engine, Linked, Opening, [Next]_vars, work'.at = "opening"
             PROVE  equity' # <<>> /\ Last(equity').run = run' /\ Last(equity').amount = work'.amount
  BY DEF Opening
<1> USE DEF tables, engine, time
<1>0. work \in Works /\ (~up => work = Idle) /\ Idle.at = "idle"
  BY DEF Engine, Linked, Idle
<1>1. CASE UNCHANGED <<work, equity, run>>
  BY <1>1 DEF Opening
<1>2. CASE SaveEquity
  <2>1. work \in [at : {"equity", "opening"}, amount : Balances]
    BY <1>0, <1>2, WorkFacts DEF SaveEquity
  <2> DEFINE q == [run |-> run, day |-> day, amount |-> work.amount]
  <2>2. /\ equity' = Append(equity, q) /\ work' = [work EXCEPT !.at = "opening"] /\ run' = run
    BY <1>0, <1>2 DEF SaveEquity, Goes
  <2>3. work'.amount = work.amount
    BY <2>1, <2>2
  <2>4. q.run = run /\ q.amount = work.amount
    OBVIOUS
  <2> HIDE DEF q
  <2>5. Last(equity') = q /\ equity' # <<>>
    <3>1. equity \in Seq(EquityRow)
      BY DEF Engine
    <3>2. q \in EquityRow
      BY <2>1 DEF q, EquityRow, Engine
    <3>3. equity' # <<>> /\ Len(equity') = Len(equity) + 1 /\ equity'[Len(equity) + 1] = q
      BY <2>2, <3>1, <3>2, AppendProperties
    <3> QED BY <3>3 DEF Last
  <2> QED BY <2>2, <2>3, <2>4, <2>5
<1>3. ASSUME NEW said \in {"rejected", "open", "filled"}, Send(said) PROVE FALSE
  BY <1>3 DEF Send, Goes
<1>4. CASE SaveRequest
  <2>1. work'.at \in {"execution", "idle"}
    BY <1>0, <1>4 DEF SaveRequest, Goes
  <2> QED BY <2>1
<1>5. \A row, n : Snapshot(row, n).at = "snapshot"
  BY DEF Snapshot
<1>6. CASE SaveExecution \/ Gone \/ TakeOver
  <2>1. \E row, n : work' = Snapshot(row, n)
    BY <1>6, Zenon DEF SaveExecution, Gone, TakeOver, Goes
  <2> QED BY <1>5, <2>1
<1>7. CASE SaveSnapshot
  <2>1. work' = work.next \/ work'.at = "trade"
    BY <1>7 DEF SaveSnapshot, Goes
  <2>2. work.next \in Nexts
    BY <1>0, <1>7, WorkFacts DEF SaveSnapshot
  <2> QED BY <2>1, <2>2, WorksMade
<1>8. CASE RecordClosedTrade
  <2>1. work' = work.next /\ work.next \in Nexts
    BY <1>0, <1>8, WorkFacts DEF RecordClosedTrade, Goes
  <2> QED BY <2>1, WorksMade
<1>13. CASE Crash \/ ReadBalance \/ SaveOpening
  BY <1>0, <1>13 DEF Crash, ReadBalance, SaveOpening, Goes
<1>9. CASE SaveProtection
  <2>1. work.left - 1 \in 0 .. 2 /\ work' = Protecting(work.left - 1)
    BY <1>0, <1>9, WorkFacts DEF SaveProtection, Goes
  <2> QED BY <2>1, WorksMade
<1>10. ASSUME NEW r \in Runs, Start(r) PROVE FALSE
  BY <1>10 DEF Start, Goes, Booting
<1>11. ASSUME NEW r \in Runs, ApplyRun(r) PROVE FALSE
  BY <1>0, <1>11 DEF ApplyRun, Tick
<1>12. CASE ExchangeMoves \/ Passes \/ BeginReading \/ CountRows \/ SelectRows \/ UNCHANGED vars
  BY <1>1, <1>12 DEF ExchangeMoves, Passes, BeginReading, CountRows, SelectRows, vars
<1> QED BY <1>2, <1>3, <1>4, <1>6, <1>7, <1>8, <1>9, <1>10, <1>11, <1>12, <1>13 DEF Next

\* Balances that were saved stay saved.
LEMMA EquityGrows ==
  ASSUME Engine, [Next]_vars
  PROVE  \A i \in Ids(equity) : i \in Ids(equity') /\ equity'[i] = equity[i]
<1> USE DEF tables, engine, time
<1>1. equity' = equity \/ \E q : equity' = Append(equity, q)
  BY DEF Next, Send, SaveRequest, SaveExecution, Gone, TakeOver, SaveSnapshot, RecordClosedTrade,
     SaveProtection, Crash, ReadBalance, SaveEquity, SaveOpening, Start, ApplyRun, ExchangeMoves, Passes,
     BeginReading, CountRows, SelectRows, vars
<1>2. equity \in Seq(EquityRow)
  BY DEF Engine
<1>3. ASSUME NEW q, equity' = Append(equity, q), NEW i \in Ids(equity)
      PROVE  i \in Ids(equity') /\ equity'[i] = equity[i]
  BY <1>2, <1>3 DEF Ids
<1> QED BY <1>1, <1>3

WinsOn(r, d) == {i \in TradesOn(r, d) : trades[i].pnl > 0}
LossesOn(r, d) == {i \in TradesOn(r, d) : trades[i].pnl < 0}

\* The row of a day counts and adds up the trades of that day.
Counted(r, d) ==
  LET row == Row(r, d) IN
    /\ row.count = Count(TradesOn(r, d)) /\ row.sum = SumPnl(trades, TradesOn(r, d))
    /\ row.wins = Count(WinsOn(r, d)) /\ row.losses = Count(LossesOn(r, d))
    /\ row.count = row.wins + row.losses + row.even
    /\ row.sum = row.profit - row.loss

\* It closes with what it opened with and what was won or lost.
Opened(r, d) ==
  LET row == Row(r, d) IN
    row.opening # None =>
      /\ row.closing = row.opening + row.sum
      /\ \E i \in Ids(equity) : equity[i] = [run |-> r, day |-> d, amount |-> row.opening]

DaysRight == \A r \in Runs, d \in Days : Counted(r, d) /\ Opened(r, d)

\* That is the aggregate.
LEMMA DaysRightAggregate == DaysRight => DailyIsAggregate
<1> SUFFICES ASSUME DaysRight, NEW r \in Runs, NEW d \in Days
             PROVE  LET row == DailyOf(r, d)  p == PeriodOf(r, {d}) IN
                      /\ row.count = p.count /\ row.sum = p.sum /\ row.wins = p.wins /\ row.losses = p.losses
                      /\ row.count = row.wins + row.losses + row.even
                      /\ row.sum = row.profit - row.loss
                      /\ row.opening # None =>
                           /\ row.closing = row.opening + row.sum
                           /\ \E i \in Ids(equity) : equity[i] = [run |-> r, day |-> d, amount |-> row.opening]
  BY DEF DailyIsAggregate
<1>1. Counted(r, d) /\ Opened(r, d)
  BY DEF DaysRight
<1> DEFINE S == {i \in TradesOf(r) : trades[i].day \in {d}}
<1>2. S = TradesOn(r, d)
  BY DEF TradesOn
<1>3. {i \in S : trades[i].pnl > 0} = WinsOn(r, d) /\ {i \in S : trades[i].pnl < 0} = LossesOn(r, d)
  BY <1>2 DEF WinsOn, LossesOn
<1>4. PeriodOf(r, {d}) =
        [count |-> Count(TradesOn(r, d)), sum |-> SumPnl(trades, TradesOn(r, d)),
         wins |-> Count(WinsOn(r, d)), losses |-> Count(LossesOn(r, d))]
  <2>1. PeriodOf(r, {d}) =
          [count |-> Count(S), sum |-> SumPnl(trades, S),
           wins |-> Count({i \in S : trades[i].pnl > 0}),
           losses |-> Count({i \in S : trades[i].pnl < 0})]
    BY DEF PeriodOf
  <2> HIDE DEF S
  <2> QED BY <1>2, <1>3, <2>1, Zenon
<1> QED BY <1>1, <1>4 DEF Counted, Opened, DailyOf

\* Every row of a day counts the trades of that day and opens with a balance of that day.
LEMMA DaysRightStep == Engine /\ Linked /\ Opening /\ DaysRight /\ [Next]_vars => DaysRight'
<1> SUFFICES ASSUME Engine, Linked, Opening, DaysRight, [Next]_vars, NEW r \in Runs, NEW d \in Days
             PROVE  Counted(r, d)' /\ Opened(r, d)'
  BY DEF DaysRight
<1>1. Counted(r, d) /\ Opened(r, d) /\ Row(r, d) \in DailyRow
  BY RowTypes DEF DaysRight
<1>2. \A i \in Ids(equity) : i \in Ids(equity') /\ equity'[i] = equity[i]
  BY EquityGrows
<1>3. ASSUME Row(r, d)'.opening = Row(r, d).opening,
             Row(r, d).opening # None => Row(r, d)'.closing = Row(r, d).opening + Row(r, d)'.sum
      PROVE  Opened(r, d)'
  BY <1>1, <1>2, <1>3 DEF Opened
<1>4. ASSUME trades' = trades,
             Row(r, d)'.count = Row(r, d).count, Row(r, d)'.sum = Row(r, d).sum,
             Row(r, d)'.wins = Row(r, d).wins, Row(r, d)'.losses = Row(r, d).losses,
             Row(r, d)'.even = Row(r, d).even, Row(r, d)'.profit = Row(r, d).profit,
             Row(r, d)'.loss = Row(r, d).loss
      PROVE  Counted(r, d)'
  <2>1. /\ TradesOn(r, d)' = TradesOn(r, d) /\ WinsOn(r, d)' = WinsOn(r, d)
        /\ LossesOn(r, d)' = LossesOn(r, d)
    BY <1>4 DEF WinsOn, LossesOn, TradesOn, TradesOf
  <2> QED BY <1>1, <1>4, <2>1 DEF Counted
<1>5. CASE UNCHANGED <<trades, daily>>
  <2>1. Row(r, d)' = Row(r, d)
    BY <1>5 DEF Row
  <2>2. Counted(r, d)'
    BY <1>4, <1>5, <2>1
  <2>3. Opened(r, d)'
    BY <1>1, <1>3, <2>1 DEF Opened
  <2> QED BY <2>2, <2>3
<1>6. CASE RecordClosedTrade
  <2> DEFINE m == Len(trades) + 1
             row == work.row
             e == Row(r, d)
             p == row.pnl
             u == Upsert(e, p)
             hit == row.run = r /\ row.day = d
             T == TradesOn(r, d)
             W == WinsOn(r, d)
             L == LossesOn(r, d)
  <2>1. p \in Int /\ Row(r, d)' = IF hit THEN u ELSE e
    BY <1>6, TradeRowMoves
  <2>2. /\ m \notin Ids(trades) /\ Ids(trades') = Ids(trades) \cup {m} /\ trades'[m].pnl = p
        /\ \A i \in Ids(trades) : trades'[i] = trades[i]
    BY <1>6, TradeSaved
  <2>3. OneMore(trades, trades', m)
    <3>1. \A i \in Ids(trades) : trades[i].pnl \in Int
      BY TableFacts
    <3>2. IsFiniteSet(Ids(trades))
      BY TableFacts
    <3> QED BY <2>1, <2>2, <3>1, <3>2 DEF OneMore
  <2>4. T \in SUBSET Ids(trades) /\ W \in SUBSET Ids(trades) /\ L \in SUBSET Ids(trades)
    BY DEF TradesOn, TradesOf, WinsOn, LossesOn
  <2>5. T' = IF hit THEN T \cup {m} ELSE T
    BY <1>6, TradeSets
  <2>6. /\ W' = IF hit /\ p > 0 THEN W \cup {m} ELSE W
        /\ L' = IF hit /\ p < 0 THEN L \cup {m} ELSE L
    <3> HIDE DEF T, m, hit, p
    <3>1. W' = {i \in T' : trades'[i].pnl > 0} /\ L' = {i \in T' : trades'[i].pnl < 0}
      BY DEF WinsOn, LossesOn, T
    <3>2. W = {i \in T : trades[i].pnl > 0} /\ L = {i \in T : trades[i].pnl < 0}
      BY DEF WinsOn, LossesOn, T
    <3> HIDE DEF W, L
    <3>3. \A i \in T : trades'[i] = trades[i]
      BY <2>2, <2>4
    <3> QED BY <2>2, <2>5, <3>1, <3>2, <3>3
  <2>7. CASE ~hit
    <3>1. T' = T /\ W' = W /\ L' = L /\ Row(r, d)' = e
      BY <2>1, <2>5, <2>6, <2>7
    <3> HIDE DEF T, W, L, m
    <3>2. /\ SumPnl(trades', T) = SumPnl(trades, T)
          /\ SumPnl(trades', T \cup {m}) = SumPnl(trades, T) + trades'[m].pnl
      BY <2>3, <2>4, RowAdded
    <3>3. Counted(r, d)'
      BY <1>1, <3>1, <3>2 DEF Counted, T, W, L
    <3>4. Opened(r, d)'
      BY <1>1, <1>3, <3>1 DEF Opened
    <3> QED BY <3>3, <3>4
  <2>8. CASE hit
    <3>1. Row(r, d)' = u /\ T' = T \cup {m}
      BY <2>1, <2>5, <2>8
    <3>2. /\ u.count = e.count + 1 /\ u.sum = e.sum + p
          /\ u.wins = e.wins + Sign(p).win /\ u.losses = e.losses + Sign(p).loss
          /\ u.even = e.even + Sign(p).even
          /\ u.profit = (IF p > 0 THEN e.profit + p ELSE e.profit)
          /\ u.loss = (IF p < 0 THEN e.loss - p ELSE e.loss)
          /\ u.opening = e.opening
          /\ e.opening # None => u.closing = e.opening + (e.sum + p)
      BY <1>1, <2>1, UpsertFields
    <3>3. /\ e.count \in Nat /\ e.wins \in Nat /\ e.losses \in Nat /\ e.even \in Nat
          /\ e.sum \in Int /\ e.profit \in Nat /\ e.loss \in Nat
      BY <1>1 DEF DailyRow
    <3>4. /\ Sign(p).win = (IF p > 0 THEN 1 ELSE 0) /\ Sign(p).loss = (IF p < 0 THEN 1 ELSE 0)
          /\ Sign(p).even = (IF p = 0 THEN 1 ELSE 0)
      BY DEF Sign
    <3>5. /\ e.count = Count(T) /\ e.sum = SumPnl(trades, T) /\ e.wins = Count(W) /\ e.losses = Count(L)
          /\ e.count = e.wins + e.losses + e.even /\ e.sum = e.profit - e.loss
      BY <1>1 DEF Counted
    <3>6. Opened(r, d)'
      BY <1>1, <1>3, <3>1, <3>2
    <3> HIDE DEF T, W, L, m, u, e, p, hit
    <3>7. /\ SumPnl(trades', T \cup {m}) = SumPnl(trades, T) + trades'[m].pnl
          /\ Count(T \cup {m}) = Count(T) + 1
      BY <2>3, <2>4, RowAdded
    <3>8. Count(W \cup {m}) = Count(W) + 1
      BY <2>3, <2>4, RowAdded
    <3>9. Count(L \cup {m}) = Count(L) + 1
      BY <2>3, <2>4, RowAdded
    <3>10. u.count = Count(T') /\ u.sum = SumPnl(trades', T')
      BY <2>2, <3>1, <3>2, <3>5, <3>7
    <3>11. u.wins = Count(W')
      BY <2>1, <2>6, <2>8, <3>2, <3>3, <3>4, <3>5, <3>8
    <3>12. u.losses = Count(L')
      BY <2>1, <2>6, <2>8, <3>2, <3>3, <3>4, <3>5, <3>9
    <3>13. u.count = u.wins + u.losses + u.even /\ u.sum = u.profit - u.loss
      <4>1. CASE p > 0
        BY <2>1, <3>2, <3>3, <3>4, <3>5, <4>1
      <4>2. CASE p < 0
        BY <2>1, <3>2, <3>3, <3>4, <3>5, <4>2
      <4>3. CASE p = 0
        BY <2>1, <3>2, <3>3, <3>4, <3>5, <4>3
      <4> QED BY <2>1, <4>1, <4>2, <4>3
    <3>14. Counted(r, d)'
      BY <3>1, <3>10, <3>11, <3>12, <3>13 DEF Counted, T, W, L
    <3> QED BY <3>6, <3>14
  <2> QED BY <2>7, <2>8
<1>7. ASSUME SaveOpening, UNCHANGED <<trades, equity>>, NEW c \in Days, c = Last(equity).day,
             work.amount \in Balances,
             daily' = [daily EXCEPT ![<<run, c>>] = Closing([Row(run, c) EXCEPT !.opening = work.amount])]
      PROVE  Counted(r, d)' /\ Opened(r, d)'
  <2> DEFINE e == Closing([Row(run, c) EXCEPT !.opening = work.amount])
  <2>1. run \in Runs /\ e \in DailyRow /\ Row(run, c) \in DailyRow
    <3>1. run \in Runs
      BY DEF Engine
    <3>2. \A b \in Balances : Closing([Row(run, c) EXCEPT !.opening = b]) \in DailyRow
      BY <3>1, DailyFacts
    <3> QED BY <1>7, <3>1, <3>2, RowTypes
  <2>2. /\ e.count = Row(run, c).count /\ e.sum = Row(run, c).sum /\ e.wins = Row(run, c).wins
        /\ e.losses = Row(run, c).losses /\ e.even = Row(run, c).even
        /\ e.profit = Row(run, c).profit /\ e.loss = Row(run, c).loss
        /\ e.opening = work.amount /\ e.closing = work.amount + e.sum
    BY <1>7, <2>1, OpeningFields
  <2>3. Writes(run, c, e)
    BY <1>7 DEF Writes
  <2>4. equity # <<>> /\ Last(equity).run = run /\ Last(equity).amount = work.amount
    BY <1>7 DEF Opening, SaveOpening
  <2> HIDE DEF e
  <2>5. Row(r, d)' = IF r = run /\ d = c THEN e ELSE Row(r, d)
    BY <2>1, <2>3, RowWritten
  <2>6. Counted(r, d)'
    BY <1>4, <1>7, <2>2, <2>5
  <2>7. Opened(r, d)'
    <3>1. CASE r = run /\ d = c
      <4>1. Last(equity) = [run |-> r, day |-> d, amount |-> work.amount] /\ Len(equity) \in Ids(equity)
        <5>1. equity \in Seq(EquityRow) /\ Len(equity) \in Nat /\ Len(equity) # 0
          BY <2>4, EmptySeq DEF Engine
        <5>2. Len(equity) \in Ids(equity) /\ equity[Len(equity)] \in EquityRow
          BY <5>1 DEF Ids
        <5>3. Last(equity) \in EquityRow
          BY <5>2 DEF Last
        <5> QED BY <1>7, <2>4, <3>1, <5>2, <5>3 DEF EquityRow
      <4>2. equity'[Len(equity)] = [run |-> r, day |-> d, amount |-> e.opening] /\ Len(equity) \in Ids(equity')
        BY <1>7, <2>2, <4>1 DEF Last
      <4>3. Row(r, d)' = e /\ e.closing = e.opening + e.sum
        BY <2>2, <2>5, <3>1
      <4> QED BY <4>2, <4>3 DEF Opened
    <3>2. CASE ~(r = run /\ d = c)
      BY <1>1, <1>3, <2>5, <3>2 DEF Opened
    <3> QED BY <3>1, <3>2
  <2> QED BY <2>6, <2>7
<1> QED BY <1>5, <1>6, <1>7, DailyMoves

\* Nothing is closed, booked or counted at first.
LEMMA EmptyBooks == Init => Linked /\ Opening /\ Closes /\ DaysAddUp /\ DaysRight
<1> SUFFICES ASSUME Init PROVE Linked /\ Opening /\ Closes /\ DaysAddUp /\ DaysRight
  OBVIOUS
<1>1. /\ snaps = <<>> /\ trades = <<>> /\ work.at = "idle" /\ work = Idle
      /\ daily = [rd \in Runs \X Days |-> None]
  BY DEF Init, Idle
<1>2. Ids(snaps) = {} /\ Ids(trades) = {}
  BY <1>1 DEF Ids
<1>3. Unbooked = {}
  BY <1>2 DEF Unbooked
<1>4. Linked
  BY <1>1, <1>2, <1>3 DEF Linked
<1>5. Opening
  BY <1>1 DEF Opening
<1>6. SumPnl(snaps, {}) = 0 /\ SumPnl(trades, {}) = 0 /\ Count({}) = 0
  <2>1. \A f : SumFunctionOnSet(f, {}) = 0
    BY SumOfZeros, FS_EmptySet
  <2> QED BY <2>1, FS_EmptySet DEF SumPnl, Count
<1>7. ASSUME NEW r \in Runs, NEW d \in Days
      PROVE  /\ ClosedOn(r, d) = {} /\ Missing(r, d) = {} /\ TradesOn(r, d) = {} /\ TradesOf(r) = {}
             /\ Row(r, d) = EmptyDay
  <2>1. daily[<<r, d>>] = None
    BY <1>1
  <2> QED BY <1>2, <1>3, <2>1 DEF ClosedOn, Missing, TradesOn, TradesOf, Row
<1>8. Closes
  BY <1>6, <1>7 DEF Closes
<1>9. DaysAddUp
  <2>1. SUFFICES ASSUME NEW r \in Runs
                 PROVE  /\ SumPnl(trades, TradesOf(r)) = SumFunction([d \in Days |-> DailyOf(r, d).sum])
                        /\ Count({i \in TradesOf(r) : trades[i].pnl = 0})
                             = SumFunction([d \in Days |-> DailyOf(r, d).even])
    BY DEF DaysAddUp
  <2>2. \A d \in Days : DailyOf(r, d).sum = 0 /\ DailyOf(r, d).even = 0
    BY <1>7 DEF DailyOf, EmptyDay
  <2> DEFINE f == [d \in Days |-> DailyOf(r, d).sum]
             g == [d \in Days |-> DailyOf(r, d).even]
  <2>3. DOMAIN f = Days /\ DOMAIN g = Days /\ \A d \in Days : f[d] = 0 /\ g[d] = 0
    BY <2>2
  <2> HIDE DEF f, g
  <2>4. SumFunction(f) = 0 /\ SumFunction(g) = 0
    <3>1. SumFunctionOnSet(f, Days) = 0 /\ SumFunctionOnSet(g, Days) = 0
      BY <2>3, DaysFinite, SumOfZeros
    <3> QED BY <2>3, <3>1 DEF SumFunction
  <2>5. TradesOf(r) = {}
    BY <1>2 DEF TradesOf
  <2>6. {i \in TradesOf(r) : trades[i].pnl = 0} = {}
    BY <2>5
  <2> QED BY <1>6, <2>4, <2>5, <2>6 DEF f, g
<1>10. DaysRight
  <2>1. SUFFICES ASSUME NEW r \in Runs, NEW d \in Days PROVE Counted(r, d) /\ Opened(r, d)
    BY DEF DaysRight
  <2>2. WinsOn(r, d) = {} /\ LossesOn(r, d) = {}
    BY <1>7 DEF WinsOn, LossesOn
  <2>3. Opened(r, d)
    BY <1>7 DEF Opened, EmptyDay
  <2>4. /\ Row(r, d).count = 0 /\ Row(r, d).sum = 0 /\ Row(r, d).wins = 0 /\ Row(r, d).losses = 0
        /\ Row(r, d).even = 0 /\ Row(r, d).profit = 0 /\ Row(r, d).loss = 0
    BY <1>7 DEF EmptyDay
  <2>5. /\ Count(TradesOn(r, d)) = 0 /\ SumPnl(trades, TradesOn(r, d)) = 0
        /\ Count(WinsOn(r, d)) = 0 /\ Count(LossesOn(r, d)) = 0
    BY <1>6, <1>7, <2>2
  <2>6. Counted(r, d)
    BY <2>4, <2>5 DEF Counted
  <2> QED BY <2>3, <2>6
<1> QED BY <1>4, <1>5, <1>8, <1>9, <1>10

\* A trade that is not a win is a loss or even.
LEMMA NotWon ==
  ASSUME Engine, NEW r \in Runs
  PROVE  Count({i \in TradesOf(r) : ~(trades[i].pnl > 0)}) =
           Count({i \in TradesOf(r) : trades[i].pnl < 0}) + Count({i \in TradesOf(r) : trades[i].pnl = 0})
<1> DEFINE L == {i \in TradesOf(r) : trades[i].pnl < 0}
           E == {i \in TradesOf(r) : trades[i].pnl = 0}
<1>1. \A i \in TradesOf(r) : trades[i].pnl \in Int
  BY TableFacts DEF TradesOf
<1>2. {i \in TradesOf(r) : ~(trades[i].pnl > 0)} = L \cup E /\ L \cap E = {}
  BY <1>1
<1>3. L \in SUBSET Ids(trades) /\ E \in SUBSET Ids(trades) /\ IsFiniteSet(Ids(trades))
  BY TableFacts DEF TradesOf
<1> HIDE DEF L, E
<1>4. IsFiniteSet(L) /\ IsFiniteSet(E) /\ Cardinality(L) \in Nat /\ Cardinality(E) \in Nat
  BY <1>3, FS_Subset, FS_CardinalityType
<1>5. Cardinality(L \cup E) = Cardinality(L) + Cardinality(E) - Cardinality(L \cap E)
  BY <1>4, FS_Union
<1>6. Cardinality(L \cup E) = Cardinality(L) + Cardinality(E)
  <2>1. Cardinality({}) = 0
    BY FS_EmptySet
  <2>2. Cardinality(L \cap E) = 0
    BY <1>2, <2>1
  <2> QED BY <1>4, <1>5, <2>2
<1> QED BY <1>2, <1>6 DEF Count, L, E

\* The reports agree when the books are right.
LEMMA ReportsRight == Engine /\ Linked /\ Closes /\ DaysAddUp /\ DaysRight => ReportsAgree
<1> SUFFICES ASSUME Engine, Linked, Closes, DaysAddUp, DaysRight PROVE ReportsAgree
  OBVIOUS
<1>1. day \in Days /\ day \in Nat /\ Days \subseteq Nat
  BY TableFacts DEF Engine
<1>2. ASSUME NEW r \in Runs
      PROVE  /\ PnlToday(r) = DailyOf(r, day).sum + SumPnl(snaps, Unbooked \cap ClosedToday(r))
             /\ Count(ClosedToday(r)) = DailyOf(r, day).count + Count(Unbooked \cap ClosedToday(r))
  <2>1. ClosedToday(r) = ClosedOn(r, day)
    <3>1. \A i \in Ids(snaps) : snaps[i].day \in Nat /\ snaps[i].day <= day
      BY <1>1, TableFacts DEF Linked
    <3> QED BY <1>1, <3>1 DEF ClosedToday, ClosedOn
  <2>2. Unbooked \cap ClosedToday(r) = Missing(r, day)
    BY <2>1 DEF Missing
  <2>3. /\ SumPnl(snaps, ClosedOn(r, day)) = SumPnl(trades, TradesOn(r, day)) + SumPnl(snaps, Missing(r, day))
        /\ Count(ClosedOn(r, day)) = Count(TradesOn(r, day)) + Count(Missing(r, day))
    BY <1>1 DEF Closes
  <2>4. DailyOf(r, day).sum = SumPnl(trades, TradesOn(r, day)) /\ DailyOf(r, day).count = Count(TradesOn(r, day))
    BY <1>1 DEF DaysRight, Counted, DailyOf
  <2> QED BY <2>1, <2>2, <2>3, <2>4, Zenon DEF PnlToday
<1>3. ASSUME NEW r \in Runs
      PROVE  LET s == Summary(r)  p == PerformanceSummary(r) IN
               /\ s.sum = SumFunction([d \in Days |-> DailyOf(r, d).sum])
               /\ s.wins = p.wins /\ s.losses = p.losses + p.even
               /\ p.even = SumFunction([d \in Days |-> DailyOf(r, d).even])
  <2> DEFINE f == SumFunction([d \in Days |-> DailyOf(r, d).sum])
             g == SumFunction([d \in Days |-> DailyOf(r, d).even])
             s1 == Count(TradesOf(r))
             s2 == SumPnl(trades, TradesOf(r))
             s3 == Count({i \in TradesOf(r) : trades[i].pnl > 0})
             s4 == Count({i \in TradesOf(r) : ~(trades[i].pnl > 0)})
             s5 == Count({i \in TradesOf(r) : trades[i].pnl < 0})
             s6 == Count({i \in TradesOf(r) : trades[i].pnl = 0})
  <2>1. s2 = f /\ s6 = g
    BY DEF DaysAddUp
  <2>2. s4 = s5 + s6
    BY NotWon
  <2>3. Summary(r) = [trades |-> s1, sum |-> s2, wins |-> s3, losses |-> s4]
    BY DEF Summary
  <2>4. PerformanceSummary(r) = [total |-> s1, sum |-> s2, wins |-> s3, losses |-> s5, even |-> s6]
    BY DEF PerformanceSummary
  <2> HIDE DEF f, g, s1, s2, s3, s4, s5, s6
  <2>5. LET s == Summary(r)  p == PerformanceSummary(r) IN
          s.sum = f /\ s.wins = p.wins /\ s.losses = p.losses + p.even /\ p.even = g
    BY <2>1, <2>2, <2>3, <2>4
  <2> QED BY <2>5 DEF f, g
<1>4. /\ \A i \in Unbooked : snaps[i].small \/ i \in lost \/ (work.at = "trade" /\ work.snap = i)
      /\ \A i, j \in Ids(trades) : trades[i].snap = trades[j].snap => i = j
  BY DEF Linked
<1> QED BY <1>2, <1>3, <1>4 DEF ReportsAgree

-----------------------------------------------------------------------------
(* Theorems *)

\* performance_daily is at every commit what an aggregation of trade_result gives, run by run and
\* day by day, and closes with the opening balance and the result of the day, for any results,
\* balances and sizes of the tables (record_closed_trade, set_opening_equity_if_missing).
THEOREM DailyAggregates == Spec => []DailyIsAggregate
  BY RecordsInit, EmptyBooks, OrdersStep, EngineStep, LinkedStep, OpeningStep, DaysRightStep,
     DaysRightAggregate, PTL DEF Spec

\* The dashboard, the daily aggregate and the summaries differ only by closes that were not
\* booked, each of which is too small, being saved, or was cut off by the end of the engine; no
\* close is booked twice.
THEOREM ReportsConsistent == Spec => []ReportsAgree
  BY RecordsInit, EmptyBooks, OrdersStep, EngineStep, LinkedStep, OpeningStep, ClosesStep,
     DaysAddUpStep, DaysRightStep, ReportsRight, PTL DEF Spec

-----------------------------------------------------------------------------
(* The timeline *)

LEMMA TimelineIsNewestOfNewest ==
  ASSUME NEW events, NEW cap, NEW perTable
  PROVE  Timeline(events, cap, perTable)
           = Newest(UNION {Newest(S, perTable) : S \in events}, cap)
  BY DEF Timeline

\* The timeline shows exactly the newest events of all tables together, although it reads only some
\* of each, as long as it reads as many of each as it shows.
THEOREM TimelineExact ==
  ASSUME NEW events, \A S \in events : S \subseteq Int, IsFiniteSet(UNION events),
         NEW cap \in Nat, NEW perTable \in Nat, cap <= perTable
  PROVE  Timeline(events, cap, perTable) = Newest(UNION events, cap)
<1> DEFINE All == UNION events
           Kept == UNION {Newest(S, perTable) : S \in events}
<1>1. /\ Kept \in SUBSET All /\ All \subseteq Int
      /\ \A S \in events : S \in SUBSET All /\ Newest(S, perTable) \in SUBSET Kept
  BY DEF Newest
<1>2. \A T \in SUBSET All : IsFiniteSet(T) /\ Count(T) \in Nat
  BY FS_Subset, FS_CardinalityType DEF Count
<1>3. \A T \in SUBSET All : \A V \in SUBSET T : Count(V) <= Count(T)
  <2> SUFFICES ASSUME NEW T \in SUBSET All, NEW V \in SUBSET T PROVE Count(V) <= Count(T)
    OBVIOUS
  <2> QED BY <1>2, FS_Subset DEF Count
<1> HIDE DEF All, Kept
<1>4. ASSUME NEW t \in Newest(All, cap) PROVE t \in Newest(Kept, cap)
  <2>1. t \in All /\ Count(Newer(All, t)) < cap
    BY DEF Newest
  <2>2. PICK S \in events : t \in S
    BY <2>1 DEF All
  <2>3. /\ Newer(S, t) \in SUBSET Newer(All, t) /\ Newer(Kept, t) \in SUBSET Newer(All, t)
        /\ Newer(All, t) \in SUBSET All
    BY <1>1, <2>2 DEF Newer
  <2>4. Count(Newer(S, t)) <= Count(Newer(All, t)) /\ Count(Newer(Kept, t)) <= Count(Newer(All, t))
    BY <1>3, <2>3
  <2>5. /\ Count(Newer(S, t)) \in Nat /\ Count(Newer(Kept, t)) \in Nat
        /\ Count(Newer(All, t)) \in Nat
    BY <1>2, <2>3
  <2>6. Count(Newer(S, t)) < perTable /\ Count(Newer(Kept, t)) < cap
    BY <2>1, <2>4, <2>5
  <2>7. t \in Kept
    BY <1>1, <2>2, <2>6 DEF Newest
  <2> QED BY <2>6, <2>7 DEF Newest
<1>5. ASSUME NEW t \in Newest(Kept, cap) PROVE t \in Newest(All, cap)
  <2>1. t \in Kept /\ t \in All /\ t \in Int /\ Count(Newer(Kept, t)) < cap
    BY <1>1 DEF Newest
  <2>2. Newer(Kept, t) \in SUBSET All /\ Newer(Kept, t) \in SUBSET Newer(All, t)
    BY <1>1 DEF Newer
  <2>3. ASSUME NEW u \in Newer(All, t), u \notin Newer(Kept, t) PROVE FALSE
    <3>1. u \in All /\ u > t /\ u \notin Kept
      BY <2>3 DEF Newer
    <3>2. PICK S \in events : u \in S
      BY <3>1 DEF All
    <3>3. S \subseteq Int /\ IsFiniteSet(S) /\ u \notin Newest(S, perTable)
      BY <1>1, <1>2, <3>1, <3>2
    <3>4. PICK A \in SUBSET (Newest(S, perTable) \cap Newer(S, t)) : perTable <= Count(A)
      BY <2>1, <3>1, <3>2, <3>3, CutRowsAreOlder
    <3>5. A \in SUBSET Newer(Kept, t)
      BY <1>1, <3>2, <3>4 DEF Newer
    <3>6. A \in SUBSET All /\ Count(A) <= Count(Newer(Kept, t))
      BY <1>3, <2>2, <3>5
    <3>7. Count(A) \in Nat /\ Count(Newer(Kept, t)) \in Nat
      BY <1>2, <2>2, <3>6
    <3> QED BY <2>1, <3>4, <3>6, <3>7
  <2>4. Newer(All, t) = Newer(Kept, t)
    BY <2>2, <2>3
  <2> QED BY <2>1, <2>4 DEF Newest
<1>6. Newest(Kept, cap) = Newest(All, cap)
  BY <1>4, <1>5
<1> QED BY <1>6, TimelineIsNewestOfNewest DEF Kept, All
===============================================================================
