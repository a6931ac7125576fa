--------------------------- MODULE TrainingProofs ---------------------------
(***************************************************************************)
(* Proofs about Training: a whole archive, a gate that compares out of     *)
(* sample, and a live pointer whose rollbacks walk back.                   *)
(*                                                                         *)
(* The invariant is Dated /\ Solid /\ Honest /\ Held.  Solid: the archive  *)
(* has every bar the exchange has between any two of its own.  Honest: an  *)
(* outcome is what the exchange gives.  Held is Fitted /\ AtWork /\        *)
(* Operating /\ Current.  Fitted: every version is clean, and the holdouts *)
(* of the nights begin later and later.  AtWork: a run of the night is for *)
(* the last night, and for the job's holdout.  Current: the stack of the   *)
(* live pointer walks back through what was live; Pending: so does that of *)
(* a pointer which was read earlier and is not yet written.                *)
(*                                                                         *)
(* The ranks of bars in a frame count its elements; what they are worth is *)
(* proved by induction on finite sets (SubsetInduction of SumTheorems).    *)
(***************************************************************************)
EXTENDS Training, SumTheorems
-----------------------------------------------------------------------------
(* Finite sets of numbers: their ends, and the ranks in them.              *)

\* A finite set of numbers has a least and a greatest.
LEMMA EndsExist ==
  ASSUME NEW S \in SUBSET Int, IsFiniteSet(S), S # {}
  PROVE  /\ Min(S) \in S /\ \A x \in S : Min(S) <= x
         /\ Max(S) \in S /\ \A x \in S : x <= Max(S)
<1> DEFINE P == {T \in SUBSET S : T # {} => /\ \E m \in T : \A x \in T : m <= x
                                            /\ \E m \in T : \A x \in T : x <= m}
<1>1. ASSUME NEW T \in SUBSET S, \A x \in T : T \ {x} \in P PROVE T \in P
  <2> SUFFICES ASSUME T # {}
               PROVE  (\E m \in T : \A x \in T : m <= x) /\ (\E m \in T : \A x \in T : x <= m)
    OBVIOUS
  <2>1. PICK e \in T : TRUE
    OBVIOUS
  <2>2. CASE T \ {e} = {}
    <3>1. \A x \in T : x = e
      BY <2>2
    <3>2. e <= e
      OBVIOUS
    <3> QED BY <3>1, <3>2
  <2>3. CASE T \ {e} # {}
    <3>1. T \ {e} \in P
      BY <1>1
    <3>2. PICK l \in T : \A x \in T \ {e} : l <= x
      BY <2>3, <3>1
    <3>3. PICK h \in T : \A x \in T \ {e} : x <= h
      BY <2>3, <3>1
    <3>4. l \in Int /\ h \in Int /\ e \in Int
      OBVIOUS
    <3>5. \E m \in T : \A x \in T : m <= x
      <4>1. CASE l <= e
        BY <3>2, <4>1
      <4>2. CASE e <= l
        BY <3>2, <3>4, <4>2
      <4> QED BY <3>4, <4>1, <4>2
    <3>6. \E m \in T : \A x \in T : x <= m
      <4>1. CASE e <= h
        BY <3>3, <4>1
      <4>2. CASE h <= e
        BY <3>3, <3>4, <4>2
      <4> QED BY <3>4, <4>1, <4>2
    <3> QED BY <3>5, <3>6
  <2> QED BY <2>2, <2>3
<1>2. S \in P
  <2>1. S \in SUBSET S
    OBVIOUS
  <2> HIDE DEF P
  <2> QED BY <1>1, <2>1, SubsetInduction
<1>3. PICK l \in S : \A x \in S : l <= x
  BY <1>2
<1>4. PICK h \in S : \A x \in S : h >= x
  BY <1>2
<1>5. Min(S) \in S /\ \A x \in S : Min(S) <= x
  BY <1>3 DEF Min
<1>6. Max(S) \in S /\ \A x \in S : Max(S) >= x
  BY <1>4 DEF Max
<1> QED BY <1>5, <1>6

\* Every rank up to the size of a set is taken by one of its elements.
LEMMA RankTaken ==
  ASSUME NEW S \in SUBSET Int, IsFiniteSet(S), NEW k \in 1..Cardinality(S)
  PROVE  \E u \in S : Rank(S, u) = k
<1> DEFINE P == {T \in SUBSET S : \A i \in 1..Cardinality(T) : \E u \in T : Rank(T, u) = i}
<1>1. ASSUME NEW T \in SUBSET S, \A x \in T : T \ {x} \in P PROVE T \in P
  <2> SUFFICES ASSUME NEW i \in 1..Cardinality(T) PROVE \E u \in T : Rank(T, u) = i
    OBVIOUS
  <2>1. IsFiniteSet(T) /\ T \in SUBSET Int /\ Cardinality(T) \in Nat
    BY FS_Subset, FS_CardinalityType
  <2>2. T # {}
    BY FS_EmptySet
  <2>3. PICK m \in T : \A x \in T : x <= m
    BY <2>1, <2>2, EndsExist
  <2>4. CASE i = Cardinality(T)
    <3>1. {u \in T : u <= m} = T
      BY <2>3
    <3> QED BY <2>4, <3>1 DEF Rank
  <2>5. CASE i # Cardinality(T)
    <3>1. Cardinality(T \ {m}) = Cardinality(T) - 1
      BY <2>1, FS_RemoveElement
    <3>2. i \in 1..Cardinality(T \ {m})
      BY <2>1, <2>5, <3>1
    <3>3. PICK u \in T \ {m} : Rank(T \ {m}, u) = i
      BY <1>1, <3>2
    <3>4. ~(m <= u)
      BY <2>1, <2>3
    <3>5. {v \in T : v <= u} = {v \in T \ {m} : v <= u}
      BY <3>4
    <3> QED BY <3>3, <3>5 DEF Rank
  <2> QED BY <2>4, <2>5
<1>2. S \in P
  <2>1. S \in SUBSET S
    OBVIOUS
  <2> HIDE DEF P
  <2> QED BY <1>1, <2>1, SubsetInduction
<1> QED BY <1>2

\* The elements between two others make the difference of the ranks.
LEMMA RankBetween ==
  ASSUME NEW S \in SUBSET Int, IsFiniteSet(S), NEW a \in Int, NEW b \in Int, a <= b
  PROVE  /\ Rank(S, a) \in Nat /\ Rank(S, b) \in Nat
         /\ Cardinality({u \in S : a < u /\ u <= b}) \in Nat
         /\ Rank(S, b) = Rank(S, a) + Cardinality({u \in S : a < u /\ u <= b})
<1> DEFINE A == {u \in S : u <= a}
           B == {u \in S : u <= b}
           M == {u \in S : a < u /\ u <= b}
<1>1. A \in SUBSET S /\ B \in SUBSET S /\ M \in SUBSET S /\ B = A \cup M /\ A \cap M = {}
  <2>1. \A u \in S : u \in Int
    OBVIOUS
  <2>2. \A u \in S : (u <= b <=> u <= a \/ (a < u /\ u <= b)) /\ ~(u <= a /\ a < u)
    BY <2>1
  <2>3. B = A \cup M
    BY <2>2
  <2>4. A \cap M = {}
    BY <2>2
  <2> QED BY <2>3, <2>4
<1>2. Cardinality(A \cap M) = 0
  BY <1>1, FS_EmptySet
<1> HIDE DEF A, B, M
<1>3. IsFiniteSet(A) /\ IsFiniteSet(B) /\ IsFiniteSet(M)
  BY <1>1, FS_Subset
<1>4. Cardinality(A) \in Nat /\ Cardinality(B) \in Nat /\ Cardinality(M) \in Nat
  BY <1>3, FS_CardinalityType
<1>5. Cardinality(A \cup M) = Cardinality(A) + Cardinality(M) - Cardinality(A \cap M)
  BY <1>3, FS_Union
<1>6. Cardinality(B) = Cardinality(A) + Cardinality(M)
  BY <1>1, <1>2, <1>4, <1>5
<1> QED BY <1>4, <1>6 DEF A, B, M, Rank

\* An element has a rank of its own.
LEMMA RankUnique ==
  ASSUME NEW S \in SUBSET Int, IsFiniteSet(S), NEW u \in S, NEW v \in S, Rank(S, u) = Rank(S, v)
  PROVE  u = v
<1>1. ASSUME NEW a \in S, NEW b \in S, a < b PROVE Rank(S, a) # Rank(S, b)
  <2> DEFINE M == {x \in S : a < x /\ x <= b}
  <2>1. /\ Rank(S, a) \in Nat /\ Cardinality(M) \in Nat
        /\ Rank(S, b) = Rank(S, a) + Cardinality(M)
    BY <1>1, RankBetween
  <2>2. b \in M /\ M \in SUBSET S
    BY <1>1
  <2> HIDE DEF M
  <2>3. IsFiniteSet(M) /\ M # {}
    BY <2>2, FS_Subset
  <2>4. Cardinality(M) # 0
    BY <2>3, FS_EmptySet
  <2> QED BY <2>1, <2>4
<1>2. u \in Int /\ v \in Int
  OBVIOUS
<1>3. ~(u < v) /\ ~(v < u)
  BY <1>1
<1> QED BY <1>2, <1>3

\* Numbers between two others are no more than lie between them.
LEMMA Apart ==
  ASSUME NEW S \in SUBSET Int, NEW a \in Int, NEW b \in Int, a <= b,
         NEW k \in Nat, k <= Cardinality({u \in S : a < u /\ u <= b})
  PROVE  a + k <= b
<1> DEFINE M == {u \in S : a < u /\ u <= b}
<1>1. M \in SUBSET ((a + 1) .. b)
  <2>1. ASSUME NEW u \in M PROVE u \in (a + 1) .. b
    <3>1. u \in Int /\ a < u /\ u <= b
      OBVIOUS
    <3> QED BY <3>1
  <2> QED BY <2>1
<1>2. IsFiniteSet((a + 1) .. b) /\ Cardinality((a + 1) .. b) = IF a + 1 > b THEN 0 ELSE b - (a + 1) + 1
  BY FS_Interval
<1> HIDE DEF M
<1>3. Cardinality(M) <= Cardinality((a + 1) .. b) /\ IsFiniteSet(M)
  BY <1>1, <1>2, FS_Subset
<1>4. Cardinality(M) \in Nat
  BY <1>3, FS_CardinalityType
<1>5. k <= Cardinality(M)
  BY DEF M
<1>6. Cardinality((a + 1) .. b) = b - a
  BY <1>2
<1> QED BY <1>3, <1>4, <1>5, <1>6
-----------------------------------------------------------------------------
(* The archive and the outcomes.                                           *)
Bars == 1 .. Days * PerDay

\* The archive has every bar the exchange has between any two of its own.
Whole(archived, listed) ==
  /\ archived \subseteq listed
  /\ \A t \in listed : \A x, y \in archived : x <= t /\ t <= y => t \in archived
Solid == archive \in [Symbol -> SUBSET Bars] /\ \A s \in Symbol : Whole(archive[s], Listed[s])

\* Logged signals, and where their outcomes come from.
Honest ==
  \A g \in signals :
    /\ g \in [symbol: Symbol, ts: Int, outcome: Nat]
    /\ g.outcome # None => g.outcome = Ahead(Listed[g.symbol], g.ts)

\* Days and bars are numbers.
LEMMA DaysAre ==
  /\ PerDay \in Nat \ {0} /\ Days \in Nat \ {0} /\ Days * PerDay \in Nat
  /\ \A t \in Int : DayOf(t) \in Int
  /\ \A d \in Int : Start(d) \in Int
<1>1. PerDay \in Nat \ {0} /\ Days \in Nat \ {0}
  BY SampleAssumption, TrainingAssumption
<1>2. Days * PerDay \in Nat
  BY <1>1
<1>3. ASSUME NEW t \in Int PROVE DayOf(t) \in Int
  <2>1. (t - 1) \div PerDay \in Int
    BY <1>1
  <2> QED BY <2>1 DEF DayOf
<1>4. ASSUME NEW d \in Int PROVE Start(d) \in Int
  <2>1. (d - 1) * PerDay \in Int
    BY <1>1
  <2> QED BY <2>1 DEF Start
<1> QED BY <1>1, <1>2, <1>3, <1>4

\* Sets of bars are finite sets of numbers.
LEMMA BarsAre ==
  /\ IsFiniteSet(Bars) /\ Bars \subseteq Nat /\ \A t \in Bars : t >= 1
  /\ \A S \in SUBSET Bars : S \in SUBSET Int /\ IsFiniteSet(S)
  /\ Listed \in [Symbol -> SUBSET Bars]
<1>1. IsFiniteSet(Bars)
  BY DaysAre, FS_Interval DEF Bars
<1>2. Bars \subseteq Nat /\ \A t \in Bars : t >= 1
  BY DaysAre DEF Bars
<1>3. ASSUME NEW S \in SUBSET Bars PROVE S \in SUBSET Int /\ IsFiniteSet(S)
  <2>1. IsFiniteSet(S)
    BY <1>1, FS_Subset
  <2> QED BY <1>2, <2>1
<1>4. Listed \in [Symbol -> SUBSET Bars]
  BY TrainingAssumption DEF Symbol, Bars
<1> QED BY <1>1, <1>2, <1>3, <1>4

\* The ends of two numbers.
LEMMA EndsOfTwo ==
  ASSUME NEW a \in Int, NEW b \in Int
  PROVE  Min({a, b}) \in Int /\ Max({a, b}) \in Int
<1>1. {a, b} = {a} \cup {b} /\ {a, b} \in SUBSET Int /\ {a, b} # {}
  OBVIOUS
<1>2. IsFiniteSet({a, b})
  <2>1. IsFiniteSet({a}) /\ IsFiniteSet({b})
    BY FS_Singleton
  <2>2. IsFiniteSet({a} \cup {b})
    BY <2>1, FS_Union
  <2> QED BY <1>1, <2>2
<1>3. Min({a, b}) \in {a, b} /\ Max({a, b}) \in {a, b}
  BY <1>1, <1>2, EndsExist
<1> QED BY <1>3

\* What is fetched joins the archive without a hole: it starts after the last bar archived.
LEMMA WriteSolid ==
  ASSUME Solid, clock \in Int, NEW s \in Symbol, NEW end \in Int, NEW stop \in Int,
         Write(s, end, stop)
  PROVE  Solid'
<1> DEFINE A == archive[s]
           L == Listed[s]
           F == Fetched(s, end, stop)
<1>1. /\ A \in SUBSET Bars /\ L \in SUBSET Bars /\ A \in SUBSET Int /\ L \in SUBSET Int
      /\ IsFiniteSet(A) /\ Whole(A, L)
  BY BarsAre DEF Solid
<1>2. A # {} => /\ Max(A) \in A /\ (\A x \in A : x <= Max(A)) /\ TopUpStart(s) = Max(A) + 1
  BY <1>1, EndsExist DEF TopUpStart, NextBarStart
<1>3. PICK from \in Int : from = TopUpStart(s)
  <2>1. CASE A = {}
    <3>1. Today - TopUpDays \in Int
      <4>1. Today \in Int
        BY DaysAre DEF Today
      <4>2. TopUpDays \in Nat
        BY TrainingAssumption
      <4> QED BY <4>1, <4>2
    <3>2. Max({1, Today - TopUpDays}) \in Int
      <4>1. PICK n \in Int : n = Today - TopUpDays
        BY <3>1
      <4>2. 1 \in Int
        OBVIOUS
      <4>3. Max({1, n}) \in Int
        BY <4>2, EndsOfTwo
      <4> QED BY <4>1, <4>3
    <3> QED BY <2>1, <3>2, DaysAre DEF TopUpStart
  <2>2. CASE A # {}
    BY <1>1, <1>2, <2>2
  <2> QED BY <2>1, <2>2
<1>4. PICK to \in Int : to = Min({clock, end * PerDay})
  <2>1. end * PerDay \in Int
    BY DaysAre
  <2> QED BY <2>1, EndsOfTwo
<1>5. \A t : t \in F <=> t \in L /\ from <= t /\ t <= to /\ t < stop
  BY <1>3, <1>4 DEF Fetched
<1> HIDE DEF F
<1>6. archive' = [archive EXCEPT ![s] = A \cup F]
  BY DEF Write, F
<1>7. Whole(A \cup F, L)
  <2> SUFFICES ASSUME NEW t \in L, NEW x \in A \cup F, NEW y \in A \cup F, x <= t, t <= y
               PROVE  t \in A \cup F
    BY <1>1, <1>5 DEF Whole
  <2>1. t \in Int /\ x \in Int /\ y \in Int
    BY <1>1, <1>5
  <2>2. CASE y \in F /\ from <= t
    BY <1>5, <2>1, <2>2
  <2>3. CASE ~(from <= t)
    <3>1. x \in A
      BY <1>5, <2>1, <2>3
    <3>2. PICK h \in A : h = Max(A) /\ from = h + 1
      BY <1>2, <1>3, <3>1
    <3>3. h \in Int /\ t <= h
      BY <1>1, <2>1, <2>3, <3>2
    <3> QED BY <1>1, <3>1, <3>2, <3>3 DEF Whole
  <2>4. CASE y \in A /\ from <= t
    <3>1. PICK h \in A : from = h + 1 /\ y <= h
      BY <1>2, <1>3, <2>4
    <3>2. h \in Int
      BY <1>1
    <3> QED BY <2>1, <2>4, <3>1, <3>2
  <2> QED BY <2>2, <2>3, <2>4
<1>8. A \cup F \in SUBSET Bars
  BY <1>1, <1>5
<1> QED BY <1>6, <1>7, <1>8 DEF Solid

\* The bar ahead is one that follows.
LEMMA AheadIs ==
  ASSUME NEW frame \in SUBSET Bars, NEW t \in Int
  PROVE  \/ Ahead(frame, t) = None
         \/ LET later == {u \in frame : u > t}
            IN  /\ Ahead(frame, t) \in later /\ Rank(later, Ahead(frame, t)) = Horizon
                /\ Cardinality(later) >= Horizon
<1> DEFINE later == {u \in frame : u > t}
<1>1. later \in SUBSET Int /\ IsFiniteSet(later)
  <2>1. later \in SUBSET Bars
    OBVIOUS
  <2> HIDE DEF later
  <2> QED BY <2>1, BarsAre
<1>2. CASE ~(Cardinality(later) < Horizon)
  <2>1. Horizon \in 1..Cardinality(later)
    BY <1>1, <1>2, FS_CardinalityType, SampleAssumption
  <2>2. \E u \in later : Rank(later, u) = Horizon
    <3> HIDE DEF later
    <3> QED BY <1>1, <2>1, RankTaken
  <2>3. Cardinality(later) >= Horizon
    BY <2>1
  <2> QED BY <1>2, <2>2, <2>3 DEF Ahead
<1> QED BY <1>2 DEF Ahead

\* In a whole archive the horizon-th bar after one of its own is the exchange's.
LEMMA AheadListed ==
  ASSUME NEW F, NEW L \in SUBSET Bars, Whole(F, L), NEW t \in F, Ahead(F, t) # None
  PROVE  Ahead(L, t) = Ahead(F, t)
<1> DEFINE inF == {u \in F : u > t}
           inL == {u \in L : u > t}
<1>1. F \in SUBSET L /\ F \in SUBSET Bars /\ t \in Int
  BY BarsAre DEF Whole
<1>2. PICK u \in inF : u = Ahead(F, t) /\ Rank(inF, u) = Horizon /\ Cardinality(inF) >= Horizon
  BY <1>1, AheadIs
<1>3. /\ inF \in SUBSET inL /\ inL \in SUBSET Int /\ IsFiniteSet(inL) /\ u \in inL /\ u \in Int
      /\ IsFiniteSet(inF)
  <2>1. inF \in SUBSET inL /\ inL \in SUBSET Bars /\ inF \in SUBSET Bars /\ u \in inF
    BY <1>1
  <2> HIDE DEF inF, inL
  <2> QED BY <2>1, BarsAre
<1>4. {v \in inL : v <= u} = {v \in inF : v <= u}
  <2>1. ASSUME NEW v \in inL, v <= u PROVE v \in inF
    <3>1. v \in L /\ v > t /\ v \in Int /\ u \in F
      BY <1>3
    <3>2. t <= v
      BY <1>1, <3>1
    <3>3. v \in F
      BY <2>1, <3>1, <3>2 DEF Whole
    <3> QED BY <3>1, <3>3
  <2> QED BY <1>3, <2>1
<1>5. Rank(inL, u) = Horizon
  BY <1>2, <1>4 DEF Rank
<1>6. ~(Cardinality(inL) < Horizon)
  <2> HIDE DEF inF, inL
  <2>1. Cardinality(inF) <= Cardinality(inL)
    BY <1>3, FS_Subset
  <2>2. Cardinality(inF) \in Nat /\ Cardinality(inL) \in Nat
    BY <1>3, FS_CardinalityType
  <2> QED BY <1>2, <2>1, <2>2, SampleAssumption
<1>7. Ahead(L, t) = CHOOSE v \in inL : Rank(inL, v) = Horizon
  BY <1>6 DEF Ahead
<1> HIDE DEF inL
<1>8. \A v \in inL : Rank(inL, v) = Horizon => v = u
  BY <1>3, <1>5, RankUnique
<1> QED BY <1>2, <1>3, <1>5, <1>7, <1>8
-----------------------------------------------------------------------------
(* Labels, holdout and folds.                                              *)

\* A frame without missing bars.
NoGap(frame) == \A x, y \in frame : \A z \in Int : x <= z /\ z <= y => z \in frame

\* Horizon and purge are numbers.
LEMMA SamplesAre ==
  /\ Horizon \in Nat \ {0} /\ Folds \in Nat \ {0} /\ MinTrain \in Nat \ {0}
  /\ Gap \in Nat /\ Horizon <= Gap
  BY SampleAssumption DEF Gap

\* A label looks at a bar of its frame, if at any; without missing bars the one
\* horizon bars on.
LEMMA LabelIs ==
  ASSUME NEW frame \in SUBSET Bars, NEW t \in frame
  PROVE  /\ LabelEnd(frame, t) \in {None} \cup frame
         /\ NoGap(frame) /\ LabelEnd(frame, t) # None => LabelEnd(frame, t) = t + Horizon
<1> DEFINE later == {u \in frame : u > t}
<1>1. t \in Int /\ \A x \in frame : x \in Int
  BY BarsAre
<1>2. LabelEnd(frame, t) \in {None, Ahead(frame, t)}
  BY DEF LabelEnd
<1>3. CASE Ahead(frame, t) = None
  BY <1>2, <1>3
<1>4. CASE Ahead(frame, t) # None
  <2>1. PICK u \in later : u = Ahead(frame, t) /\ Rank(later, u) = Horizon
    BY <1>1, <1>4, AheadIs
  <2>2. u \in frame /\ u \in Int /\ t < u
    BY <1>1, <2>1
  <2>3. ASSUME NoGap(frame) PROVE u = t + Horizon
    <3>1. {v \in later : v <= u} = (t + 1) .. u
      <4>1. ASSUME NEW v \in (t + 1) .. u PROVE v \in later /\ v <= u
        <5>1. v \in Int /\ t <= v /\ v <= u /\ v > t
          BY <1>1, <2>2
        <5>2. v \in frame
          BY <2>2, <2>3, <5>1 DEF NoGap
        <5> QED BY <5>1, <5>2
      <4>2. ASSUME NEW v \in later, v <= u PROVE v \in (t + 1) .. u
        BY <1>1, <2>2, <4>2
      <4> QED BY <4>1, <4>2
    <3>2. Cardinality((t + 1) .. u) = u - t
      <4>1. t + 1 \in Int
        BY <1>1
      <4>2. Cardinality((t + 1) .. u) = IF t + 1 > u THEN 0 ELSE u - (t + 1) + 1
        BY <2>2, <4>1, FS_Interval
      <4> QED BY <1>1, <2>2, <4>2
    <3>3. Horizon = u - t
      BY <2>1, <3>1, <3>2 DEF Rank
    <3> QED BY <1>1, <2>2, <3>3
  <2> QED BY <1>2, <2>1, <2>2, <2>3
<1> QED BY <1>3, <1>4

\* A row is a bar of a symbol.
LEMMA RowsAre ==
  ASSUME NEW frames \in [Symbol -> SUBSET Bars], NEW rows \in SUBSET Rows(frames)
  PROVE  /\ \A r \in rows : r[2] \in Symbol /\ r[1] \in frames[r[2]] /\ r[1] \in Bars
                            /\ r[1] \in Times(rows)
         /\ Times(rows) \in SUBSET Bars
<1>1. ASSUME NEW r \in rows
      PROVE  r[2] \in Symbol /\ r[1] \in frames[r[2]] /\ r[1] \in Bars
  <2>1. PICK s \in Symbol : r \in Warm(frames[s]) \X {s}
    BY DEF Rows
  <2>2. r[2] = s /\ r[1] \in Warm(frames[s])
    BY <2>1
  <2> QED BY <2>2 DEF Warm
<1> QED BY <1>1 DEF Times

\* What a model trains on ends a horizon before the holdout begins.
LEMMA HoldoutApart ==
  ASSUME NEW frames \in [Symbol -> SUBSET Bars], NEW rows \in SUBSET Rows(frames),
         NEW from \in Int, NEW held, held = Cardinality({t \in Times(rows) : t >= from}),
         NEW r \in TrainRows(rows, held)
  PROVE  r \in rows /\ r[1] \in Bars /\ r[1] + Horizon < from
<1> DEFINE T == Times(rows)
           H == {t \in T : t >= from}
           B == {t \in T : t <= from - 1}
<1>1. r \in rows /\ Rank(T, r[1]) <= Cardinality(T) - held - Horizon
  BY DEF TrainRows, Earliest
<1>2. r[1] \in Bars /\ r[1] \in Int /\ T \in SUBSET Bars /\ T \in SUBSET Int /\ IsFiniteSet(T)
  BY <1>1, RowsAre, BarsAre
<1> HIDE DEF T
<1>3. Rank(T, from - 1) = Cardinality(T) - held
  <2>1. H \in SUBSET T /\ B = T \ H
    <3>1. \A t \in T : t \in Int
      BY <1>2
    <3>2. \A t \in T : t <= from - 1 <=> ~(t >= from)
      BY <3>1
    <3> QED BY <3>2
  <2> HIDE DEF H
  <2>2. T \cap H = H
    BY <2>1
  <2>3. Cardinality(T \ H) = Cardinality(T) - Cardinality(H)
    BY <1>2, <2>2, FS_Difference
  <2>4. held = Cardinality(H)
    BY DEF H, T
  <2> QED BY <2>1, <2>3, <2>4 DEF Rank
<1>4. PICK t \in Int : t = r[1]
  BY <1>2
<1>5. from - 1 \in Int
  OBVIOUS
<1>6. PICK a \in Nat, b \in Nat : a = Rank(T, t) /\ b = Rank(T, from - 1)
  <2>1. t <= t /\ from - 1 <= from - 1
    BY <1>4
  <2> QED BY <1>2, <1>5, <2>1, RankBetween
<1>7. a <= b - Horizon
  BY <1>1, <1>3, <1>4, <1>6
<1>8. CASE from - 1 < t
  <2>1. PICK n \in Nat : n = Cardinality({u \in T : from - 1 < u /\ u <= t}) /\ a = b + n
    <3>1. from - 1 <= t
      BY <1>4, <1>5, <1>8
    <3> QED BY <1>2, <1>5, <1>6, <3>1, RankBetween
  <2> QED BY <1>6, <1>7, <2>1, SamplesAre
<1>9. CASE t <= from - 1
  <2>1. PICK n \in Nat : n = Cardinality({u \in T : t < u /\ u <= from - 1}) /\ b = a + n
    BY <1>2, <1>5, <1>6, <1>9, RankBetween
  <2>2. Horizon <= Cardinality({u \in T : t < u /\ u <= from - 1}) /\ Horizon \in Nat
    BY <1>6, <1>7, <2>1, SamplesAre
  <2>3. t + Horizon <= from - 1
    BY <1>2, <1>5, <1>9, <2>2, Apart
  <2>4. t + Horizon < from
    BY <2>2, <2>3
  <2> QED BY <1>1, <1>2, <1>4, <2>4
<1> QED BY <1>4, <1>5, <1>8, <1>9

\* What a fold trains on ends a horizon before the block it is scored on.
LEMMA FoldApart ==
  ASSUME NEW T \in SUBSET Bars, CanFold(Cardinality(T)), NEW k \in 0 .. Folds - 1,
         NEW t \in WalkForward(T)[k].train
  PROVE  /\ t \in T /\ WalkForward(T)[k].block \in SUBSET T /\ WalkForward(T)[k].block # {}
         /\ \A m \in WalkForward(T)[k].block : t + Horizon < m
<1>1. T \in SUBSET Int /\ IsFiniteSet(T)
  BY BarsAre
<1>2. PICK n \in Nat : n = Cardinality(T)
  BY <1>1, FS_CardinalityType
<1>3. PICK size \in Nat \ {0} : size = BlockSize(n) /\ n - Folds * size - Gap >= MinTrain
  <2>1. BlockSize(n) \in Int
    <3>1. n - MinTrain - Gap \in Int
      BY SamplesAre
    <3> QED BY <3>1, SamplesAre DEF BlockSize
  <2>2. BlockSize(n) >= 1 /\ n - Folds * BlockSize(n) - Gap >= MinTrain
    BY <1>2 DEF CanFold
  <2> QED BY <2>1, <2>2
<1>4. PICK from \in Nat : from = n - (Folds - k) * size /\ from + size <= n
  <2>1. PICK left \in Nat \ {0} : left = Folds - k /\ left <= Folds
    BY SamplesAre
  <2>2. left * size <= Folds * size /\ size <= left * size
    <3>1. PICK d \in Nat, e \in Nat : Folds = left + d /\ left = 1 + e
      BY <2>1, SamplesAre
    <3>2. Folds * size = left * size + d * size /\ left * size = size + e * size
      BY <3>1
    <3>3. d * size >= 0 /\ e * size >= 0
      OBVIOUS
    <3>4. d * size \in Int /\ e * size \in Int /\ left * size \in Int
      OBVIOUS
    <3> QED BY <3>2, <3>3, <3>4
  <2>3. left * size \in Int /\ Folds * size \in Int
    BY <2>1, SamplesAre
  <2>4. n - left * size \in Nat
    BY <1>3, <2>2, <2>3, SamplesAre
  <2> QED BY <2>1, <2>2, <2>3, <2>4
<1> DEFINE block == {u \in T : Rank(T, u) \in from + 1 .. from + size}
<1>5. WalkForward(T)[k].block = block /\ t \in T /\ Rank(T, t) <= from - Gap
  BY <1>2, <1>3, <1>4 DEF WalkForward
<1>6. block # {}
  <2>1. from + 1 \in 1..Cardinality(T)
    BY <1>2, <1>3, <1>4
  <2>2. PICK u \in T : Rank(T, u) = from + 1
    BY <1>1, <2>1, RankTaken
  <2> QED BY <1>3, <1>4, <2>2
<1>7. ASSUME NEW m \in block PROVE t + Horizon < m
  <2>1. t \in Int /\ m \in Int /\ m \in T
    BY <1>1, <1>5
  <2>2. PICK a \in Nat, b \in Nat : a = Rank(T, t) /\ b = Rank(T, m)
    <3>1. t <= t /\ m <= m
      BY <2>1
    <3> QED BY <1>1, <2>1, <3>1, RankBetween
  <2>3. a <= from - Gap /\ from + 1 <= b
    BY <1>4, <1>5, <2>2
  <2>4. CASE m < t
    <3>1. PICK c \in Nat : c = Cardinality({u \in T : m < u /\ u <= t}) /\ a = b + c
      <4>1. m <= t
        BY <2>1, <2>4
      <4> QED BY <1>1, <2>1, <2>2, <4>1, RankBetween
    <3> QED BY <1>4, <2>2, <2>3, <3>1, SamplesAre
  <2>5. CASE t <= m
    <3>1. PICK c \in Nat : c = Cardinality({u \in T : t < u /\ u <= m}) /\ b = a + c
      BY <1>1, <2>1, <2>2, <2>5, RankBetween
    <3>2. Horizon + 1 <= Cardinality({u \in T : t < u /\ u <= m}) /\ Horizon + 1 \in Nat
      BY <1>4, <2>2, <2>3, <3>1, SamplesAre
    <3>3. t + (Horizon + 1) <= m
      BY <1>1, <2>1, <2>5, <3>2, Apart
    <3> QED BY <2>1, <3>3, SamplesAre
  <2> QED BY <2>1, <2>4, <2>5
<1> QED BY <1>5, <1>6, <1>7

\* A model has not seen its holdout, nor a fold the block it is scored on, of a symbol
\* without missing bars.
LEMMA FitIsClean ==
  ASSUME NEW frames \in [Symbol -> SUBSET Bars], NEW from \in Int,
         NEW held, held = Cardinality({t \in Times(Rows(frames)) : t >= from}),
         NEW labelled, labelled = Labelled(frames, TrainRows(Rows(frames), held)),
         CanFit(labelled)
  PROVE  /\ FitModel(frames, labelled) \in [seen: [Symbol -> Int], leaky: SUBSET Symbol]
         /\ \A s \in Symbol : NoGap(frames[s]) =>
              /\ FitModel(frames, labelled).seen[s] < from
              /\ s \notin FitModel(frames, labelled).leaky
<1> DEFINE rows == Rows(frames)
           ends(s) == {LabelEnd(frames[s], r[1]) : r \in {q \in labelled : q[2] = s}}
           seen == [s \in Symbol |-> Max({None} \cup ends(s))]
           leaky == {s \in Symbol : FoldLeaks(frames, labelled, s)}
<1>1. FitModel(frames, labelled) = [seen |-> seen, leaky |-> leaky]
  BY DEF FitModel
<1>2. \A r \in labelled : /\ r \in rows /\ r[1] + Horizon < from
                          /\ LabelEnd(frames[r[2]], r[1]) # None
  BY HoldoutApart DEF Labelled
<1>3. labelled \in SUBSET rows
  BY <1>2
<1>4. \A r \in labelled : r[2] \in Symbol /\ r[1] \in frames[r[2]] /\ r[1] \in Bars
                          /\ r[1] \in Times(labelled)
  <2> HIDE DEF rows
  <2> QED BY <1>3, RowsAre DEF rows
<1>5. Times(labelled) \in SUBSET Bars
  <2> HIDE DEF rows
  <2> QED BY <1>3, RowsAre DEF rows
<1>6. from > 0
  <2>1. CASE labelled = {}
    <3>1. Cardinality(labelled) = 0
      BY <2>1, FS_EmptySet
    <3> QED BY <3>1, SamplesAre DEF CanFit
  <2>2. CASE labelled # {}
    <3>1. PICK r \in labelled : r[1] + Horizon < from
      BY <1>2, <2>2
    <3>2. PICK t \in Nat : t = r[1]
      BY <1>4, BarsAre
    <3> QED BY <3>1, <3>2, SamplesAre
  <2> QED BY <2>1, <2>2
<1>7. ASSUME NEW s \in Symbol
      PROVE  /\ seen[s] \in {None} \cup ends(s)
             /\ ends(s) \in SUBSET ({None} \cup Bars)
  <2>1. frames[s] \in SUBSET Bars
    OBVIOUS
  <2>2. ASSUME NEW e \in ends(s) PROVE e \in {None} \cup Bars
    <3>1. PICK r \in labelled : r[2] = s /\ e = LabelEnd(frames[s], r[1])
      OBVIOUS
    <3>2. r[1] \in frames[s]
      BY <1>4, <3>1
    <3> QED BY <2>1, <3>1, <3>2, LabelIs
  <2> DEFINE E == {None} \cup ends(s)
  <2>3. E \in SUBSET ({None} \cup Bars) /\ E # {}
    BY <2>2
  <2>4. seen[s] = Max(E)
    OBVIOUS
  <2> HIDE DEF E, seen, ends
  <2>5. IsFiniteSet(E) /\ E \in SUBSET Int
    <3>1. IsFiniteSet({None} \cup Bars) /\ {None} \cup Bars \in SUBSET Int
      <4>1. IsFiniteSet({None})
        BY FS_Singleton
      <4>2. IsFiniteSet({None} \cup Bars)
        BY <4>1, BarsAre, FS_Union
      <4> QED BY <4>2, BarsAre DEF None
    <3>2. IsFiniteSet(E)
      BY <2>3, <3>1, FS_Subset
    <3> QED BY <2>3, <3>1, <3>2
  <2>6. Max(E) \in E
    BY <2>3, <2>5, EndsExist
  <2> QED BY <2>3, <2>4, <2>6 DEF E
<1>8. seen \in [Symbol -> Int]
  <2>1. ASSUME NEW s \in Symbol PROVE seen[s] \in Int
    <3>1. \A e \in {None} \cup Bars : e \in Int
      BY BarsAre DEF None
    <3> HIDE DEF seen, ends
    <3> QED BY <1>7, <3>1
  <2> QED BY <2>1
<1>9. ASSUME NEW s \in Symbol, NoGap(frames[s])
      PROVE  seen[s] < from
  <2>1. CASE seen[s] = None
    BY <1>6, <2>1 DEF None
  <2>2. CASE seen[s] \in ends(s)
    <3>1. PICK r \in labelled : r[2] = s /\ seen[s] = LabelEnd(frames[s], r[1])
      BY <2>2
    <3>2. r[1] \in frames[s] /\ frames[s] \in SUBSET Bars /\ LabelEnd(frames[s], r[1]) # None
      BY <1>2, <1>4, <3>1
    <3>3. LabelEnd(frames[s], r[1]) = r[1] + Horizon
      BY <1>9, <3>2, LabelIs
    <3> HIDE DEF seen
    <3> QED BY <1>2, <3>1, <3>3
  <2> HIDE DEF seen, ends
  <2> QED BY <1>7, <2>1, <2>2
<1>10. ASSUME NEW s \in Symbol, NoGap(frames[s])
       PROVE  ~FoldLeaks(frames, labelled, s)
  <2> DEFINE T == Times(labelled)
             folds == WalkForward(T)
  <2> SUFFICES ASSUME NEW k \in DOMAIN folds, NEW t \in folds[k].train,
                      <<t, s>> \in labelled, LabelEnd(frames[s], t) >= Min(folds[k].block)
               PROVE  FALSE
    BY DEF FoldLeaks
  <2>1. k \in 0 .. Folds - 1
    BY DEF WalkForward
  <2>2. T \in SUBSET Bars /\ CanFold(Cardinality(T))
    BY <1>5 DEF CanFit
  <2>3. PICK r \in labelled : r = <<t, s>> /\ r[1] = t /\ r[2] = s
    OBVIOUS
  <2>4. LabelEnd(frames[s], t) = t + Horizon
    <3>1. t \in frames[s] /\ LabelEnd(frames[s], t) # None /\ frames[s] \in SUBSET Bars
      BY <1>2, <1>4, <2>3
    <3> QED BY <1>10, <3>1, LabelIs
  <2> DEFINE block == WalkForward(T)[k].block
  <2>5. /\ t \in T /\ block \in SUBSET T /\ block # {}
        /\ \A m \in block : t + Horizon < m
    <3> HIDE DEF T
    <3> QED BY <2>1, <2>2, FoldApart DEF T
  <2> HIDE DEF T, block
  <2>6. block \in SUBSET Int /\ IsFiniteSet(block)
    <3>1. block \in SUBSET Bars
      BY <2>2, <2>5
    <3> QED BY <3>1, BarsAre
  <2>7. Min(block) \in block
    BY <2>5, <2>6, EndsExist
  <2>8. t \in Int /\ Min(block) \in Int /\ t + Horizon < Min(block)
    BY <2>2, <2>5, <2>6, <2>7, BarsAre
  <2>9. t + Horizon >= Min(block)
    BY <2>4 DEF block, T
  <2> QED BY <2>8, <2>9, SamplesAre
<1> HIDE DEF seen, ends
<1>11. leaky \in SUBSET Symbol
  OBVIOUS
<1>12. PICK model : model = [seen |-> seen, leaky |-> leaky]
  OBVIOUS
<1>13. model.seen = seen /\ model.leaky = leaky
  BY <1>12
<1>14. model \in [seen: [Symbol -> Int], leaky: SUBSET Symbol]
  <2> HIDE DEF leaky
  <2> QED BY <1>8, <1>11, <1>12
<1>15. \A s \in Symbol : NoGap(frames[s]) => s \notin leaky
  BY <1>10
<1> HIDE DEF leaky
<1> QED BY <1>1, <1>9, <1>12, <1>13, <1>14, <1>15
-----------------------------------------------------------------------------
(* The live pointer.                                                       *)

\* A pointer that may become the live one: it names versions there are, no version twice
\* in a row, and its stack walks back through what was live.
Pending(p) ==
  /\ p \in [version: Nat \ {0}, stack: Seq(Nat \ {0})]
  /\ p.version <= Len(versions) /\ \A i \in DOMAIN p.stack : p.stack[i] <= Len(versions)
  /\ p.stack # <<>> => p.version # p.stack[1]
  /\ \A i \in 1 .. Len(p.stack) - 1 : p.stack[i] # p.stack[i + 1]
  /\ Backwards(p.stack, reigns)

\* The pointer that is live now is the last that was set.
Current ==
  /\ reigns \in Seq(Nat)
  /\ live # NoFile => /\ Pending(live) /\ reigns # <<>> /\ live.version = Last(reigns)
                      /\ Backwards(<<live.version>> \o live.stack, reigns)

\* A version in front of a stack.
LEMMA InFront ==
  ASSUME NEW S, NEW s \in Seq(S), NEW v \in S
  PROVE  /\ <<v>> \o s \in Seq(S) /\ Len(<<v>> \o s) = Len(s) + 1 /\ (<<v>> \o s)[1] = v
         /\ DOMAIN (<<v>> \o s) = 1 .. Len(s) + 1 /\ Len(s) \in Nat
         /\ \A i \in 2 .. Len(s) + 1 : (<<v>> \o s)[i] = s[i - 1] /\ i - 1 \in DOMAIN s
<1>1. <<v>> \in Seq(S) /\ Len(<<v>>) = 1 /\ <<v>>[1] = v /\ Len(s) \in Nat /\ DOMAIN s = 1 .. Len(s)
  OBVIOUS
<1>2. /\ <<v>> \o s \in Seq(S) /\ Len(<<v>> \o s) = Len(<<v>>) + Len(s)
      /\ \A i \in 1 .. Len(<<v>>) + Len(s) : (<<v>> \o s)[i] =
           IF i <= Len(<<v>>) THEN <<v>>[i] ELSE s[i - Len(<<v>>)]
  BY <1>1, ConcatProperties
<1>3. DOMAIN (<<v>> \o s) = 1 .. Len(s) + 1
  BY <1>1, <1>2
<1>4. \A i \in 2 .. Len(s) + 1 : (<<v>> \o s)[i] = s[i - 1] /\ i - 1 \in DOMAIN s
  BY <1>1, <1>2
<1> QED BY <1>1, <1>2, <1>3, <1>4

\* A stack that walks back does so when another version has come live, and from there.
LEMMA WalksFrom ==
  ASSUME NEW w \in Seq(Nat), NEW path \in Seq(Nat), NEW v \in Nat, Backwards(w, path)
  PROVE  /\ Backwards(w, Append(path, v))
         /\ Backwards(<<v>> \o w, Append(path, v))
<1>1. PICK at \in [DOMAIN w -> DOMAIN path] :
        /\ \A i, j \in DOMAIN w : i < j => at[i] > at[j]
        /\ \A i \in DOMAIN w : w[i] = path[at[i]]
  BY DEF Backwards
<1>2. PICK longer \in Seq(Nat) : longer = Append(path, v)
  <2>1. Append(path, v) \in Seq(Nat)
    OBVIOUS
  <2> QED BY <2>1
<1>3. /\ DOMAIN path \subseteq DOMAIN longer /\ Len(path) \in Nat
      /\ \A k \in DOMAIN path : longer[k] = path[k] /\ k \in Nat /\ k < Len(path) + 1
      /\ Len(path) + 1 \in DOMAIN longer /\ longer[Len(path) + 1] = v
  BY <1>2
<1>4. Backwards(w, longer)
  <2>1. at \in [DOMAIN w -> DOMAIN longer]
    BY <1>3
  <2>2. \A i \in DOMAIN w : w[i] = longer[at[i]]
    BY <1>1, <1>3
  <2> QED BY <1>1, <2>1, <2>2 DEF Backwards
<1>5. Backwards(<<v>> \o w, longer)
  <2>1. PICK u : u = <<v>> \o w
    OBVIOUS
  <2>2. /\ u[1] = v /\ DOMAIN u = 1 .. Len(w) + 1 /\ Len(w) \in Nat
        /\ \A i \in 2 .. Len(w) + 1 : u[i] = w[i - 1] /\ i - 1 \in DOMAIN w
    BY <2>1, InFront
  <2>3. PICK on : on = [i \in DOMAIN u |-> IF i = 1 THEN Len(path) + 1 ELSE at[i - 1]]
    OBVIOUS
  <2>4. \A i \in DOMAIN u : i = 1 \/ (i \in 2 .. Len(w) + 1 /\ i # 1)
    BY <2>2
  <2>5. 1 \in DOMAIN u /\ on[1] = Len(path) + 1
    BY <2>2, <2>3
  <2>6. \A i \in 2 .. Len(w) + 1 : on[i] = at[i - 1] /\ on[i] \in DOMAIN path /\ i \in DOMAIN u
    BY <2>2, <2>3
  <2>7. on \in [DOMAIN u -> DOMAIN longer]
    BY <1>3, <2>3, <2>4, <2>5, <2>6
  <2>8. \A i \in DOMAIN u : u[i] = longer[on[i]]
    <3>1. \A i \in 2 .. Len(w) + 1 : u[i] = longer[on[i]]
      BY <1>1, <1>3, <2>2, <2>6, SMTT(30)
    <3>2. u[1] = longer[on[1]]
      BY <1>3, <2>2, <2>5
    <3> QED BY <2>4, <3>1, <3>2
  <2>9. ASSUME NEW i \in DOMAIN u, NEW j \in DOMAIN u, i < j PROVE on[i] > on[j]
    <3>1. j \in 2 .. Len(w) + 1 /\ i \in Nat
      BY <2>2, <2>9
    <3>2. CASE i = 1
      BY <1>3, <2>5, <2>6, <3>1, <3>2
    <3>3. CASE i # 1
      <4>1. i \in 2 .. Len(w) + 1
        BY <2>4, <3>3
      <4>2. i - 1 \in DOMAIN w /\ j - 1 \in DOMAIN w
        BY <2>2, <3>1, <4>1
      <4>3. i \in Int /\ j \in Int
        BY <3>1
      <4>4. i - 1 < j - 1
        BY <2>9, <4>3
      <4>5. at[i - 1] > at[j - 1]
        BY <1>1, <4>2, <4>4
      <4> QED BY <2>6, <3>1, <4>1, <4>5
    <3> QED BY <3>2, <3>3
  <2> QED BY <2>1, <2>7, <2>8, <2>9 DEF Backwards
<1> QED BY <1>2, <1>4, <1>5

\* What is left of a stack walks back as well.
LEMMA WalksOn ==
  ASSUME NEW w \in Seq(Nat), w # <<>>, NEW path \in Seq(Nat), Backwards(w, path)
  PROVE  Backwards(Tail(w), path)
<1>1. PICK at \in [DOMAIN w -> DOMAIN path] :
        /\ \A i, j \in DOMAIN w : i < j => at[i] > at[j]
        /\ \A i \in DOMAIN w : w[i] = path[at[i]]
  BY DEF Backwards
<1>2. PICK u : u = Tail(w)
  OBVIOUS
<1>3. \A i \in DOMAIN u : u[i] = w[i + 1] /\ i + 1 \in DOMAIN w /\ i \in Int
  <2>1. /\ u \in Seq(Nat) /\ Len(u) = Len(w) - 1 /\ Len(w) \in Nat
        /\ \A i \in 1 .. Len(u) : u[i] = w[i + 1]
    BY <1>2, HeadTailProperties
  <2> QED BY <2>1
<1>4. PICK on : on = [i \in DOMAIN u |-> at[i + 1]]
  OBVIOUS
<1>5. on \in [DOMAIN u -> DOMAIN path]
  BY <1>3, <1>4
<1>6. ASSUME NEW i \in DOMAIN u, NEW j \in DOMAIN u, i < j PROVE on[i] > on[j]
  <2>1. i + 1 < j + 1 /\ i + 1 \in DOMAIN w /\ j + 1 \in DOMAIN w
    BY <1>3, <1>6
  <2> QED BY <1>1, <1>4, <2>1
<1>7. \A i \in DOMAIN u : u[i] = path[on[i]]
  BY <1>1, <1>3, <1>4
<1> QED BY <1>2, <1>5, <1>6, <1>7 DEF Backwards

\* Nothing walks back anywhere.
LEMMA NoStep == ASSUME NEW path PROVE Backwards(<<>>, path)
<1>1. PICK at : at = [i \in {} |-> 0]
  OBVIOUS
<1>2. at \in [{} -> DOMAIN path] /\ DOMAIN <<>> = {}
  BY <1>1
<1> QED BY <1>2 DEF Backwards

\* A promotion of a version there is.
LEMMA PromotedPends ==
  ASSUME Current, NEW v \in 1 .. Len(versions)
  PROVE  Pending(Promoted(live, v))
<1>0. PICK p : p = Promoted(live, v)
  OBVIOUS
<1>1. p = Promoted(live, v) /\ p.version = v
  BY <1>0 DEF Promoted
<1>2. v \in Nat \ {0} /\ v <= Len(versions)
  OBVIOUS
<1>3. CASE live = NoFile
  <2>1. p.stack = <<>> /\ p = [version |-> v, stack |-> <<>>]
    BY <1>1, <1>3 DEF Promoted, NoFile
  <2>2. p \in [version: Nat \ {0}, stack: Seq(Nat \ {0})]
    BY <1>2, <2>1
  <2> QED BY <1>1, <1>2, <2>1, <2>2, NoStep DEF Pending
<1>4. CASE live # NoFile
  <2>1. Pending(live) /\ live.version # None /\ Backwards(<<live.version>> \o live.stack, reigns)
    BY <1>4 DEF Current, Pending, None
  <2>2. PICK s \in Seq(Nat \ {0}), l \in Nat \ {0} : s = live.stack /\ l = live.version
    BY <2>1 DEF Pending
  <2>3. CASE l = v
    <3>1. p = [version |-> v, stack |-> s]
      BY <1>1, <2>2, <2>3 DEF Promoted
    <3>2. p \in [version: Nat \ {0}, stack: Seq(Nat \ {0})] /\ p.stack = s
      BY <1>2, <3>1
    <3> QED BY <1>1, <1>2, <2>1, <2>2, <2>3, <3>2 DEF Pending
  <2>4. CASE l # v
    <3>1. PICK w : w = <<l>> \o s
      OBVIOUS
    <3>2. /\ w \in Seq(Nat \ {0}) /\ w[1] = l /\ Len(w) = Len(s) + 1 /\ Len(s) \in Nat
          /\ DOMAIN w = 1 .. Len(s) + 1
          /\ \A i \in 2 .. Len(s) + 1 : w[i] = s[i - 1] /\ i - 1 \in DOMAIN s
      BY <3>1, InFront
    <3>3. p = [version |-> v, stack |-> w]
      BY <1>1, <2>1, <2>2, <2>4, <3>1 DEF Promoted
    <3>4. p \in [version: Nat \ {0}, stack: Seq(Nat \ {0})] /\ p.stack = w
      BY <1>2, <3>2, <3>3
    <3>5. \A i \in DOMAIN w : w[i] <= Len(versions)
      <4>1. l <= Len(versions) /\ \A i \in DOMAIN s : s[i] <= Len(versions)
        BY <2>1, <2>2 DEF Pending
      <4>2. \A i \in DOMAIN w : i = 1 \/ i \in 2 .. Len(s) + 1
        BY <3>2
      <4> QED BY <3>2, <4>1, <4>2
    <3>6. \A i \in 1 .. Len(w) - 1 : w[i] # w[i + 1]
      <4> SUFFICES ASSUME NEW i \in 1 .. Len(w) - 1 PROVE w[i] # w[i + 1]
        OBVIOUS
      <4>1. w[i + 1] = s[i] /\ i \in DOMAIN s /\ i \in 1 .. Len(s)
        BY <3>2
      <4>2. CASE i = 1
        <5>1. s # <<>>
          BY <4>1
        <5>2. l # s[1]
          BY <2>1, <2>2, <5>1 DEF Pending
        <5> QED BY <3>2, <4>1, <4>2, <5>2
      <4>3. CASE i # 1
        <5>0. i \in 2 .. Len(s) + 1
          BY <3>2, <4>1, <4>3, SMTT(30)
        <5>1. w[i] = s[i - 1] /\ i - 1 \in 1 .. Len(s) - 1
          <6>1. w[i] = s[i - 1]
            BY <3>2, <5>0
          <6>2. i - 1 \in 1 .. Len(s) - 1
            <7>1. PICK n \in Nat : n = Len(s) /\ i \in 1 .. n
              BY <3>2, <4>1
            <7>2. i - 1 \in 1 .. n - 1
              BY <4>3, <7>1
            <7> QED BY <7>1, <7>2
          <6> QED BY <6>1, <6>2
        <5>2. s[i - 1] # s[(i - 1) + 1]
          BY <2>1, <2>2, <5>1 DEF Pending
        <5> QED BY <4>1, <5>1, <5>2
      <4> QED BY <4>2, <4>3
    <3>7. Backwards(w, reigns)
      BY <2>1, <2>2, <3>1
    <3> QED BY <1>1, <1>2, <2>4, <3>2, <3>4, <3>5, <3>6, <3>7 DEF Pending
  <2> QED BY <2>3, <2>4
<1> QED BY <1>1, <1>3, <1>4

\* A rollback.
LEMMA RolledPends ==
  ASSUME Current, live.stack # <<>>
  PROVE  Pending(RolledBack(live))
<1>1. Pending(live) /\ reigns \in Seq(Nat)
  BY DEF Current, NoFile
<1>2. PICK s \in Seq(Nat \ {0}) : s = live.stack /\ s # <<>>
  BY <1>1 DEF Pending
<1>3. PICK t : t = Tail(s)
  OBVIOUS
<1>4. /\ t \in Seq(Nat \ {0}) /\ Len(t) = Len(s) - 1 /\ Len(s) \in Nat \ {0} /\ Head(s) = s[1]
      /\ s[1] \in Nat \ {0} /\ 1 \in DOMAIN s
      /\ \A i \in 1 .. Len(t) : t[i] = s[i + 1]
  <2>1. Len(s) \in Nat \ {0}
    BY <1>2, EmptySeq, LenProperties
  <2> QED BY <1>2, <1>3, <2>1, HeadTailProperties
<1>0. PICK p : p = [version |-> s[1], stack |-> t]
  OBVIOUS
<1>5. p = [version |-> s[1], stack |-> t] /\ p.version = s[1] /\ p.stack = t
  BY <1>0
<1>6. p \in [version: Nat \ {0}, stack: Seq(Nat \ {0})]
  BY <1>4, <1>5
<1>7. s[1] <= Len(versions) /\ \A i \in DOMAIN t : t[i] <= Len(versions)
  <2>1. \A i \in DOMAIN s : s[i] <= Len(versions)
    BY <1>1, <1>2 DEF Pending
  <2>2. DOMAIN s = 1 .. Len(s) /\ DOMAIN t = 1 .. Len(t)
    BY <1>4
  <2>3. ASSUME NEW i \in 1 .. Len(t) PROVE t[i] <= Len(versions)
    <3>1. i + 1 \in 1 .. Len(s) /\ t[i] = s[i + 1]
      BY <1>4
    <3> QED BY <2>1, <2>2, <3>1
  <2> QED BY <1>4, <2>1, <2>2, <2>3
<1>8. /\ t # <<>> => s[1] # t[1]
      /\ \A i \in 1 .. Len(t) - 1 : t[i] # t[i + 1]
  <2>1. \A i \in 1 .. Len(s) - 1 : s[i] # s[i + 1]
    BY <1>1, <1>2 DEF Pending
  <2>2. t # <<>> => 1 \in 1 .. Len(t)
    BY <1>4
  <2>3. t # <<>> => s[1] # t[1]
    BY <1>4, <2>1, <2>2
  <2>4. ASSUME NEW i \in 1 .. Len(t) - 1 PROVE t[i] # t[i + 1]
    <3>1. i \in 1 .. Len(t) /\ i + 1 \in 1 .. Len(t) /\ i + 1 \in 1 .. Len(s) - 1
      BY <1>4
    <3>2. t[i] = s[i + 1] /\ t[i + 1] = s[(i + 1) + 1]
      BY <1>4, <3>1
    <3> QED BY <2>1, <3>1, <3>2
  <2> QED BY <2>3, <2>4
<1>9. Backwards(t, reigns)
  <2>1. Backwards(s, reigns)
    BY <1>1, <1>2 DEF Pending
  <2>2. s \in Seq(Nat)
    OBVIOUS
  <2> QED BY <1>1, <1>2, <1>3, <2>1, <2>2, WalksOn
<1>10. RolledBack(live) = p
  BY <1>2, <1>3, <1>4, <1>5 DEF RolledBack
<1> QED BY <1>5, <1>6, <1>7, <1>8, <1>9, <1>10 DEF Pending

\* A pointer that is set becomes the current one, and others still may.
LEMMA PointerSet ==
  ASSUME Current, NEW p, Pending(p), SetPointer(p), versions' = versions
  PROVE  Current' /\ \A q : Pending(q) => Pending(q)'
<1>1. PICK r \in Seq(Nat), v \in Nat : r = reigns /\ v = p.version
  BY DEF Current, Pending
<1>2. PICK longer \in Seq(Nat) : longer = Append(r, v) /\ longer = reigns'
  BY <1>1 DEF SetPointer
<1>3. ASSUME NEW q, Pending(q) PROVE Pending(q)'
  <2>1. PICK s \in Seq(Nat) : s = q.stack /\ Backwards(s, r)
    BY <1>1, <1>3 DEF Pending
  <2>2. Backwards(s, longer)
    BY <1>2, <2>1, WalksFrom
  <2> QED BY <1>2, <1>3, <2>1, <2>2 DEF Pending
<1>4. PICK s \in Seq(Nat) : s = p.stack /\ Backwards(s, r)
  BY <1>1 DEF Pending
<1>5. Backwards(<<v>> \o s, longer)
  BY <1>2, <1>4, WalksFrom
<1>6. longer # <<>> /\ Last(longer) = v
  <2>1. Len(longer) = Len(r) + 1 /\ Len(r) \in Nat /\ longer[Len(r) + 1] = v
    <3>1. Len(r) \in Nat
      BY LenProperties
    <3>2. Len(Append(r, v)) = Len(r) + 1 /\ Append(r, v)[Len(r) + 1] = v
      BY AppendProperties
    <3> QED BY <1>2, <3>1, <3>2
  <2> QED BY <2>1 DEF Last
<1>7. live' = p
  BY DEF SetPointer
<1>8. Pending(p)'
  BY <1>3
<1>9. Pending(live)'
  BY <1>7, <1>8 DEF Pending
<1> QED BY <1>1, <1>2, <1>3, <1>4, <1>5, <1>6, <1>7, <1>9 DEF Current

\* More versions leave the pointers as they are.
LEMMA PointersStay ==
  ASSUME Current, UNCHANGED <<live, reigns>>, Len(versions) \in Nat, Len(versions') \in Nat,
         Len(versions) <= Len(versions')
  PROVE  Current' /\ \A q : Pending(q) => Pending(q)'
<1>1. ASSUME NEW q, Pending(q) PROVE Pending(q)'
  <2>1. /\ q \in [version: Nat \ {0}, stack: Seq(Nat \ {0})] /\ q.version <= Len(versions)
        /\ \A i \in DOMAIN q.stack : q.stack[i] <= Len(versions)
    BY <1>1 DEF Pending
  <2>2. PICK s \in Seq(Nat \ {0}) : s = q.stack
    BY <2>1
  <2>3. \A i \in DOMAIN s : s[i] \in Nat /\ s[i] <= Len(versions)
    BY <2>1, <2>2
  <2>4. \A i \in DOMAIN s : s[i] <= Len(versions')
    BY <2>3
  <2>5. q.version <= Len(versions')
    <3>1. PICK l \in Nat : l = q.version /\ l <= Len(versions)
      BY <2>1
    <3> QED BY <3>1
  <2>6. /\ q.stack # <<>> => q.version # q.stack[1]
        /\ \A i \in 1 .. Len(q.stack) - 1 : q.stack[i] # q.stack[i + 1]
        /\ Backwards(q.stack, reigns')
    BY <1>1 DEF Pending
  <2> QED BY <2>1, <2>2, <2>4, <2>5, <2>6 DEF Pending
<1>2. live # NoFile => Pending(live)'
  <2>1. PICK l : l = live /\ l = live'
    OBVIOUS
  <2>2. l # NoFile => Pending(l)'
    BY <1>1, <2>1 DEF Current
  <2> QED BY <2>1, <2>2 DEF Pending
<1> QED BY <1>1, <1>2 DEF Current, Pending
-----------------------------------------------------------------------------
(* The invariant.                                                          *)
Dated == clock \in Int /\ lastNight \in Int

Run == [pc: {"ingest", "fit", "dump", "gate"}, by: {"night", "hand"}, end: Int,
        job: [lookback: Nat, holdout: Nat], promote: BOOLEAN, left: Seq(Symbol)]

\* What the trainer holds where it is.
AtWork ==
  \/ trainer = Idle
  \/ /\ trainer \in Run
     /\ trainer.by = "night" => trainer.end = lastNight /\ trainer.job = Job
     /\ trainer.pc \in {"dump", "gate"} => Len(versions) >= 1
  \/ trainer.pc = "judge" /\ trainer.rival \in 0 .. Len(versions) /\ Len(versions) >= 1
  \/ trainer.pc = "move" /\ Pending(trainer.to)
Operating == operator = Idle \/ (operator.pc = "move" /\ Pending(operator.to))

Version == [by: {"night", "hand"}, from: Int, whole: BOOLEAN,
            decision: {"none", "refused", "promoted"},
            fit: [seen: [Symbol -> Int], leaky: SUBSET Symbol]]
Clean(v) == \A s \in Symbol : Dense(s) => v.fit.seen[s] < v.from /\ s \notin v.fit.leaky

\* The versions are clean, and the holdouts of the nights begin later and later.
Fitted ==
  /\ versions \in Seq(Version) /\ \A i \in DOMAIN versions : Clean(versions[i])
  /\ \A i \in DOMAIN versions : versions[i].by = "night" =>
       versions[i].from <= HoldoutStart(lastNight, Holdout)
  /\ \A i, j \in DOMAIN versions :
       i < j /\ versions[i].by = "night" /\ versions[j].by = "night"
         => versions[i].from <= versions[j].from

Held == Fitted /\ AtWork /\ Operating /\ Current
IInv == Dated /\ Solid /\ Honest /\ Held

\* A run that is under way, in the order of its steps.
LEMMA RunIs ==
  ASSUME AtWork, trainer.pc \in {"ingest", "fit", "dump", "gate"}
  PROVE  /\ trainer \in Run
         /\ trainer.by = "night" => trainer.end = lastNight /\ trainer.job = Job
         /\ trainer.pc \in {"dump", "gate"} => Len(versions) >= 1
<1>1. trainer # Idle
  BY DEF Idle
<1>2. trainer.pc # "judge" /\ trainer.pc # "move"
  OBVIOUS
<1> QED BY <1>1, <1>2 DEF AtWork

\* The head and the rest of a list of symbols.
LEMMA LeftIs ==
  ASSUME NEW l \in Seq(Symbol), l # <<>>
  PROVE  Head(l) \in Symbol /\ Tail(l) \in Seq(Symbol)
<1>1. Len(l) \in Nat \ {0}
  BY EmptySeq, LenProperties
<1>2. Head(l) = l[1] /\ 1 \in DOMAIN l
  BY <1>1
<1> QED BY <1>2, ElementOfSeq, HeadTailProperties, LenProperties
-----------------------------------------------------------------------------
(* Archive and signals.                                                    *)

\* Whoever writes, nothing is skipped.
LEMMA ArchiveSolid ==
  ASSUME Dated, Solid, AtWork, [Next]_vars
  PROVE  Dated' /\ Solid'
<1>1. Today \in Int /\ ToTheEnd \in Int
  <2>1. DayOf(clock) \in Int
    BY DaysAre DEF Dated
  <2>2. Days * PerDay \in Int
    BY DaysAre
  <2> QED BY <2>1, <2>2 DEF Today, ToTheEnd
<1>2. Dated'
  BY <1>1 DEF Dated, vars, files, counters, Next, Trainer, Operator, BarCloses, SignalLogged,
     IngestByHand, Nightly, RunByHand, TopUp, AttachOutcomes, Fit, Dump, Gate, Refuse, Promote,
     TrainerMoves, OperatorReads, OperatorMoves, Crash
<1> SUFFICES Solid'
  BY <1>2
<1>3. \/ archive' = archive
      \/ \E s \in Symbol : Write(s, Today, ToTheEnd)
      \/ /\ trainer.pc = "ingest" /\ trainer.left # <<>>
         /\ \/ Write(Head(trainer.left), trainer.end, ToTheEnd)
            \/ \E t \in WindowStarts(Head(trainer.left)) \cup DayStarts :
                 Write(Head(trainer.left), trainer.end, t)
  BY DEF vars, files, counters, Next, Trainer, Operator, BarCloses, SignalLogged,
     IngestByHand, Nightly, RunByHand, TopUp, AttachOutcomes, Fit, Dump, Gate, Refuse, Promote,
     TrainerMoves, OperatorReads, OperatorMoves, Crash
<1>4. CASE archive' = archive
  BY <1>4 DEF Solid
<1>5. CASE \E s \in Symbol : Write(s, Today, ToTheEnd)
  BY <1>1, <1>5, WriteSolid DEF Dated
<1>6. CASE /\ trainer.pc = "ingest" /\ trainer.left # <<>>
           /\ \/ Write(Head(trainer.left), trainer.end, ToTheEnd)
              \/ \E t \in WindowStarts(Head(trainer.left)) \cup DayStarts :
                   Write(Head(trainer.left), trainer.end, t)
  <2>1. trainer \in Run
    BY <1>6, RunIs
  <2>2. trainer.left \in Seq(Symbol) /\ trainer.end \in Int
    BY <2>1 DEF Run
  <2>3. PICK s \in Symbol : s = Head(trainer.left)
    BY <1>6, <2>2, LeftIs
  <2>4. \A t \in WindowStarts(s) \cup DayStarts : t \in Int
    <3>1. \A t \in WindowStarts(s) : t \in Int
      BY DEF WindowStarts
    <3>2. ASSUME NEW d \in 1 .. Days PROVE Start(d) \in Int
      <4>1. d \in Int
        OBVIOUS
      <4> QED BY <4>1, DaysAre
    <3>3. \A t \in DayStarts : t \in Int
      BY <3>2 DEF DayStarts
    <3> QED BY <3>1, <3>3
  <2>5. \E stop \in Int : Write(s, trainer.end, stop)
    BY <1>1, <1>6, <2>3, <2>4
  <2> QED BY <2>2, <2>5, WriteSolid DEF Dated
<1> QED BY <1>3, <1>4, <1>5, <1>6

\* Outcomes come from a whole archive.
LEMMA OutcomesHonest ==
  ASSUME Dated, Solid, Honest, [Next]_vars
  PROVE  Honest'
<1>1. \/ signals' = signals
      \/ \E s \in Traded : signals' = signals \cup {Logged(s)}
      \/ signals' = {IF g.outcome # None \/ g.ts \notin archive[g.symbol] THEN g
                     ELSE [g EXCEPT !.outcome = Ahead(archive[g.symbol], g.ts)] : g \in signals}
  BY DEF vars, files, counters, Next, Trainer, Operator, BarCloses, SignalLogged,
     IngestByHand, Nightly, RunByHand, TopUp, AttachOutcomes, Fit, Dump, Gate, Refuse, Promote,
     TrainerMoves, OperatorReads, OperatorMoves, Crash
<1>2. CASE signals' = signals
  BY <1>2 DEF Honest
<1>3. ASSUME NEW s \in Traded, signals' = signals \cup {Logged(s)} PROVE Honest'
  <2>1. PICK g : g = [symbol |-> s, ts |-> clock, outcome |-> None]
    OBVIOUS
  <2>2. s \in Symbol
    BY TrainingAssumption DEF Symbol
  <2>3. g \in [symbol: Symbol, ts: Int, outcome: Nat] /\ g.outcome = None
    BY <2>1, <2>2 DEF Dated, None
  <2> QED BY <1>3, <2>1, <2>3 DEF Honest, Logged
<1>4. ASSUME signals' = {IF g.outcome # None \/ g.ts \notin archive[g.symbol] THEN g
                         ELSE [g EXCEPT !.outcome = Ahead(archive[g.symbol], g.ts)] : g \in signals}
      PROVE  Honest'
  <2>1. ASSUME NEW g \in signals, g.outcome = None, g.ts \in archive[g.symbol]
        PROVE  LET h == [g EXCEPT !.outcome = Ahead(archive[g.symbol], g.ts)]
               IN  /\ h \in [symbol: Symbol, ts: Int, outcome: Nat]
                   /\ h.outcome # None => h.outcome = Ahead(Listed[h.symbol], h.ts)
    <3>1. PICK s \in Symbol, t \in Int : s = g.symbol /\ t = g.ts /\ t \in archive[s]
      BY <2>1 DEF Honest
    <3>2. /\ archive[s] \in SUBSET Bars /\ Listed[s] \in SUBSET Bars
          /\ Whole(archive[s], Listed[s])
      BY BarsAre DEF Solid
    <3>3. PICK a : a = Ahead(archive[s], t)
      OBVIOUS
    <3>4. a \in Nat
      <4>1. CASE a = None
        BY <4>1 DEF None
      <4>2. CASE a # None
        <5>1. a \in {u \in archive[s] : u > t}
          BY <3>1, <3>2, <3>3, <4>2, AheadIs
        <5>2. a \in Bars
          BY <3>2, <5>1
        <5> QED BY <5>2, BarsAre
      <4> QED BY <4>1, <4>2
    <3>5. a # None => a = Ahead(Listed[s], t)
      BY <3>1, <3>2, <3>3, AheadListed
    <3>6. PICK h : h = [g EXCEPT !.outcome = a]
      OBVIOUS
    <3>7. h \in [symbol: Symbol, ts: Int, outcome: Nat] /\ h.outcome = a /\ h.symbol = s /\ h.ts = t
      BY <3>1, <3>4, <3>6 DEF Honest
    <3> QED BY <3>1, <3>3, <3>5, <3>6, <3>7
  <2>2. ASSUME NEW h \in signals'
        PROVE  /\ h \in [symbol: Symbol, ts: Int, outcome: Nat]
               /\ h.outcome # None => h.outcome = Ahead(Listed[h.symbol], h.ts)
    <3>1. PICK g \in signals :
            h = IF g.outcome # None \/ g.ts \notin archive[g.symbol] THEN g
                ELSE [g EXCEPT !.outcome = Ahead(archive[g.symbol], g.ts)]
      BY <1>4
    <3>2. CASE g.outcome # None \/ g.ts \notin archive[g.symbol]
      BY <3>1, <3>2 DEF Honest
    <3>3. CASE ~(g.outcome # None \/ g.ts \notin archive[g.symbol])
      BY <2>1, <3>1, <3>3
    <3> QED BY <3>2, <3>3
  <2> QED BY <2>2 DEF Honest
<1> QED BY <1>1, <1>2, <1>3, <1>4
-----------------------------------------------------------------------------
(* Versions.                                                               *)

\* The holdouts of later days begin later.
LEMMA HoldoutsGrow ==
  ASSUME NEW d \in Int, NEW e \in Int, d <= e
  PROVE  /\ HoldoutStart(d, Holdout) \in Int /\ HoldoutStart(e, Holdout) \in Int
         /\ HoldoutStart(d, Holdout) <= HoldoutStart(e, Holdout)
<1>1. PICK n \in Nat, p \in Nat, h \in Nat : e = d + n /\ p = PerDay /\ h = Holdout
  <2>1. PICK n \in Nat : e = d + n
    OBVIOUS
  <2> QED BY <2>1, DaysAre, TrainingAssumption
<1>2. /\ HoldoutStart(d, Holdout) = ((d - h + 1) - 1) * p + 1
      /\ HoldoutStart(e, Holdout) = ((d + n - h + 1) - 1) * p + 1
  BY <1>1 DEF HoldoutStart, Start
<1>3. ((d + n - h + 1) - 1) * p = ((d - h + 1) - 1) * p + n * p /\ n * p >= 0 /\ n * p \in Int
  BY <1>1
<1>4. ((d - h + 1) - 1) * p \in Int
  BY <1>1
<1> QED BY <1>2, <1>3, <1>4

\* A version that was marked.
LEMMA MarkedFitted ==
  ASSUME Fitted, NEW n \in DOMAIN versions, NEW w \in Version,
         w.by = versions[n].by, w.from = versions[n].from, w.fit = versions[n].fit,
         versions' = [versions EXCEPT ![n] = w], lastNight' = lastNight
  PROVE  Fitted' /\ Len(versions') = Len(versions)
<1>1. PICK vs : vs = versions'
  OBVIOUS
<1>2. /\ vs \in Seq(Version) /\ DOMAIN vs = DOMAIN versions /\ Len(vs) = Len(versions)
      /\ \A i \in DOMAIN vs : /\ vs[i].by = versions[i].by /\ vs[i].from = versions[i].from
                              /\ vs[i].fit = versions[i].fit
  BY <1>1 DEF Fitted
<1>3. \A i \in DOMAIN vs : Clean(vs[i])
  BY <1>2 DEF Fitted, Clean
<1> QED BY <1>1, <1>2, <1>3 DEF Fitted, Clean

\* A run whose frames come from a whole archive fits a clean version.
LEMMA FitFitted ==
  ASSUME Dated, Solid, Fitted, AtWork, Fit
  PROVE  /\ Fitted' /\ Len(versions) <= Len(versions')
         /\ trainer'.pc = "dump" => Len(versions') >= 1
<1>1. /\ trainer \in Run
      /\ trainer.by = "night" => trainer.end = lastNight /\ trainer.job = Job
      /\ lastNight' = lastNight
  BY RunIs DEF Fit
<1>2. PICK end \in Int, back \in Nat, hold \in Nat, by \in {"night", "hand"} :
        /\ end = trainer.end /\ back = trainer.job.lookback /\ hold = trainer.job.holdout
        /\ by = trainer.by
  <2>1. PICK job \in [lookback: Nat, holdout: Nat] : job = trainer.job
    BY <1>1 DEF Run
  <2>2. job.lookback \in Nat /\ job.holdout \in Nat
    OBVIOUS
  <2>3. trainer.end \in Int /\ trainer.by \in {"night", "hand"}
    BY <1>1 DEF Run
  <2> QED BY <2>1, <2>2, <2>3
<1> DEFINE frames == LoadFrames(end, back)
           from == HoldoutStart(end, hold)
           held == Cardinality({t \in Times(Rows(frames)) : t >= from})
           labelled == Labelled(frames, TrainRows(Rows(frames), held))
           model == FitModel(frames, labelled)
           v == [by |-> by, from |-> from, whole |-> FALSE, decision |-> "none", fit |-> model]
<1>3. \/ trainer' = Idle /\ versions' = versions
      \/ CanFit(labelled) /\ versions' = Append(versions, v)
  BY <1>2 DEF Fit
<1>4. CASE trainer' = Idle /\ versions' = versions
  <2>1. trainer'.pc = "idle" /\ Len(versions) \in Nat
    BY <1>4, LenProperties DEF Idle, Fitted
  <2> QED BY <1>1, <1>4, <2>1 DEF Fitted
<1>5. CASE CanFit(labelled) /\ versions' = Append(versions, v)
  <2>1. frames \in [Symbol -> SUBSET Bars]
    BY DEF Solid, LoadFrames, Archived
  <2>2. from \in Int
    <3>1. end - hold + 1 \in Int
      OBVIOUS
    <3> QED BY <3>1, DaysAre DEF HoldoutStart
  <2>3. ASSUME NEW s \in Symbol, Dense(s) PROVE NoGap(frames[s])
    <3>1. PICK a \in Int, b \in Int : a = Start(end - back) /\ b = end * PerDay
      <4>1. end - back \in Int
        OBVIOUS
      <4>2. end * PerDay \in Int
        BY DaysAre
      <4> QED BY <4>1, <4>2, DaysAre
    <3>2. frames[s] = {t \in archive[s] : a <= t /\ t <= b}
      BY <3>1 DEF LoadFrames, Archived
    <3>3. Whole(archive[s], Bars) /\ archive[s] \in SUBSET Bars
      BY <2>3 DEF Solid, Dense, Bars
    <3>4. ASSUME NEW x \in frames[s], NEW y \in frames[s], NEW z \in Int, x <= z, z <= y
          PROVE  z \in frames[s]
      <4>1. x \in archive[s] /\ y \in archive[s] /\ x \in Int /\ y \in Int /\ a <= x /\ y <= b
        BY <3>2, <3>3, BarsAre
      <4>2. z \in Bars
        <5>1. PICK n \in Nat : n = Days * PerDay
          BY DaysAre
        <5>2. x \in 1 .. n /\ y \in 1 .. n
          BY <3>3, <4>1, <5>1 DEF Bars
        <5>3. z \in 1 .. n
          BY <3>4, <5>2
        <5> QED BY <5>1, <5>3 DEF Bars
      <4>3. z \in archive[s]
        BY <3>3, <3>4, <4>1, <4>2 DEF Whole
      <4>4. a <= z /\ z <= b
        BY <3>4, <4>1
      <4> QED BY <3>2, <4>3, <4>4
    <3> QED BY <3>4 DEF NoGap
  <2>4. PICK m : m = model /\ m \in [seen: [Symbol -> Int], leaky: SUBSET Symbol]
                 /\ \A s \in Symbol : Dense(s) => m.seen[s] < from /\ s \notin m.leaky
    <3> HIDE DEF frames, from
    <3> QED BY <1>5, <2>1, <2>2, <2>3, FitIsClean
  <2>5. PICK w : w = [by |-> by, from |-> from, whole |-> FALSE, decision |-> "none", fit |-> m]
    OBVIOUS
  <2> HIDE DEF frames, from, held, labelled, model, v
  <2>6. w \in Version /\ w.fit = m /\ w.from = from /\ w.by = by
    BY <1>2, <2>2, <2>4, <2>5 DEF Version
  <2>7. Clean(w)
    BY <2>4, <2>6 DEF Clean
  <2>8. by = "night" => w.from = HoldoutStart(lastNight, Holdout)
    <3>1. by = "night" => end = lastNight /\ hold = Holdout
      BY <1>1, <1>2 DEF Job
    <3> QED BY <2>6, <3>1 DEF from
  <2>0. PICK n \in Nat : n = Len(versions)
    BY LenProperties DEF Fitted
  <2>9. PICK vs : vs = versions' /\ vs = Append(versions, w)
    BY <1>5, <2>4, <2>5 DEF v
  <2>10. /\ vs \in Seq(Version) /\ Len(vs) = n + 1 /\ DOMAIN vs = 1 .. n + 1 /\ vs[n + 1] = w
         /\ DOMAIN versions = 1 .. n /\ \A i \in 1 .. n : vs[i] = versions[i]
    BY <2>0, <2>6, <2>9, AppendProperties DEF Fitted
  <2>11. \A i \in 1 .. n + 1 : i \in 1 .. n \/ i = n + 1
    BY <2>0
  <2>12. \A i \in DOMAIN vs : Clean(vs[i])
    BY <2>7, <2>10, <2>11 DEF Fitted
  <2>13. \A i \in DOMAIN vs : vs[i].by = "night" => vs[i].from <= HoldoutStart(lastNight, Holdout)
    <3>1. HoldoutStart(lastNight, Holdout) <= HoldoutStart(lastNight, Holdout)
      BY HoldoutsGrow DEF Dated
    <3> QED BY <2>6, <2>8, <2>10, <2>11, <3>1 DEF Fitted
  <2>14. ASSUME NEW i \in DOMAIN vs, NEW j \in DOMAIN vs, i < j,
                vs[i].by = "night", vs[j].by = "night"
         PROVE  vs[i].from <= vs[j].from
    <3>1. i \in 1 .. n
      BY <2>0, <2>10, <2>11, <2>14
    <3>2. CASE j \in 1 .. n
      BY <2>10, <2>14, <3>1, <3>2 DEF Fitted
    <3>3. CASE j = n + 1
      <4>1. vs[i].from <= HoldoutStart(lastNight, Holdout)
        BY <2>13, <2>14
      <4> QED BY <2>6, <2>8, <2>10, <2>14, <3>3, <4>1
    <3> QED BY <2>10, <2>11, <3>2, <3>3
  <2>15. Fitted'
    BY <1>1, <2>9, <2>10, <2>12, <2>13, <2>14 DEF Fitted, Clean
  <2> QED BY <2>0, <2>9, <2>10, <2>15
<1> QED BY <1>3, <1>4, <1>5
-----------------------------------------------------------------------------
(* What the steps leave in hand.                                           *)

\* Pointers that may become the live one still may, whoever holds them.
LEMMA StillPending ==
  ASSUME Operating, UNCHANGED operator, \A q : Pending(q) => Pending(q)'
  PROVE  Operating'
<1>1. CASE operator = Idle
  BY <1>1 DEF Operating
<1>2. CASE operator.pc = "move" /\ Pending(operator.to)
  <2>1. PICK q : q = operator.to /\ q = operator'.to /\ Pending(q)
    BY <1>2
  <2>2. Pending(q)'
    BY <2>1
  <2> QED BY <1>2, <2>1, <2>2 DEF Operating, Pending
<1> QED BY <1>1, <1>2 DEF Operating

\* The pointers do not change while the files of versions and pointer do not.
LEMMA FilesStay ==
  ASSUME Current, UNCHANGED <<versions, live, reigns>>
  PROVE  Current' /\ \A q : Pending(q) => Pending(q)'
  BY DEF Current, Pending

\* A run begins, by night or by hand.
LEMMA RunBegins ==
  ASSUME Dated, Held, Nightly \/ RunByHand
  PROVE  Held'
<1>1. UNCHANGED <<versions, live, reigns, operator>>
  BY DEF Nightly, RunByHand, files
<1>2. Current' /\ Operating'
  BY <1>1, FilesStay, StillPending DEF Held
<1>3. Job \in [lookback: Nat, holdout: Nat]
  BY TrainingAssumption DEF Job
<1>4. CASE Nightly
  <2>1. Today \in Int
    BY DaysAre DEF Today, Dated
  <2>2. trainer' \in Run /\ trainer'.end = lastNight' /\ trainer'.job = Job /\ trainer'.pc = "ingest"
    <3>1. /\ trainer' = [pc |-> "ingest", by |-> "night", end |-> Today, job |-> Job,
                         promote |-> TRUE, left |-> Symbols]
          /\ lastNight' = Today
      BY <1>4 DEF Nightly
    <3>2. Symbols \in Seq(Symbol)
      BY TrainingAssumption DEF Symbol
    <3>3. trainer' \in Run
      BY <1>3, <2>1, <3>1, <3>2 DEF Run
    <3> QED BY <3>1, <3>3
  <2>3. AtWork'
    BY <2>2 DEF AtWork
  <2>4. lastNight <= lastNight' /\ lastNight' \in Int /\ lastNight \in Int
    BY <1>4, <2>1 DEF Nightly, Dated
  <2>5. /\ HoldoutStart(lastNight, Holdout) \in Int /\ HoldoutStart(lastNight', Holdout) \in Int
        /\ HoldoutStart(lastNight, Holdout) <= HoldoutStart(lastNight', Holdout)
    BY <2>4, HoldoutsGrow
  <2>6. \A i \in DOMAIN versions : versions[i].by = "night" =>
          versions[i].from <= HoldoutStart(lastNight', Holdout)
    <3>1. ASSUME NEW i \in DOMAIN versions, versions[i].by = "night"
          PROVE  versions[i].from <= HoldoutStart(lastNight', Holdout)
      <4>1. versions[i] \in Version /\ versions[i].from <= HoldoutStart(lastNight, Holdout)
        BY <3>1, ElementOfSeq, LenProperties DEF Held, Fitted
      <4>2. versions[i].from \in Int
        BY <4>1 DEF Version
      <4> QED BY <2>5, <4>1, <4>2
    <3> QED BY <3>1
  <2>7. Fitted'
    BY <1>1, <2>6 DEF Held, Fitted, Clean
  <2> QED BY <1>2, <2>3, <2>7 DEF Held
<1>5. CASE RunByHand
  <2>1. PICK end \in 1 .. Today, h \in HandHoldouts, promote \in BOOLEAN :
          trainer' = [pc |-> "fit", by |-> "hand", end |-> end, job |-> [Job EXCEPT !.holdout = h],
                      promote |-> promote, left |-> <<>>]
    BY <1>5 DEF RunByHand
  <2>2. PICK job \in [lookback: Nat, holdout: Nat] : job = [Job EXCEPT !.holdout = h]
    BY <1>3, TrainingAssumption
  <2>3. end \in Int /\ <<>> \in Seq(Symbol)
    OBVIOUS
  <2>4. trainer' \in Run /\ trainer'.by = "hand" /\ trainer'.pc = "fit"
    BY <2>1, <2>2, <2>3 DEF Run
  <2>5. AtWork'
    BY <2>4 DEF AtWork
  <2>6. Fitted'
    BY <1>1, <1>5 DEF RunByHand, Held, Fitted, Clean
  <2> QED BY <1>2, <2>5, <2>6 DEF Held
<1> QED BY <1>4, <1>5

\* A run goes on: the next symbol, then the fit.
LEMMA RunGoesOn ==
  ASSUME Held, TopUp \/ AttachOutcomes
  PROVE  Held'
<1>1. UNCHANGED <<versions, live, reigns, operator, lastNight>>
  BY DEF TopUp, AttachOutcomes
<1>2. Current' /\ Operating'
  BY <1>1, FilesStay, StillPending DEF Held
<1>3. /\ trainer \in Run /\ trainer.pc = "ingest"
      /\ trainer.by = "night" => trainer.end = lastNight /\ trainer.job = Job
  BY RunIs DEF Held, TopUp, AttachOutcomes
<1>4. \/ trainer.left # <<>> /\ trainer' = [trainer EXCEPT !.left = Tail(@)]
      \/ trainer' = [trainer EXCEPT !.pc = "fit"]
  BY DEF TopUp, AttachOutcomes, Ingested
<1>5. /\ trainer' \in Run /\ trainer'.pc \in {"ingest", "fit"}
      /\ trainer'.by = trainer.by /\ trainer'.end = trainer.end /\ trainer'.job = trainer.job
  <2>1. CASE trainer.left # <<>> /\ trainer' = [trainer EXCEPT !.left = Tail(@)]
    <3>1. PICK l : l = Tail(trainer.left)
      OBVIOUS
    <3>2. l \in Seq(Symbol)
      <4>1. trainer.left \in Seq(Symbol)
        BY <1>3 DEF Run
      <4> QED BY <2>1, <3>1, <4>1, LeftIs
    <3>3. trainer' = [trainer EXCEPT !.left = l]
      BY <2>1, <3>1
    <3> QED BY <1>3, <3>2, <3>3 DEF Run
  <2>2. CASE trainer' = [trainer EXCEPT !.pc = "fit"]
    BY <1>3, <2>2 DEF Run
  <2> QED BY <1>4, <2>1, <2>2
<1>6. AtWork'
  BY <1>1, <1>3, <1>5 DEF AtWork
<1>7. Fitted'
  BY <1>1 DEF Held, Fitted, Clean
<1> QED BY <1>2, <1>6, <1>7 DEF Held

\* A run fits.
LEMMA FitHolds ==
  ASSUME Dated, Solid, Held, Fit
  PROVE  Held'
<1>1. Fitted' /\ Len(versions) <= Len(versions') /\ (trainer'.pc = "dump" => Len(versions') >= 1)
  BY FitFitted DEF Held
<1>2. Len(versions) \in Nat /\ Len(versions') \in Nat
  BY <1>1, LenProperties DEF Held, Fitted
<1>3. UNCHANGED <<live, reigns, operator, lastNight>>
  BY DEF Fit
<1>4. Current' /\ \A q : Pending(q) => Pending(q)'
  BY <1>1, <1>2, <1>3, PointersStay DEF Held
<1>5. Operating'
  BY <1>3, <1>4, StillPending DEF Held
<1>6. AtWork'
  <2>1. /\ trainer \in Run
        /\ trainer.by = "night" => trainer.end = lastNight /\ trainer.job = Job
    BY RunIs DEF Held, Fit
  <2>2. trainer' = Idle \/ trainer' = [trainer EXCEPT !.pc = "dump"]
    BY DEF Fit
  <2>3. CASE trainer' = [trainer EXCEPT !.pc = "dump"]
    <3>1. /\ trainer' \in Run /\ trainer'.pc = "dump" /\ trainer'.by = trainer.by
          /\ trainer'.end = trainer.end /\ trainer'.job = trainer.job
      BY <2>1, <2>3 DEF Run
    <3> QED BY <1>1, <1>3, <2>1, <3>1 DEF AtWork
  <2> QED BY <2>2, <2>3 DEF AtWork
<1> QED BY <1>1, <1>4, <1>5, <1>6 DEF Held

\* The newest version is marked: written, refused or promoted.
LEMMA Marked ==
  ASSUME Held, Len(versions) >= 1, UNCHANGED <<live, reigns, operator, lastNight>>,
         \/ versions' = [versions EXCEPT ![Candidate].whole = TRUE]
         \/ \E d \in {"refused", "promoted"} : Decided(d)
  PROVE  /\ Fitted' /\ Operating' /\ Current' /\ Len(versions') = Len(versions)
         /\ \A q : Pending(q) => Pending(q)'
<1>1. PICK n \in DOMAIN versions : n = Candidate
  BY LenProperties DEF Candidate, Held, Fitted
<1>2. PICK v \in Version : v = versions[n]
  BY ElementOfSeq, LenProperties DEF Held, Fitted
<1>3. PICK w \in Version : /\ w.by = v.by /\ w.from = v.from /\ w.fit = v.fit
                           /\ versions' = [versions EXCEPT ![n] = w]
  <2>1. CASE versions' = [versions EXCEPT ![Candidate].whole = TRUE]
    <3>1. PICK w : w = [v EXCEPT !.whole = TRUE]
      OBVIOUS
    <3>2. w \in Version /\ w.by = v.by /\ w.from = v.from /\ w.fit = v.fit
      BY <3>1 DEF Version
    <3>3. versions' = [versions EXCEPT ![n] = w]
      BY <1>1, <1>2, <2>1, <3>1
    <3> QED BY <3>2, <3>3
  <2>2. ASSUME NEW d \in {"refused", "promoted"}, Decided(d)
        PROVE  \E w \in Version : /\ w.by = v.by /\ w.from = v.from /\ w.fit = v.fit
                                  /\ versions' = [versions EXCEPT ![n] = w]
    <3>1. PICK w : w = [v EXCEPT !.decision = d]
      OBVIOUS
    <3>2. w \in Version /\ w.by = v.by /\ w.from = v.from /\ w.fit = v.fit
      BY <3>1 DEF Version
    <3>3. versions' = [versions EXCEPT ![n] = w]
      BY <1>1, <1>2, <2>2, <3>1 DEF Decided
    <3> QED BY <3>2, <3>3
  <2> QED BY <2>1, <2>2
<1>4. Fitted' /\ Len(versions') = Len(versions)
  BY <1>2, <1>3, MarkedFitted DEF Held
<1>5. Len(versions) \in Nat /\ Len(versions') \in Nat /\ Len(versions) <= Len(versions')
  BY <1>4, LenProperties DEF Held, Fitted
<1>6. Current' /\ \A q : Pending(q) => Pending(q)'
  BY <1>5, PointersStay DEF Held
<1>7. Operating'
  BY <1>6, StillPending DEF Held
<1> QED BY <1>4, <1>6, <1>7

\* The model is written.
LEMMA DumpHolds ==
  ASSUME Held, Dump
  PROVE  Held'
<1>1. /\ trainer \in Run /\ Len(versions) >= 1
      /\ trainer.by = "night" => trainer.end = lastNight /\ trainer.job = Job
  BY RunIs DEF Held, Dump
<1>2. Fitted' /\ Operating' /\ Current' /\ Len(versions') = Len(versions) /\ lastNight' = lastNight
  BY <1>1, Marked DEF Dump
<1>3. CASE trainer' = [trainer EXCEPT !.pc = "gate"]
  <2>1. /\ trainer' \in Run /\ trainer'.pc = "gate" /\ trainer'.by = trainer.by
        /\ trainer'.end = trainer.end /\ trainer'.job = trainer.job
    BY <1>1, <1>3 DEF Run
  <2>2. AtWork'
    BY <1>1, <1>2, <2>1 DEF AtWork
  <2> QED BY <1>2, <2>2 DEF Held
<1> QED BY <1>2, <1>3 DEF Dump, AtWork, Held

\* The gate scores, and the verdict falls.
LEMMA GateHolds ==
  ASSUME Held, Gate \/ Refuse \/ Promote
  PROVE  Held'
<1>1. CASE Gate
  <2>1. UNCHANGED <<versions, live, reigns, operator, lastNight>>
    BY <1>1 DEF Gate, files
  <2>2. Current' /\ Operating'
    BY <2>1, FilesStay, StillPending DEF Held
  <2>3. Len(versions) >= 1 /\ Len(versions) \in Nat
    BY <1>1, RunIs, LenProperties DEF Held, Gate, Fitted
  <2>4. live.version \in 0 .. Len(versions)
    <3>1. CASE live = NoFile
      BY <2>3, <3>1 DEF NoFile, None
    <3>2. CASE live # NoFile
      <4>1. live.version \in Nat /\ live.version <= Len(versions)
        BY <3>2 DEF Held, Current, Pending
      <4> QED BY <2>3, <4>1
    <3> QED BY <3>1, <3>2
  <2>5. trainer' = Idle \/ (trainer'.pc = "judge" /\ trainer'.rival \in 0 .. Len(versions'))
    BY <1>1, <2>1, <2>3, <2>4 DEF Gate, Decision, LiveVersion, None
  <2>6. AtWork'
    BY <2>1, <2>3, <2>5 DEF AtWork
  <2>7. Fitted'
    BY <2>1 DEF Held, Fitted, Clean
  <2> QED BY <2>2, <2>6, <2>7 DEF Held
<1>2. CASE Refuse \/ Promote
  <2>1. trainer.pc = "judge"
    BY <1>2 DEF Refuse, Promote
  <2>2. Len(versions) >= 1
    BY <2>1 DEF Held, AtWork, Idle, Run
  <2>3. /\ Fitted' /\ Operating' /\ Current' /\ Len(versions') = Len(versions)
        /\ \A q : Pending(q) => Pending(q)'
    BY <1>2, <2>2, Marked DEF Refuse, Promote
  <2>4. CASE trainer' = Idle
    BY <2>3, <2>4 DEF Held, AtWork
  <2>5. CASE trainer' = [pc |-> "move", to |-> Promoted(live, Candidate)]
    <3>1. Candidate \in 1 .. Len(versions)
      BY <2>2, LenProperties DEF Held, Fitted, Candidate
    <3>2. PICK p : p = Promoted(live, Candidate) /\ Pending(p)
      BY <3>1, PromotedPends DEF Held
    <3>3. Pending(p)'
      BY <2>3, <3>2
    <3>4. trainer'.pc = "move" /\ trainer'.to = p
      BY <2>5, <3>2
    <3>5. AtWork'
      BY <3>3, <3>4 DEF AtWork, Pending
    <3> QED BY <2>3, <3>5 DEF Held
  <2> QED BY <1>2, <2>4, <2>5 DEF Refuse, Promote
<1> QED BY <1>1, <1>2

\* The live pointer moves.
LEMMA MoveHolds ==
  ASSUME Held, TrainerMoves \/ OperatorMoves \/ OperatorReads
  PROVE  Held'
<1>1. UNCHANGED <<versions, lastNight>>
  BY DEF TrainerMoves, OperatorMoves, OperatorReads, files
<1>2. Fitted'
  BY <1>1 DEF Held, Fitted, Clean
<1>3. CASE TrainerMoves
  <2>1. Pending(trainer.to) /\ SetPointer(trainer.to) /\ trainer' = Idle /\ UNCHANGED operator
    BY <1>3 DEF TrainerMoves, Held, AtWork, Idle, Run
  <2>2. Current' /\ \A q : Pending(q) => Pending(q)'
    BY <1>1, <2>1, PointerSet DEF Held
  <2>3. Operating'
    BY <2>1, <2>2, StillPending DEF Held
  <2> QED BY <1>2, <2>1, <2>2, <2>3 DEF Held, AtWork
<1>4. ASSUME UNCHANGED trainer, \A q : Pending(q) => Pending(q)'
      PROVE  AtWork'
  <2>1. CASE trainer.pc = "move" /\ Pending(trainer.to)
    <3>1. PICK q : q = trainer.to /\ q = trainer'.to /\ Pending(q)
      BY <1>4, <2>1
    <3>2. Pending(q)'
      BY <1>4, <3>1
    <3> QED BY <1>4, <2>1, <3>1, <3>2 DEF AtWork, Pending
  <2>2. CASE ~(trainer.pc = "move" /\ Pending(trainer.to))
    BY <1>1, <1>4, <2>2 DEF Held, AtWork
  <2> QED BY <2>1, <2>2
<1>5. CASE OperatorMoves
  <2>1. Pending(operator.to) /\ SetPointer(operator.to) /\ operator' = Idle /\ UNCHANGED trainer
    BY <1>5 DEF OperatorMoves, Held, Operating, Idle
  <2>2. Current' /\ \A q : Pending(q) => Pending(q)'
    BY <1>1, <2>1, PointerSet DEF Held
  <2>3. AtWork'
    BY <1>4, <2>1, <2>2
  <2> QED BY <1>2, <2>1, <2>2, <2>3 DEF Held, Operating
<1>6. CASE OperatorReads
  <2>1. UNCHANGED <<live, reigns, trainer>>
    BY <1>6 DEF OperatorReads, files
  <2>2. Current' /\ \A q : Pending(q) => Pending(q)'
    BY <1>1, <2>1, FilesStay DEF Held
  <2>3. AtWork'
    BY <1>4, <2>1, <2>2
  <2>4. PICK p : operator' = [pc |-> "move", to |-> p] /\ Pending(p)
    <3>1. CASE \E v \in DOMAIN versions : operator' = [pc |-> "move", to |-> Promoted(live, v)]
      <4>1. PICK v \in DOMAIN versions : operator' = [pc |-> "move", to |-> Promoted(live, v)]
        BY <3>1
      <4>2. v \in 1 .. Len(versions)
        BY LenProperties DEF Held, Fitted
      <4> QED BY <4>1, <4>2, PromotedPends DEF Held
    <3>2. CASE live.stack # <<>> /\ operator' = [pc |-> "move", to |-> RolledBack(live)]
      BY <3>2, RolledPends DEF Held
    <3> QED BY <1>6, <3>1, <3>2 DEF OperatorReads
  <2>5. operator'.pc = "move" /\ operator'.to = p /\ Pending(p)'
    BY <2>2, <2>4
  <2>6. Operating'
    BY <2>5 DEF Operating, Pending
  <2> QED BY <1>2, <2>2, <2>3, <2>6 DEF Held
<1> QED BY <1>3, <1>5, <1>6
-----------------------------------------------------------------------------
(* The invariant.                                                          *)

\* The trainer dies, or a step of the market or of the archive leaves it alone.
LEMMA OthersHold ==
  ASSUME Held, UNCHANGED <<versions, live, reigns, operator, lastNight>>,
         trainer' = Idle \/ trainer' = trainer
  PROVE  Held'
<1>1. Current' /\ \A q : Pending(q) => Pending(q)'
  BY FilesStay DEF Held
<1>2. Operating'
  BY <1>1, StillPending DEF Held
<1>3. Fitted'
  BY DEF Held, Fitted, Clean
<1>4. AtWork'
  BY DEF Held, AtWork, Pending
<1> QED BY <1>1, <1>2, <1>3, <1>4 DEF Held

\* It holds at first.
LEMMA InitHolds ==
  ASSUME Init
  PROVE  IInv
<1>1. Dated
  BY DEF Init, Dated
<1>2. Solid
  <2>1. archive \in [Symbol -> SUBSET Bars] /\ \A s \in Symbol : archive[s] = {}
    BY DEF Init
  <2> QED BY <2>1 DEF Solid, Whole
<1>3. Honest
  BY DEF Init, Honest
<1>4. Current
  BY DEF Init, Current
<1>5. Fitted
  <2>1. versions = <<>> /\ DOMAIN versions = {} /\ versions \in Seq(Version)
    BY DEF Init
  <2> QED BY <2>1 DEF Fitted
<1>6. AtWork /\ Operating
  BY DEF Init, AtWork, Operating
<1> QED BY <1>1, <1>2, <1>3, <1>4, <1>5, <1>6 DEF IInv, Held

\* Every step keeps it.
LEMMA StepHolds ==
  ASSUME IInv, [Next]_vars
  PROVE  IInv'
<1>1. Dated' /\ Solid'
  BY ArchiveSolid DEF IInv, Held
<1>2. Honest'
  BY OutcomesHonest DEF IInv
<1>3. Held'
  <2>1. CASE BarCloses \/ (\E s \in Traded : SignalLogged(s)) \/ (\E s \in Symbol : IngestByHand(s))
    BY <2>1, OthersHold DEF IInv, BarCloses, SignalLogged, IngestByHand, files
  <2>2. CASE Nightly \/ RunByHand
    BY <2>2, RunBegins DEF IInv
  <2>3. CASE TopUp \/ AttachOutcomes
    BY <2>3, RunGoesOn DEF IInv
  <2>4. CASE Fit
    BY <2>4, FitHolds DEF IInv
  <2>5. CASE Dump
    BY <2>5, DumpHolds DEF IInv
  <2>6. CASE Gate \/ Refuse \/ Promote
    BY <2>6, GateHolds DEF IInv
  <2>7. CASE TrainerMoves \/ OperatorMoves \/ OperatorReads
    BY <2>7, MoveHolds DEF IInv
  <2>8. CASE Crash
    BY <2>8, OthersHold DEF IInv, Crash
  <2>9. CASE UNCHANGED vars
    BY <2>9, OthersHold DEF IInv, vars, files
  <2> QED BY <2>1, <2>2, <2>3, <2>4, <2>5, <2>6, <2>7, <2>8, <2>9 DEF Next, Trainer, Operator
<1> QED BY <1>1, <1>2, <1>3 DEF IInv

\* The archive is whole and the outcomes are honest.
LEMMA TopUpFollows ==
  ASSUME Solid, Honest
  PROVE  TopUpExact
<1>1. ASSUME NEW s \in Symbol, NEW t \in Listed[s], archive[s] # {},
             Min(archive[s]) <= t, t <= Max(archive[s])
      PROVE  t \in archive[s]
  <2>1. PICK a \in SUBSET Bars : a = archive[s] /\ Whole(a, Listed[s])
    BY DEF Solid
  <2>2. a \in SUBSET Int /\ IsFiniteSet(a)
    BY BarsAre
  <2>3. Min(a) \in a /\ Max(a) \in a
    BY <1>1, <2>1, <2>2, EndsExist
  <2> QED BY <1>1, <2>1, <2>3 DEF Whole
<1> QED BY <1>1 DEF TopUpExact, Honest

\* The gate compares out of sample.
LEMMA OutOfSampleFollows ==
  ASSUME Held
  PROVE  OutOfSample
<1> SUFFICES ASSUME trainer.pc = "judge", NEW s \in Symbol, Dense(s)
             PROVE  LET c == versions[Candidate] IN
                    /\ c.fit.seen[s] < c.from /\ s \notin c.fit.leaky
                    /\ trainer.rival # None /\ c.by = "night" /\ versions[trainer.rival].by = "night"
                         => versions[trainer.rival].fit.seen[s] < c.from
  BY DEF OutOfSample
<1>1. trainer.rival \in 0 .. Len(versions) /\ Len(versions) >= 1
  BY DEF Held, AtWork, Idle, Run
<1>2. PICK n \in Nat : n = Len(versions) /\ n = Candidate /\ DOMAIN versions = 1 .. n /\ n \in 1 .. n
  BY <1>1, LenProperties DEF Held, Fitted, Candidate
<1>3. ASSUME NEW i \in 1 .. n
      PROVE  /\ versions[i].fit.seen[s] < versions[i].from /\ s \notin versions[i].fit.leaky
             /\ versions[i].from \in Int /\ versions[i].fit.seen[s] \in Int
  <2>1. PICK v \in Version : v = versions[i] /\ Clean(v)
    BY <1>2, ElementOfSeq DEF Held, Fitted
  <2>2. PICK fit \in [seen: [Symbol -> Int], leaky: SUBSET Symbol] : fit = v.fit
    BY DEF Version
  <2>3. fit.seen[s] \in Int /\ v.from \in Int
    BY DEF Version
  <2> QED BY <2>1, <2>2, <2>3 DEF Clean
<1>4. ASSUME trainer.rival # None, versions[n].by = "night", versions[trainer.rival].by = "night"
      PROVE  versions[trainer.rival].fit.seen[s] < versions[n].from
  <2>1. PICK r \in 1 .. n : r = trainer.rival
    BY <1>1, <1>2, <1>4 DEF None
  <2>2. versions[r].from <= versions[n].from
    <3>1. CASE r = n
      BY <1>3, <3>1
    <3>2. CASE r # n
      <4>1. r < n
        BY <3>2
      <4> QED BY <1>2, <1>4, <2>1, <4>1 DEF Held, Fitted
    <3> QED BY <3>1, <3>2
  <2>3. versions[r].fit.seen[s] < versions[r].from
    BY <1>3
  <2>4. versions[r].from \in Int /\ versions[r].fit.seen[s] \in Int /\ versions[n].from \in Int
    BY <1>2, <1>3
  <2> QED BY <2>1, <2>2, <2>3, <2>4
<1> QED BY <1>2, <1>3, <1>4

\* Rollbacks walk back.
LEMMA WalksBackFollows ==
  ASSUME Current
  PROVE  WalksBack
<1> SUFFICES ASSUME live # NoFile
             PROVE  LET walk == <<live.version>> \o live.stack IN
                    /\ live.version = Last(reigns) /\ Backwards(walk, reigns)
                    /\ \A i \in 1 .. Len(walk) - 1 : walk[i] # walk[i + 1]
  BY DEF WalksBack
<1>1. /\ Pending(live) /\ live.version = Last(reigns)
      /\ Backwards(<<live.version>> \o live.stack, reigns)
  BY DEF Current
<1>2. PICK s \in Seq(Nat \ {0}), l \in Nat \ {0} : s = live.stack /\ l = live.version
  BY <1>1 DEF Pending
<1>3. PICK w : w = <<l>> \o s
  OBVIOUS
<1>4. /\ w[1] = l /\ Len(w) = Len(s) + 1 /\ Len(s) \in Nat
      /\ \A i \in 2 .. Len(s) + 1 : w[i] = s[i - 1] /\ i - 1 \in DOMAIN s
  BY <1>3, InFront
<1>5. (s # <<>> => l # s[1]) /\ \A i \in 1 .. Len(s) - 1 : s[i] # s[i + 1]
  BY <1>1, <1>2 DEF Pending
<1>6. ASSUME NEW i \in 1 .. Len(w) - 1 PROVE w[i] # w[i + 1]
  <2>1. PICK n \in Nat : n = Len(s) /\ i \in 1 .. n
    BY <1>4
  <2>2. w[i + 1] = s[i] /\ i \in DOMAIN s
    <3>1. i + 1 \in 2 .. n + 1 /\ (i + 1) - 1 = i
      BY <2>1
    <3> QED BY <1>4, <2>1, <3>1
  <2>3. CASE i = 1
    <3>1. s # <<>>
      BY <2>2
    <3> QED BY <1>4, <1>5, <2>2, <2>3, <3>1
  <2>4. CASE i # 1
    <3>1. i \in 2 .. n + 1 /\ i - 1 \in 1 .. n - 1 /\ (i - 1) + 1 = i
      BY <2>1, <2>4
    <3>2. w[i] = s[i - 1] /\ s[i - 1] # s[i]
      BY <1>4, <1>5, <2>1, <3>1
    <3> QED BY <2>2, <3>2
  <2> QED BY <2>3, <2>4
<1> QED BY <1>1, <1>2, <1>3, <1>6
-----------------------------------------------------------------------------
(* Theorems.                                                               *)

\* The shapes of the files, the whole archive, the clean versions and the pointers that
\* walk back are an invariant of every run: of any number of symbols, days, runs and
\* crashes, and of any interleaving of the trainer with a hand on the pointer.
THEOREM FilesHold == Spec => []IInv
<1>1. Init => IInv
  BY InitHolds
<1>2. IInv /\ [Next]_vars => IInv'
  BY StepHolds
<1> QED BY <1>1, <1>2, PTL DEF Spec

\* ingest_symbol and attach_outcomes: whatever top-ups failed, died or ran in the middle
\* of a session, the archive has no hole the exchange does not have, and an outcome is the
\* horizon-th bar that followed.
THEOREM ArchiveStaysWhole == Spec => []TopUpExact
<1>1. IInv => TopUpExact
  BY TopUpFollows DEF IInv
<1> QED BY <1>1, FilesHold, PTL

\* run_job and promote_if_better: for symbols without missing bars neither the candidate's
\* labels, nor its folds, nor the live model of an earlier night saw what they are judged on.
THEOREM GateIsOutOfSample == Spec => []OutOfSample
<1>1. IInv => OutOfSample
  BY OutOfSampleFollows DEF IInv
<1> QED BY <1>1, FilesHold, PTL

\* ModelRegistry.set_live and rollback: although the trainer and a hand replace the pointer
\* they read earlier, rollbacks walk back through what was live.
THEOREM RollbacksWalkBack == Spec => []WalksBack
<1>1. IInv => WalksBack
  BY WalksBackFollows DEF IInv, Held
<1> QED BY <1>1, FilesHold, PTL
=============================================================================
