------------------------------ MODULE SumTheorems ------------------------------
(***************************************************************************)
(* What a finite sum over a function is: the facts about SumFunctionOnSet  *)
(* that the proofs about quantities, positions and cash rest on, and the   *)
(* ones about quotients that the proofs about time rest on.                *)
(***************************************************************************)
EXTENDS Integers, Sequences, FiniteSets, Functions,
        FiniteSetTheorems, SequenceTheorems, WellFoundedInduction, TLAPS

\* The element the sum takes out of a set next, and the recursion it follows.
Taken(T) == CHOOSE x \in T : TRUE
Unfolds(g, f, S) ==
  g = [T \in SUBSET S |-> IF T = {} THEN 0 ELSE f[Taken(T)] + g[T \ {Taken(T)}]]

\* A function with integer values on S.
IntOn(f, S) == \A x \in S : f[x] \in Int

\* The terms of f over S are those of g over T, and h says which is which.
Pairs(h, f, S, g, T) ==
  /\ \A x \in S : h[x] \in T /\ f[x] = g[h[x]]
  /\ \A y \in T : \E x \in S : h[x] = y
  /\ \A x, y \in S : h[x] = h[y] => x = y
-----------------------------------------------------------------------------
(* Induction, with a set in place of the predicate.                        *)

\* A set of numbers that holds 0 and is closed under successor holds every number.
LEMMA NumberInduction ==
  ASSUME NEW P, 0 \in P, \A n \in Nat : n \in P => n + 1 \in P
  PROVE  Nat \subseteq P
<1>1. SUFFICES ASSUME Nat \ P # {} PROVE FALSE
  OBVIOUS
<1> DEFINE R == OpToRel(<, Nat)
           Q == Nat \ P
<1>2. IsWellFoundedOn(R, Nat) /\ Q \subseteq Nat /\ Q # {}
  BY <1>1, NatLessThanWellFounded
<1>3. \A m \in Nat : <<m, m + 1>> \in R
  BY DEF OpToRel
<1> HIDE DEF R
<1>4. PICK m \in Q : \A n \in Q : ~ (<<n, m>> \in R)
  <2> HIDE DEF Q
  <2> QED BY <1>2, WFMin
<1>5. m # 0 /\ m - 1 \in Nat /\ m = (m - 1) + 1
  OBVIOUS
<1>6. m - 1 \in Q
  BY <1>5
<1> QED BY <1>3, <1>4, <1>5, <1>6

\* A property that a finite set has whenever it holds of the set less any one element
\* holds of all its subsets.
LEMMA SubsetInduction ==
  ASSUME NEW S, IsFiniteSet(S), NEW P,
         \A T \in SUBSET S : (\A x \in T : T \ {x} \in P) => T \in P
  PROVE  \A T \in SUBSET S : T \in P
<1> DEFINE N == {n \in Nat : \A T \in SUBSET S : Cardinality(T) = n => T \in P}
<1>1. 0 \in N
  <2>1. ASSUME NEW T \in SUBSET S, Cardinality(T) = 0 PROVE T \in P
    BY <2>1, FS_Subset, FS_EmptySet
  <2> QED BY <2>1
<1>2. ASSUME NEW n \in N PROVE n + 1 \in N
  <2>1. ASSUME NEW T \in SUBSET S, Cardinality(T) = n + 1 PROVE T \in P
    <3>1. ASSUME NEW x \in T PROVE T \ {x} \in P
      <4>1. IsFiniteSet(T)
        BY FS_Subset
      <4>2. Cardinality(T \ {x}) = (n + 1) - 1
        BY <2>1, <3>1, <4>1, FS_RemoveElement
      <4> QED BY <1>2, <4>2
    <3> QED BY <3>1
  <2> QED BY <2>1
<1>3. Nat \subseteq N
  <2> HIDE DEF N
  <2> QED BY <1>1, <1>2, NumberInduction
<1> QED BY <1>3, FS_Subset, FS_CardinalityType
-----------------------------------------------------------------------------
(* Products and quotients.                                                 *)

\* A part of a quantity is no more when both are multiplied.
LEMMA TimesGrows ==
  ASSUME NEW a \in Int, NEW b \in Int, NEW p \in Nat, a <= b
  PROVE  a * p <= b * p
<1>1. PICK d \in Nat : b = a + d
  OBVIOUS
<1>2. d * p >= 0
  OBVIOUS
<1>3. b * p = a * p + d * p
  BY <1>1
<1> QED BY <1>2, <1>3

\* A quotient and the multiple of the divisor below the dividend.
LEMMA Quotient ==
  ASSUME NEW t \in Nat, NEW n \in Nat \ {0}
  PROVE  /\ t \div n \in Nat /\ t % n \in Nat
         /\ t = (t \div n) * n + (t % n) /\ t % n < n
  OBVIOUS

\* It is the only number between whose multiples the dividend lies.
LEMMA QuotientIs ==
  ASSUME NEW t \in Nat, NEW n \in Nat \ {0}, NEW q \in Nat, q * n <= t, t < q * n + n
  PROVE  t \div n = q
<1>1. PICK a \in Nat : a = t \div n /\ a * n <= t /\ t < a * n + n
  BY Quotient
<1>2. CASE a < q
  <2>1. (a + 1) * n <= q * n
    BY <1>2, TimesGrows
  <2>2. (a + 1) * n = a * n + n
    OBVIOUS
  <2>3. a * n \in Int /\ q * n \in Int
    OBVIOUS
  <2> QED BY <1>1, <2>1, <2>2, <2>3
<1>3. CASE q < a
  <2>1. (q + 1) * n <= a * n
    BY <1>3, TimesGrows
  <2>2. (q + 1) * n = q * n + n
    OBVIOUS
  <2>3. a * n \in Int /\ q * n \in Int
    OBVIOUS
  <2> QED BY <1>1, <2>1, <2>2, <2>3
<1> QED BY <1>1, <1>2, <1>3

\* Quotients grow with what is divided.
LEMMA QuotientGrows ==
  ASSUME NEW t \in Nat, NEW u \in Nat, t <= u, NEW n \in Nat \ {0}
  PROVE  t \div n <= u \div n
<1>1. PICK a \in Nat : a = t \div n /\ a * n <= t
  BY Quotient
<1>2. PICK b \in Nat : b = u \div n /\ u < b * n + n
  BY Quotient
<1>3. CASE b < a
  <2>1. (b + 1) * n <= a * n
    BY <1>3, TimesGrows
  <2>2. (b + 1) * n = b * n + n
    OBVIOUS
  <2>3. a * n \in Int /\ b * n \in Int
    OBVIOUS
  <2> QED BY <1>1, <1>2, <2>1, <2>2, <2>3
<1> QED BY <1>1, <1>2, <1>3
-----------------------------------------------------------------------------
(* The recursion has a solution, and only one.                             *)

\* The recursion can be solved over the subsets of a finite set.
LEMMA Solvable ==
  ASSUME NEW S, IsFiniteSet(S), NEW f, IntOn(f, S)
  PROVE  \E g \in [SUBSET S -> Int] : Unfolds(g, f, S)
<1> DEFINE Up(g, n) ==
             \A T \in SUBSET S : Cardinality(T) <= n =>
               g[T] = IF T = {} THEN 0 ELSE f[Taken(T)] + g[T \ {Taken(T)}]
           N == {n \in Nat : \E g \in [SUBSET S -> Int] : Up(g, n)}
<1>1. \A T \in SUBSET S : Cardinality(T) \in Nat /\ (Cardinality(T) = 0 <=> T = {})
  BY FS_Subset, FS_CardinalityType, FS_EmptySet
<1>2. \A T \in SUBSET S : T # {} =>
        /\ Taken(T) \in T /\ T \ {Taken(T)} \in SUBSET S
        /\ Cardinality(T \ {Taken(T)}) = Cardinality(T) - 1
  BY FS_Subset, FS_RemoveElement DEF Taken
<1>3. 0 \in N
  <2>1. [T \in SUBSET S |-> 0] \in [SUBSET S -> Int] /\ Up([T \in SUBSET S |-> 0], 0)
    BY <1>1
  <2> QED BY <2>1
<1>4. ASSUME NEW n \in Nat, n \in N PROVE n + 1 \in N
  <2>1. PICK g \in [SUBSET S -> Int] : Up(g, n)
    BY <1>4
  <2> DEFINE h == [T \in SUBSET S |->
                     IF T = {} THEN 0 ELSE f[Taken(T)] + g[T \ {Taken(T)}]]
  <2>2. h \in [SUBSET S -> Int]
    <3>1. ASSUME NEW T \in SUBSET S, T # {}
          PROVE  f[Taken(T)] \in Int /\ g[T \ {Taken(T)}] \in Int
      BY <1>2, <3>1 DEF IntOn
    <3> QED BY <3>1
  <2>3. \A T \in SUBSET S : Cardinality(T) <= n => h[T] = g[T]
    BY <2>1
  <2>4. Up(h, n + 1)
    <3>1. ASSUME NEW T \in SUBSET S, Cardinality(T) <= n + 1, T # {}
          PROVE  h[T] = f[Taken(T)] + h[T \ {Taken(T)}]
      <4>1. Cardinality(T \ {Taken(T)}) <= n
        BY <1>1, <1>2, <3>1
      <4> QED BY <1>2, <2>3, <3>1, <4>1
    <3>2. h[{}] = 0
      OBVIOUS
    <3> QED BY <3>1, <3>2
  <2> HIDE DEF h, Up
  <2> QED BY <2>2, <2>4
<1>5. Cardinality(S) \in N
  <2> HIDE DEF N
  <2> QED BY <1>1, <1>3, <1>4, NumberInduction
<1>6. PICK g \in [SUBSET S -> Int] : Up(g, Cardinality(S))
  BY <1>5
<1>7. \A T \in SUBSET S : Cardinality(T) <= Cardinality(S)
  BY FS_Subset
<1>8. g = [T \in SUBSET S |-> IF T = {} THEN 0 ELSE f[Taken(T)] + g[T \ {Taken(T)}]]
  BY <1>6, <1>7
<1> QED BY <1>8 DEF Unfolds

\* Two solutions agree wherever both are defined.
LEMMA Unique ==
  ASSUME NEW S, IsFiniteSet(S), NEW R, S \subseteq R, NEW f, NEW g, NEW h,
         Unfolds(g, f, S), Unfolds(h, f, R)
  PROVE  \A T \in SUBSET S : g[T] = h[T]
<1> DEFINE P == {T \in SUBSET S : g[T] = h[T]}
<1>1. ASSUME NEW T \in SUBSET S, \A x \in T : T \ {x} \in P PROVE T \in P
  <2>1. CASE T = {}
    BY <2>1 DEF Unfolds
  <2>2. CASE T # {}
    <3>1. Taken(T) \in T
      BY <2>2 DEF Taken
    <3>2. /\ g[T] = f[Taken(T)] + g[T \ {Taken(T)}]
          /\ h[T] = f[Taken(T)] + h[T \ {Taken(T)}]
      BY <2>2 DEF Unfolds
    <3> QED BY <1>1, <3>1, <3>2
  <2> QED BY <2>1, <2>2
<1>2. \A T \in SUBSET S : T \in P
  <2> HIDE DEF P
  <2> QED BY <1>1, SubsetInduction
<1> QED BY <1>2
-----------------------------------------------------------------------------
(* Facts about sums.                                                       *)

\* The sum is a solution of the recursion, at the whole set.
LEMMA SumSolves ==
  ASSUME NEW S, IsFiniteSet(S), NEW f, IntOn(f, S)
  PROVE  \E g \in [SUBSET S -> Int] : Unfolds(g, f, S) /\ SumFunctionOnSet(f, S) = g[S]
<1>1. PICK g \in [SUBSET S -> Int] : Unfolds(g, f, S)
  BY Solvable
<1>2. PICK h : Unfolds(h, f, S) /\ SumFunctionOnSet(f, S) = h[S]
  BY <1>1, Zenon DEF SumFunctionOnSet, FoldFunctionOnSet, MapThenFoldSet, Unfolds, Taken
<1>3. g[S] = h[S]
  <2>1. S \subseteq S /\ S \in SUBSET S
    OBVIOUS
  <2> QED BY <1>1, <1>2, <2>1, Unique
<1> QED BY <1>1, <1>2, <1>3

\* A sum of integers is an integer.
THEOREM SumIsInt ==
  ASSUME NEW S, IsFiniteSet(S), NEW f, IntOn(f, S)
  PROVE  SumFunctionOnSet(f, S) \in Int
<1>1. PICK g \in [SUBSET S -> Int] : SumFunctionOnSet(f, S) = g[S]
  BY SumSolves
<1>2. S \in SUBSET S
  OBVIOUS
<1> QED BY <1>1, <1>2

\* Nothing adds up to zero.
THEOREM SumOfNone ==
  ASSUME NEW f
  PROVE  SumFunctionOnSet(f, {}) = 0
<1>1. IsFiniteSet({}) /\ IntOn(f, {})
  BY FS_EmptySet DEF IntOn
<1>2. PICK g : Unfolds(g, f, {}) /\ SumFunctionOnSet(f, {}) = g[{}]
  BY <1>1, SumSolves
<1> QED BY <1>2 DEF Unfolds

\* A sum is the element it takes next and the sum of the others.
LEMMA SumTakesNext ==
  ASSUME NEW S, IsFiniteSet(S), NEW f, IntOn(f, S), S # {}
  PROVE  SumFunctionOnSet(f, S) = f[Taken(S)] + SumFunctionOnSet(f, S \ {Taken(S)})
<1> DEFINE R == S \ {Taken(S)}
<1>1. IsFiniteSet(R) /\ IntOn(f, R) /\ R \subseteq S /\ R \in SUBSET R
  BY FS_Subset DEF IntOn
<1>2. PICK g : Unfolds(g, f, S) /\ SumFunctionOnSet(f, S) = g[S]
  BY SumSolves
<1>3. PICK h : Unfolds(h, f, R) /\ SumFunctionOnSet(f, R) = h[R]
  <2> HIDE DEF R
  <2> QED BY <1>1, SumSolves
<1>4. g[S] = f[Taken(S)] + g[R]
  BY <1>2 DEF Unfolds
<1>5. h[R] = g[R]
  <2> HIDE DEF R
  <2> QED BY <1>1, <1>2, <1>3, Unique
<1> QED BY <1>2, <1>3, <1>4, <1>5

\* The same of any of its elements: the order does not matter.
THEOREM SumTakes ==
  ASSUME NEW S, IsFiniteSet(S), NEW f, IntOn(f, S), NEW y \in S
  PROVE  SumFunctionOnSet(f, S) = f[y] + SumFunctionOnSet(f, S \ {y})
<1> DEFINE P == {T \in SUBSET S : \A x \in T :
                   SumFunctionOnSet(f, T) = f[x] + SumFunctionOnSet(f, T \ {x})}
<1>1. ASSUME NEW T \in SUBSET S, \A x \in T : T \ {x} \in P PROVE T \in P
  <2>1. ASSUME NEW x \in T, x # Taken(T)
        PROVE  SumFunctionOnSet(f, T) = f[x] + SumFunctionOnSet(f, T \ {x})
    <3> DEFINE z == Taken(T)
               R == (T \ {x}) \ {z}
    <3>1. z \in T /\ z \in T \ {x} /\ x \in T \ {z} /\ R = (T \ {z}) \ {x}
      BY <2>1 DEF Taken
    <3>2. /\ IsFiniteSet(T) /\ IntOn(f, T) /\ T # {}
          /\ IsFiniteSet(R) /\ IntOn(f, R)
      BY FS_Subset DEF IntOn
    <3>3. SumFunctionOnSet(f, T) = f[z] + SumFunctionOnSet(f, T \ {z})
      BY <3>2, SumTakesNext
    <3>4. SumFunctionOnSet(f, T \ {z}) = f[x] + SumFunctionOnSet(f, R)
      BY <1>1, <3>1
    <3>5. SumFunctionOnSet(f, T \ {x}) = f[z] + SumFunctionOnSet(f, R)
      BY <1>1, <2>1, <3>1
    <3>6. f[x] \in Int /\ f[z] \in Int /\ SumFunctionOnSet(f, R) \in Int
      BY <2>1, <3>1, <3>2, SumIsInt DEF IntOn
    <3> HIDE DEF z, R
    <3> QED BY <3>3, <3>4, <3>5, <3>6
  <2>2. ASSUME NEW x \in T, x = Taken(T)
        PROVE  SumFunctionOnSet(f, T) = f[x] + SumFunctionOnSet(f, T \ {x})
    <3>1. IsFiniteSet(T) /\ IntOn(f, T) /\ T # {}
      BY FS_Subset DEF IntOn
    <3> QED BY <2>2, <3>1, SumTakesNext
  <2> QED BY <2>1, <2>2
<1>2. \A T \in SUBSET S : T \in P
  <2> HIDE DEF P
  <2> QED BY <1>1, SubsetInduction
<1> QED BY <1>2

\* One element more.
THEOREM SumAdds ==
  ASSUME NEW S, IsFiniteSet(S), NEW f, NEW y, y \notin S, IntOn(f, S), f[y] \in Int
  PROVE  SumFunctionOnSet(f, S \cup {y}) = f[y] + SumFunctionOnSet(f, S)
<1> DEFINE R == S \cup {y}
<1>1. IsFiniteSet(R) /\ y \in R /\ IntOn(f, R) /\ R \ {y} = S
  BY FS_AddElement DEF IntOn
<1> HIDE DEF R
<1>2. SumFunctionOnSet(f, R) = f[y] + SumFunctionOnSet(f, R \ {y})
  BY <1>1, SumTakes
<1> QED BY <1>1, <1>2 DEF R

\* The order of two sums: term by term.
THEOREM SumOrdered ==
  ASSUME NEW S, IsFiniteSet(S), NEW f, NEW g, IntOn(f, S), IntOn(g, S),
         \A x \in S : f[x] <= g[x]
  PROVE  SumFunctionOnSet(f, S) <= SumFunctionOnSet(g, S)
<1> DEFINE P == {T \in SUBSET S : SumFunctionOnSet(f, T) <= SumFunctionOnSet(g, T)}
<1>1. ASSUME NEW T \in SUBSET S, \A x \in T : T \ {x} \in P PROVE T \in P
  <2>1. CASE T = {}
    BY <2>1, SumOfNone
  <2>2. CASE T # {}
    <3>1. PICK x : x \in T
      BY <2>2
    <3> DEFINE R == T \ {x}
    <3>2. /\ IsFiniteSet(T) /\ IntOn(f, T) /\ IntOn(g, T)
          /\ IsFiniteSet(R) /\ IntOn(f, R) /\ IntOn(g, R)
      BY FS_Subset DEF IntOn
    <3>3. SumFunctionOnSet(f, R) <= SumFunctionOnSet(g, R)
      BY <1>1, <3>1
    <3>4. /\ SumFunctionOnSet(f, T) = f[x] + SumFunctionOnSet(f, R)
          /\ SumFunctionOnSet(g, T) = g[x] + SumFunctionOnSet(g, R)
      BY <3>1, <3>2, SumTakes
    <3>5. SumFunctionOnSet(f, R) \in Int /\ SumFunctionOnSet(g, R) \in Int
      BY <3>2, SumIsInt
    <3>6. f[x] \in Int /\ g[x] \in Int /\ f[x] <= g[x]
      BY <3>1 DEF IntOn
    <3> HIDE DEF R
    <3>7. SumFunctionOnSet(f, T) <= SumFunctionOnSet(g, T)
      BY <3>3, <3>4, <3>5, <3>6
    <3> QED BY <3>7
  <2> QED BY <2>1, <2>2
<1>2. \A T \in SUBSET S : T \in P
  <2> HIDE DEF P
  <2> QED BY <1>1, SubsetInduction
<1> QED BY <1>2

\* Two functions with the same terms have the same sum.
THEOREM SumSame ==
  ASSUME NEW S, IsFiniteSet(S), NEW f, NEW g, IntOn(f, S), \A x \in S : f[x] = g[x]
  PROVE  SumFunctionOnSet(f, S) = SumFunctionOnSet(g, S)
<1>1. IntOn(g, S) /\ (\A x \in S : f[x] <= g[x]) /\ (\A x \in S : g[x] <= f[x])
  BY DEF IntOn
<1>2. /\ SumFunctionOnSet(f, S) <= SumFunctionOnSet(g, S)
      /\ SumFunctionOnSet(g, S) <= SumFunctionOnSet(f, S)
  BY <1>1, SumOrdered
<1> QED BY <1>1, <1>2, SumIsInt

\* One term changes.
THEOREM SumChanges ==
  ASSUME NEW S, IsFiniteSet(S), NEW f, NEW g, IntOn(f, S), IntOn(g, S), NEW y \in S,
         \A x \in S : x # y => f[x] = g[x]
  PROVE  SumFunctionOnSet(g, S) = SumFunctionOnSet(f, S) + (g[y] - f[y])
<1> DEFINE R == S \ {y}
<1>1. IsFiniteSet(R) /\ IntOn(f, R) /\ \A x \in R : f[x] = g[x]
  BY FS_Subset DEF IntOn
<1>2. SumFunctionOnSet(f, R) = SumFunctionOnSet(g, R) /\ SumFunctionOnSet(f, R) \in Int
  <2> HIDE DEF R
  <2> QED BY <1>1, SumSame, SumIsInt
<1>3. /\ SumFunctionOnSet(f, S) = f[y] + SumFunctionOnSet(f, R)
      /\ SumFunctionOnSet(g, S) = g[y] + SumFunctionOnSet(g, R)
  BY SumTakes
<1>4. f[y] \in Int /\ g[y] \in Int
  BY DEF IntOn
<1> HIDE DEF R
<1> QED BY <1>2, <1>3, <1>4

\* Terms that pair off one to one add up to the same.
THEOREM SumThrough ==
  ASSUME NEW S, IsFiniteSet(S), NEW f, NEW g, NEW h, IntOn(f, S),
         NEW T, Pairs(h, f, S, g, T)
  PROVE  IsFiniteSet(T) /\ SumFunctionOnSet(f, S) = SumFunctionOnSet(g, T)
<1> USE DEF Pairs
<1> DEFINE P == {U \in SUBSET S :
                  /\ IsFiniteSet({h[x] : x \in U})
                  /\ SumFunctionOnSet(f, U) = SumFunctionOnSet(g, {h[x] : x \in U})}
<1>1. ASSUME NEW U \in SUBSET S, \A x \in U : U \ {x} \in P PROVE U \in P
  <2>1. CASE U = {}
    <3>1. {h[x] : x \in U} = {}
      BY <2>1
    <3> QED BY <2>1, <3>1, SumOfNone, FS_EmptySet
  <2>2. CASE U # {}
    <3>1. PICK y : y \in U
      BY <2>2
    <3> DEFINE R == U \ {y}
               I == {h[x] : x \in R}
    <3>2. IsFiniteSet(U) /\ IntOn(f, U)
      BY FS_Subset DEF IntOn
    <3>3. IsFiniteSet(I) /\ SumFunctionOnSet(f, R) = SumFunctionOnSet(g, I)
      BY <1>1, <3>1
    <3>4. {h[x] : x \in U} = I \cup {h[y]} /\ h[y] \notin I
      BY <3>1
    <3>5. IntOn(g, I) /\ g[h[y]] = f[y] /\ g[h[y]] \in Int
      BY <3>1 DEF IntOn
    <3>6. SumFunctionOnSet(f, U) = f[y] + SumFunctionOnSet(f, R)
      BY <3>1, <3>2, SumTakes
    <3> HIDE DEF R, I
    <3>7. /\ SumFunctionOnSet(g, I \cup {h[y]}) = g[h[y]] + SumFunctionOnSet(g, I)
          /\ IsFiniteSet(I \cup {h[y]})
      BY <3>3, <3>4, <3>5, SumAdds, FS_AddElement
    <3> QED BY <3>3, <3>4, <3>5, <3>6, <3>7
  <2> QED BY <2>1, <2>2
<1>2. \A U \in SUBSET S : U \in P
  <2> HIDE DEF P
  <2> QED BY <1>1, SubsetInduction
<1>3. T = {h[x] : x \in S}
  OBVIOUS
<1> QED BY <1>2, <1>3

\* The sum over two sets that share nothing.
THEOREM SumSplits ==
  ASSUME NEW S, NEW T, IsFiniteSet(S), IsFiniteSet(T), S \cap T = {}, NEW f,
         IntOn(f, S), IntOn(f, T)
  PROVE  SumFunctionOnSet(f, S \cup T) = SumFunctionOnSet(f, S) + SumFunctionOnSet(f, T)
<1> DEFINE P == {U \in SUBSET T :
                   SumFunctionOnSet(f, S \cup U) = SumFunctionOnSet(f, S) + SumFunctionOnSet(f, U)}
<1>1. ASSUME NEW U \in SUBSET T, \A x \in U : U \ {x} \in P PROVE U \in P
  <2>1. CASE U = {}
    <3>1. S \cup U = S /\ SumFunctionOnSet(f, S) \in Int
      BY <2>1, SumIsInt
    <3> QED BY <2>1, <3>1, SumOfNone
  <2>2. CASE U # {}
    <3>1. PICK y : y \in U
      BY <2>2
    <3> DEFINE R == U \ {y}
               A == S \cup U
    <3>2. /\ IsFiniteSet(U) /\ IsFiniteSet(R) /\ IsFiniteSet(A)
          /\ IntOn(f, U) /\ IntOn(f, R) /\ IntOn(f, A)
      BY FS_Subset, FS_Union DEF IntOn
    <3>3. y \in A /\ A \ {y} = S \cup R
      BY <3>1
    <3>4. SumFunctionOnSet(f, S \cup R) = SumFunctionOnSet(f, S) + SumFunctionOnSet(f, R)
      BY <1>1, <3>1
    <3>5. f[y] \in Int
      BY <3>1, <3>2 DEF IntOn
    <3> HIDE DEF R, A
    <3>6. /\ SumFunctionOnSet(f, A) = f[y] + SumFunctionOnSet(f, S \cup R)
      BY <3>2, <3>3, SumTakes
    <3>7. SumFunctionOnSet(f, U) = f[y] + SumFunctionOnSet(f, R)
      BY <3>1, <3>2, SumTakes DEF R
    <3>8. SumFunctionOnSet(f, S) \in Int /\ SumFunctionOnSet(f, R) \in Int
      BY <3>2, SumIsInt
    <3>9. SumFunctionOnSet(f, A) = SumFunctionOnSet(f, S) + SumFunctionOnSet(f, U)
      BY <3>4, <3>5, <3>6, <3>7, <3>8
    <3> QED BY <3>9 DEF A
  <2> QED BY <2>1, <2>2
<1>2. \A U \in SUBSET T : U \in P
  <2> HIDE DEF P
  <2> QED BY <1>1, SubsetInduction
<1> QED BY <1>2

\* Terms that are zero can be left out.
THEOREM SumOfZeros ==
  ASSUME NEW S, IsFiniteSet(S), NEW f, \A x \in S : f[x] = 0
  PROVE  SumFunctionOnSet(f, S) = 0
<1> DEFINE P == {T \in SUBSET S : SumFunctionOnSet(f, T) = 0}
<1>1. ASSUME NEW T \in SUBSET S, \A x \in T : T \ {x} \in P PROVE T \in P
  <2>1. CASE T = {}
    BY <2>1, SumOfNone
  <2>2. CASE T # {}
    <3>1. PICK x : x \in T
      BY <2>2
    <3>2. IsFiniteSet(T) /\ IntOn(f, T)
      BY FS_Subset DEF IntOn
    <3>3. SumFunctionOnSet(f, T) = f[x] + SumFunctionOnSet(f, T \ {x})
      BY <3>1, <3>2, SumTakes
    <3> QED BY <1>1, <3>1, <3>3
  <2> QED BY <2>1, <2>2
<1>2. \A T \in SUBSET S : T \in P
  <2> HIDE DEF P
  <2> QED BY <1>1, SubsetInduction
<1> QED BY <1>2

\* The sum over a part is the sum over the whole of the terms of the part.
THEOREM SumFiltered ==
  ASSUME NEW S, IsFiniteSet(S), NEW R \in SUBSET S, NEW f, NEW g, IntOn(f, R),
         \A x \in R : g[x] = f[x], \A x \in S \ R : g[x] = 0
  PROVE  SumFunctionOnSet(f, R) = SumFunctionOnSet(g, S)
<1> DEFINE T == S \ R
<1>1. /\ IsFiniteSet(R) /\ IsFiniteSet(T) /\ R \cap T = {} /\ R \cup T = S
      /\ IntOn(g, R) /\ IntOn(g, T)
  BY FS_Subset DEF IntOn
<1>2. \A x \in T : g[x] = 0
  OBVIOUS
<1> HIDE DEF T
<1>3. SumFunctionOnSet(g, S) = SumFunctionOnSet(g, R) + SumFunctionOnSet(g, T)
  BY <1>1, SumSplits
<1>4. SumFunctionOnSet(g, T) = 0
  BY <1>1, <1>2, SumOfZeros
<1>5. SumFunctionOnSet(f, R) = SumFunctionOnSet(g, R) /\ SumFunctionOnSet(g, R) \in Int
  BY <1>1, SumSame, SumIsInt
<1> QED BY <1>3, <1>4, <1>5

\* A sum of terms that are not negative bounds the sum of any of them.
THEOREM SumOfPart ==
  ASSUME NEW S, IsFiniteSet(S), NEW T \in SUBSET S, NEW f, IntOn(f, S),
         \A x \in S : f[x] >= 0
  PROVE  0 <= SumFunctionOnSet(f, T) /\ SumFunctionOnSet(f, T) <= SumFunctionOnSet(f, S)
<1> DEFINE z == [x \in S |-> 0]
           R == S \ T
<1>1. /\ IsFiniteSet(T) /\ IsFiniteSet(R) /\ T \cap R = {} /\ T \cup R = S
      /\ IntOn(f, T) /\ IntOn(f, R) /\ IntOn(z, T) /\ IntOn(z, R)
      /\ \A x \in S : z[x] = 0 /\ z[x] <= f[x]
  BY FS_Subset DEF IntOn
<1> HIDE DEF R, z
<1>2. SumFunctionOnSet(z, T) = 0 /\ SumFunctionOnSet(z, R) = 0
  BY <1>1, SumOfZeros DEF R
<1>3. SumFunctionOnSet(z, T) <= SumFunctionOnSet(f, T)
  BY <1>1, SumOrdered
<1>4. SumFunctionOnSet(z, R) <= SumFunctionOnSet(f, R)
  BY <1>1, SumOrdered DEF R
<1>5. SumFunctionOnSet(f, S) = SumFunctionOnSet(f, T) + SumFunctionOnSet(f, R)
  BY <1>1, SumSplits
<1>6. SumFunctionOnSet(f, T) \in Int /\ SumFunctionOnSet(f, R) \in Int
  BY <1>1, SumIsInt
<1> QED BY <1>2, <1>3, <1>4, <1>5, <1>6
-----------------------------------------------------------------------------
(* Sums along sequences.                                                   *)

\* The indices of a sequence of integers are a finite set of integer terms.
LEMMA SeqTerms ==
  ASSUME NEW s \in Seq(Int)
  PROVE  /\ DOMAIN s = 1..Len(s) /\ Len(s) \in Nat
         /\ IsFiniteSet(DOMAIN s) /\ IntOn(s, DOMAIN s)
         /\ SumFunction(s) = SumFunctionOnSet(s, DOMAIN s) /\ SumFunction(s) \in Int
<1>1. DOMAIN s = 1..Len(s) /\ Len(s) \in Nat /\ IntOn(s, DOMAIN s)
  BY LenProperties, ElementOfSeq DEF IntOn
<1>2. IsFiniteSet(DOMAIN s)
  BY <1>1, FS_Interval
<1>3. SumFunction(s) = SumFunctionOnSet(s, DOMAIN s)
  BY DEF SumFunction
<1> QED BY <1>1, <1>2, <1>3, SumIsInt

\* The empty sequence adds up to zero.
THEOREM SeqSumEmpty == SumFunction(<<>>) = 0
  BY SumOfNone DEF SumFunction

\* One sequence after the other.
THEOREM SeqSumConcat ==
  ASSUME NEW s \in Seq(Int), NEW t \in Seq(Int)
  PROVE  SumFunction(s \o t) = SumFunction(s) + SumFunction(t)
<1> DEFINE u == s \o t
           m == Len(s)
           n == Len(t)
           S == 1..m
           T == (m + 1)..(m + n)
           h == [k \in 1..n |-> k + m]
<1>1. /\ u \in Seq(Int) /\ DOMAIN u = S \cup T /\ S \cap T = {}
      /\ m \in Nat /\ n \in Nat /\ DOMAIN s = S /\ DOMAIN t = 1..n
      /\ \A k \in S : u[k] = s[k]
      /\ \A k \in 1..n : u[k + m] = t[k]
  <2>1. u \in Seq(Int) /\ Len(u) = m + n /\ m \in Nat /\ n \in Nat
    BY ConcatProperties, SeqTerms
  <2>2. DOMAIN u = 1..(m + n) /\ DOMAIN s = S /\ DOMAIN t = 1..n
    BY <2>1, SeqTerms
  <2>3. /\ \A k \in S : u[k] = s[k]
        /\ \A k \in 1..n : u[k + m] = t[k]
    BY <2>1, ConcatProperties
  <2> QED BY <2>1, <2>2, <2>3
<1>2. Pairs(h, t, 1..n, u, T)
  <2>1. ASSUME NEW x \in T PROVE x - m \in 1..n /\ h[x - m] = x
    BY <1>1, <2>1
  <2>2. ASSUME NEW k \in 1..n PROVE h[k] \in T /\ t[k] = u[h[k]]
    BY <1>1, <2>2
  <2>3. \A x, y \in 1..n : h[x] = h[y] => x = y
    BY <1>1
  <2> QED BY <2>1, <2>2, <2>3 DEF Pairs
<1>4. /\ IsFiniteSet(S) /\ IsFiniteSet(1..n) /\ IsFiniteSet(T)
      /\ IntOn(u, S) /\ IntOn(u, T) /\ IntOn(t, 1..n) /\ IntOn(s, S)
  <2>1. IntOn(u, S \cup T) /\ IntOn(t, 1..n) /\ IntOn(s, S)
    BY <1>1, SeqTerms
  <2>2. IntOn(u, S) /\ IntOn(u, T)
    BY <2>1 DEF IntOn
  <2>3. m + 1 \in Int /\ m + n \in Int /\ m \in Int /\ n \in Int
    BY <1>1
  <2>4. IsFiniteSet(S) /\ IsFiniteSet(1..n) /\ IsFiniteSet(T)
    BY <2>3, FS_Interval
  <2> QED BY <2>1, <2>2, <2>4
<1>5. SumFunction(u) = SumFunctionOnSet(u, S \cup T)
  BY <1>1 DEF SumFunction
<1>6. SumFunction(s) = SumFunctionOnSet(s, S) /\ SumFunction(t) = SumFunctionOnSet(t, 1..n)
  BY <1>1 DEF SumFunction
<1> HIDE DEF u, m, n, S, T, h
<1>7. SumFunctionOnSet(u, S) = SumFunctionOnSet(s, S)
  BY <1>1, <1>4, SumSame
<1>8. SumFunctionOnSet(t, 1..n) = SumFunctionOnSet(u, T)
  BY <1>2, <1>4, SumThrough
<1>9. SumFunctionOnSet(u, S \cup T) = SumFunctionOnSet(u, S) + SumFunctionOnSet(u, T)
  BY <1>1, <1>4, SumSplits
<1> QED BY <1>5, <1>6, <1>7, <1>8, <1>9 DEF u

\* One number alone.
THEOREM SeqSumOne ==
  ASSUME NEW x \in Int
  PROVE  SumFunction(<<x>>) = x
<1> DEFINE s == <<x>>
<1>1. s \in Seq(Int) /\ DOMAIN s = {1} /\ s[1] = x
  OBVIOUS
<1> HIDE DEF s
<1>2. IsFiniteSet({1}) /\ IntOn(s, {1}) /\ {1} \ {1} = {}
  BY <1>1, FS_Singleton DEF IntOn
<1>3. SumFunctionOnSet(s, {1}) = s[1] + SumFunctionOnSet(s, {1} \ {1})
  BY <1>2, SumTakes
<1>4. SumFunctionOnSet(s, {}) = 0
  BY SumOfNone
<1> QED BY <1>1, <1>2, <1>3, <1>4 DEF SumFunction, s

\* A number is appended.
THEOREM SeqSumAppend ==
  ASSUME NEW s \in Seq(Int), NEW x \in Int
  PROVE  SumFunction(Append(s, x)) = SumFunction(s) + x
<1>1. Append(s, x) = s \o <<x>> /\ <<x>> \in Seq(Int)
  BY AppendIsConcat
<1> QED BY <1>1, SeqSumConcat, SeqSumOne

\* The first number is taken off.
THEOREM SeqSumTail ==
  ASSUME NEW s \in Seq(Int), s # <<>>
  PROVE  SumFunction(s) = Head(s) + SumFunction(Tail(s))
<1>1. Head(s) \in Int /\ Tail(s) \in Seq(Int) /\ s = <<Head(s)>> \o Tail(s)
  BY HeadTailProperties, ConcatProperties
<1>2. <<Head(s)>> \in Seq(Int)
  BY <1>1
<1>3. SumFunction(<<Head(s)>> \o Tail(s)) = SumFunction(<<Head(s)>>) + SumFunction(Tail(s))
  BY <1>1, <1>2, SeqSumConcat
<1> QED BY <1>1, <1>3, SeqSumOne
=============================================================================
