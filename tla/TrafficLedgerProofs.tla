------------------------- MODULE TrafficLedgerProofs -------------------------
(***************************************************************************)
(* Proofs about TrafficLedger, for every length of hours, days and weeks,  *)
(* every zone of whole hours and every bound.                              *)
(*                                                                         *)
(* A sum of rows is a recursion over a set.  What it does when a row grows *)
(* or two sets are joined is proved by induction over the subsets of a     *)
(* finite set, which are well-founded, with a set of subsets in the place  *)
(* of a predicate.                                                         *)
(***************************************************************************)
EXTENDS TrafficLedger, FiniteSetTheorems, WellFoundedInduction, TLAPS

-----------------------------------------------------------------------------
(* Sums over finite sets.                                                  *)

\* What holds of a finite set when it holds of its proper subsets.
LEMMA SubsetInduction ==
  ASSUME NEW S, IsFiniteSet(S), NEW P,
         \A T \in SUBSET S : (\A U \in SUBSET T : U # T => U \in P) => T \in P
  PROVE  SUBSET S \subseteq P
<1>1. SUFFICES ASSUME (SUBSET S) \ P # {} PROVE FALSE
  OBVIOUS
<1>2. IsWellFoundedOn(StrictSubsetOrdering(S), SUBSET S)
  BY FS_StrictSubsetOrderingWellFounded, FS_FiniteSubsetsOfFinite
<1> DEFINE Rest == (SUBSET S) \ P
<1> HIDE DEF Rest
<1>0. Rest \subseteq SUBSET S /\ Rest # {}
  BY <1>1 DEF Rest
<1>a. PICK T \in Rest : \A U \in Rest : ~ (<<U, T>> \in StrictSubsetOrdering(S))
  BY <1>0, <1>2, WFMin
<1>3. T \in (SUBSET S) \ P /\ \A U \in (SUBSET S) \ P : ~ (<<U, T>> \in StrictSubsetOrdering(S))
  BY <1>a DEF Rest
<1>4. ASSUME NEW U \in SUBSET T, U # T PROVE U \in P
  <2>1. U \in SUBSET S /\ U \subseteq T /\ T \in SUBSET S
    BY <1>3
  <2>2. <<U, T>> \in StrictSubsetOrdering(S)
    BY <1>4, <2>1 DEF StrictSubsetOrdering
  <2>3. QED
    BY <1>3, <2>1, <2>2
<1>5. T \in P
  BY <1>3, <1>4
<1>6. QED
  BY <1>3, <1>5

\* The element a recursion over s takes out first.
First(s) == CHOOSE x \in s : TRUE

\* g is the recursion that sums f, on every subset of S.
IsFold(g, f, S) ==
  g = [s \in SUBSET S |-> IF s = {} THEN 0 ELSE f[First(s)] + g[s \ {First(s)}]]

\* The recursion itself, as the library chooses it.
Fold(f, S) == CHOOSE g : IsFold(g, f, S)

\* The sum of f over S, one element after the other.
Total(f, S) == Fold(f, S)[S]

\* First is an element of the set.
LEMMA FirstIn == ASSUME NEW s, s # {} PROVE First(s) \in s
BY DEF First

\* Two folds agree on the sets they share.
LEMMA FoldUnique ==
  ASSUME NEW S, IsFiniteSet(S), NEW T \in SUBSET S, NEW U \in SUBSET S, NEW f, NEW g, NEW h,
         IsFold(g, f, T), IsFold(h, f, U)
  PROVE  \A s \in (SUBSET T) \cap (SUBSET U) : g[s] = h[s]
<1> DEFINE P == {s \in SUBSET S : s \in SUBSET T /\ s \in SUBSET U => g[s] = h[s]}
<1>1. ASSUME NEW s \in SUBSET S, \A r \in SUBSET s : r # s => r \in P
      PROVE  s \in P
  <2>1. SUFFICES ASSUME s \in SUBSET T, s \in SUBSET U PROVE g[s] = h[s]
    OBVIOUS
  <2>2. CASE s = {}
    BY <2>1, <2>2 DEF IsFold
  <2>3. CASE s # {}
    <3>1. First(s) \in s
      BY <2>3, FirstIn
    <3>2. s \ {First(s)} \in SUBSET s /\ s \ {First(s)} # s
      BY <3>1
    <3>3. g[s \ {First(s)}] = h[s \ {First(s)}]
      BY <1>1, <2>1, <3>2
    <3>4. g[s] = f[First(s)] + g[s \ {First(s)}]
      BY <2>1, <2>3 DEF IsFold
    <3>5. h[s] = f[First(s)] + h[s \ {First(s)}]
      BY <2>1, <2>3 DEF IsFold
    <3>6. QED
      BY <3>3, <3>4, <3>5
  <2>4. QED
    BY <2>2, <2>3
<1> HIDE DEF P
<1>2. SUBSET S \subseteq P
  BY <1>1, SubsetInduction
<1>3. QED
  BY <1>2 DEF P

\* There is a fold over every finite set: the recursion has a solution.
LEMMA FoldExists ==
  ASSUME NEW S, IsFiniteSet(S), NEW f
  PROVE  \A T \in SUBSET S : IsFold(Fold(f, T), f, T)
<1> DEFINE P == {T \in SUBSET S : IsFold(Fold(f, T), f, T)}
<1>1. ASSUME NEW T \in SUBSET S, \A U \in SUBSET T : U # T => U \in P
      PROVE  T \in P
  <2> DEFINE V(s) == Fold(f, s)[s]
             h == [s \in SUBSET T |-> IF s = {} THEN 0 ELSE f[First(s)] + V(s \ {First(s)})]
  <2>1. ASSUME NEW s \in SUBSET T, s # T
        PROVE  V(s) = IF s = {} THEN 0 ELSE f[First(s)] + V(s \ {First(s)})
    <3>1. IsFold(Fold(f, s), f, s)
      BY <1>1, <2>1
    <3>2. CASE s = {}
      BY <3>1, <3>2 DEF IsFold
    <3>3. CASE s # {}
      <4> DEFINE r == s \ {First(s)}
      <4>1. First(s) \in s
        BY <3>3, FirstIn
      <4>2. r \in SUBSET T /\ r # T /\ r \in SUBSET s /\ r \in SUBSET S /\ s \in SUBSET S
        BY <4>1
      <4>3. IsFold(Fold(f, r), f, r)
        BY <1>1, <4>2
      <4>4. Fold(f, s)[r] = Fold(f, r)[r]
        BY <3>1, <4>2, <4>3, FoldUnique
      <4>5. Fold(f, s)[s] = f[First(s)] + Fold(f, s)[r]
        BY <3>1, <3>3 DEF IsFold
      <4>6. QED
        BY <3>3, <4>4, <4>5
    <3>4. QED
      BY <3>2, <3>3
  <2> HIDE DEF V
  <2>2. ASSUME NEW s \in SUBSET T
        PROVE  h[s] = IF s = {} THEN 0 ELSE f[First(s)] + h[s \ {First(s)}]
    <3>1. CASE s = {}
      BY <3>1
    <3>2. CASE s # {}
      <4> DEFINE r == s \ {First(s)}
      <4>1. First(s) \in s
        BY <3>2, FirstIn
      <4>2. r \in SUBSET T /\ r # T
        BY <4>1
      <4>3. h[r] = V(r)
        BY <2>1, <4>2
      <4>4. QED
        BY <3>2, <4>3
    <3>3. QED
      BY <3>1, <3>2
  <2> HIDE DEF h
  <2>3. h = [s \in SUBSET T |-> h[s]]
    BY DEF h
  <2>4. IsFold(h, f, T)
    BY <2>2, <2>3 DEF IsFold
  <2>5. IsFold(Fold(f, T), f, T)
    BY <2>4 DEF Fold
  <2>6. QED
    BY <2>5
<1> HIDE DEF P
<1>2. SUBSET S \subseteq P
  BY <1>1, SubsetInduction
<1>3. QED
  BY <1>2 DEF P

\* The sum of nothing, and of a set that has a first element.
LEMMA TotalFirst ==
  ASSUME NEW S, IsFiniteSet(S), NEW f
  PROVE  /\ S = {} => Total(f, S) = 0
         /\ S # {} => /\ First(S) \in S
                      /\ Total(f, S) = f[First(S)] + Total(f, S \ {First(S)})
<1>1. IsFold(Fold(f, S), f, S)
  BY FoldExists
<1>2. S = {} => Total(f, S) = 0
  BY <1>1 DEF IsFold, Total
<1>3. ASSUME S # {}
      PROVE  First(S) \in S /\ Total(f, S) = f[First(S)] + Total(f, S \ {First(S)})
  <2> DEFINE R == S \ {First(S)}
  <2>1. First(S) \in S
    BY <1>3, FirstIn
  <2>2. R \in SUBSET S /\ IsFiniteSet(R) /\ R \in SUBSET R /\ S \in SUBSET S
    BY FS_Subset
  <2>3. IsFold(Fold(f, R), f, R)
    BY <2>2, FoldExists
  <2>4. Fold(f, S)[R] = Fold(f, R)[R]
    BY <1>1, <2>2, <2>3, FoldUnique
  <2>5. Fold(f, S)[S] = f[First(S)] + Fold(f, S)[R]
    BY <1>1, <1>3 DEF IsFold
  <2>6. QED
    BY <2>1, <2>4, <2>5 DEF Total
<1>4. QED
  BY <1>2, <1>3

\* Sums of numbers are numbers, and of bytes are bytes.
LEMMA TotalType ==
  ASSUME NEW S, IsFiniteSet(S), NEW f
  PROVE  /\ (\A t \in S : f[t] \in Int) => Total(f, S) \in Int
         /\ (\A t \in S : f[t] \in Nat) => Total(f, S) \in Nat
<1> DEFINE P == {T \in SUBSET S : /\ (\A t \in T : f[t] \in Int) => Total(f, T) \in Int
                                  /\ (\A t \in T : f[t] \in Nat) => Total(f, T) \in Nat}
<1>1. ASSUME NEW T \in SUBSET S, \A U \in SUBSET T : U # T => U \in P
      PROVE  T \in P
  <2>1. IsFiniteSet(T)
    BY FS_Subset
  <2>2. CASE T = {}
    BY <2>1, <2>2, TotalFirst
  <2>3. CASE T # {}
    <3> DEFINE R == T \ {First(T)}
    <3>1. First(T) \in T /\ Total(f, T) = f[First(T)] + Total(f, R)
      BY <2>1, <2>3, TotalFirst
    <3>2. R \in SUBSET T /\ R # T
      BY <3>1
    <3>3. R \in P
      BY <1>1, <3>2
    <3>4. (\A t \in T : f[t] \in Int) => Total(f, T) \in Int
      BY <3>1, <3>3
    <3>5. (\A t \in T : f[t] \in Nat) => Total(f, T) \in Nat
      BY <3>1, <3>3
    <3>6. QED
      BY <3>4, <3>5
  <2>4. QED
    BY <2>2, <2>3
<1> HIDE DEF P
<1>2. SUBSET S \subseteq P
  BY <1>1, SubsetInduction
<1>3. QED
  BY <1>2 DEF P

\* Any element may be taken out.
LEMMA TotalRemove ==
  ASSUME NEW S, IsFiniteSet(S), NEW f, \A t \in S : f[t] \in Int
  PROVE  \A x \in S : Total(f, S) = f[x] + Total(f, S \ {x})
<1> DEFINE P == {T \in SUBSET S : \A x \in T : Total(f, T) = f[x] + Total(f, T \ {x})}
<1>1. ASSUME NEW T \in SUBSET S, \A U \in SUBSET T : U # T => U \in P
      PROVE  T \in P
  <2>1. SUFFICES ASSUME NEW x \in T PROVE Total(f, T) = f[x] + Total(f, T \ {x})
    OBVIOUS
  <2>2. PICK y \in T : Total(f, T) = f[y] + Total(f, T \ {y})
    <3>1. IsFiniteSet(T)
      BY FS_Subset
    <3>2. QED
      BY <3>1, TotalFirst
  <2>3. CASE x = y
    BY <2>2, <2>3
  <2>4. CASE x # y
    <3> DEFINE Rx == T \ {x}
               Ry == T \ {y}
               R == T \ {x, y}
    <3>1. /\ Rx \in SUBSET T /\ Rx # T /\ y \in Rx /\ Rx \ {y} = R
          /\ Ry \in SUBSET T /\ Ry # T /\ x \in Ry /\ Ry \ {x} = R
      BY <2>4
    <3>2. Total(f, Rx) = f[y] + Total(f, R)
      BY <1>1, <3>1
    <3>3. Total(f, Ry) = f[x] + Total(f, R)
      BY <1>1, <3>1
    <3>4. IsFiniteSet(R) /\ R \subseteq S
      BY FS_Subset
    <3>5. Total(f, R) \in Int
      BY <3>4, TotalType
    <3>6. f[x] \in Int /\ f[y] \in Int
      OBVIOUS
    <3> HIDE DEF Rx, Ry, R
    <3>7. Total(f, T) = f[y] + Total(f, Ry)
      BY <2>2 DEF Ry
    <3>8. Total(f, T) = f[x] + Total(f, Rx)
      BY <3>2, <3>3, <3>5, <3>6, <3>7
    <3>9. QED
      BY <3>8 DEF Rx
  <2>5. QED
    BY <2>3, <2>4
<1> HIDE DEF P
<1>2. SUBSET S \subseteq P
  BY <1>1, SubsetInduction
<1>3. QED
  BY <1>2 DEF P

\* Sums of rows that are the same, and of rows none of which is greater.
LEMMA TotalCompare ==
  ASSUME NEW S, IsFiniteSet(S), NEW f, NEW g
  PROVE  /\ (\A t \in S : f[t] = g[t]) => Total(f, S) = Total(g, S)
         /\ (\A t \in S : f[t] \in Int /\ g[t] \in Int /\ f[t] <= g[t])
              => Total(f, S) <= Total(g, S)
<1> DEFINE P == {T \in SUBSET S :
                   /\ (\A t \in T : f[t] = g[t]) => Total(f, T) = Total(g, T)
                   /\ (\A t \in T : f[t] \in Int /\ g[t] \in Int /\ f[t] <= g[t])
                        => Total(f, T) <= Total(g, T)}
<1>1. ASSUME NEW T \in SUBSET S, \A U \in SUBSET T : U # T => U \in P
      PROVE  T \in P
  <2>1. IsFiniteSet(T)
    BY FS_Subset
  <2>2. CASE T = {}
    <3>1. Total(f, T) = 0 /\ Total(g, T) = 0
      BY <2>1, <2>2, TotalFirst
    <3>2. QED
      BY <3>1
  <2>3. CASE T # {}
    <3> DEFINE R == T \ {First(T)}
    <3>1. /\ First(T) \in T /\ Total(f, T) = f[First(T)] + Total(f, R)
          /\ Total(g, T) = g[First(T)] + Total(g, R)
      BY <2>1, <2>3, TotalFirst
    <3>2. R \in SUBSET T /\ R # T /\ IsFiniteSet(R)
      BY <2>1, <3>1, FS_Subset
    <3>3. R \in P
      BY <1>1, <3>2
    <3>4. (\A t \in T : f[t] = g[t]) => Total(f, T) = Total(g, T)
      BY <3>1, <3>3
    <3>5. ASSUME \A t \in T : f[t] \in Int /\ g[t] \in Int /\ f[t] <= g[t]
          PROVE  Total(f, T) <= Total(g, T)
      <4>1. Total(f, R) \in Int /\ Total(g, R) \in Int
        BY <3>2, <3>5, TotalType
      <4>2. Total(f, R) <= Total(g, R)
        BY <3>3, <3>5
      <4>3. f[First(T)] \in Int /\ g[First(T)] \in Int /\ f[First(T)] <= g[First(T)]
        BY <3>1, <3>5
      <4> HIDE DEF R
      <4>4. QED
        BY <3>1, <4>1, <4>2, <4>3
    <3>6. QED
      BY <3>4, <3>5
  <2>4. QED
    BY <2>2, <2>3
<1> HIDE DEF P
<1>2. SUBSET S \subseteq P
  BY <1>1, SubsetInduction
<1>3. QED
  BY <1>2 DEF P

\* The sum over two sets that have nothing in common.
LEMMA TotalUnion ==
  ASSUME NEW S, IsFiniteSet(S), NEW T, IsFiniteSet(T), S \cap T = {}, NEW f,
         \A t \in S \cup T : f[t] \in Int
  PROVE  Total(f, S \cup T) = Total(f, S) + Total(f, T)
<1> DEFINE P == {U \in SUBSET T : Total(f, S \cup U) = Total(f, S) + Total(f, U)}
<1>1. ASSUME NEW U \in SUBSET T, \A V \in SUBSET U : V # U => V \in P
      PROVE  U \in P
  <2>1. IsFiniteSet(U) /\ IsFiniteSet(S \cup U) /\ Total(f, S) \in Int
    BY FS_Subset, FS_Union, TotalType
  <2>2. CASE U = {}
    <3>1. Total(f, U) = 0
      BY <2>1, <2>2, TotalFirst
    <3>2. S \cup U = S
      BY <2>2
    <3>3. Total(f, S \cup U) = Total(f, S)
      BY <3>2, Zenon
    <3>4. Total(f, S \cup U) = Total(f, S) + Total(f, U)
      BY <2>1, <3>1, <3>3
    <3>5. QED
      BY <3>4
  <2>3. CASE U # {}
    <3>1. PICK x \in U : TRUE
      BY <2>3
    <3> DEFINE R == U \ {x}
    <3>2. R \in SUBSET U /\ R # U /\ (S \cup U) \ {x} = S \cup R /\ x \in S \cup U
      BY <3>1
    <3>3. Total(f, S \cup R) = Total(f, S) + Total(f, R)
      BY <1>1, <3>2
    <3>4. \A t \in U : f[t] \in Int
      OBVIOUS
    <3>5. \A t \in S \cup U : f[t] \in Int
      OBVIOUS
    <3>6. Total(f, U) = f[x] + Total(f, R)
      BY <2>1, <3>1, <3>4, TotalRemove
    <3>7. Total(f, S \cup U) = f[x] + Total(f, (S \cup U) \ {x})
      BY <2>1, <3>2, <3>5, TotalRemove
    <3>8. Total(f, R) \in Int /\ f[x] \in Int
      BY <2>1, <3>1, <3>4, FS_Subset, TotalType
    <3> HIDE DEF R
    <3>9. Total(f, S \cup U) = f[x] + Total(f, S \cup R)
      BY <3>2, <3>7
    <3>10. QED
      BY <2>1, <3>3, <3>6, <3>8, <3>9
  <2>4. QED
    BY <2>2, <2>3
<1> HIDE DEF P
<1>2. SUBSET T \subseteq P
  BY <1>1, SubsetInduction
<1>3. QED
  BY <1>2 DEF P

\* A part of what is summed comes to no more than the whole.
LEMMA TotalPart ==
  ASSUME NEW S, IsFiniteSet(S), NEW T \in SUBSET S, NEW f, \A t \in S : f[t] \in Nat
  PROVE  Total(f, T) <= Total(f, S)
<1>1. IsFiniteSet(T) /\ IsFiniteSet(S \ T) /\ T \cap (S \ T) = {} /\ T \cup (S \ T) = S
  BY FS_Subset
<1>2. \A t \in T \cup (S \ T) : f[t] \in Int
  BY <1>1
<1>3. Total(f, T \cup (S \ T)) = Total(f, T) + Total(f, S \ T)
  BY <1>1, <1>2, TotalUnion
<1>4. Total(f, T) \in Nat /\ Total(f, S \ T) \in Nat
  BY <1>1, TotalType
<1>5. Total(f, T \cup (S \ T)) = Total(f, S)
  BY <1>1, Zenon
<1>6. QED
  BY <1>3, <1>4, <1>5

\* One row grows.
LEMMA TotalAdd ==
  ASSUME NEW S, IsFiniteSet(S), NEW f, NEW g, \A t \in S : f[t] \in Int, NEW x \in S, NEW n \in Int,
         g[x] = f[x] + n, \A t \in S : t # x => g[t] = f[t]
  PROVE  Total(g, S) = Total(f, S) + n
<1> DEFINE R == S \ {x}
<1>1. \A t \in S : g[t] \in Int
  OBVIOUS
<1>2. IsFiniteSet(R)
  BY FS_Subset
<1>3. Total(f, S) = f[x] + Total(f, R)
  BY TotalRemove
<1>4. Total(g, S) = g[x] + Total(g, R)
  BY <1>1, TotalRemove
<1>5. Total(g, R) = Total(f, R)
  BY <1>2, TotalCompare
<1>6. Total(f, R) \in Int /\ f[x] \in Int
  BY <1>2, TotalType
<1> HIDE DEF R
<1>7. QED
  BY <1>3, <1>4, <1>5, <1>6

\* A sum of nothing but zeros.
LEMMA TotalZero ==
  ASSUME NEW S, IsFiniteSet(S), NEW f, \A t \in S : f[t] = 0
  PROVE  Total(f, S) = 0
<1>1. \A t \in S : f[t] \in Int
  OBVIOUS
<1> DEFINE P == {T \in SUBSET S : Total(f, T) = 0}
<1>2. ASSUME NEW T \in SUBSET S, \A U \in SUBSET T : U # T => U \in P
      PROVE  T \in P
  <2>1. IsFiniteSet(T)
    BY FS_Subset
  <2>2. CASE T = {}
    BY <2>1, <2>2, TotalFirst
  <2>3. CASE T # {}
    <3>1. First(T) \in T /\ Total(f, T) = f[First(T)] + Total(f, T \ {First(T)})
      BY <2>1, <2>3, TotalFirst
    <3>2. Total(f, T \ {First(T)}) = 0 /\ f[First(T)] = 0
      BY <1>2, <3>1
    <3>3. QED
      BY <3>1, <3>2
  <2>4. QED
    BY <2>2, <2>3
<1> HIDE DEF P
<1>3. SUBSET S \subseteq P
  BY <1>2, SubsetInduction
<1>4. QED
  BY <1>3 DEF P
-----------------------------------------------------------------------------
(* Multiples.                                                              *)

\* A number is its quotient times the divisor, and its remainder.
LEMMA Multiple ==
  ASSUME NEW n \in Nat \ {0}, NEW x \in Int
  PROVE  /\ x % n \in 0..n - 1 /\ x \div n \in Int
         /\ x - (x % n) = n * (x \div n)
         /\ x % n = 0 => \E k \in Int : x = n * k
<1>1. x % n \in 0..n - 1 /\ x \div n \in Int
  OBVIOUS
<1>2. x - (x % n) = n * (x \div n)
  OBVIOUS
<1>3. x % n = 0 => x = n * (x \div n)
  BY <1>1, <1>2
<1>4. QED
  BY <1>1, <1>2, <1>3

\* The quotient and the remainder of such a number.
LEMMA MultipleOf ==
  ASSUME NEW n \in Nat \ {0}, NEW k \in Int, NEW r \in 0..n - 1
  PROVE (n * k + r) % n = r /\ (n * k + r) \div n = k
OBVIOUS

\* A multiple leaves no remainder.
LEMMA MultipleOf0 ==
  ASSUME NEW n \in Nat \ {0}, NEW k \in Int
  PROVE (n * k) % n = 0
OBVIOUS

\* Between two multiples there is a whole period.
LEMMA MultiplesApart ==
  ASSUME NEW n \in Nat \ {0}, NEW x \in Int, NEW y \in Int, x % n = 0, y % n = 0
  PROVE  x < y => x + n <= y
<1>1. PICK k \in Int : x = n * k
  BY Multiple
<1>2. PICK j \in Int : y = n * j
  BY Multiple
<1>3. n * k < n * j => n * k + n <= n * j
  OBVIOUS
<1>4. QED
  BY <1>1, <1>2, <1>3

\* Multiples may be added and subtracted.
LEMMA MultiplesAdd ==
  ASSUME NEW n \in Nat \ {0}, NEW x \in Int, NEW y \in Int, x % n = 0, y % n = 0
  PROVE  (x + y) % n = 0 /\ (x - y) % n = 0
<1>1. PICK k \in Int : x = n * k
  BY Multiple
<1>2. PICK j \in Int : y = n * j
  BY Multiple
<1>3. n * k + n * j = n * (k + j) /\ n * k - n * j = n * (k - j)
  OBVIOUS
<1>4. (n * (k + j)) % n = 0 /\ (n * (k - j)) % n = 0
  BY MultipleOf0
<1>5. QED
  BY <1>1, <1>2, <1>3, <1>4

\* A multiple of days is one of hours.
LEMMA MultipleTrans ==
  ASSUME NEW n \in Nat \ {0}, NEW m \in Nat \ {0}, NEW x \in Int, m % n = 0, x % m = 0
  PROVE  x % n = 0
<1>1. PICK k \in Int : x = m * k
  BY Multiple
<1>2. PICK j \in Int : m = n * j
  BY Multiple
<1>3. (n * j) * k = n * (j * k) /\ j * k \in Int
  OBVIOUS
<1>4. (n * (j * k)) % n = 0
  BY <1>3, MultipleOf0
<1>5. QED
  BY <1>1, <1>2, <1>3, <1>4

\* The quotient times the divisor is the last multiple.
LEMMA TruncateIs ==
  ASSUME NEW n \in Nat \ {0}, NEW x \in Int
  PROVE  LET y == (x \div n) * n IN y \in Int /\ y % n = 0 /\ y <= x /\ x < y + n
<1> DEFINE y == (x \div n) * n
<1>1. x \div n \in Int /\ y = n * (x \div n) /\ y \in Int
  BY Multiple
<1>2. x - (x % n) = n * (x \div n) /\ x % n \in 0..n - 1
  BY Multiple
<1>3. (n * (x \div n)) % n = 0
  BY <1>1, MultipleOf0
<1>4. x % n \in Int /\ 0 <= x % n /\ x % n < n
  BY <1>2
<1> HIDE DEF y
<1>5. y % n = 0
  BY <1>1, <1>3
<1>6. y <= x /\ x < y + n
  BY <1>1, <1>2, <1>4
<1>7. QED
  BY <1>1, <1>5, <1>6 DEF y

-----------------------------------------------------------------------------
(* The sums of the ledger.                                                 *)

\* The times of a period.
Span(from, to) == {t \in Times : from <= t /\ t < to}

\* The times of an instance are finitely many.
LEMMA TimesFinite == Times \in SUBSET Int /\ IsFiniteSet(Times)
BY LedgerAssumption, FS_Interval DEF Times

\* So are those of a period.
LEMMA SpanFinite == ASSUME NEW a, NEW b PROVE Span(a, b) \in SUBSET Times /\ IsFiniteSet(Span(a, b))
BY TimesFinite, FS_Subset DEF Span

\* Sum is the sum over the times of a period.
LEMMA SumIsTotal ==
  ASSUME NEW table, NEW a, NEW b
  PROVE  Sum(table, a, b) = Total(table, Span(a, b))
BY DEF Sum, Span, Total, Fold, IsFold, First, MapThenSumSet, MapThenFoldSet

\* Written is the sum over all times, before and after a step.
LEMMA WrittenIsTotal == Written = Total(written, Times) /\ Written' = Total(written', Times)
BY DEF Written, Total, Fold, IsFold, First, MapThenSumSet, MapThenFoldSet

\* The minutes of the periods of n minutes that begin in T, at one of heads.
Cover(T, heads, n) == {u \in Times : \E t \in T \cap heads : t <= u /\ u < t + n}

\* When periods do not overlap, the sum of their sums is that of what they cover.
LEMMA TotalPeriods ==
  ASSUME NEW T \in SUBSET Times, NEW n \in Nat, NEW heads \in SUBSET Int,
         \A x, y \in heads : x < y => x + n <= y,
         NEW f, NEW g, \A t \in Times : g[t] \in Nat,
         \A t \in T : f[t] = IF t \in heads THEN Total(g, Span(t, t + n)) ELSE 0
  PROVE  Total(f, T) = Total(g, Cover(T, heads, n))
<1> DEFINE P == {U \in SUBSET T : Total(f, U) = Total(g, Cover(U, heads, n))}
<1>1. IsFiniteSet(T) /\ T \in SUBSET Int
  BY TimesFinite, FS_Subset
<1>2. ASSUME NEW U \in SUBSET T, \A V \in SUBSET U : V # U => V \in P
      PROVE  U \in P
  <2>1. IsFiniteSet(U)
    BY <1>1, FS_Subset
  <2>2. CASE U = {}
    <3>1. Cover(U, heads, n) = {}
      BY <2>2 DEF Cover
    <3>2. Total(f, U) = 0 /\ Total(g, Cover(U, heads, n)) = 0
      BY <2>1, <2>2, <3>1, TotalFirst
    <3>3. QED
      BY <3>2
  <2>3. CASE U # {}
    <3>1. PICK x \in U : Total(f, U) = f[x] + Total(f, U \ {x})
      BY <2>1, <2>3, TotalFirst
    <3> DEFINE R == U \ {x}
    <3>2. R \in SUBSET U /\ R # U
      OBVIOUS
    <3>3. Total(f, R) = Total(g, Cover(R, heads, n))
      BY <1>2, <3>2
    <3>4. Cover(R, heads, n) \in SUBSET Times /\ IsFiniteSet(Cover(R, heads, n))
      BY TimesFinite, FS_Subset DEF Cover
    <3>5. Total(g, Cover(R, heads, n)) \in Int
      BY <3>4, TotalType
    <3>6. CASE x \notin heads
      <4>1. Cover(U, heads, n) = Cover(R, heads, n)
        BY <3>6 DEF Cover
      <4>2. f[x] = 0
        BY <3>6
      <4>3. Total(g, Cover(U, heads, n)) = Total(g, Cover(R, heads, n))
        BY <4>1, Zenon
      <4>4. QED
        BY <3>1, <3>3, <3>5, <4>2, <4>3
    <3>7. CASE x \in heads
      <4> DEFINE W == Span(x, x + n)
                 C == Cover(R, heads, n)
      <4>1. Cover(U, heads, n) = C \cup W
        BY <3>7 DEF Cover, Span
      <4>2. C \cap W = {}
        <5>1. SUFFICES ASSUME NEW u \in Times, NEW t \in R \cap heads,
                              t <= u, u < t + n, x <= u, u < x + n
                       PROVE  FALSE
          BY DEF Cover, Span
        <5>2. t \in Int /\ u \in Int /\ x \in Int /\ t # x
          BY <1>1, TimesFinite
        <5>3. (t < x => t + n <= x) /\ (x < t => x + n <= t)
          BY <3>7
        <5>4. QED
          BY <5>1, <5>2, <5>3
      <4>3. f[x] = Total(g, W)
        BY <3>7
      <4>4. W \in SUBSET Times /\ IsFiniteSet(W)
        BY SpanFinite
      <4>5. Total(g, W) \in Int
        BY <4>4, TotalType
      <4>6. \A t \in C \cup W : g[t] \in Int
        BY <3>4, <4>4
      <4> HIDE DEF C, W
      <4>7. IsFiniteSet(C)
        BY <3>4 DEF C
      <4>8. Total(g, C \cup W) = Total(g, C) + Total(g, W)
        BY <4>2, <4>4, <4>6, <4>7, TotalUnion
      <4>9. Total(g, Cover(U, heads, n)) = Total(g, C \cup W)
        BY <4>1, Zenon
      <4>10. Total(f, U) = Total(g, W) + Total(g, C)
        BY <3>1, <3>3, <4>3 DEF C
      <4>11. Total(g, C) \in Int
        BY <3>5 DEF C
      <4>12. QED
        BY <4>5, <4>8, <4>9, <4>10, <4>11
    <3>8. QED
      BY <3>6, <3>7
  <2>4. QED
    BY <2>2, <2>3
<1> HIDE DEF P
<1>3. SUBSET T \subseteq P
  BY <1>1, <1>2, SubsetInduction
<1>4. QED
  BY <1>3 DEF P

\* Rows of which each is no more than its period come to no more than the periods.
LEMMA TotalBelowPeriods ==
  ASSUME NEW T \in SUBSET Times, NEW n \in Nat, NEW heads \in SUBSET Int,
         \A x, y \in heads : x < y => x + n <= y,
         NEW f, NEW g, \A t \in Times : f[t] \in Nat /\ g[t] \in Nat,
         \A t \in T : f[t] > 0 => t \in heads /\ f[t] <= Total(g, Span(t, t + n))
  PROVE  Total(f, T) <= Total(g, Cover(T, heads, n))
<1> DEFINE h == [t \in T |-> IF t \in heads THEN Total(g, Span(t, t + n)) ELSE 0]
<1>1. \A t \in T : h[t] = IF t \in heads THEN Total(g, Span(t, t + n)) ELSE 0
  OBVIOUS
<1>2. \A t \in T : Total(g, Span(t, t + n)) \in Nat
  <2>1. ASSUME NEW t \in T PROVE Total(g, Span(t, t + n)) \in Nat
    BY SpanFinite, TotalType
  <2>2. QED
    BY <2>1
<1> HIDE DEF h
<1>3. Total(h, T) = Total(g, Cover(T, heads, n))
  BY <1>1, TotalPeriods
<1>4. \A t \in T : f[t] \in Int /\ h[t] \in Int /\ f[t] <= h[t]
  <2>1. SUFFICES ASSUME NEW t \in T PROVE f[t] \in Int /\ h[t] \in Int /\ f[t] <= h[t]
    OBVIOUS
  <2>2. f[t] \in Nat
    OBVIOUS
  <2>3. CASE f[t] > 0
    BY <1>1, <1>2, <2>2, <2>3
  <2>4. CASE f[t] = 0
    BY <1>1, <1>2, <2>4
  <2>5. QED
    BY <2>2, <2>3, <2>4
<1>5. IsFiniteSet(T)
  BY TimesFinite, FS_Subset
<1>6. Total(f, T) <= Total(h, T)
  BY <1>4, <1>5, TotalCompare
<1>7. QED
  BY <1>3, <1>6
-----------------------------------------------------------------------------
(* The invariant.                                                          *)

\* The bytes of the running server that no row has yet.
ProxyUnread == IF server = None THEN 0 ELSE Delta(server, lastTraffic)

\* Where the sampler is in its round.
Rounds ==
  /\ next <= now + 1
  /\ phase \in {"sampling", "summing"} => next <= now
  /\ phase # "sampling" => point = None
  /\ phase = "down" => lossy

\* The counters and the baselines that are kept of them.
Baselines ==
  /\ counter <= moved
  /\ server # None => server <= proxyMoved
  /\ ~lossy => lastIface <= counter
  /\ listed = Running => server # None
  /\ overtaken \/ (listed \in {None, Running} /\ proxyRows + ProxyUnread <= proxyMoved)

\* A row that is summed from others holds no more than was written.
Rows ==
  /\ \A t \in Times : minute[t] <= written[t]
  /\ \A h \in Times : hour[h] > 0 => h % Hour = 0 /\ hour[h] <= Sum(written, h, h + Hour)

Inv == TypeOK /\ CountedOnce /\ NothingLost /\ Rounds /\ Baselines /\ Rows

\* What is written stays; minutes are there for a day.
WrittenRows ==
  /\ \A t \in Times : written[t] > 0 =>
       t < now /\ (t < next - 1 \/ (t = next - 1 /\ phase \in {"summing", "down"}))
  /\ \A t \in Times : next <= t + Day => minute[t] = written[t]

\* A minute the sampler passes over is disturbed.
Skipped ==
  \A f \in Times : f <= now /\ (next < f \/ (next = f /\ phase = "down")) => f \in disturbed

\* The rows of hours, of which the last week is kept.
HourRows ==
  \A h \in Times :
    /\ hour[h] > 0 => h + Hour < next
    /\ h % Hour = 0 /\ next <= h + Week /\ SummedAt(h) < next /\ SummedAt(h) \notin disturbed
         => hour[h] = Sum(written, h, h + Hour)

\* The rows of days: a day of UTC is summed at the local midnight m that it ends by.
DayRows ==
  \A q \in Times :
    /\ day[q] > 0 => /\ q % Day = 0 /\ q + Day <= LocalDay(next - 1)
                     /\ day[q] <= Sum(written, q, q + Day)
    /\ \A m \in Times :
         /\ q % Day = 0 /\ LocalDay(m) = m /\ q + Day <= m /\ m < q + 2 * Day
         /\ m < next /\ Undisturbed(q, m)
         => day[q] = Sum(written, q, q + Day)

ChartInv == WrittenRows /\ Skipped /\ HourRows /\ DayRows

-----------------------------------------------------------------------------
\* What the constants are; an hour is no longer than a day.
LEMMA Assumed ==
  /\ Hour \in Nat /\ Hour > 0 /\ Day \in Nat /\ Day > 0 /\ Day % Hour = 0 /\ Hour <= Day
  /\ 2 * Hour <= Day
  /\ Week \in Nat /\ Week % Day = 0 /\ Week >= 2 * Day
  /\ Origin \in Nat /\ Origin >= Day /\ Horizon \in Nat /\ Horizon >= Origin
  /\ MaxBytes \in Nat /\ MaxFaults \in Nat
BY LedgerAssumption

\* What was written is a number of bytes.
LEMMA WrittenType == ASSUME written \in [Times -> Nat] PROVE Written \in Nat
BY WrittenIsTotal, TimesFinite, TotalType

\* So is the sum of a table over a period.
LEMMA SumType == ASSUME NEW f \in [Times -> Nat], NEW a, NEW b PROVE Sum(f, a, b) \in Nat
BY SumIsTotal, SpanFinite, TotalType

\* A row of a table is no more than the whole of it.
LEMMA RowBelowSum == ASSUME NEW f \in [Times -> Nat], NEW t \in Times PROVE f[t] <= Total(f, Times)
<1>0. \A u \in Times : f[u] \in Int
  OBVIOUS
<1>1. Total(f, Times) = f[t] + Total(f, Times \ {t})
  BY <1>0, TimesFinite, TotalRemove
<1>2. Total(f, Times \ {t}) \in Nat
  BY TimesFinite, FS_Subset, TotalType
<1>3. f[t] \in Nat
  OBVIOUS
<1>4. QED
  BY <1>1, <1>2, <1>3

\* The ledger starts empty.
LEMMA InvInit == Init => Inv
<1>1. SUFFICES ASSUME Init PROVE Inv
  OBVIOUS
<1> USE Assumed
<1>2. \A t \in Times : minute[t] = 0 /\ hour[t] = 0 /\ day[t] = 0 /\ written[t] = 0
  BY <1>1 DEF Init
<1>3. minute \in Tables /\ hour \in Tables /\ day \in Tables /\ written \in Tables
  <2>1. [t \in Times |-> 0] \in Tables
    BY DEF Tables
  <2>2. QED
    BY <1>1, <2>1 DEF Init
<1>4. TypeOK
  <2>1. /\ zone \in Zones /\ now \in Origin..Horizon /\ next \in Origin + 1..Horizon + 1
        /\ moved \in Nat /\ proxyMoved \in Nat /\ moved + proxyMoved <= MaxBytes
        /\ proxyRows \in Nat /\ lastTraffic \in 0..MaxBytes
        /\ counter \in 0..MaxBytes /\ faults \in 0..MaxFaults
    BY <1>1 DEF Init
  <2>2. 0 \in 0..MaxBytes
    OBVIOUS
  <2>3. /\ phase \in {"wait", "sampling", "summing", "down"}
        /\ lastIface \in 0..MaxBytes \cup {None} /\ point \in 0..MaxBytes \cup {None}
        /\ server \in 0..MaxBytes \cup {None} /\ listed \in 0..MaxBytes \cup {None, Running}
    BY <1>1, <2>2, Zenon DEF Init
  <2>4. disturbed \subseteq Times /\ ready \in BOOLEAN /\ lossy \in BOOLEAN /\ overtaken \in BOOLEAN
    BY <1>1 DEF Init
  <2>5. QED
    BY <1>3, <2>1, <2>3, <2>4 DEF TypeOK
<1>5. Written = 0
  BY <1>2, WrittenIsTotal, TimesFinite, TotalZero
<1>6. CountedOnce /\ NothingLost /\ Rounds
  BY <1>1, <1>5, LedgerAssumption
     DEF Init, CountedOnce, NothingLost, Rounds, Pending, Unread, Delta
<1>7. Baselines
  BY <1>1, LedgerAssumption DEF Init, Baselines, ProxyUnread, Delta
<1>8. Rows
  BY <1>2 DEF Rows
<1>9. QED
  BY <1>4, <1>6, <1>7, <1>8 DEF Inv

\* An action that leaves the tables alone keeps what was said of them.
LEMMA TablesKept ==
  ASSUME UNCHANGED tables
  PROVE  /\ Written' = Written /\ Rows' = Rows
         /\ UNCHANGED <<minute, hour, day, proxyRows, written>>
<1>1. UNCHANGED <<minute, hour, day, proxyRows, written>>
  BY DEF tables
<1>2. Written' = Written
  BY <1>1, WrittenIsTotal, Zenon
<1>3. Rows' = Rows
  BY <1>1 DEF Rows
<1>4. QED
  BY <1>1, <1>2, <1>3

\* The counters and the clock are numbers.
LEMMA NumbersOK ==
  ASSUME TypeOK
  PROVE  /\ Written \in Nat
         /\ now \in Int /\ next \in Int /\ Origin <= now /\ now <= Horizon /\ Origin < next
         /\ counter \in Nat /\ moved \in Nat /\ proxyMoved \in Nat /\ lastTraffic \in Nat
         /\ lastIface # None => lastIface \in Nat
         /\ server # None => server \in Nat
<1>1. written \in [Times -> Nat]
  BY Assumed DEF TypeOK, Tables
<1>2. Written \in Nat
  BY <1>1, WrittenType
<1>3. QED
  BY <1>2, Assumed DEF TypeOK

\* A minute passes: nothing is counted.
LEMMA InvTick == ASSUME Inv, Tick PROVE Inv'
<1> USE Assumed
<1>0. TypeOK /\ CountedOnce /\ NothingLost /\ Rounds /\ Baselines /\ Rows
  BY DEF Inv
<1>1. Written' = Written /\ Rows' = Rows
      /\ UNCHANGED <<minute, hour, day, proxyRows, written>>
  BY TablesKept DEF Tick
<1>2. /\ UNCHANGED <<phase, next, lastIface, point, server, lastTraffic, listed, overtaken>>
      /\ UNCHANGED <<counter, ready, moved, zone, proxyMoved, lossy>>
  BY DEF Tick, samplerVars, proxyVars, modemVars
<1>3. now' = now + 1 /\ now < Horizon /\ disturbed' \in SUBSET (disturbed \cup {now + 1})
  BY DEF Tick
<1>4. faults' \in 0..MaxFaults
  BY <1>0 DEF Tick, Fault, TypeOK
<1>5. now + 1 \in Times /\ now' \in Origin..Horizon
  BY <1>0, <1>3 DEF TypeOK, Times
<1>6. TypeOK'
  BY <1>0, <1>1, <1>2, <1>3, <1>4, <1>5 DEF TypeOK
<1>7. CountedOnce' /\ NothingLost'
  BY <1>0, <1>1, <1>2 DEF CountedOnce, NothingLost, Pending, Unread
<1>8. Rounds'
  BY <1>0, <1>2, <1>3, NumbersOK DEF Rounds
<1>9. Baselines'
  BY <1>0, <1>1, <1>2 DEF Baselines, ProxyUnread
<1>10. QED
  BY <1>0, <1>1, <1>6, <1>7, <1>8, <1>9 DEF Inv

\* A byte more on the counter is a byte more that moved.
LEMMA InvMove == ASSUME Inv, Move PROVE Inv'
<1> USE Assumed
<1>0. TypeOK /\ CountedOnce /\ NothingLost /\ Rounds /\ Baselines /\ Rows
  BY DEF Inv
<1>1. Written' = Written /\ Rows' = Rows
      /\ UNCHANGED <<minute, hour, day, proxyRows, written>>
  BY TablesKept DEF Move
<1>2. /\ UNCHANGED <<phase, next, lastIface, point, server, lastTraffic, listed, overtaken>>
      /\ UNCHANGED <<now, zone, ready, proxyMoved, lossy, disturbed, faults>>
  BY DEF Move, samplerVars, proxyVars
<1>3. counter' = counter + 1 /\ moved' = moved + 1 /\ moved + proxyMoved < MaxBytes
  BY DEF Move
<1>4. counter <= moved
  BY <1>0 DEF Baselines
<1>5. /\ counter' \in 0..MaxBytes /\ moved' \in Nat /\ moved' + proxyMoved' <= MaxBytes
      /\ counter' <= moved'
  BY <1>0, <1>2, <1>3, <1>4, NumbersOK
<1>6. TypeOK'
  BY <1>0, <1>1, <1>2, <1>5 DEF TypeOK
<1>7. CountedOnce' /\ NothingLost'
  <2>1. Pending' = Pending /\ Pending \in Nat /\ proxyRows \in Nat
    BY <1>0, <1>2 DEF Pending, TypeOK
  <2>2. Unread \in Nat /\ Unread' \in Nat /\ Unread' <= Unread + 1
    BY <1>0, <1>2, <1>3, NumbersOK DEF Unread, Delta
  <2>3. CountedOnce'
    BY <1>0, <1>1, <1>2, <1>3, <2>1, <2>2, NumbersOK DEF CountedOnce
  <2>4. NothingLost'
    BY <1>0, <1>1, <1>2, <1>3, <2>1, NumbersOK DEF NothingLost
  <2>5. QED
    BY <2>3, <2>4
<1>8. Rounds'
  BY <1>0, <1>2 DEF Rounds
<1>9. Baselines'
  <2>1. ~lossy' => lastIface' <= counter'
    BY <1>0, <1>2, <1>3, NumbersOK DEF Baselines, NothingLost
  <2>2. ProxyUnread' = ProxyUnread
    BY <1>2 DEF ProxyUnread
  <2>3. QED
    BY <1>0, <1>1, <1>2, <1>5, <2>1, <2>2 DEF Baselines
<1>10. QED
  BY <1>0, <1>1, <1>6, <1>7, <1>8, <1>9 DEF Inv

\* A counter that starts over takes unread bytes with it, and no byte twice.
LEMMA InvResetCounter == ASSUME Inv, ResetCounter PROVE Inv'
<1> USE Assumed
<1>0. TypeOK /\ CountedOnce /\ NothingLost /\ Rounds /\ Baselines /\ Rows
  BY DEF Inv
<1>1. Written' = Written /\ Rows' = Rows
      /\ UNCHANGED <<minute, hour, day, proxyRows, written>>
  BY TablesKept DEF ResetCounter
<1>2. /\ UNCHANGED <<phase, next, lastIface, point, server, lastTraffic, listed, overtaken>>
      /\ UNCHANGED <<now, zone, ready, moved, proxyMoved, disturbed>>
  BY DEF ResetCounter, samplerVars, proxyVars
<1>3. counter' = 0 /\ lossy' = TRUE
  BY DEF ResetCounter
<1>4. faults' \in 0..MaxFaults
  BY <1>0 DEF ResetCounter, Fault, TypeOK
<1>5. TypeOK'
  BY <1>0, <1>1, <1>2, <1>3, <1>4 DEF TypeOK
<1>6. CountedOnce' /\ NothingLost'
  <2>1. Pending' = Pending /\ Pending \in Nat /\ proxyRows \in Nat
    BY <1>0, <1>2 DEF Pending, TypeOK
  <2>2. Unread \in Nat /\ Unread' = 0
    BY <1>0, <1>2, <1>3, NumbersOK DEF Unread, Delta
  <2>3. QED
    BY <1>0, <1>1, <1>2, <1>3, <2>1, <2>2, NumbersOK DEF CountedOnce, NothingLost
<1>7. Rounds'
  BY <1>0, <1>2, <1>3 DEF Rounds
<1>8. Baselines'
  <2>1. ProxyUnread' = ProxyUnread
    BY <1>2 DEF ProxyUnread
  <2>2. QED
    BY <1>0, <1>1, <1>2, <1>3, <2>1, NumbersOK DEF Baselines
<1>9. QED
  BY <1>0, <1>1, <1>5, <1>6, <1>7, <1>8 DEF Inv

\* A worker that loses its network, or has it again, changes no count.
LEMMA InvNetwork == ASSUME Inv, Network PROVE Inv'
<1> USE Assumed
<1>0. TypeOK /\ CountedOnce /\ NothingLost /\ Rounds /\ Baselines /\ Rows
  BY DEF Inv
<1>1. Written' = Written /\ Rows' = Rows
      /\ UNCHANGED <<minute, hour, day, proxyRows, written>>
  BY TablesKept DEF Network
<1>2. /\ UNCHANGED <<phase, next, lastIface, point, server, lastTraffic, listed, overtaken>>
      /\ UNCHANGED <<now, zone, counter, moved, proxyMoved, disturbed, lossy>>
  BY DEF Network, samplerVars, proxyVars
<1>3. faults' \in 0..MaxFaults
  BY <1>0 DEF Network, Fault, TypeOK
<1>4. ready' \in BOOLEAN
  BY Zenon DEF Network
<1>5. TypeOK'
  BY <1>0, <1>1, <1>2, <1>3, <1>4 DEF TypeOK
<1>6. CountedOnce' /\ NothingLost'
  BY <1>0, <1>1, <1>2 DEF CountedOnce, NothingLost, Pending, Unread
<1>7. Rounds' /\ Baselines'
  BY <1>0, <1>1, <1>2 DEF Rounds, Baselines, ProxyUnread
<1>8. QED
  BY <1>0, <1>1, <1>5, <1>6, <1>7 DEF Inv

\* A byte of the proxy is unread until the next snapshot.
LEMMA InvMoveProxied == ASSUME Inv, MoveProxied PROVE Inv'
<1> USE Assumed
<1>0. TypeOK /\ CountedOnce /\ NothingLost /\ Rounds /\ Baselines /\ Rows
  BY DEF Inv
<1>1. Written' = Written /\ Rows' = Rows
      /\ UNCHANGED <<minute, hour, day, proxyRows, written>>
  BY TablesKept DEF MoveProxied
<1>2. /\ UNCHANGED <<phase, next, lastIface, point, lastTraffic, listed, overtaken>>
      /\ UNCHANGED <<now, zone, counter, ready, moved, disturbed, lossy, faults>>
  BY DEF MoveProxied, samplerVars, modemVars
<1>3. /\ server # None /\ server' = server + 1 /\ proxyMoved' = proxyMoved + 1
      /\ moved + proxyMoved < MaxBytes
  BY DEF MoveProxied
<1>4. server \in Nat /\ server <= proxyMoved
  BY <1>0, <1>3, NumbersOK DEF Baselines
<1>5. /\ server' \in 0..MaxBytes /\ proxyMoved' \in Nat /\ moved' + proxyMoved' <= MaxBytes
      /\ server' <= proxyMoved'
  BY <1>0, <1>2, <1>3, <1>4, NumbersOK
<1>6. server' # None
  BY <1>5, LedgerAssumption
<1>7. TypeOK'
  BY <1>0, <1>1, <1>2, <1>5 DEF TypeOK
<1>8. CountedOnce' /\ NothingLost'
  <2>1. proxyRows \in Nat
    BY <1>0 DEF TypeOK
  <2>2. Pending' = Pending /\ Unread' = Unread
    BY <1>2 DEF Pending, Unread
  <2>3. CountedOnce'
    BY <1>0, <1>1, <1>2, <1>3, <2>1, <2>2, NumbersOK DEF CountedOnce
  <2>4. NothingLost'
    BY <1>0, <1>1, <1>2, <2>2 DEF NothingLost
  <2>5. QED
    BY <2>3, <2>4
<1>9. Rounds'
  BY <1>0, <1>2 DEF Rounds
<1>10. Baselines'
  <2>1. /\ ProxyUnread \in Nat /\ ProxyUnread' \in Nat /\ ProxyUnread' <= ProxyUnread + 1
        /\ proxyRows \in Nat
    BY <1>0, <1>2, <1>3, <1>4, <1>6, NumbersOK DEF ProxyUnread, Delta, TypeOK
  <2>2. overtaken' \/ (listed' \in {None, Running} /\ proxyRows' + ProxyUnread' <= proxyMoved')
    BY <1>0, <1>1, <1>2, <1>3, <2>1, NumbersOK DEF Baselines
  <2>3. QED
    BY <1>0, <1>2, <1>5, <1>6, <2>2 DEF Baselines
<1>11. QED
  BY <1>0, <1>1, <1>7, <1>8, <1>9, <1>10 DEF Inv

\* A server that exits under a snapshot makes the instance overtaken.
LEMMA InvServerExits == ASSUME Inv, ServerExits PROVE Inv'
<1> USE Assumed
<1>0. TypeOK /\ CountedOnce /\ NothingLost /\ Rounds /\ Baselines /\ Rows
  BY DEF Inv
<1>1. Written' = Written /\ Rows' = Rows
      /\ UNCHANGED <<minute, hour, day, proxyRows, written>>
  BY TablesKept DEF ServerExits
<1>2. /\ UNCHANGED <<phase, next, lastIface, point>>
      /\ UNCHANGED <<now, zone, counter, ready, moved, proxyMoved, disturbed, lossy>>
  BY DEF ServerExits, samplerVars, modemVars
<1>3. /\ server # None /\ server' = None /\ lastTraffic' = 0
      /\ listed' = IF listed = Running THEN server ELSE listed
      /\ overtaken' = (overtaken \/ listed = Running)
  BY DEF ServerExits
<1>4. faults' \in 0..MaxFaults
  BY <1>0 DEF ServerExits, Fault, TypeOK
<1>5. server' \in 0..MaxBytes \cup {None} /\ listed' \in 0..MaxBytes \cup {None, Running}
  BY <1>0, <1>3 DEF TypeOK
<1>6. overtaken' \in BOOLEAN
  BY <1>3, Zenon
<1>7. TypeOK'
  BY <1>0, <1>1, <1>2, <1>3, <1>4, <1>5, <1>6 DEF TypeOK
<1>8. CountedOnce' /\ NothingLost'
  <2>1. Pending' = Pending /\ Unread' = Unread
    BY <1>2 DEF Pending, Unread
  <2>2. overtaken => overtaken'
    BY <1>3
  <2>3. QED
    BY <1>0, <1>1, <1>2, <2>1, <2>2 DEF CountedOnce, NothingLost
<1>9. Rounds'
  BY <1>0, <1>2 DEF Rounds
<1>10. Baselines'
  <2>1. server \in Nat /\ proxyRows \in Nat /\ ProxyUnread \in Nat /\ ProxyUnread' = 0
    BY <1>0, <1>3, NumbersOK DEF ProxyUnread, Delta, TypeOK
  <2>2. overtaken' \/ (listed' \in {None, Running} /\ proxyRows' + ProxyUnread' <= proxyMoved')
    <3>1. CASE overtaken \/ listed = Running
      BY <1>3, <3>1
    <3>2. CASE ~ (overtaken \/ listed = Running)
      <4>1. listed = None /\ proxyRows + ProxyUnread <= proxyMoved
        BY <1>0, <3>2 DEF Baselines
      <4>2. listed' = None
        BY <1>3, <4>1, LedgerAssumption
      <4>3. proxyRows' + ProxyUnread' <= proxyMoved'
        BY <1>1, <1>2, <2>1, <4>1, NumbersOK, <1>0
      <4>4. QED
        BY <4>2, <4>3
    <3>3. QED
      BY <3>1, <3>2
  <2>3. listed' # Running
    BY <1>3, <2>1, LedgerAssumption
  <2>4. QED
    BY <1>0, <1>2, <1>3, <2>2, <2>3 DEF Baselines
<1>11. QED
  BY <1>0, <1>1, <1>7, <1>8, <1>9, <1>10 DEF Inv

\* A new server has moved nothing.
LEMMA InvServerStarts == ASSUME Inv, ServerStarts PROVE Inv'
<1> USE Assumed
<1>0. TypeOK /\ CountedOnce /\ NothingLost /\ Rounds /\ Baselines /\ Rows
  BY DEF Inv
<1>1. Written' = Written /\ Rows' = Rows
      /\ UNCHANGED <<minute, hour, day, proxyRows, written>>
  BY TablesKept DEF ServerStarts
<1>2. /\ UNCHANGED <<phase, next, lastIface, point, lastTraffic, listed, overtaken>>
      /\ UNCHANGED <<now, zone, counter, ready, moved, proxyMoved, disturbed, lossy, faults>>
  BY DEF ServerStarts, samplerVars, modemVars
<1>3. server = None /\ server' = 0
  BY DEF ServerStarts
<1>4. server' # None /\ server' \in 0..MaxBytes
  BY <1>3, LedgerAssumption
<1>5. TypeOK'
  BY <1>0, <1>1, <1>2, <1>4 DEF TypeOK
<1>6. CountedOnce' /\ NothingLost'
  BY <1>0, <1>1, <1>2 DEF CountedOnce, NothingLost, Pending, Unread
<1>7. Rounds'
  BY <1>0, <1>2 DEF Rounds
<1>8. Baselines'
  <2>1. ProxyUnread = 0 /\ ProxyUnread' = 0
    BY <1>0, <1>2, <1>3, NumbersOK DEF ProxyUnread, Delta
  <2>2. QED
    BY <1>0, <1>1, <1>2, <1>3, <1>4, <2>1, NumbersOK DEF Baselines
<1>9. QED
  BY <1>0, <1>1, <1>5, <1>6, <1>7, <1>8 DEF Inv

\* Reading the counter turns what was unread into a point, or gives it up.
LEMMA InvBeginSample == ASSUME Inv, BeginSample PROVE Inv'
<1> USE Assumed
<1>0. TypeOK /\ CountedOnce /\ NothingLost /\ Rounds /\ Baselines /\ Rows
  BY DEF Inv
<1>1. Written' = Written /\ Rows' = Rows
      /\ UNCHANGED <<minute, hour, day, proxyRows, written>>
  BY TablesKept DEF BeginSample
<1>2. /\ UNCHANGED <<now, zone, next, server, lastTraffic, overtaken, proxyMoved, disturbed>>
      /\ UNCHANGED <<counter, ready, moved>>
  BY DEF BeginSample, modemVars
<1>3. /\ phase = "wait" /\ now >= next /\ phase' = "sampling"
      /\ listed' = IF server = None THEN None ELSE Running
  BY DEF BeginSample
<1>4. point = None /\ Pending = 0 /\ Unread \in Nat /\ proxyRows \in Nat
  BY <1>0, <1>3, NumbersOK DEF Rounds, Pending, Unread, Delta, TypeOK
<1>5. /\ lastIface' \in 0..MaxBytes \cup {None} /\ point' \in 0..MaxBytes \cup {None}
      /\ lossy' \in BOOLEAN /\ faults' \in 0..MaxFaults
      /\ Written + Pending' + Unread' <= moved
      /\ ~lossy' => /\ lastIface' # None /\ lastIface' <= counter'
                    /\ Written + Pending' + counter' - lastIface' = moved
  <2>0. /\ Written + Pending + Unread <= moved
        /\ ~lossy => /\ lastIface # None /\ lastIface <= counter
                     /\ Written + Pending + counter - lastIface = moved
    BY <1>0 DEF CountedOnce, NothingLost, Baselines
  <2>1. CASE lastIface' = None /\ point' = None /\ lossy' = TRUE /\ UNCHANGED faults
    <3>1. Pending' = 0 /\ Unread' = 0
      BY <2>1 DEF Pending, Unread
    <3>2. QED
      BY <1>0, <1>4, <2>0, <2>1, <3>1, NumbersOK DEF TypeOK
  <2>2. CASE Fault /\ KeepBaseline /\ point' = None /\ UNCHANGED lossy
    <3>1. Pending' = 0 /\ Unread' = Unread /\ lastIface' = lastIface
      BY <1>2, <2>2 DEF Pending, Unread, KeepBaseline
    <3>2. faults' \in 0..MaxFaults
      BY <1>0, <2>2 DEF Fault, TypeOK
    <3>3. QED
      BY <1>0, <1>2, <1>4, <2>0, <2>2, <3>1, <3>2, NumbersOK DEF TypeOK
  <2>3. CASE /\ lastIface' = counter
             /\ point' = IF lastIface = None THEN None ELSE Delta(counter, lastIface)
             /\ UNCHANGED <<lossy, faults>>
    <3>1. Unread' = 0 /\ lastIface' # None /\ lastIface' \in 0..MaxBytes
      BY <1>0, <1>2, <2>3, NumbersOK, LedgerAssumption DEF Unread, Delta, TypeOK
    <3>2. Pending' = Unread /\ point' \in 0..MaxBytes \cup {None}
      <4>1. CASE lastIface = None
        BY <2>3, <4>1, LedgerAssumption DEF Pending, Unread
      <4>2. CASE lastIface # None
        <5>1. Delta(counter, lastIface) \in 0..counter /\ counter \in 0..MaxBytes
          BY <1>0, <4>2, NumbersOK DEF Delta, TypeOK
        <5>2. point' # None /\ point' = Delta(counter, lastIface)
          BY <2>3, <4>2, <5>1, LedgerAssumption
        <5>3. QED
          BY <4>2, <5>1, <5>2 DEF Pending, Unread
      <4>3. QED
        BY <4>1, <4>2
    <3>3. ~lossy => Unread = counter - lastIface
      BY <1>0, <2>0, NumbersOK DEF Unread, Delta
    <3>4. QED
      BY <1>0, <1>2, <1>4, <2>0, <2>3, <3>1, <3>2, <3>3, NumbersOK DEF TypeOK
  <2>4. QED
    BY <2>1, <2>2, <2>3 DEF BeginSample, ReadIface
<1>6. TypeOK'
  <2>1. /\ listed' \in 0..MaxBytes \cup {None, Running}
        /\ phase' \in {"wait", "sampling", "summing", "down"}
    BY <1>3
  <2>2. QED
    BY <1>0, <1>1, <1>2, <1>5, <2>1 DEF TypeOK
<1>7. CountedOnce' /\ NothingLost'
  BY <1>0, <1>1, <1>2, <1>5 DEF CountedOnce, NothingLost
<1>8. Rounds'
  BY <1>0, <1>2, <1>3, NumbersOK DEF Rounds
<1>9. Baselines'
  <2>1. ProxyUnread' = ProxyUnread
    BY <1>2 DEF ProxyUnread
  <2>2. QED
    BY <1>0, <1>1, <1>2, <1>3, <1>5, <2>1, LedgerAssumption DEF Baselines
<1>10. QED
  BY <1>0, <1>1, <1>6, <1>7, <1>8, <1>9 DEF Inv

\* A crash gives up the baselines, the point and the snapshot.
LEMMA InvCrash == ASSUME Inv, Crash PROVE Inv'
<1> USE Assumed
<1>0. TypeOK /\ CountedOnce /\ NothingLost /\ Rounds /\ Baselines /\ Rows
  BY DEF Inv
<1>1. Written' = Written /\ Rows' = Rows
      /\ UNCHANGED <<minute, hour, day, proxyRows, written>>
  BY TablesKept DEF Crash
<1>2. /\ UNCHANGED <<now, zone, next, overtaken, proxyMoved>>
      /\ UNCHANGED <<counter, ready, moved>>
  BY DEF Crash, modemVars
<1>3. /\ phase' = "down" /\ lossy' = TRUE
      /\ disturbed' = IF now >= next THEN disturbed \cup {next} ELSE disturbed
      /\ lastIface' = None /\ point' = None
      /\ server' = None /\ lastTraffic' = 0 /\ listed' = None
  BY DEF Crash
<1>4. faults' \in 0..MaxFaults
  BY <1>0 DEF Crash, Fault, TypeOK
<1>5. disturbed' \subseteq Times
  <2>1. now >= next => next \in Times
    BY <1>0 DEF TypeOK, Times
  <2>2. QED
    BY <1>0, <1>3, <2>1 DEF TypeOK
<1>6. TypeOK'
  BY <1>0, <1>1, <1>2, <1>3, <1>4, <1>5 DEF TypeOK
<1>7. CountedOnce' /\ NothingLost'
  <2>1. Pending \in Nat /\ Unread \in Nat /\ Pending' = 0 /\ Unread' = 0
    BY <1>0, <1>3, NumbersOK DEF Pending, Unread, Delta, TypeOK
  <2>2. QED
    BY <1>0, <1>1, <1>2, <1>3, <2>1, NumbersOK DEF CountedOnce, NothingLost
<1>8. Rounds'
  BY <1>0, <1>2, <1>3 DEF Rounds
<1>9. Baselines'
  <2>1. ProxyUnread \in Nat /\ ProxyUnread' = 0 /\ proxyRows \in Nat
    BY <1>0, <1>3, NumbersOK DEF ProxyUnread, Delta, TypeOK
  <2>2. listed' # Running
    BY <1>3, LedgerAssumption
  <2>3. overtaken' \/ (listed' \in {None, Running} /\ proxyRows' + ProxyUnread' <= proxyMoved')
    BY <1>0, <1>1, <1>2, <1>3, <2>1, NumbersOK DEF Baselines
  <2>4. QED
    BY <1>0, <1>2, <1>3, <2>2, <2>3 DEF Baselines
<1>10. QED
  BY <1>0, <1>1, <1>6, <1>7, <1>8, <1>9 DEF Inv

\* A restart takes the counter as it is for its baseline.
LEMMA InvRestart == ASSUME Inv, Restart PROVE Inv'
<1> USE Assumed
<1>0. TypeOK /\ CountedOnce /\ NothingLost /\ Rounds /\ Baselines /\ Rows
  BY DEF Inv
<1>1. Written' = Written /\ Rows' = Rows
      /\ UNCHANGED <<minute, hour, day, proxyRows, written>>
  BY TablesKept DEF Restart
<1>2. /\ UNCHANGED <<now, zone, point, server, lastTraffic, listed, overtaken, proxyMoved>>
      /\ UNCHANGED <<counter, ready, moved, disturbed, lossy, faults>>
  BY DEF Restart, proxyVars, modemVars
<1>3. /\ phase = "down" /\ phase' = "wait" /\ next' = now + 1
      /\ lastIface' = counter \/ lastIface' = lastIface
  BY DEF Restart, Reschedule
<1>4. lossy /\ point = None
  BY <1>0, <1>3 DEF Rounds
<1>5. next' \in Origin + 1..Horizon + 1 /\ lastIface' \in 0..MaxBytes \cup {None}
  BY <1>0, <1>3 DEF TypeOK
<1>6. TypeOK'
  BY <1>0, <1>1, <1>2, <1>3, <1>5 DEF TypeOK
<1>7. CountedOnce' /\ NothingLost'
  <2>1. Pending = 0 /\ Pending' = 0 /\ Unread \in Nat /\ (Unread' = 0 \/ Unread' = Unread)
    BY <1>0, <1>2, <1>3, <1>4, NumbersOK DEF Pending, Unread, Delta
  <2>2. Written + Pending' + Unread' <= moved
    BY <1>0, <2>1, NumbersOK DEF CountedOnce
  <2>3. QED
    BY <1>0, <1>1, <1>2, <1>4, <2>2 DEF CountedOnce, NothingLost
<1>8. Rounds'
  BY <1>0, <1>2, <1>3, <1>4, NumbersOK DEF Rounds
<1>9. Baselines'
  BY <1>0, <1>1, <1>2, <1>4 DEF Baselines, ProxyUnread
<1>10. QED
  BY <1>0, <1>1, <1>6, <1>7, <1>8, <1>9 DEF Inv

\* Sums grow with their rows.
LEMMA SumGrows ==
  ASSUME NEW f \in [Times -> Nat], NEW g \in [Times -> Nat], \A t \in Times : f[t] <= g[t],
         NEW a, NEW b
  PROVE  Sum(f, a, b) <= Sum(g, a, b)
<1>1. \A t \in Span(a, b) : f[t] \in Int /\ g[t] \in Int /\ f[t] <= g[t]
  BY SpanFinite
<1>2. Total(f, Span(a, b)) <= Total(g, Span(a, b))
  BY <1>1, SpanFinite, TotalCompare
<1>3. QED
  BY <1>2, SumIsTotal

\* The tables hold numbers of bytes.
LEMMA TablesAreNat ==
  ASSUME TypeOK
  PROVE  /\ minute \in [Times -> Nat] /\ hour \in [Times -> Nat] /\ day \in [Times -> Nat]
         /\ written \in [Times -> Nat]
BY Assumed DEF TypeOK, Tables

\* What a sample adds to the rows of the minute.
LEMMA RowsWritten ==
  ASSUME Inv, Write, phase' = "summing"
  PROVE  /\ next <= now /\ next - 1 \in Times /\ Pending \in Nat
         /\ minute' = [minute EXCEPT ![next - 1] = @ + Pending]
         /\ written' = [written EXCEPT ![next - 1] = @ + Pending]
         /\ proxyRows' = proxyRows + ProxyDelta
         /\ UNCHANGED <<next, disturbed, lossy, faults>>
<1>0. TypeOK /\ Rounds /\ phase = "sampling"
  BY DEF Inv, Write
<1>1. next <= now /\ next - 1 \in Times /\ Pending \in Nat
  BY <1>0, Assumed, NumbersOK DEF Rounds, Times, Pending, TypeOK
<1>2. ~ Reschedule
  BY DEF Reschedule
<1>3. QED
  BY <1>1, <1>2 DEF Write, Pending

\* The point and the snapshot are written, or given up.
LEMMA InvWrite == ASSUME Inv, Write PROVE Inv'
<1> USE Assumed
<1>0. TypeOK /\ CountedOnce /\ NothingLost /\ Rounds /\ Baselines /\ Rows /\ phase = "sampling"
  BY DEF Inv, Write
<1>1. /\ UNCHANGED <<zone, now, lastIface, hour, day, server, overtaken, proxyMoved>>
      /\ UNCHANGED <<counter, ready, moved>>
      /\ lastTraffic' = IF listed = None THEN lastTraffic ELSE Listed
      /\ listed' = None /\ point' = None
  BY DEF Write, modemVars
<1>2. Pending \in Nat /\ Pending' = 0 /\ Unread \in Nat /\ Unread' = Unread /\ proxyRows \in Nat
  BY <1>0, <1>1, NumbersOK DEF Pending, Unread, Delta, TypeOK
<1>3. lastTraffic' \in 0..MaxBytes /\ ProxyDelta \in Nat
  <2>1. listed # None => Listed \in 0..MaxBytes
    BY <1>0 DEF Listed, TypeOK, Baselines
  <2>2. ProxyDelta \in Nat
    BY <1>0, <2>1, NumbersOK DEF ProxyDelta, Delta
  <2>3. QED
    BY <1>0, <1>1, <2>1, <2>2 DEF TypeOK
<1>4. listed' # Running
  BY <1>1, LedgerAssumption
<1>5. /\ ProxyUnread \in Nat /\ ProxyUnread' \in Nat
      /\ ~overtaken => ProxyUnread' = ProxyUnread - ProxyDelta
  <2>1. ProxyUnread \in Nat /\ ProxyUnread' \in Nat
    BY <1>0, <1>1, <1>3, NumbersOK DEF ProxyUnread, Delta
  <2>2. CASE listed = None
    BY <1>1, <2>1, <2>2 DEF ProxyUnread, ProxyDelta
  <2>3. CASE listed = Running
    <3>1. server # None /\ listed # None
      BY <1>0, <2>3, LedgerAssumption DEF Baselines
    <3>2. ProxyDelta = ProxyUnread /\ lastTraffic' = server
      BY <1>1, <2>3, <3>1 DEF ProxyUnread, ProxyDelta, Listed
    <3>3. ProxyUnread' = 0
      BY <1>0, <1>1, <3>1, <3>2, NumbersOK DEF ProxyUnread, Delta
    <3>4. QED
      BY <2>1, <3>2, <3>3
  <2>4. QED
    BY <1>0, <2>1, <2>2, <2>3 DEF Baselines
<1>6. CASE phase' = "summing"
  <2>1. /\ next <= now /\ next - 1 \in Times
        /\ minute' = [minute EXCEPT ![next - 1] = @ + Pending]
        /\ written' = [written EXCEPT ![next - 1] = @ + Pending]
        /\ proxyRows' = proxyRows + ProxyDelta
        /\ UNCHANGED <<next, disturbed, lossy, faults>>
    BY <1>6, RowsWritten
  <2>2. PICK row \in Times : row = next - 1
    BY <2>1
  <2>3. minute \in [Times -> Nat] /\ hour \in [Times -> Nat] /\ written \in [Times -> Nat]
    BY <1>0, TablesAreNat
  <2>4. minute' \in [Times -> Nat] /\ written' \in [Times -> Nat]
    BY <1>2, <2>1, <2>2, <2>3
  <2>5. /\ written'[row] = written[row] + Pending
        /\ \A t \in Times : t # row => written'[t] = written[t]
    BY <2>1, <2>2, <2>3
  <2>6. Written' = Written + Pending
    <3>1. \A t \in Times : written[t] \in Int
      BY <2>3
    <3>2. Total(written', Times) = Total(written, Times) + Pending
      <4>1. PICK n \in Int : n = Pending
        BY <1>2
      <4>2. /\ written'[row] = written[row] + n
            /\ \A t \in Times : t # row => written'[t] = written[t]
        BY <2>5, <4>1
      <4>3. IsFiniteSet(Times)
        BY TimesFinite
      <4>4. Total(written', Times) = Total(written, Times) + n
        BY <3>1, <4>2, <4>3, TotalAdd
      <4>5. QED
        BY <4>1, <4>4
    <3>3. QED
      BY <3>2, WrittenIsTotal
  <2>7. \A t \in Times : minute'[t] <= written'[t] /\ written[t] <= written'[t]
    BY <1>0, <1>2, <2>1, <2>2, <2>3 DEF Rows
  <2>8. \A t \in Times : written'[t] <= Written'
    BY <2>4, WrittenIsTotal, RowBelowSum
  <2>9. Written' <= MaxBytes /\ Written' \in Nat
    <3>1. Written \in Nat /\ moved <= MaxBytes /\ Written + Pending + Unread <= moved
      BY <1>0, NumbersOK DEF CountedOnce, TypeOK
    <3>2. QED
      BY <1>0, <1>2, <2>6, <3>1, NumbersOK
  <2>10. minute' \in Tables /\ written' \in Tables
    <3>1. \A t \in Times : minute'[t] \in 0..MaxBytes /\ written'[t] \in 0..MaxBytes
      BY <2>4, <2>7, <2>8, <2>9
    <3>2. QED
      BY <2>4, <3>1 DEF Tables
  <2>11. Rows'
    <3>1. ASSUME NEW h \in Times, hour[h] > 0
          PROVE  h % Hour = 0 /\ hour[h] <= Sum(written', h, h + Hour)
      <4>1. h % Hour = 0 /\ hour[h] <= Sum(written, h, h + Hour)
        BY <1>0, <3>1 DEF Rows
      <4>2. Sum(written, h, h + Hour) <= Sum(written', h, h + Hour)
        BY <2>3, <2>4, <2>7, SumGrows
      <4>3. /\ Sum(written, h, h + Hour) \in Nat /\ Sum(written', h, h + Hour) \in Nat
            /\ hour[h] \in Nat
        BY <2>3, <2>4, SumType
      <4>4. QED
        BY <4>1, <4>2, <4>3
    <3>2. QED
      BY <1>1, <2>7, <3>1 DEF Rows
  <2>12. TypeOK'
    BY <1>0, <1>1, <1>2, <1>3, <1>6, <2>1, <2>10 DEF TypeOK
  <2>13. CountedOnce' /\ NothingLost'
    <3>1. ~overtaken => proxyRows' <= proxyMoved
      BY <1>0, <1>2, <1>3, <1>5, <2>1, NumbersOK DEF Baselines
    <3>2. CountedOnce'
      BY <1>0, <1>1, <1>2, <2>6, <3>1, NumbersOK DEF CountedOnce
    <3>3. NothingLost'
      BY <1>0, <1>1, <1>2, <2>1, <2>6, NumbersOK DEF NothingLost
    <3>4. QED
      BY <3>2, <3>3
  <2>14. Rounds'
    BY <1>0, <1>1, <1>6, <2>1, NumbersOK DEF Rounds
  <2>15. Baselines'
    <3>1. ~overtaken => proxyRows' + ProxyUnread' <= proxyMoved'
      BY <1>0, <1>1, <1>2, <1>3, <1>5, <2>1, NumbersOK DEF Baselines
    <3>2. QED
      BY <1>0, <1>1, <1>4, <2>1, <3>1 DEF Baselines
  <2>16. QED
    BY <2>11, <2>12, <2>13, <2>14, <2>15 DEF Inv
<1>7. CASE phase' # "summing"
  <2>1. /\ Fault /\ phase' = "wait" /\ next' = now + 1
        /\ disturbed' = disturbed \cup {next} /\ lossy' = TRUE
        /\ UNCHANGED <<minute, written, proxyRows>>
    BY <1>7 DEF Write, Reschedule
  <2>2. UNCHANGED tables
    BY <1>1, <2>1 DEF tables
  <2>3. Written' = Written /\ Rows' = Rows
    BY <2>2, TablesKept
  <2>4. faults' \in 0..MaxFaults
    BY <1>0, <2>1 DEF Fault, TypeOK
  <2>5. disturbed' \subseteq Times /\ next' \in Origin + 1..Horizon + 1
    BY <1>0, <2>1 DEF TypeOK, Times, Rounds
  <2>6. TypeOK'
    BY <1>0, <1>1, <1>3, <2>1, <2>4, <2>5 DEF TypeOK
  <2>7. CountedOnce' /\ NothingLost'
    BY <1>0, <1>1, <1>2, <2>1, <2>3, NumbersOK DEF CountedOnce, NothingLost
  <2>8. Rounds'
    BY <1>0, <1>1, <2>1, NumbersOK DEF Rounds
  <2>9. Baselines'
    <3>1. ~overtaken => proxyRows' + ProxyUnread' <= proxyMoved'
      BY <1>0, <1>1, <1>2, <1>3, <1>5, <2>1, NumbersOK DEF Baselines
    <3>2. QED
      BY <1>0, <1>1, <1>4, <2>1, <3>1 DEF Baselines
  <2>10. QED
    BY <1>0, <2>3, <2>6, <2>7, <2>8, <2>9 DEF Inv
<1>8. QED
  BY <1>6, <1>7

\* The beginnings of the periods of n minutes.
Multiples(n) == {x \in Int : x % n = 0}

\* No period holds more than all that was written.
LEMMA SumBelowWritten ==
  ASSUME written \in [Times -> Nat], NEW a, NEW b
  PROVE  Sum(written, a, b) <= Written
<1>1. Total(written, Span(a, b)) <= Total(written, Times)
  BY TimesFinite, SpanFinite, TotalPart
<1>2. QED
  BY <1>1, SumIsTotal, WrittenIsTotal

\* The hours together hold no more than was written.
LEMMA HoursBelowWritten ==
  ASSUME written \in [Times -> Nat], NEW f \in [Times -> Nat], NEW a, NEW b,
         \A h \in Times : f[h] > 0 => h % Hour = 0 /\ f[h] <= Sum(written, h, h + Hour)
  PROVE  Sum(f, a, b) <= Written
<1> DEFINE C == Cover(Span(a, b), Multiples(Hour), Hour)
<1>1. \A x, y \in Multiples(Hour) : x < y => x + Hour <= y
  <2>1. Hour \in Nat \ {0}
    BY Assumed
  <2>2. QED
    BY <2>1, MultiplesApart DEF Multiples
<1>2. Multiples(Hour) \in SUBSET Int /\ Hour \in Nat /\ Span(a, b) \in SUBSET Times
  BY Assumed, SpanFinite DEF Multiples
<1>3. \A t \in Times : f[t] \in Nat /\ written[t] \in Nat
  OBVIOUS
<1>4. \A t \in Span(a, b) :
        f[t] > 0 => t \in Multiples(Hour) /\ f[t] <= Total(written, Span(t, t + Hour))
  BY <1>2, SumIsTotal, TimesFinite DEF Multiples
<1>5. Total(f, Span(a, b)) <= Total(written, C)
  BY <1>1, <1>2, <1>3, <1>4, TotalBelowPeriods
<1>6. C \in SUBSET Times /\ IsFiniteSet(C)
  BY TimesFinite, FS_Subset DEF Cover
<1>7. Total(written, C) <= Total(written, Times)
  BY <1>6, TimesFinite, TotalPart
<1>8. /\ Total(f, Span(a, b)) \in Nat /\ Total(written, C) \in Nat
      /\ Total(written, Times) \in Nat
  BY <1>6, TimesFinite, SpanFinite, TotalType
<1>9. QED
  BY <1>5, <1>7, <1>8, SumIsTotal, WrittenIsTotal

\* The beginning of a period is the only multiple within a period before.
LEMMA TruncateFacts ==
  ASSUME NEW n \in Nat \ {0}, NEW x \in Int
  PROVE  /\ Truncate(x, n) \in Int /\ Truncate(x, n) % n = 0
         /\ Truncate(x, n) <= x /\ x < Truncate(x, n) + n
         /\ \A y \in Int : y % n = 0 /\ y <= x /\ x < y + n => y = Truncate(x, n)
<1>1. /\ Truncate(x, n) \in Int /\ Truncate(x, n) % n = 0
      /\ Truncate(x, n) <= x /\ x < Truncate(x, n) + n
  BY TruncateIs DEF Truncate
<1>2. ASSUME NEW y \in Int, y % n = 0, y <= x, x < y + n
      PROVE  y = Truncate(x, n)
  <2>1. PICK z \in Int : z = Truncate(x, n)
    BY <1>1
  <2>2. (y < z => y + n <= z) /\ (z < y => z + n <= y)
    BY <1>1, <1>2, <2>1, MultiplesApart
  <2>3. y = z
    BY <1>1, <1>2, <2>1, <2>2
  <2>4. QED
    BY <2>1, <2>3
<1>3. QED
  BY <1>1, <1>2

\* A day has whole hours, and a week too.
LEMMA PeriodFacts ==
  /\ Hour \in Nat \ {0} /\ Day \in Nat \ {0} /\ Hour % Hour = 0 /\ Day % Hour = 0
  /\ Day % Day = 0 /\ Week % Hour = 0
  /\ \A x \in Int : x % Day = 0 => x % Hour = 0
<1>1. Hour \in Nat \ {0} /\ Day \in Nat \ {0} /\ Day % Hour = 0 /\ Week % Day = 0 /\ Week \in Int
  BY Assumed
<1>2. Hour % Hour = 0 /\ Day % Day = 0
  <2>1. (Hour * 1) % Hour = 0 /\ (Day * 1) % Day = 0
    BY <1>1, MultipleOf0
  <2>2. Hour * 1 = Hour /\ Day * 1 = Day
    BY <1>1
  <2>3. QED
    BY <2>1, <2>2
<1>3. \A x \in Int : x % Day = 0 => x % Hour = 0
  BY <1>1, MultipleTrans
<1>4. QED
  BY <1>1, <1>2, <1>3

\* A period after a multiple is the next multiple.
LEMMA PeriodSteps ==
  /\ \A x \in Int : x % Hour = 0 => (x + Hour) % Hour = 0 /\ (x + Week) % Hour = 0
  /\ \A x \in Int : x % Day = 0 => (x + Day) % Day = 0
  /\ \A x, y \in Int : x % Hour = 0 /\ y % Hour = 0 /\ x < y => x + Hour <= y
<1>1. /\ Hour \in Nat \ {0} /\ Day \in Nat \ {0} /\ Hour \in Int /\ Week \in Int /\ Day \in Int
      /\ Hour % Hour = 0 /\ Week % Hour = 0 /\ Day % Day = 0
  BY PeriodFacts, Assumed
<1>2. \A x \in Int : x % Hour = 0 => (x + Hour) % Hour = 0 /\ (x + Week) % Hour = 0
  BY <1>1, MultiplesAdd
<1>3. \A x \in Int : x % Day = 0 => (x + Day) % Day = 0
  BY <1>1, MultiplesAdd
<1>4. \A x, y \in Int : x % Hour = 0 /\ y % Hour = 0 /\ x < y => x + Hour <= y
  BY <1>1, MultiplesApart
<1>5. QED
  BY <1>2, <1>3, <1>4

\* A zone is a number of minutes.
LEMMA ZoneFacts == ASSUME zone \in Zones PROVE zone \in Int
BY LedgerAssumption

\* How far a full hour of the local clock is past the full hour of UTC.
Offset == (-zone) % Hour

\* Less than an hour; with the zone it makes whole hours.
LEMMA OffsetFacts ==
  ASSUME zone \in Zones
  PROVE  /\ Offset \in Int /\ 0 <= Offset /\ Offset < Hour
         /\ (zone + Offset) % Hour = 0
<1>1. zone \in Int /\ -zone \in Int /\ Hour \in Nat \ {0}
  BY ZoneFacts, PeriodFacts
<1>2. PICK z \in Int : z = -zone
  BY <1>1
<1>3. z % Hour \in 0..Hour - 1 /\ z \div Hour \in Int /\ z - (z % Hour) = Hour * (z \div Hour)
  BY <1>1, Multiple
<1>4. Offset = z % Hour
  BY <1>2 DEF Offset
<1>5. PICK k \in Int : k = -(z \div Hour)
  BY <1>3
<1>6. Hour * k = -(Hour * (z \div Hour))
  BY <1>1, <1>3, <1>5
<1>7. (Hour * k) % Hour = 0
  BY <1>1, MultipleOf0
<1>8. zone + Offset = Hour * k
  BY <1>1, <1>2, <1>3, <1>4, <1>6
<1>9. QED
  BY <1>1, <1>3, <1>4, <1>7, <1>8

\* The full hours of the local clock.
LEMMA LocalHours ==
  ASSUME zone \in Zones, NEW x \in Int
  PROVE  (x + zone) % Hour = 0 <=> (x - Offset) % Hour = 0
<1>1. /\ zone \in Int /\ Offset \in Int /\ Hour \in Nat \ {0} /\ (zone + Offset) % Hour = 0
      /\ zone + Offset \in Int
  BY ZoneFacts, OffsetFacts, PeriodFacts
<1>2. PICK a \in Int : a = x + zone
  BY <1>1
<1>3. PICK b \in Int : b = x - Offset
  BY <1>1
<1>4. PICK c \in Int : c = zone + Offset
  BY <1>1
<1>5. a - c = b /\ b + c = a
  BY <1>1, <1>2, <1>3, <1>4
<1>6. a % Hour = 0 => (a - c) % Hour = 0
  BY <1>1, <1>4, MultiplesAdd
<1>7. b % Hour = 0 => (b + c) % Hour = 0
  BY <1>1, <1>4, MultiplesAdd
<1>8. QED
  BY <1>2, <1>3, <1>5, <1>6, <1>7

\* When an hour of UTC is summed.
LEMMA SummedAtFacts ==
  ASSUME zone \in Zones, NEW h \in Int
  PROVE  /\ SummedAt(h) = h + Hour + Offset /\ SummedAt(h) \in Int
         /\ h + Hour <= SummedAt(h) /\ SummedAt(h) < h + 2 * Hour
         /\ h % Hour = 0 => (SummedAt(h) + zone) % Hour = 0
<1>1. /\ Offset \in Int /\ 0 <= Offset /\ Offset < Hour /\ Hour \in Nat /\ Hour \in Int
  BY OffsetFacts, PeriodFacts
<1>2. PICK x \in Int : x = SummedAt(h) /\ x = h + Hour + Offset
  BY <1>1 DEF SummedAt, Offset
<1>3. h % Hour = 0 => (x - Offset) % Hour = 0
  <2>1. x - Offset = h + Hour
    BY <1>1, <1>2
  <2>2. QED
    BY <2>1, PeriodSteps
<1>4. h % Hour = 0 => (x + zone) % Hour = 0
  BY <1>3, LocalHours
<1>5. QED
  BY <1>1, <1>2, <1>4

\* The hour that a full hour of the local clock sums.
LEMMA PreviousHourFacts ==
  ASSUME zone \in Zones, next \in Int, FullHour
  PROVE  /\ PreviousHour \in Int /\ PreviousHour % Hour = 0
         /\ PreviousHour = next - Offset - Hour
<1>1. /\ Offset \in Int /\ 0 <= Offset /\ Offset < Hour /\ Hour \in Nat \ {0} /\ Hour % Hour = 0
      /\ Hour \in Int
  BY OffsetFacts, PeriodFacts
<1>2. (next - Offset) % Hour = 0
  BY LocalHours DEF FullHour
<1>3. PICK y \in Int : y = next - Offset
  BY <1>1
<1>4. y % Hour = 0 /\ y <= next /\ next < y + Hour
  BY <1>1, <1>2, <1>3
<1>5. y = Truncate(next, Hour)
  BY <1>1, <1>4, TruncateFacts
<1>6. (y - Hour) % Hour = 0
  BY <1>1, <1>4, MultiplesAdd
<1>7. QED
  BY <1>1, <1>3, <1>5, <1>6 DEF PreviousHour

\* The hours and the days as they are before the cleanup.
HoursAfter(failed) ==
  IF FullHour /\ "hour" \notin failed THEN HourSummed(hour, minute) ELSE hour
DaysAfter(failed) ==
  IF Midnight /\ "day" \notin failed THEN DaySummed(day, HoursAfter(failed)) ELSE day
Cleans(failed) == FullHour /\ "cleanup" \notin failed

\* What a rollup does, for the steps of it that failed.
LEMMA RollupFacts ==
  ASSUME Rollup
  PROVE  /\ phase = "summing" /\ phase' = "wait" /\ next' = now + 1
         /\ UNCHANGED <<zone, now, lastIface, point, proxyRows, written, proxyMoved, lossy>>
         /\ UNCHANGED <<server, lastTraffic, listed, overtaken, counter, ready, moved>>
         /\ \E failed \in SUBSET {"hour", "day", "cleanup"} :
              /\ minute' = IF Cleans(failed) THEN Kept(minute, Day) ELSE minute
              /\ hour' = IF Cleans(failed) THEN Kept(HoursAfter(failed), Week)
                         ELSE HoursAfter(failed)
              /\ day' = DaysAfter(failed)
              /\ IF failed = {} THEN UNCHANGED <<disturbed, faults>>
                 ELSE Fault /\ disturbed' = disturbed \cup {next}
BY DEF Rollup, Reschedule, HoursAfter, DaysAfter, Cleans, SumsOf, proxyVars, modemVars

\* What the rows of the hours are after a full hour.
LEMMA HoursAfterOK ==
  ASSUME Inv, phase = "summing", NEW failed
  PROVE  /\ HoursAfter(failed) \in [Times -> Nat]
         /\ \A h \in Times : HoursAfter(failed)[h] > 0 =>
              h % Hour = 0 /\ HoursAfter(failed)[h] <= Sum(written, h, h + Hour)
<1> USE Assumed
<1>0. /\ minute \in [Times -> Nat] /\ hour \in [Times -> Nat] /\ written \in [Times -> Nat]
      /\ next \in Int /\ Rows /\ zone \in Zones
  BY TablesAreNat, NumbersOK DEF Inv, TypeOK
<1>1. CASE FullHour /\ "hour" \notin failed
  <2> DEFINE p == PreviousHour
  <2>1. HoursAfter(failed) = [hour EXCEPT ![p] = Sum(minute, p, p + Hour)]
    BY <1>1 DEF HoursAfter, HourSummed
  <2>2. Sum(minute, p, p + Hour) \in Nat
    BY <1>0, SumType
  <2>3. Sum(minute, p, p + Hour) <= Sum(written, p, p + Hour)
    BY <1>0, SumGrows DEF Rows
  <2>4. p % Hour = 0
    BY <1>0, <1>1, PreviousHourFacts
  <2> HIDE DEF p
  <2>5. HoursAfter(failed) \in [Times -> Nat]
    BY <1>0, <2>1, <2>2
  <2>6. ASSUME NEW h \in Times, HoursAfter(failed)[h] > 0
        PROVE  h % Hour = 0 /\ HoursAfter(failed)[h] <= Sum(written, h, h + Hour)
    <3>1. CASE h = p
      <4>1. HoursAfter(failed)[h] = Sum(minute, h, h + Hour)
        BY <1>0, <2>1, <3>1
      <4>2. QED
        BY <2>3, <2>4, <3>1, <4>1
    <3>2. CASE h # p
      BY <1>0, <2>1, <2>6, <3>2 DEF Rows
    <3>3. QED
      BY <3>1, <3>2
  <2>7. QED
    BY <2>5, <2>6
<1>2. CASE ~ (FullHour /\ "hour" \notin failed)
  <2>1. HoursAfter(failed) = hour
    BY <1>2 DEF HoursAfter
  <2>2. QED
    BY <1>0, <2>1 DEF Rows
<1>3. QED
  BY <1>1, <1>2

\* Rollups and the cleanup write no more into a row than was written.
LEMMA InvRollup == ASSUME Inv, Rollup PROVE Inv'
<1> USE Assumed
<1>0. TypeOK /\ CountedOnce /\ NothingLost /\ Rounds /\ Baselines /\ Rows
  BY DEF Inv
<1>1. PICK failed \in SUBSET {"hour", "day", "cleanup"} :
        /\ minute' = IF Cleans(failed) THEN Kept(minute, Day) ELSE minute
        /\ hour' = IF Cleans(failed) THEN Kept(HoursAfter(failed), Week)
                   ELSE HoursAfter(failed)
        /\ day' = DaysAfter(failed)
        /\ IF failed = {} THEN UNCHANGED <<disturbed, faults>>
           ELSE Fault /\ disturbed' = disturbed \cup {next}
  BY RollupFacts
<1>2. /\ phase = "summing" /\ phase' = "wait" /\ next' = now + 1
      /\ UNCHANGED <<zone, now, lastIface, point, proxyRows, written, proxyMoved, lossy>>
      /\ UNCHANGED <<server, lastTraffic, listed, overtaken, counter, ready, moved>>
  BY RollupFacts
<1>3. /\ minute \in [Times -> Nat] /\ hour \in [Times -> Nat] /\ day \in [Times -> Nat]
      /\ written \in [Times -> Nat]
  BY <1>0, TablesAreNat
<1> DEFINE hours == HoursAfter(failed)
<1>4. /\ hours \in [Times -> Nat]
      /\ \A h \in Times : hours[h] > 0 =>
           h % Hour = 0 /\ hours[h] <= Sum(written, h, h + Hour)
  BY <1>2, HoursAfterOK
<1> HIDE DEF hours
<1>5. Written' = Written /\ Written \in Nat /\ Written <= MaxBytes
  <2>1. Written' = Written
    BY <1>2, WrittenIsTotal, Zenon
  <2>2. Written + Pending + Unread <= moved /\ Pending \in Nat /\ Unread \in Nat
    BY <1>0, NumbersOK DEF CountedOnce, Pending, Unread, Delta, TypeOK
  <2>3. moved <= MaxBytes
    BY <1>0 DEF TypeOK
  <2>4. QED
    BY <1>0, <2>1, <2>2, <2>3, NumbersOK
<1>6. \A h \in Times : hours[h] \in 0..MaxBytes
  <2>1. \A h \in Times : Sum(written, h, h + Hour) <= Written /\ Sum(written, h, h + Hour) \in Nat
    BY <1>3, SumBelowWritten, SumType
  <2>2. QED
    BY <1>4, <1>5, <2>1
<1>7. /\ minute' \in [Times -> Nat] /\ hour' \in [Times -> Nat]
      /\ \A t \in Times : minute'[t] \in {0, minute[t]} /\ hour'[t] \in {0, hours[t]}
  BY <1>1, <1>3, <1>4 DEF Kept, hours
<1>8. minute' \in Tables /\ hour' \in Tables
  <2>1. \A t \in Times : minute'[t] \in 0..MaxBytes /\ hour'[t] \in 0..MaxBytes
    BY <1>0, <1>6, <1>7 DEF TypeOK, Tables
  <2>2. QED
    BY <1>7, <2>1 DEF Tables
<1>9. day' \in Tables
  <2>1. CASE Midnight /\ "day" \notin failed
    <3>1. day' = [day EXCEPT ![PreviousDay] = Sum(hours, PreviousDay, PreviousDay + Day)]
      BY <1>1, <2>1 DEF DaysAfter, DaySummed, hours
    <3>2. Sum(hours, PreviousDay, PreviousDay + Day) <= Written
      BY <1>3, <1>4, HoursBelowWritten
    <3>3. Sum(hours, PreviousDay, PreviousDay + Day) \in Nat
      BY <1>4, SumType
    <3>4. Sum(hours, PreviousDay, PreviousDay + Day) \in 0..MaxBytes
      BY <1>5, <3>2, <3>3
    <3>5. QED
      BY <1>0, <3>1, <3>4 DEF TypeOK, Tables
  <2>2. CASE ~ (Midnight /\ "day" \notin failed)
    BY <1>0, <1>1, <2>2 DEF TypeOK, DaysAfter
  <2>3. QED
    BY <2>1, <2>2
<1>10. faults' \in 0..MaxFaults /\ disturbed' \subseteq Times
  <2>1. next \in Times
    BY <1>0, <1>2 DEF TypeOK, Times, Rounds
  <2>2. CASE failed = {}
    BY <1>0, <1>1, <2>2 DEF TypeOK
  <2>3. CASE failed # {}
    <3>1. Fault /\ disturbed' = disturbed \cup {next}
      BY <1>1, <2>3
    <3>2. faults' \in 0..MaxFaults
      BY <1>0, <3>1 DEF TypeOK, Fault
    <3>3. disturbed' \subseteq Times
      BY <1>0, <2>1, <3>1 DEF TypeOK
    <3>4. QED
      BY <3>2, <3>3
  <2>4. QED
    BY <2>2, <2>3
<1>11. next' \in Origin + 1..Horizon + 1
  BY <1>0, <1>2 DEF TypeOK
<1>12. TypeOK'
  BY <1>0, <1>2, <1>8, <1>9, <1>10, <1>11 DEF TypeOK
<1>13. CountedOnce' /\ NothingLost'
  BY <1>0, <1>2, <1>5 DEF CountedOnce, NothingLost, Pending, Unread
<1>14. Rounds' /\ Baselines'
  BY <1>0, <1>2, NumbersOK DEF Rounds, Baselines, ProxyUnread
<1>15. Rows'
  <2>1. \A t \in Times : minute'[t] <= written[t]
    BY <1>0, <1>3, <1>7 DEF Rows
  <2>2. \A h \in Times : hour'[h] > 0 => h % Hour = 0 /\ hour'[h] <= Sum(written, h, h + Hour)
    BY <1>4, <1>7
  <2>3. QED
    BY <1>2, <2>1, <2>2 DEF Rows
<1>16. QED
  BY <1>12, <1>13, <1>14, <1>15 DEF Inv

\* Every step keeps the invariant.
LEMMA InvNext == Inv /\ [Next]_vars => Inv'
<1>1. SUFFICES ASSUME Inv, [Next]_vars PROVE Inv'
  OBVIOUS
<1>2. CASE UNCHANGED vars
  <2>1. /\ UNCHANGED tables
        /\ UNCHANGED <<zone, now, phase, next, lastIface, point, counter, ready, moved>>
        /\ UNCHANGED <<server, lastTraffic, listed, overtaken, proxyMoved>>
        /\ UNCHANGED <<disturbed, lossy, faults>>
    BY <1>2 DEF vars, samplerVars, proxyVars, modemVars
  <2>2. Written' = Written /\ Rows' = Rows
        /\ UNCHANGED <<minute, hour, day, proxyRows, written>>
    BY <2>1, TablesKept
  <2>3. TypeOK'
    BY <1>1, <2>1, <2>2 DEF Inv, TypeOK
  <2>4. CountedOnce' /\ NothingLost'
    BY <1>1, <2>1, <2>2 DEF Inv, CountedOnce, NothingLost, Pending, Unread
  <2>5. Rounds' /\ Baselines'
    BY <1>1, <2>1, <2>2 DEF Inv, Rounds, Baselines, ProxyUnread
  <2>6. QED
    BY <1>1, <2>2, <2>3, <2>4, <2>5 DEF Inv
<1>3. QED
  BY <1>1, <1>2, InvTick, InvMove, InvResetCounter, InvNetwork, InvMoveProxied, InvServerExits,
     InvServerStarts, InvBeginSample, InvWrite, InvRollup, InvCrash, InvRestart DEF Next

\* The invariant holds at every moment.
LEMMA SpecInv == Spec => []Inv
BY InvInit, InvNext, PTL DEF Spec

\* The bytes are accounted for at every moment (Consistent).
THEOREM LedgerConsistent == Spec => []Consistent
<1>1. Inv => Consistent
  BY DEF Inv, Consistent
<1>2. QED
  BY <1>1, SpecInv, PTL

-----------------------------------------------------------------------------
(* The charts.                                                             *)

\* Local midnights.
LEMMA LocalDayFacts ==
  ASSUME zone \in Zones, NEW t \in Int
  PROVE  /\ LocalDay(t) \in Int /\ LocalDay(t) <= t /\ t < LocalDay(t) + Day
         /\ (LocalDay(t) + zone) % Day = 0 /\ (LocalDay(t) + zone) % Hour = 0
         /\ LocalDay(t) = t <=> (t + zone) % Day = 0
<1>1. zone \in Int /\ Day \in Nat \ {0} /\ Hour \in Nat \ {0}
  BY ZoneFacts, PeriodFacts
<1> DEFINE d == Truncate(t + zone, Day)
<1>2. /\ d \in Int /\ d % Day = 0 /\ d <= t + zone /\ t + zone < d + Day
      /\ \A y \in Int : y % Day = 0 /\ y <= t + zone /\ t + zone < y + Day => y = d
  <2>1. t + zone \in Int
    BY <1>1
  <2>2. QED
    BY <1>1, <2>1, TruncateFacts
<1>3. LocalDay(t) = d - zone
  BY DEF LocalDay
<1> HIDE DEF d
<1>4. LocalDay(t) \in Int /\ LocalDay(t) <= t /\ t < LocalDay(t) + Day /\ LocalDay(t) + zone = d
  BY <1>1, <1>2, <1>3
<1>5. (LocalDay(t) + zone) % Day = 0
  BY <1>2, <1>4
<1>6. (LocalDay(t) + zone) % Hour = 0
  BY <1>2, <1>4, PeriodFacts
<1>7. LocalDay(t) = t => (t + zone) % Day = 0
  BY <1>5
<1>8. (t + zone) % Day = 0 => LocalDay(t) = t
  <2>1. SUFFICES ASSUME (t + zone) % Day = 0 PROVE LocalDay(t) = t
    OBVIOUS
  <2>2. t + zone \in Int /\ t + zone <= t + zone /\ t + zone < t + zone + Day
    BY <1>1
  <2>3. t + zone = d
    BY <1>2, <2>1, <2>2
  <2>4. QED
    BY <1>1, <1>3, <2>3
<1>9. QED
  BY <1>4, <1>5, <1>6, <1>7, <1>8

\* Between two local midnights there is a whole day.
LEMMA LocalDaysApart ==
  ASSUME zone \in Zones, NEW x \in Int, NEW y \in Int, (x + zone) % Day = 0, (y + zone) % Day = 0
  PROVE  x < y => x + Day <= y
<1>1. zone \in Int /\ Day \in Nat \ {0}
  BY ZoneFacts, PeriodFacts
<1>2. PICK a \in Int : a = x + zone
  BY <1>1
<1>3. PICK b \in Int : b = y + zone
  BY <1>1
<1>4. a < b => a + Day <= b
  BY <1>1, <1>2, <1>3, MultiplesApart
<1>5. QED
  BY <1>1, <1>2, <1>3, <1>4

\* The local day never goes back.
LEMMA LocalDayGrows ==
  ASSUME zone \in Zones, NEW t \in Int, NEW u \in Int, t <= u
  PROVE  LocalDay(t) <= LocalDay(u)
<1>1. PICK a \in Int : a = LocalDay(t)
  BY LocalDayFacts
<1>2. PICK b \in Int : b = LocalDay(u)
  BY LocalDayFacts
<1>3. a <= t /\ t < a + Day /\ b <= u /\ u < b + Day
  BY <1>1, <1>2, LocalDayFacts
<1>4. (a + zone) % Day = 0 /\ (b + zone) % Day = 0
  BY <1>1, <1>2, LocalDayFacts
<1>5. b < a => b + Day <= a
  BY <1>4, LocalDaysApart
<1>6. QED
  BY <1>1, <1>2, <1>3, <1>5, Assumed

\* Rows that are zero add nothing.
LEMMA TotalSparse ==
  ASSUME NEW S, IsFiniteSet(S), NEW T \in SUBSET S, NEW f, \A t \in S : f[t] \in Nat,
         \A t \in S \ T : f[t] = 0
  PROVE  Total(f, T) = Total(f, S)
<1>1. IsFiniteSet(T) /\ IsFiniteSet(S \ T) /\ T \cap (S \ T) = {} /\ T \cup (S \ T) = S
  BY FS_Subset
<1>2. \A t \in T \cup (S \ T) : f[t] \in Int
  BY <1>1
<1>3. Total(f, T \cup (S \ T)) = Total(f, T) + Total(f, S \ T)
  BY <1>1, <1>2, TotalUnion
<1>4. Total(f, T) \in Nat /\ Total(f, S \ T) = 0
  BY <1>1, TotalType, TotalZero
<1>5. Total(f, T \cup (S \ T)) = Total(f, S)
  BY <1>1, Zenon
<1>6. QED
  BY <1>3, <1>4, <1>5

\* The hours of some days cover those days.
LEMMA HoursCover ==
  ASSUME NEW a \in Int, NEW b \in Int, a % Hour = 0, b % Hour = 0
  PROVE  /\ Cover(Span(a, b), Multiples(Hour), Hour) \subseteq Span(a, b)
         /\ a >= Origin - Day => Cover(Span(a, b), Multiples(Hour), Hour) = Span(a, b)
<1>1. Hour \in Nat \ {0} /\ Times \in SUBSET Int
  BY PeriodFacts, TimesFinite
<1>2. ASSUME NEW u \in Cover(Span(a, b), Multiples(Hour), Hour) PROVE u \in Span(a, b)
  <2>1. PICK t \in Times : a <= t /\ t < b /\ t % Hour = 0 /\ t <= u /\ u < t + Hour /\ u \in Times
    BY DEF Cover, Span, Multiples
  <2>2. t \in Int /\ u \in Int
    BY <1>1, <2>1
  <2>3. t + Hour <= b
    BY <1>1, <2>1, <2>2, MultiplesApart
  <2>4. a <= u /\ u < b
    BY <1>1, <2>1, <2>2, <2>3
  <2>5. QED
    BY <2>1, <2>4 DEF Span
<1>3. ASSUME a >= Origin - Day, NEW u \in Span(a, b)
      PROVE  u \in Cover(Span(a, b), Multiples(Hour), Hour)
  <2>1. u \in Times /\ u \in Int /\ a <= u /\ u < b
    BY <1>1 DEF Span
  <2>2. PICK t \in Int : t % Hour = 0 /\ t <= u /\ u < t + Hour
    BY <1>1, <2>1, TruncateFacts
  <2>3. t < a => t + Hour <= a
    BY <1>1, <2>2, MultiplesApart
  <2>4. a <= t /\ t < b
    BY <1>1, <2>1, <2>2, <2>3
  <2>5. t \in Times
    BY <1>3, <2>1, <2>2, <2>4, Assumed DEF Times
  <2>6. QED
    BY <2>1, <2>2, <2>4, <2>5 DEF Cover, Span, Multiples
<1>4. QED
  BY <1>2, <1>3

\* An empty ledger shows empty charts.
LEMMA ChartInit == Init => ChartInv
<1>1. SUFFICES ASSUME Init PROVE ChartInv
  OBVIOUS
<1>2. \A t \in Times : minute[t] = 0 /\ hour[t] = 0 /\ day[t] = 0 /\ written[t] = 0
  BY <1>1 DEF Init
<1>3. \A a, b : Sum(written, a, b) = 0
  <2>1. ASSUME NEW a, NEW b PROVE Sum(written, a, b) = 0
    <3>1. \A t \in Span(a, b) : written[t] = 0
      BY <1>2 DEF Span
    <3>2. Total(written, Span(a, b)) = 0
      BY <3>1, SpanFinite, TotalZero
    <3>3. QED
      BY <3>2, SumIsTotal
  <2>2. QED
    BY <2>1
<1>4. WrittenRows
  BY <1>2 DEF WrittenRows
<1>5. Skipped
  BY <1>1, Assumed, TimesFinite DEF Init, Skipped
<1>6. HourRows
  BY <1>2, <1>3 DEF HourRows
<1>7. DayRows
  BY <1>2, <1>3 DEF DayRows
<1>8. QED
  BY <1>4, <1>5, <1>6, <1>7 DEF ChartInv

\* What the proofs of the charts use of the invariant.
LEMMA ChartTypes ==
  ASSUME Inv
  PROVE  /\ now \in Int /\ next \in Int /\ now <= Horizon /\ Origin < next /\ next <= now + 1
         /\ zone \in Zones /\ disturbed \in SUBSET Times
         /\ minute \in [Times -> Nat] /\ hour \in [Times -> Nat] /\ day \in [Times -> Nat]
         /\ written \in [Times -> Nat]
  BY NumbersOK, TablesAreNat DEF Inv, TypeOK, Rounds

\* An action that leaves the sampler, its clock and the tables alone.
LEMMA ChartStays ==
  ASSUME ChartInv, UNCHANGED <<zone, now, phase, next, minute, hour, day, written, disturbed>>
  PROVE  ChartInv'
<1>1. \A q, m : Undisturbed(q, m)' <=> Undisturbed(q, m)
  BY DEF Undisturbed
<1>2. LocalDay(next - 1)' = LocalDay(next - 1) /\ \A m : LocalDay(m)' = LocalDay(m)
  BY DEF LocalDay
<1>3. WrittenRows' /\ Skipped' /\ HourRows'
  BY DEF ChartInv, WrittenRows, Skipped, HourRows, SummedAt
<1>4. DayRows'
  BY <1>1, <1>2 DEF ChartInv, DayRows
<1>5. QED
  BY <1>3, <1>4 DEF ChartInv

\* A minute that finds the sampler at work is disturbed.
LEMMA ChartTick == ASSUME Inv, ChartInv, Tick PROVE ChartInv'
<1>0. /\ now \in Int /\ next \in Int
      /\ UNCHANGED <<zone, phase, next, minute, hour, day, written>>
      /\ now' = now + 1 /\ Times \in SUBSET Int
  BY ChartTypes, TimesFinite DEF Tick, samplerVars, tables
<1>1. disturbed \subseteq disturbed'
  BY DEF Tick
<1>2. now + 1 \in disturbed' \/ (phase = "wait" /\ now < next)
  BY DEF Tick
<1>3. WrittenRows'
  BY <1>0 DEF ChartInv, WrittenRows
<1>4. Skipped'
  <2>1. SUFFICES ASSUME NEW f \in Times, f <= now + 1, next < f \/ (next = f /\ phase = "down")
                 PROVE  f \in disturbed'
    BY <1>0 DEF Skipped
  <2>2. CASE f <= now
    BY <1>1, <2>1, <2>2 DEF ChartInv, Skipped
  <2>3. CASE f = now + 1
    BY <1>0, <1>2, <2>1, <2>3
  <2>4. QED
    BY <1>0, <2>1, <2>2, <2>3
<1>5. HourRows'
  BY <1>0, <1>1 DEF ChartInv, HourRows, SummedAt
<1>6. DayRows'
  <2>1. \A q, m \in Times : Undisturbed(q, m)' => Undisturbed(q, m)
    BY <1>0, <1>1 DEF Undisturbed
  <2>2. LocalDay(next - 1)' = LocalDay(next - 1) /\ \A m : LocalDay(m)' = LocalDay(m)
    BY <1>0 DEF LocalDay
  <2>3. QED
    BY <1>0, <2>1, <2>2 DEF ChartInv, DayRows
<1>7. QED
  BY <1>3, <1>4, <1>5, <1>6 DEF ChartInv

\* A sample that begins leaves the tables alone.
LEMMA ChartBeginSample == ASSUME Inv, ChartInv, BeginSample PROVE ChartInv'
<1>0. /\ UNCHANGED <<zone, now, next, minute, hour, day, written, disturbed>>
      /\ phase = "wait" /\ phase' = "sampling"
  BY DEF BeginSample, tables
<1>1. WrittenRows' /\ Skipped' /\ HourRows'
  BY <1>0 DEF ChartInv, WrittenRows, Skipped, HourRows, SummedAt
<1>2. \A q, m : Undisturbed(q, m)' <=> Undisturbed(q, m)
  BY <1>0 DEF Undisturbed
<1>3. LocalDay(next - 1)' = LocalDay(next - 1) /\ \A m : LocalDay(m)' = LocalDay(m)
  BY <1>0 DEF LocalDay
<1>4. DayRows'
  BY <1>0, <1>2, <1>3 DEF ChartInv, DayRows
<1>5. QED
  BY <1>1, <1>4 DEF ChartInv

\* A crash disturbs the minute that was due.
LEMMA ChartCrash == ASSUME Inv, ChartInv, Crash PROVE ChartInv'
<1>0. /\ UNCHANGED <<zone, now, next, minute, hour, day, written>>
      /\ phase' = "down" /\ now \in Int /\ next \in Int /\ Times \in SUBSET Int
      /\ disturbed' = IF now >= next THEN disturbed \cup {next} ELSE disturbed
  BY ChartTypes, TimesFinite DEF Crash, tables
<1>1. disturbed \subseteq disturbed'
  BY <1>0
<1>2. WrittenRows' /\ HourRows'
  BY <1>0, <1>1 DEF ChartInv, WrittenRows, HourRows, SummedAt
<1>3. Skipped'
  <2>1. SUFFICES ASSUME NEW f \in Times, f <= now, next <= f PROVE f \in disturbed'
    BY <1>0 DEF Skipped
  <2>2. CASE f = next
    BY <1>0, <2>1, <2>2
  <2>3. CASE f # next
    BY <1>0, <1>1, <2>1, <2>3 DEF ChartInv, Skipped
  <2>4. QED
    BY <2>2, <2>3
<1>4. \A q, m : Undisturbed(q, m)' => Undisturbed(q, m)
  BY <1>0, <1>1 DEF Undisturbed
<1>5. LocalDay(next - 1)' = LocalDay(next - 1) /\ \A m : LocalDay(m)' = LocalDay(m)
  BY <1>0 DEF LocalDay
<1>6. DayRows'
  BY <1>0, <1>4, <1>5 DEF ChartInv, DayRows
<1>7. QED
  BY <1>2, <1>3, <1>6 DEF ChartInv

\* The sampler takes the next minute of the clock without having summed anything.
LEMMA ChartAdvance ==
  ASSUME Inv, ChartInv, UNCHANGED <<zone, now, minute, hour, day, written>>,
         phase' = "wait", next' = now + 1, disturbed \subseteq disturbed',
         next <= now => next \in disturbed'
  PROVE  ChartInv'
<1>0. /\ now \in Int /\ next \in Int /\ next <= now + 1 /\ zone \in Zones
      /\ now <= Horizon /\ Origin < next
  BY ChartTypes
<1>1. Times \in SUBSET Int /\ \A f \in Times : next <= f /\ f <= now => f \in disturbed'
  <2>1. \A f \in Times : next < f /\ f <= now => f \in disturbed
    BY DEF ChartInv, Skipped
  <2>2. QED
    BY <1>0, <2>1, TimesFinite
<1>2. WrittenRows'
  BY <1>0, <1>1, Assumed DEF ChartInv, WrittenRows
<1>3. Skipped'
  BY <1>0, <1>1 DEF Skipped
<1>4. HourRows'
  <2>1. ASSUME NEW h \in Times
        PROVE  /\ hour[h] > 0 => h + Hour < now + 1
               /\ /\ h % Hour = 0 /\ now + 1 <= h + Week /\ SummedAt(h) < now + 1
                  /\ SummedAt(h) \notin disturbed'
                  => hour[h] = Sum(written, h, h + Hour)
    <3>1. h \in Int /\ Hour \in Int /\ Hour > 0 /\ Week \in Int /\ Origin - Day <= h
      BY <1>1, Assumed DEF Times
    <3>2. hour[h] > 0 => h + Hour < now + 1
      <4>1. hour[h] > 0 => h + Hour < next
        BY DEF ChartInv, HourRows
      <4>2. QED
        BY <1>0, <3>1, <4>1
    <3>3. ASSUME h % Hour = 0, now + 1 <= h + Week, SummedAt(h) < now + 1,
                 SummedAt(h) \notin disturbed'
          PROVE  hour[h] = Sum(written, h, h + Hour)
      <4>1. SummedAt(h) \in Int /\ h + Hour <= SummedAt(h)
        BY <1>0, <3>1, SummedAtFacts
      <4>2. SummedAt(h) \in Times
        BY <1>0, <3>1, <3>3, <4>1, Assumed DEF Times
      <4>3. SummedAt(h) < next
        BY <1>0, <1>1, <3>3, <4>1, <4>2
      <4>4. next <= h + Week
        BY <1>0, <3>1, <3>3
      <4>5. SummedAt(h) \notin disturbed
        BY <3>3
      <4>6. QED
        BY <3>3, <4>3, <4>4, <4>5 DEF ChartInv, HourRows
    <3>4. QED
      BY <3>2, <3>3
  <2>2. \A h : SummedAt(h)' = SummedAt(h)
    BY DEF SummedAt
  <2>3. QED
    BY <2>1, <2>2 DEF HourRows
<1>5. DayRows'
  <2>1. LocalDay(next - 1) <= LocalDay(now) /\ LocalDay(next - 1) \in Int /\ LocalDay(now) \in Int
    BY <1>0, LocalDayFacts, LocalDayGrows
  <2>2. ASSUME NEW q \in Times, day[q] > 0
        PROVE  q % Day = 0 /\ q + Day <= LocalDay(now) /\ day[q] <= Sum(written, q, q + Day)
    <3>1. /\ q % Day = 0 /\ q + Day <= LocalDay(next - 1) /\ day[q] <= Sum(written, q, q + Day)
          /\ q \in Int /\ Day \in Int
      BY <1>1, <2>2, Assumed DEF ChartInv, DayRows
    <3>2. QED
      BY <2>1, <3>1
  <2>3. ASSUME NEW q \in Times, NEW m \in Times, q % Day = 0, LocalDay(m) = m,
               q + Day <= m, m < q + 2 * Day, m < now + 1,
               \A f \in disturbed' : q < f /\ f <= m => (f + zone) % Hour # 0
        PROVE  day[q] = Sum(written, q, q + Day)
    <3>1. q \in Int /\ m \in Int /\ Day \in Int /\ Day > 0
      BY <1>1, Assumed
    <3>2. (m + zone) % Hour = 0
      BY <1>0, <2>3, <3>1, LocalDayFacts
    <3>3. q < m /\ m <= m
      BY <2>3, <3>1
    <3>4. m \notin disturbed'
      BY <2>3, <3>2, <3>3
    <3>5. m < next
      BY <1>0, <1>1, <2>3, <3>1, <3>4
    <3>6. Undisturbed(q, m)
      BY <2>3 DEF Undisturbed
    <3>7. QED
      BY <2>3, <3>5, <3>6 DEF ChartInv, DayRows
  <2>4. LocalDay(next - 1)' = LocalDay(now) /\ \A m : LocalDay(m)' = LocalDay(m)
    <3>1. next' - 1 = now
      BY <1>0
    <3>2. QED
      BY <3>1 DEF LocalDay
  <2>5. \A q, m : Undisturbed(q, m)'
              <=> \A f \in disturbed' : q < f /\ f <= m => (f + zone) % Hour # 0
    BY <1>2 DEF Undisturbed
  <2>6. QED
    BY <2>2, <2>3, <2>4, <2>5 DEF DayRows
<1>6. QED
  BY <1>2, <1>3, <1>4, <1>5 DEF ChartInv

\* Only the row of the minute before changes, which no sum has covered yet.
LEMMA ChartWrite == ASSUME Inv, ChartInv, Write PROVE ChartInv'
<1>0. /\ now \in Int /\ next \in Int /\ Origin < next /\ Times \in SUBSET Int
      /\ written \in [Times -> Nat] /\ minute \in [Times -> Nat] /\ hour \in [Times -> Nat]
      /\ day \in [Times -> Nat] /\ zone \in Zones
      /\ phase = "sampling" /\ UNCHANGED <<zone, now, hour, day>>
  BY ChartTypes, TimesFinite DEF Write
<1>1. CASE phase' = "summing"
  <2>1. /\ next <= now /\ next - 1 \in Times /\ Pending \in Nat
        /\ minute' = [minute EXCEPT ![next - 1] = @ + Pending]
        /\ written' = [written EXCEPT ![next - 1] = @ + Pending]
        /\ UNCHANGED <<next, disturbed>>
    BY <1>1, RowsWritten
  <2>2. \A t \in Times : /\ t # next - 1 => written'[t] = written[t] /\ minute'[t] = minute[t]
                         /\ t = next - 1 => /\ written'[t] = written[t] + Pending
                                            /\ minute'[t] = minute[t] + Pending
    BY <1>0, <2>1
  <2>3. written' \in [Times -> Nat] /\ \A t \in Times : written[t] <= written'[t]
    BY <1>0, <2>1
  <2>4. WrittenRows'
    <3>1. ASSUME NEW t \in Times, written'[t] > 0
          PROVE  t < now /\ (t < next - 1 \/ t = next - 1)
      <4>1. CASE t = next - 1
        BY <1>0, <2>1, <4>1
      <4>2. CASE t # next - 1
        BY <1>0, <2>2, <3>1, <4>2 DEF ChartInv, WrittenRows
      <4>3. QED
        BY <4>1, <4>2
    <3>2. ASSUME NEW t \in Times, next <= t + Day PROVE minute'[t] = written'[t]
      <4>1. minute[t] = written[t]
        BY <3>2 DEF ChartInv, WrittenRows
      <4>2. QED
        BY <2>2, <4>1
    <3>3. QED
      BY <1>0, <1>1, <2>1, <3>1, <3>2 DEF WrittenRows
  <2>5. Skipped'
    BY <1>0, <1>1, <2>1 DEF ChartInv, Skipped
  <2>6. ASSUME NEW a, NEW b \in Int, b < next PROVE Sum(written', a, b) = Sum(written, a, b)
    <3>1. \A t \in Span(a, b) : written'[t] = written[t]
      BY <1>0, <2>2, <2>6 DEF Span
    <3>2. Total(written', Span(a, b)) = Total(written, Span(a, b))
      BY <3>1, SpanFinite, TotalCompare
    <3>3. QED
      BY <3>2, SumIsTotal
  <2>7. HourRows'
    <3>1. ASSUME NEW h \in Times, h + Hour < next
          PROVE  Sum(written', h, h + Hour) = Sum(written, h, h + Hour)
      BY <1>0, <2>6, <3>1, Assumed
    <3>2. \A h \in Times : SummedAt(h)' = SummedAt(h) /\ (SummedAt(h) < next => h + Hour < next)
      <4>1. \A h : SummedAt(h)' = SummedAt(h)
        BY <1>0 DEF SummedAt
      <4>2. \A h \in Times : SummedAt(h) \in Int /\ h + Hour <= SummedAt(h)
        BY <1>0, SummedAtFacts
      <4>3. QED
        BY <1>0, <4>1, <4>2, Assumed
    <3>3. QED
      BY <1>0, <2>1, <3>1, <3>2 DEF ChartInv, HourRows
  <2>8. DayRows'
    <3>1. ASSUME NEW q \in Times, day[q] > 0
          PROVE  /\ q % Day = 0 /\ q + Day <= LocalDay(next - 1)
                 /\ day[q] <= Sum(written', q, q + Day)
      <4>1. /\ q % Day = 0 /\ q + Day <= LocalDay(next - 1)
            /\ day[q] <= Sum(written, q, q + Day)
        BY <3>1 DEF ChartInv, DayRows
      <4>2. Sum(written, q, q + Day) <= Sum(written', q, q + Day)
        BY <1>0, <2>3, SumGrows
      <4>3. Sum(written, q, q + Day) \in Nat /\ Sum(written', q, q + Day) \in Nat /\ day[q] \in Nat
        BY <1>0, <2>3, SumType
      <4>4. QED
        BY <4>1, <4>2, <4>3
    <3>2. ASSUME NEW q \in Times, NEW m \in Times, q + Day <= m, m < next
          PROVE  Sum(written', q, q + Day) = Sum(written, q, q + Day)
      BY <1>0, <2>6, <3>2, Assumed
    <3>3. LocalDay(next - 1)' = LocalDay(next - 1) /\ \A m : LocalDay(m)' = LocalDay(m)
      BY <1>0, <2>1 DEF LocalDay
    <3>4. \A q, m : Undisturbed(q, m)' <=> Undisturbed(q, m)
      BY <1>0, <2>1 DEF Undisturbed
    <3>5. QED
      BY <1>0, <2>1, <3>1, <3>2, <3>3, <3>4 DEF ChartInv, DayRows
  <2>9. QED
    BY <2>4, <2>5, <2>7, <2>8 DEF ChartInv
<1>2. CASE phase' # "summing"
  <2>1. /\ phase' = "wait" /\ next' = now + 1 /\ disturbed' = disturbed \cup {next}
        /\ UNCHANGED <<minute, written>>
    BY <1>2 DEF Write, Reschedule
  <2>2. disturbed \subseteq disturbed' /\ next \in disturbed'
    BY <2>1
  <2>3. QED
    BY <1>0, <2>1, <2>2, ChartAdvance
<1>3. QED
  BY <1>1, <1>2

\* The sampler starts over with the next minute: what it was down for is disturbed.
LEMMA ChartRestart == ASSUME Inv, ChartInv, Restart PROVE ChartInv'
<1>1. /\ phase = "down" /\ phase' = "wait" /\ next' = now + 1
      /\ UNCHANGED <<zone, now, minute, hour, day, written, disturbed>>
  BY DEF Restart, Reschedule, tables
<1>2. next <= now => next \in Times
  <2>1. now \in Int /\ next \in Int /\ now <= Horizon /\ Origin < next
    BY ChartTypes
  <2>2. QED
    BY <2>1, Assumed DEF Times
<1>3. next <= now => next \in disturbed'
  BY <1>1, <1>2 DEF ChartInv, Skipped
<1>4. QED
  BY <1>1, <1>3, ChartAdvance

\* An hour whose full minute is worked on, or was, holds what was written.
LEMMA HoursAfterExact ==
  ASSUME Inv, ChartInv, phase = "summing", NEW failed, NEW h \in Times
  PROVE  /\ HoursAfter(failed)[h] > 0 => h + Hour <= next
         /\ /\ h % Hour = 0 /\ next <= h + Week /\ SummedAt(h) <= next
            /\ SummedAt(h) \notin disturbed
            /\ SummedAt(h) = next => "hour" \notin failed
            => HoursAfter(failed)[h] = Sum(written, h, h + Hour)
<1>0. /\ minute \in [Times -> Nat] /\ hour \in [Times -> Nat] /\ written \in [Times -> Nat]
      /\ next \in Int /\ h \in Int /\ Hour \in Nat \ {0} /\ Day \in Nat /\ 2 * Hour <= Day
      /\ Times \in SUBSET Int /\ zone \in Zones
  BY ChartTypes, TimesFinite, Assumed
<1>1. hour[h] > 0 => h + Hour < next
  BY DEF ChartInv, HourRows
<1>2. h % Hour = 0 /\ next <= h + Week /\ SummedAt(h) < next /\ SummedAt(h) \notin disturbed
      => hour[h] = Sum(written, h, h + Hour)
  BY DEF ChartInv, HourRows
<1>3. /\ SummedAt(h) = h + Hour + Offset /\ SummedAt(h) \in Int /\ h + Hour <= SummedAt(h)
      /\ h % Hour = 0 => (SummedAt(h) + zone) % Hour = 0
      /\ Offset \in Int /\ 0 <= Offset /\ Offset < Hour
  BY <1>0, SummedAtFacts, OffsetFacts
<1>4. CASE FullHour /\ "hour" \notin failed
  <2> DEFINE p == PreviousHour
  <2>1. HoursAfter(failed) = [hour EXCEPT ![p] = Sum(minute, p, p + Hour)]
    BY <1>4 DEF HoursAfter, HourSummed
  <2>2. p \in Int /\ p = next - Offset - Hour
    BY <1>0, <1>4, PreviousHourFacts
  <2> HIDE DEF p
  <2>3. CASE h = p
    <3>1. HoursAfter(failed)[h] = Sum(minute, h, h + Hour)
      BY <1>0, <2>1, <2>3
    <3>2. \A t \in Span(h, h + Hour) : minute[t] = written[t]
      <4>1. ASSUME NEW t \in Span(h, h + Hour) PROVE minute[t] = written[t]
        <5>1. t \in Times /\ t \in Int /\ h <= t
          BY <1>0 DEF Span
        <5>2. next <= t + Day
          BY <1>0, <1>3, <2>2, <2>3, <5>1
        <5>3. QED
          BY <5>1, <5>2 DEF ChartInv, WrittenRows
      <4>2. QED
        BY <4>1
    <3>3. Sum(minute, h, h + Hour) = Sum(written, h, h + Hour)
      BY <3>2, SpanFinite, TotalCompare, SumIsTotal
    <3>4. h + Hour <= next
      BY <1>0, <1>3, <2>2, <2>3
    <3>5. QED
      BY <3>1, <3>3, <3>4
  <2>4. CASE h # p
    <3>1. HoursAfter(failed)[h] = hour[h]
      BY <1>0, <2>1, <2>4
    <3>2. SummedAt(h) # next
      BY <1>0, <1>3, <2>2, <2>4
    <3>3. QED
      BY <1>0, <1>1, <1>2, <1>3, <3>1, <3>2
  <2>5. QED
    BY <2>3, <2>4
<1>5. CASE ~ (FullHour /\ "hour" \notin failed)
  <2>1. HoursAfter(failed) = hour
    BY <1>5 DEF HoursAfter
  <2>2. SummedAt(h) = next /\ h % Hour = 0 => FullHour
    BY <1>3 DEF FullHour
  <2>3. HoursAfter(failed)[h] > 0 => h + Hour <= next
    BY <1>0, <1>1, <2>1
  <2>4. QED
    BY <1>0, <1>2, <1>3, <1>5, <2>1, <2>2, <2>3
<1>6. QED
  BY <1>4, <1>5

\* The sum of the hours of whole hours.
LEMMA HoursSummed ==
  ASSUME NEW f \in [Times -> Nat], NEW g \in [Times -> Nat], NEW a \in Int, NEW b \in Int,
         a % Hour = 0, b % Hour = 0,
         \A h \in Times : f[h] > 0 => h % Hour = 0 /\ f[h] <= Sum(g, h, h + Hour)
  PROVE  /\ Sum(f, a, b) <= Sum(g, a, b)
         /\ /\ a >= Origin - Day
            /\ \A h \in Span(a, b) : h % Hour = 0 => f[h] = Sum(g, h, h + Hour)
            => Sum(f, a, b) = Sum(g, a, b)
<1> DEFINE C == Cover(Span(a, b), Multiples(Hour), Hour)
<1>1. \A x, y \in Multiples(Hour) : x < y => x + Hour <= y
  BY PeriodFacts, MultiplesApart DEF Multiples
<1>2. Multiples(Hour) \in SUBSET Int /\ Hour \in Nat /\ Span(a, b) \in SUBSET Times
  BY Assumed, SpanFinite DEF Multiples
<1>3. \A t \in Times : f[t] \in Nat /\ g[t] \in Nat /\ t \in Int
  BY TimesFinite
<1>4. C \in SUBSET Span(a, b) /\ (a >= Origin - Day => C = Span(a, b))
  BY HoursCover
<1>5. Sum(f, a, b) <= Sum(g, a, b)
  <2>1. \A t \in Span(a, b) :
          f[t] > 0 => t \in Multiples(Hour) /\ f[t] <= Total(g, Span(t, t + Hour))
    BY <1>2, <1>3, SumIsTotal DEF Multiples
  <2>2. Total(f, Span(a, b)) <= Total(g, C)
    BY <1>1, <1>2, <1>3, <2>1, TotalBelowPeriods
  <2>3. Total(g, C) <= Total(g, Span(a, b))
    BY <1>3, <1>4, SpanFinite, TotalPart
  <2>4. IsFiniteSet(C)
    BY <1>4, SpanFinite, FS_Subset
  <2>5. /\ Total(f, Span(a, b)) \in Nat /\ Total(g, C) \in Nat
        /\ Total(g, Span(a, b)) \in Nat
    BY <1>3, <1>4, <2>4, SpanFinite, TotalType
  <2>6. QED
    BY <2>2, <2>3, <2>5, SumIsTotal
<1>6. ASSUME a >= Origin - Day,
             \A h \in Span(a, b) : h % Hour = 0 => f[h] = Sum(g, h, h + Hour)
      PROVE  Sum(f, a, b) = Sum(g, a, b)
  <2>1. \A t \in Span(a, b) :
          f[t] = IF t \in Multiples(Hour) THEN Total(g, Span(t, t + Hour)) ELSE 0
    <3>1. ASSUME NEW t \in Span(a, b)
          PROVE  f[t] = IF t \in Multiples(Hour) THEN Total(g, Span(t, t + Hour)) ELSE 0
      <4>1. t \in Times /\ t \in Int /\ f[t] \in Nat
        BY <1>2, <1>3
      <4>2. CASE t % Hour = 0
        BY <1>6, <4>1, <4>2, SumIsTotal DEF Multiples
      <4>3. CASE t % Hour # 0
        BY <4>1, <4>3 DEF Multiples
      <4>4. QED
        BY <4>2, <4>3
    <3>2. QED
      BY <3>1
  <2>2. \A t \in Times : g[t] \in Nat
    BY <1>3
  <2>3. Total(f, Span(a, b)) = Total(g, C)
    BY <1>1, <1>2, <2>1, <2>2, TotalPeriods
  <2>4. C = Span(a, b)
    BY <1>4, <1>6
  <2> HIDE DEF C
  <2>5. Total(g, C) = Total(g, Span(a, b))
    BY <2>4, Zenon
  <2>6. QED
    BY <2>3, <2>5, SumIsTotal
<1>7. QED
  BY <1>5, <1>6

\* A rollup sums the hour and the day that end at this minute, and no other.
LEMMA ChartRollup == ASSUME Inv, ChartInv, Rollup PROVE ChartInv'
<1>1. PICK failed \in SUBSET {"hour", "day", "cleanup"} :
        /\ minute' = IF Cleans(failed) THEN Kept(minute, Day) ELSE minute
        /\ hour' = IF Cleans(failed) THEN Kept(HoursAfter(failed), Week)
                   ELSE HoursAfter(failed)
        /\ day' = DaysAfter(failed)
        /\ IF failed = {} THEN UNCHANGED <<disturbed, faults>>
           ELSE Fault /\ disturbed' = disturbed \cup {next}
  BY RollupFacts
<1>2. /\ phase = "summing" /\ phase' = "wait" /\ next' = now + 1
      /\ UNCHANGED <<zone, now, written>>
  BY RollupFacts
<1>3. /\ now \in Int /\ next \in Int /\ next <= now /\ now <= Horizon /\ Origin < next
      /\ zone \in Zones /\ Times \in SUBSET Int
      /\ minute \in [Times -> Nat] /\ hour \in [Times -> Nat] /\ day \in [Times -> Nat]
      /\ written \in [Times -> Nat]
  BY <1>2, ChartTypes, TimesFinite DEF Inv, Rounds
<1>4. /\ Hour \in Nat \ {0} /\ Day \in Nat \ {0} /\ Hour <= Day /\ Week \in Nat /\ Week >= 2 * Day
      /\ Origin \in Nat /\ Horizon \in Nat
  BY Assumed
<1> DEFINE hours == HoursAfter(failed)
<1>5. /\ hours \in [Times -> Nat]
      /\ \A h \in Times : hours[h] > 0 =>
           h % Hour = 0 /\ hours[h] <= Sum(written, h, h + Hour)
  BY <1>2, HoursAfterOK
<1>6. \A h \in Times :
        /\ hours[h] > 0 => h + Hour <= next
        /\ /\ h % Hour = 0 /\ next <= h + Week /\ SummedAt(h) <= next
           /\ SummedAt(h) \notin disturbed
           /\ SummedAt(h) = next => "hour" \notin failed
           => hours[h] = Sum(written, h, h + Hour)
  BY <1>2, HoursAfterExact
<1> HIDE DEF hours
<1>7. next \in Times
  BY <1>3, <1>4, Assumed DEF Times
<1>8. disturbed \subseteq disturbed' /\ (next \notin disturbed' => failed = {})
  BY <1>1
<1>9. \A f \in Times : f <= now /\ f \notin disturbed' => f <= next
  BY <1>2, <1>3, <1>8 DEF ChartInv, Skipped
<1>10. WrittenRows'
  <2>1. ASSUME NEW t \in Times, written[t] > 0 PROVE t < now
    BY <2>1 DEF ChartInv, WrittenRows
  <2>2. ASSUME NEW t \in Times, now + 1 <= t + Day PROVE minute'[t] = written[t]
    <3>1. t \in Int
      BY <1>3
    <3>2. next <= t + Day /\ ~ (t < next - Day)
      BY <1>3, <1>4, <2>2, <3>1
    <3>3. minute[t] = written[t]
      BY <3>2 DEF ChartInv, WrittenRows
    <3>4. QED
      BY <1>1, <3>2, <3>3 DEF Kept
  <2>3. next' - 1 = now
    BY <1>2, <1>3
  <2>4. QED
    BY <1>2, <2>1, <2>2, <2>3 DEF WrittenRows
<1>11. Skipped'
  BY <1>2, <1>3 DEF Skipped
<1>12. HourRows'
  <2>1. ASSUME NEW h \in Times, hour'[h] > 0 PROVE h + Hour < now + 1
    <3>1. hours[h] > 0
      BY <1>1, <2>1 DEF Kept, hours
    <3>2. h + Hour <= next /\ h \in Int
      BY <1>3, <1>6, <3>1
    <3>3. QED
      BY <1>3, <1>4, <3>2
  <2>2. ASSUME NEW h \in Times, h % Hour = 0, now + 1 <= h + Week, SummedAt(h) < now + 1,
               SummedAt(h) \notin disturbed'
        PROVE  hour'[h] = Sum(written, h, h + Hour)
    <3>1. h \in Int /\ SummedAt(h) \in Int /\ h + Hour <= SummedAt(h)
      BY <1>3, SummedAtFacts
    <3>2. SummedAt(h) \in Times
      BY <1>3, <1>4, <2>2, <3>1, Assumed DEF Times
    <3>3. SummedAt(h) <= next /\ next < h + Week
      BY <1>3, <1>4, <1>9, <2>2, <3>1, <3>2
    <3>4. SummedAt(h) = next => failed = {}
      BY <1>8, <2>2
    <3>5. hours[h] = Sum(written, h, h + Hour)
      BY <1>3, <1>4, <1>6, <1>8, <2>2, <3>1, <3>3, <3>4
    <3>6. ~ (h < next - Week)
      BY <1>3, <1>4, <3>1, <3>3
    <3>7. hour'[h] = hours[h]
      BY <1>1, <3>6 DEF Kept, hours
    <3>8. QED
      BY <3>5, <3>7
  <2>3. \A h : SummedAt(h)' = SummedAt(h)
    BY <1>2 DEF SummedAt
  <2>4. QED
    BY <1>2, <2>1, <2>2, <2>3 DEF HourRows
<1>13. DayRows'
  <2>1. /\ PreviousDay + Day = Truncate(next, Day) /\ PreviousDay \in Int
        /\ Truncate(next, Day) \in Int /\ Truncate(next, Day) % Day = 0
        /\ Truncate(next, Day) <= next /\ next < Truncate(next, Day) + Day
        /\ \A y \in Int : y % Day = 0 /\ y <= next /\ next < y + Day => y = Truncate(next, Day)
    <3>1. /\ Truncate(next, Day) \in Int /\ Truncate(next, Day) % Day = 0
          /\ Truncate(next, Day) <= next /\ next < Truncate(next, Day) + Day
          /\ \A y \in Int : y % Day = 0 /\ y <= next /\ next < y + Day => y = Truncate(next, Day)
      BY <1>3, <1>4, TruncateFacts
    <3>2. PreviousDay + Day = Truncate(next, Day) /\ PreviousDay \in Int
      BY <1>4, <3>1 DEF PreviousDay
    <3>3. QED
      BY <3>1, <3>2
  <2>2. PreviousDay % Day = 0
    <3>1. (Truncate(next, Day) - Day) % Day = 0
      BY <1>4, <2>1, PeriodFacts, MultiplesAdd
    <3>2. QED
      BY <3>1 DEF PreviousDay
  <2>3. LocalDay(next) = next <=> Midnight
    BY <1>3, LocalDayFacts DEF Midnight
  <2>4. /\ LocalDay(next - 1) <= LocalDay(now) /\ LocalDay(next - 1) \in Int
        /\ LocalDay(next) <= LocalDay(now) /\ LocalDay(next) \in Int
        /\ LocalDay(now) \in Int
    BY <1>3, LocalDayFacts, LocalDayGrows
  <2>5. \A q \in Times : q # PreviousDay => day'[q] = day[q]
    BY <1>1, <1>3 DEF DaysAfter, DaySummed
  <2>6. /\ \A q \in Times : day'[q] > 0 =>
             q % Day = 0 /\ q + Day <= LocalDay(now) /\ day'[q] <= Sum(written, q, q + Day)
        /\ \A q, m \in Times :
             /\ q % Day = 0 /\ LocalDay(m) = m /\ q + Day <= m /\ m < q + 2 * Day
             /\ m < now + 1
             /\ \A f \in disturbed' : q < f /\ f <= m => (f + zone) % Hour # 0
             => day'[q] = Sum(written, q, q + Day)
    <3>1. CASE Midnight /\ "day" \notin failed
      <4>1. PreviousDay \in Times => day'[PreviousDay] = Sum(hours, PreviousDay, PreviousDay + Day)
        BY <1>1, <1>3, <3>1 DEF DaysAfter, DaySummed, hours
      <4>2. /\ PreviousDay % Hour = 0 /\ (PreviousDay + Day) % Hour = 0
            /\ PreviousDay + Day \in Int /\ PreviousDay \in Int
        <5>1. (PreviousDay + Day) % Hour = 0 /\ PreviousDay % Hour = 0
          BY <1>4, <2>1, <2>2, PeriodFacts
        <5>2. QED
          BY <1>4, <2>1, <5>1
      <4>3. ASSUME NEW q \in Times, day'[q] > 0
            PROVE  q % Day = 0 /\ q + Day <= LocalDay(now) /\ day'[q] <= Sum(written, q, q + Day)
        <5>1. CASE q = PreviousDay
          <6>1. q + Day <= LocalDay(now)
            BY <1>3, <1>4, <2>1, <2>3, <2>4, <3>1, <5>1
          <6>2. Sum(hours, q, q + Day) <= Sum(written, q, q + Day)
            BY <1>3, <1>5, <4>2, <5>1, HoursSummed
          <6>3. QED
            BY <2>2, <4>1, <5>1, <6>1, <6>2
        <5>2. CASE q # PreviousDay
          <6>1. /\ q % Day = 0 /\ q + Day <= LocalDay(next - 1)
                /\ day[q] <= Sum(written, q, q + Day) /\ day'[q] = day[q]
            BY <2>5, <4>3, <5>2 DEF ChartInv, DayRows
          <6>2. q \in Int
            BY <1>3
          <6>3. QED
            BY <1>4, <2>4, <6>1, <6>2
        <5>3. QED
          BY <5>1, <5>2
      <4>4. ASSUME NEW q \in Times, NEW m \in Times, q % Day = 0, LocalDay(m) = m,
                   q + Day <= m, m < q + 2 * Day, m < now + 1,
                   \A f \in disturbed' : q < f /\ f <= m => (f + zone) % Hour # 0
            PROVE  day'[q] = Sum(written, q, q + Day)
        <5>1. q \in Int /\ m \in Int
          BY <1>3
        <5>2. (m + zone) % Hour = 0 /\ (m + zone) % Day = 0
          BY <1>3, <4>4, <5>1, LocalDayFacts
        <5>3. q < m /\ m <= m
          BY <1>4, <4>4, <5>1
        <5>4. m \notin disturbed'
          BY <4>4, <5>2, <5>3
        <5>5. m <= next
          BY <1>3, <1>9, <4>4, <5>1, <5>4
        <5>6. CASE m < next
          <6>1. m + Day <= next
            BY <1>3, <3>1, <5>1, <5>2, <5>6, LocalDaysApart DEF Midnight
          <6>2. q # PreviousDay
            BY <1>3, <1>4, <2>1, <4>4, <5>1, <6>1
          <6>3. Undisturbed(q, m)
            BY <1>8, <4>4 DEF Undisturbed
          <6>4. day[q] = Sum(written, q, q + Day)
            BY <4>4, <5>6, <6>3 DEF ChartInv, DayRows
          <6>5. QED
            BY <2>5, <6>2, <6>4
        <5>7. CASE m = next
          <6>1. failed = {}
            BY <1>8, <5>4, <5>7
          <6>2. q + Day = Truncate(next, Day)
            <7>1. (q + Day) % Day = 0 /\ q + Day \in Int
              BY <1>4, <4>4, <5>1, PeriodSteps
            <7>2. q + Day <= next /\ next < q + Day + Day
              BY <1>4, <4>4, <5>1, <5>7
            <7>3. QED
              BY <2>1, <7>1, <7>2
          <6>3. q = PreviousDay
            BY <1>4, <2>1, <5>1, <6>2
          <6>4. ASSUME NEW h \in Span(q, q + Day), h % Hour = 0
                PROVE  hours[h] = Sum(written, h, h + Hour)
            <7>1. h \in Times /\ h \in Int /\ q <= h /\ h < q + Day
              BY <1>3 DEF Span
            <7>2. (q + Day) % Hour = 0 /\ (h + Hour) % Hour = 0 /\ q + Day \in Int
              BY <1>4, <4>2, <5>1, <6>3, <6>4, <7>1, PeriodSteps
            <7>3. h + Hour <= q + Day
              BY <6>4, <7>1, <7>2, PeriodSteps
            <7>4. /\ SummedAt(h) \in Int /\ h + Hour <= SummedAt(h) /\ SummedAt(h) <= m
                  /\ (SummedAt(h) + zone) % Hour = 0
              <8>1. /\ SummedAt(h) = h + Hour + Offset /\ SummedAt(h) \in Int
                    /\ h + Hour <= SummedAt(h) /\ (SummedAt(h) + zone) % Hour = 0
                    /\ Offset \in Int /\ 0 <= Offset /\ Offset < Hour
                BY <1>3, <6>4, <7>1, SummedAtFacts, OffsetFacts
              <8>2. PICK y \in Int : y = m - Offset
                BY <5>1, <8>1
              <8>3. y % Hour = 0
                BY <1>3, <5>1, <5>2, <8>2, LocalHours
              <8>4. y < q + Day => y + Hour <= q + Day
                BY <1>4, <7>2, <8>3, MultiplesApart
              <8>5. q + Day <= y
                BY <1>4, <4>4, <5>1, <7>2, <8>1, <8>2, <8>4
              <8>6. QED
                BY <1>4, <5>1, <7>1, <7>3, <8>1, <8>2, <8>5
            <7>5. q < SummedAt(h) /\ next <= h + Week
              BY <1>4, <4>4, <5>1, <5>7, <7>1, <7>4
            <7>6. SummedAt(h) \notin disturbed
              BY <1>8, <4>4, <7>4, <7>5
            <7>7. QED
              BY <1>6, <5>7, <6>1, <6>4, <7>1, <7>4, <7>5, <7>6
          <6>5. q >= Origin - Day
            BY Assumed DEF Times
          <6>6. Sum(hours, q, q + Day) = Sum(written, q, q + Day)
            BY <1>3, <1>5, <4>2, <6>3, <6>4, <6>5, HoursSummed
          <6>7. QED
            BY <4>1, <6>3, <6>6
        <5>8. QED
          BY <1>3, <5>1, <5>5, <5>6, <5>7
      <4>5. QED
        BY <4>3, <4>4
    <3>2. CASE ~ (Midnight /\ "day" \notin failed)
      <4>1. day' = day
        BY <1>1, <3>2 DEF DaysAfter
      <4>2. ASSUME NEW q \in Times, day'[q] > 0
            PROVE  q % Day = 0 /\ q + Day <= LocalDay(now) /\ day'[q] <= Sum(written, q, q + Day)
        <5>1. /\ q % Day = 0 /\ q + Day <= LocalDay(next - 1)
              /\ day[q] <= Sum(written, q, q + Day)
          BY <4>1, <4>2 DEF ChartInv, DayRows
        <5>2. q \in Int
          BY <1>3
        <5>3. QED
          BY <1>4, <2>4, <4>1, <5>1, <5>2
      <4>3. ASSUME NEW q \in Times, NEW m \in Times, q % Day = 0, LocalDay(m) = m,
                   q + Day <= m, m < q + 2 * Day, m < now + 1,
                   \A f \in disturbed' : q < f /\ f <= m => (f + zone) % Hour # 0
            PROVE  day'[q] = Sum(written, q, q + Day)
        <5>1. q \in Int /\ m \in Int
          BY <1>3
        <5>2. (m + zone) % Hour = 0
          BY <1>3, <4>3, <5>1, LocalDayFacts
        <5>3. q < m /\ m <= m
          BY <1>4, <4>3, <5>1
        <5>4. m \notin disturbed'
          BY <4>3, <5>2, <5>3
        <5>5. m <= next
          BY <1>3, <1>9, <4>3, <5>1, <5>4
        <5>6. m # next
          BY <1>8, <2>3, <3>2, <4>3, <5>4
        <5>7. Undisturbed(q, m)
          BY <1>8, <4>3 DEF Undisturbed
        <5>8. m < next
          BY <1>3, <5>1, <5>5, <5>6
        <5>9. QED
          BY <4>1, <4>3, <5>7, <5>8 DEF ChartInv, DayRows
      <4>4. QED
        BY <4>2, <4>3
    <3>3. QED
      BY <3>1, <3>2
  <2>7. LocalDay(next - 1)' = LocalDay(now) /\ \A m : LocalDay(m)' = LocalDay(m)
    <3>1. next' - 1 = now
      BY <1>2, <1>3
    <3>2. QED
      BY <1>2, <3>1 DEF LocalDay
  <2>8. \A q, m : Undisturbed(q, m)'
              <=> \A f \in disturbed' : q < f /\ f <= m => (f + zone) % Hour # 0
    BY <1>2 DEF Undisturbed
  <2>9. QED
    BY <1>2, <2>6, <2>7, <2>8 DEF DayRows
<1>14. QED
  BY <1>10, <1>11, <1>12, <1>13 DEF ChartInv

\* Every step keeps what the charts rest on.
LEMMA ChartNext == Inv /\ ChartInv /\ [Next]_vars => ChartInv'
<1>1. SUFFICES ASSUME Inv, ChartInv, [Next]_vars PROVE ChartInv'
  OBVIOUS
<1>2. CASE UNCHANGED vars
  <2>1. UNCHANGED <<zone, now, phase, next, minute, hour, day, written, disturbed>>
    BY <1>2 DEF vars, samplerVars, tables
  <2>2. QED
    BY <1>1, <2>1, ChartStays
<1>3. CASE Move \/ ResetCounter \/ Network \/ MoveProxied \/ ServerExits \/ ServerStarts
  <2>1. UNCHANGED <<zone, now, phase, next, minute, hour, day, written, disturbed>>
    BY <1>3 DEF Move, ResetCounter, Network, MoveProxied, ServerExits, ServerStarts,
                samplerVars, tables
  <2>2. QED
    BY <1>1, <2>1, ChartStays
<1>4. QED
  BY <1>1, <1>2, <1>3, ChartTick, ChartBeginSample, ChartWrite, ChartRollup, ChartCrash,
     ChartRestart DEF Next

\* Both invariants hold at every moment.
LEMMA SpecChartInv == Spec => [](Inv /\ ChartInv)
<1>1. Init => Inv /\ ChartInv
  BY InvInit, ChartInit
<1>2. (Inv /\ ChartInv) /\ [Next]_vars => (Inv /\ ChartInv)'
  BY InvNext, ChartNext
<1>3. QED
  BY <1>1, <1>2, PTL DEF Spec

\* The chart of a day is exact when the sampler has caught up.
LEMMA ChartDay == Inv /\ ChartInv => DayChartExact
<1>1. SUFFICES ASSUME Inv, ChartInv, phase = "wait", next = now + 1, NEW h \in HoursShown
               PROVE  /\ (now < h + Hour \/ SummedAt(h) <= now) /\ SummedAt(h) \notin disturbed
                           => DayChart(h) = Sum(written, h, h + Hour)
                      /\ DayChart(h) <= Sum(written, h, h + Hour)
  BY DEF DayChartExact, CaughtUp
<1>2. /\ now \in Int /\ Times \in SUBSET Int
      /\ minute \in [Times -> Nat] /\ hour \in [Times -> Nat] /\ written \in [Times -> Nat]
      /\ Hour \in Nat \ {0} /\ Day \in Nat \ {0} /\ 2 * Hour <= Day /\ zone \in Zones
      /\ Week \in Nat /\ Week >= 2 * Day
  BY <1>1, ChartTypes, TimesFinite, Assumed
<1>3. /\ h \in Times /\ h \in Int /\ h % Hour = 0 /\ Truncate(now - Day, Hour) <= h /\ h <= now
  BY <1>2 DEF HoursShown
<1>4. /\ hour[h] > 0 => hour[h] <= Sum(written, h, h + Hour) /\ h + Hour < now + 1
      /\ now + 1 <= h + Week /\ SummedAt(h) < now + 1 /\ SummedAt(h) \notin disturbed
           => hour[h] = Sum(written, h, h + Hour)
  BY <1>1, <1>3 DEF ChartInv, HourRows, Inv, Rows
<1>5. hour[h] \in Nat /\ Sum(written, h, h + Hour) \in Nat
  BY <1>2, <1>3, SumType
<1>6. CASE h + Hour <= now
  <2>1. h # Truncate(now, Hour)
    <3>1. now < Truncate(now, Hour) + Hour
      BY <1>2, TruncateFacts
    <3>2. QED
      BY <1>2, <1>3, <1>6, <3>1
  <2>2. DayChart(h) = hour[h]
    BY <1>5, <2>1 DEF DayChart
  <2>3. now + 1 <= h + Week
    <3>1. PICK x \in Int : x = now - Day
      BY <1>2
    <3>2. PICK y \in Int : y = Truncate(x, Hour) /\ x < y + Hour
      BY <1>2, TruncateFacts
    <3>3. y <= h
      BY <1>3, <3>1, <3>2
    <3>4. QED
      BY <1>2, <1>3, <3>1, <3>2, <3>3
  <2>4. SummedAt(h) <= now => SummedAt(h) < now + 1
    BY <1>2, <1>3, SummedAtFacts
  <2>5. ~ (now < h + Hour)
    BY <1>2, <1>3, <1>6
  <2>6. QED
    BY <1>4, <1>5, <2>2, <2>3, <2>4, <2>5
<1>7. CASE now < h + Hour
  <2>1. h = Truncate(now, Hour)
    BY <1>2, <1>3, <1>7, TruncateFacts
  <2>2. hour[h] = 0
    BY <1>2, <1>3, <1>4, <1>5, <1>7
  <2>3. \A t \in Times : t > now => written[t] = 0
    <3>1. ASSUME NEW t \in Times, t > now PROVE written[t] = 0
      <4>1. t \in Int /\ written[t] \in Nat /\ (written[t] > 0 => t < now)
        BY <1>1, <1>2 DEF ChartInv, WrittenRows
      <4>2. QED
        BY <1>2, <3>1, <4>1
    <3>2. QED
      BY <3>1
  <2>4. \A t \in Span(h, now + 1) : minute[t] = written[t]
    <3>1. ASSUME NEW t \in Span(h, now + 1) PROVE minute[t] = written[t]
      <4>1. t \in Times /\ t \in Int /\ h <= t
        BY <1>2 DEF Span
      <4>2. next <= t + Day
        BY <1>1, <1>2, <1>3, <1>7, <4>1
      <4>3. QED
        BY <1>1, <4>1, <4>2 DEF ChartInv, WrittenRows
    <3>2. QED
      BY <3>1
  <2>5. Total(minute, Span(h, now + 1)) = Total(written, Span(h, now + 1))
    BY <2>4, SpanFinite, TotalCompare
  <2>6. Total(written, Span(h, now + 1)) = Total(written, Span(h, h + Hour))
    <3>1. Span(h, now + 1) \in SUBSET Span(h, h + Hour)
      <4>1. \A t \in Times : t < now + 1 => t < h + Hour
        BY <1>2, <1>3, <1>7
      <4>2. QED
        BY <4>1 DEF Span
    <3>2. \A t \in Span(h, h + Hour) : written[t] \in Nat
      BY <1>2, SpanFinite
    <3>3. \A t \in Span(h, h + Hour) \ Span(h, now + 1) : written[t] = 0
      BY <1>2, <2>3 DEF Span
    <3>4. QED
      BY <3>1, <3>2, <3>3, SpanFinite, TotalSparse
  <2>7. Sum(minute, h, now + 1) = Sum(written, h, h + Hour)
    BY <2>5, <2>6, SumIsTotal
  <2>8. DayChart(h) = Sum(written, h, h + Hour)
    BY <1>5, <2>1, <2>2, <2>7 DEF DayChart
  <2>9. QED
    BY <1>5, <2>8
<1>8. QED
  BY <1>2, <1>3, <1>6, <1>7

\* What the rows of the days are when the sampler has caught up.
LEMMA DayRowExact ==
  ASSUME Inv, ChartInv, CaughtUp, NEW q \in Times, q % Day = 0,
         Undisturbed(q, LocalDay(now)), q + Day <= Truncate(LocalDay(now), Day)
  PROVE  day[q] = Sum(written, q, q + Day)
<1>1. /\ now \in Int /\ next = now + 1 /\ Times \in SUBSET Int /\ zone \in Zones /\ zone \in Int
      /\ Day \in Nat \ {0} /\ Origin \in Nat /\ Horizon \in Nat /\ now <= Horizon
      /\ disturbed \in SUBSET Times
  BY ChartTypes, TimesFinite, Assumed, ZoneFacts DEF CaughtUp
<1>2. q \in Int
  BY <1>1
<1> DEFINE L == LocalDay(now)
<1>3. L \in Int /\ L <= now /\ (L + zone) % Day = 0 /\ Truncate(L, Day) <= L
      /\ Truncate(L, Day) \in Int
  <2>1. L \in Int /\ L <= now /\ (L + zone) % Day = 0
    BY <1>1, LocalDayFacts
  <2>2. QED
    BY <1>1, <2>1, TruncateFacts
<1> HIDE DEF L
<1>4. PICK x \in Int : x = q + 2 * Day - 1
  BY <1>1, <1>2
<1>5. PICK m \in Int : m = LocalDay(x)
  BY <1>1, LocalDayFacts
<1>6. m <= x /\ x < m + Day /\ (m + zone) % Day = 0
  BY <1>1, <1>4, <1>5, LocalDayFacts
<1>7. LocalDay(m) = m
  BY <1>1, <1>6, LocalDayFacts
<1>8. q + Day <= m /\ m < q + 2 * Day
  BY <1>1, <1>2, <1>4, <1>6
<1>9. q + Day <= L
  BY <1>1, <1>2, <1>3 DEF L
<1>10. m <= L
  <2>1. L < m => L + Day <= m
    BY <1>1, <1>3, <1>6, LocalDaysApart
  <2>2. QED
    BY <1>1, <1>2, <1>3, <1>8, <1>9, <2>1
<1>11. m \in Times /\ m < next
  BY <1>1, <1>2, <1>3, <1>8, <1>10, Assumed DEF Times
<1>12. Undisturbed(q, m)
  <2>1. ASSUME NEW f \in disturbed, q < f, f <= m PROVE (f + zone) % Hour # 0
    <3>1. f \in Int
      BY <1>1
    <3>2. f <= L
      BY <1>3, <1>10, <2>1, <3>1
    <3>3. QED
      BY <2>1, <3>2 DEF Undisturbed, L
  <2>2. QED
    BY <2>1 DEF Undisturbed
<1>13. QED
  BY <1>7, <1>8, <1>11, <1>12 DEF ChartInv, DayRows

\* In UTC a day of the chart is a row.
LEMMA WeekChartUtc ==
  ASSUME Inv, ChartInv, CaughtUp, NEW d \in DaysShown, zone = 0, d + Day <= now,
         Undisturbed(d, d + Day)
  PROVE  WeekChart(d) = Sum(written, d, d + Day)
<1>1. /\ now \in Int /\ next = now + 1 /\ Times \in SUBSET Int /\ zone \in Zones
      /\ Day \in Nat \ {0} /\ Origin \in Nat /\ Horizon \in Nat /\ now <= Horizon
      /\ day \in [Times -> Nat] /\ written \in [Times -> Nat]
  BY ChartTypes, TimesFinite, Assumed DEF CaughtUp
<1>2. d \in Times /\ d \in Int /\ LocalDay(d) = d /\ d + Day \in Int
  BY <1>1 DEF DaysShown
<1>3. d % Day = 0 /\ (d + Day) % Day = 0
  <2>1. (d + zone) % Day = 0 /\ d + zone = d
    BY <1>1, <1>2, LocalDayFacts
  <2>2. QED
    BY <1>2, <2>1, PeriodSteps
<1>4. d # LocalDay(now)
  <2>1. now < LocalDay(now) + Day
    BY <1>1, LocalDayFacts
  <2>2. QED
    BY <1>1, <1>2, <2>1
<1>5. Sum(day, d, d + Day) \in Nat
  BY <1>1, SumType
<1>6. WeekChart(d) = Sum(day, d, d + Day)
  BY <1>4, <1>5 DEF WeekChart
<1>7. Sum(day, d, d + Day) = day[d]
  <2>1. {d} \in SUBSET Span(d, d + Day)
    BY <1>1, <1>2 DEF Span
  <2>2. \A t \in Span(d, d + Day) \ {d} : day[t] = 0
    <3>1. ASSUME NEW t \in Span(d, d + Day) \ {d} PROVE day[t] = 0
      <4>1. t \in Times /\ t \in Int /\ d < t /\ t < d + Day /\ day[t] \in Nat
        BY <1>1, <1>2 DEF Span
      <4>2. t % Day # 0
        BY <1>1, <1>2, <1>3, <4>1, MultiplesApart
      <4>3. QED
        BY <4>1, <4>2 DEF ChartInv, DayRows
    <3>2. QED
      BY <3>1
  <2>3. \A t \in Span(d, d + Day) : day[t] \in Nat
    BY <1>1, SpanFinite
  <2>4. Total(day, {d}) = Total(day, Span(d, d + Day))
    BY <2>1, <2>2, <2>3, SpanFinite, TotalSparse
  <2>5. Total(day, {d}) = day[d]
    <3>1. IsFiniteSet({d}) /\ IsFiniteSet({}) /\ {d} \ {d} = {}
      BY FS_Singleton, FS_EmptySet
    <3>2. \A t \in {d} : day[t] \in Int
      BY <1>1, <1>2
    <3>3. Total(day, {d}) = day[d] + Total(day, {d} \ {d})
      BY <3>1, <3>2, TotalRemove
    <3>4. Total(day, {d} \ {d}) = 0
      BY <3>1, TotalFirst
    <3>5. day[d] \in Nat
      BY <1>1, <1>2
    <3>6. QED
      BY <3>3, <3>4, <3>5
  <2>6. QED
    BY <2>4, <2>5, SumIsTotal
<1>8. day[d] = Sum(written, d, d + Day)
  <2>1. d + Day \in Times
    BY <1>1, <1>2, Assumed DEF Times
  <2>2. LocalDay(d + Day) = d + Day
    <3>1. PICK m \in Int : m = d + Day
      BY <1>2
    <3>2. (m + zone) % Day = 0
      BY <1>2, <1>3, <3>1
    <3>3. QED
      BY <1>1, <3>1, <3>2, LocalDayFacts
  <2>3. d + Day < d + 2 * Day /\ d + Day < next /\ d + Day <= d + Day
    BY <1>1, <1>2
  <2>4. QED
    BY <1>2, <1>3, <2>1, <2>2, <2>3 DEF ChartInv, DayRows
<1>9. QED
  BY <1>6, <1>7, <1>8

\* The sum of the chart of a week is one of rows too.
LEMMA WeekIsTotal ==
  ASSUME NEW S, IsFiniteSet(S)
  PROVE  MapThenSumSet(WeekChart, S) = Total([d \in S |-> WeekChart(d)], S)
<1> DEFINE W == [d \in S |-> WeekChart(d)]
           G(g) == g = [s \in SUBSET S |->
                          IF s = {} THEN 0 ELSE WeekChart(First(s)) + g[s \ {First(s)}]]
           F == CHOOSE g : G(g)
<1>1. MapThenSumSet(WeekChart, S) = F[S]
  BY DEF MapThenSumSet, MapThenFoldSet, First
<1>2. \A s \in SUBSET S : s # {} => W[First(s)] = WeekChart(First(s))
  <2>1. ASSUME NEW s \in SUBSET S, s # {} PROVE W[First(s)] = WeekChart(First(s))
    <3>1. First(s) \in S
      BY <2>1, FirstIn
    <3>2. QED
      BY <3>1
  <2>2. QED
    BY <2>1
<1> HIDE DEF W
<1>3. \A g : G(g) <=> IsFold(g, W, S)
  <2>1. SUFFICES ASSUME NEW g PROVE G(g) <=> IsFold(g, W, S)
    OBVIOUS
  <2>2. [s \in SUBSET S |-> IF s = {} THEN 0 ELSE WeekChart(First(s)) + g[s \ {First(s)}]]
        = [s \in SUBSET S |-> IF s = {} THEN 0 ELSE W[First(s)] + g[s \ {First(s)}]]
    BY <1>2
  <2>3. QED
    BY <2>2 DEF IsFold
<1>4. S \in SUBSET S /\ IsFold(Fold(W, S), W, S)
  BY FoldExists
<1>5. G(F)
  BY <1>3, <1>4
<1> HIDE DEF F, G
<1>6. IsFold(F, W, S)
  BY <1>3, <1>5
<1>7. F[S] = Fold(W, S)[S]
  BY <1>4, <1>6, FoldUnique
<1>8. QED
  BY <1>1, <1>7 DEF Total, W

\* The chart shows every byte at most once.
LEMMA WeekChartBounded ==
  ASSUME Inv, ChartInv, CaughtUp
  PROVE  MapThenSumSet(WeekChart, DaysShown) <= Written
<1> DEFINE L == LocalDay(now)
           Today == Sum(hour, L, now + 1)
           D == [d \in DaysShown |-> Sum(day, d, d + Day)]
           W == [d \in DaysShown |-> WeekChart(d)]
           Past == {q \in Times : q + Day <= L}
           C1 == Cover(DaysShown, {x \in Int : (x + zone) % Day = 0}, Day)
           C2 == Cover(Past, Multiples(Day), Day)
           C3 == Cover(Span(L, now + 1), Multiples(Hour), Hour)
<1>1. /\ now \in Int /\ next = now + 1 /\ Times \in SUBSET Int /\ zone \in Zones
      /\ Day \in Nat \ {0} /\ Day \in Nat /\ Hour \in Nat /\ Hour \in Nat \ {0}
      /\ day \in [Times -> Nat] /\ written \in [Times -> Nat] /\ hour \in [Times -> Nat]
      /\ IsFiniteSet(Times)
  BY ChartTypes, TimesFinite, Assumed DEF CaughtUp
<1>2. L \in Int
  BY <1>1, LocalDayFacts
<1>3. DaysShown \in SUBSET Times /\ IsFiniteSet(DaysShown)
      /\ \A d \in DaysShown : d \in Int /\ (d + zone) % Day = 0
  <2>1. DaysShown \in SUBSET Times /\ \A d \in DaysShown : LocalDay(d) = d
    BY DEF DaysShown
  <2>2. IsFiniteSet(DaysShown)
    BY <2>1, TimesFinite, FS_Subset
  <2>3. QED
    BY <1>1, <2>1, <2>2, LocalDayFacts
<1>4. Today \in Nat /\ \A d : Sum(day, d, d + Day) \in Nat
  BY <1>1, SumType
<1>5. \A d \in DaysShown : /\ D[d] \in Nat
                           /\ W[d] = D[d] + IF d = L THEN Today ELSE 0
  BY <1>4 DEF WeekChart
<1>6. \A d \in DaysShown : D[d] = Total(day, Span(d, d + Day))
  BY SumIsTotal
<1> HIDE DEF D, W, Today
<1>7. Total(W, DaysShown) <= Total(D, DaysShown) + Today
  <2>1. Total(D, DaysShown) \in Nat
    BY <1>3, <1>5, TotalType
  <2>2. CASE L \in DaysShown
    <3>1. W[L] = D[L] + Today /\ \A d \in DaysShown : d # L => W[d] = D[d]
      BY <1>4, <1>5, <2>2
    <3>2. \A d \in DaysShown : D[d] \in Int
      BY <1>5
    <3>3. Today \in Int
      BY <1>4
    <3> HIDE DEF L
    <3>4. Total(W, DaysShown) = Total(D, DaysShown) + Today
      BY <1>3, <2>2, <3>1, <3>2, <3>3, TotalAdd
    <3>5. QED
      BY <1>4, <2>1, <3>4
  <2>3. CASE L \notin DaysShown
    <3>1. \A d \in DaysShown : W[d] = D[d]
      BY <1>5, <2>3
    <3>2. Total(W, DaysShown) = Total(D, DaysShown)
      BY <1>3, <3>1, TotalCompare
    <3>3. QED
      BY <1>4, <2>1, <3>2
  <2>4. QED
    BY <2>2, <2>3
<1>8. Total(D, DaysShown) = Total(day, C1)
  <2> DEFINE heads == {x \in Int : (x + zone) % Day = 0}
  <2>1. \A x, y \in heads : x < y => x + Day <= y
    BY <1>1, LocalDaysApart
  <2>2. \A d \in DaysShown : D[d] = IF d \in heads THEN Total(day, Span(d, d + Day)) ELSE 0
    BY <1>3, <1>6
  <2>3. \A t \in Times : day[t] \in Nat
    BY <1>1
  <2>4. heads \in SUBSET Int
    OBVIOUS
  <2> HIDE DEF heads
  <2>5. Total(D, DaysShown) = Total(day, Cover(DaysShown, heads, Day))
    BY <1>1, <1>3, <2>1, <2>2, <2>3, <2>4, TotalPeriods
  <2>6. QED
    BY <2>5 DEF heads
<1>9. C1 \in SUBSET Times /\ C2 \in SUBSET Times /\ C3 \in SUBSET Times /\ Past \in SUBSET Times
  BY DEF Cover
<1>10. Total(day, C1) <= Total(day, Past)
  <2>1. \A t \in Times \ Past : day[t] = 0
    <3>1. ASSUME NEW t \in Times \ Past PROVE day[t] = 0
      <4>1. day[t] \in Nat /\ (day[t] > 0 => t + Day <= LocalDay(next - 1))
        BY <1>1 DEF ChartInv, DayRows
      <4>2. next - 1 = now
        BY <1>1
      <4>3. ~ (day[t] > 0)
        BY <4>1, <4>2, <3>1
      <4>4. QED
        BY <4>1, <4>3
    <3>2. QED
      BY <3>1
  <2> HIDE DEF Past, C1
  <2>2. \A t \in Times : day[t] \in Nat
    BY <1>1
  <2>3. Total(day, Past) = Total(day, Times)
    BY <1>1, <1>9, <2>1, <2>2, TotalSparse
  <2>4. Total(day, C1) <= Total(day, Times)
    BY <1>1, <1>9, <2>2, TotalPart
  <2>5. QED
    BY <2>3, <2>4
<1>11. Total(day, Past) <= Total(written, C2)
  <2>1. \A x, y \in Multiples(Day) : x < y => x + Day <= y
    BY <1>1, MultiplesApart DEF Multiples
  <2>2. Multiples(Day) \in SUBSET Int
    BY DEF Multiples
  <2>3. \A t \in Past :
          day[t] > 0 => t \in Multiples(Day) /\ day[t] <= Total(written, Span(t, t + Day))
    BY <1>1, SumIsTotal DEF ChartInv, DayRows, Multiples
  <2>4. \A t \in Times : day[t] \in Nat /\ written[t] \in Nat
    BY <1>1
  <2> HIDE DEF Past
  <2>5. QED
    BY <1>1, <1>9, <2>1, <2>2, <2>3, <2>4, TotalBelowPeriods
<1>12. Today <= Total(written, C3)
  <2>1. \A x, y \in Multiples(Hour) : x < y => x + Hour <= y
    BY <1>1, MultiplesApart DEF Multiples
  <2>2. Multiples(Hour) \in SUBSET Int /\ Span(L, now + 1) \in SUBSET Times
    BY SpanFinite DEF Multiples
  <2>3. \A t \in Span(L, now + 1) :
          hour[t] > 0 => t \in Multiples(Hour) /\ hour[t] <= Total(written, Span(t, t + Hour))
    BY <1>1, <2>2, SumIsTotal DEF Inv, Rows, Multiples
  <2>4. \A t \in Times : hour[t] \in Nat /\ written[t] \in Nat
    BY <1>1
  <2>5. Total(hour, Span(L, now + 1)) <= Total(written, C3)
    BY <1>1, <2>1, <2>2, <2>3, <2>4, TotalBelowPeriods
  <2>6. QED
    BY <2>5, SumIsTotal DEF Today
<1>13. C2 \cap C3 = {}
  <2>1. SUFFICES ASSUME NEW u \in C2, u \in C3 PROVE FALSE
    OBVIOUS
  <2>2. PICK q \in Times : q + Day <= L /\ q <= u /\ u < q + Day
    BY DEF Cover
  <2>3. PICK h \in Times : L <= h /\ h <= u
    BY <2>1 DEF Cover, Span
  <2>4. u \in Int /\ q \in Int /\ h \in Int
    BY <1>1, <1>9, <2>1
  <2>5. QED
    BY <1>1, <1>2, <2>2, <2>3, <2>4
<1>14. Total(written, C2) + Total(written, C3) <= Total(written, Times)
  <2> HIDE DEF C2, C3
  <2>1. IsFiniteSet(C2) /\ IsFiniteSet(C3) /\ C2 \cup C3 \in SUBSET Times
    BY <1>1, <1>9, FS_Subset
  <2>2. \A t \in Times : written[t] \in Nat
    BY <1>1
  <2>3. \A t \in C2 \cup C3 : written[t] \in Int
    BY <2>1, <2>2
  <2>4. Total(written, C2 \cup C3) = Total(written, C2) + Total(written, C3)
    BY <1>13, <2>1, <2>3, TotalUnion
  <2>5. Total(written, C2 \cup C3) <= Total(written, Times)
    BY <1>1, <2>1, <2>2, TotalPart
  <2>6. QED
    BY <2>4, <2>5
<1>15. /\ Total(D, DaysShown) \in Nat /\ Total(W, DaysShown) \in Int
       /\ Total(written, C2) \in Nat /\ Total(written, C3) \in Nat /\ Total(day, C1) \in Nat
       /\ Total(day, Past) \in Nat /\ Total(written, Times) \in Nat
  <2> HIDE DEF C1, C2, C3, Past
  <2>1. /\ IsFiniteSet(C1) /\ IsFiniteSet(C2) /\ IsFiniteSet(C3) /\ IsFiniteSet(Past)
    BY <1>1, <1>9, FS_Subset
  <2>2. \A t \in Times : day[t] \in Nat /\ written[t] \in Nat
    BY <1>1
  <2>3. /\ Total(written, C2) \in Nat /\ Total(written, C3) \in Nat /\ Total(day, C1) \in Nat
        /\ Total(day, Past) \in Nat /\ Total(written, Times) \in Nat
    BY <1>1, <1>9, <2>1, <2>2, TotalType
  <2>4. \A d \in DaysShown : D[d] \in Nat /\ W[d] \in Int
    BY <1>4, <1>5
  <2>5. Total(D, DaysShown) \in Nat /\ Total(W, DaysShown) \in Int
    BY <1>3, <2>4, TotalType
  <2>6. QED
    BY <2>3, <2>5
<1>16. MapThenSumSet(WeekChart, DaysShown) = Total(W, DaysShown)
  BY <1>3, WeekIsTotal DEF W
<1> HIDE DEF C1, C2, C3, Past
<1>17. Total(W, DaysShown) <= Total(written, Times)
  BY <1>4, <1>7, <1>8, <1>10, <1>11, <1>12, <1>14, <1>15
<1>18. QED
  BY <1>16, <1>17, WrittenIsTotal

\* The charts show what was written, in the periods they name (ChartsExact).
THEOREM LedgerCharted == Spec => []ChartsExact
<1>1. Inv /\ ChartInv => ChartsExact
  <2>1. SUFFICES ASSUME Inv, ChartInv PROVE ChartsExact
    OBVIOUS
  <2>2. DayChartExact
    BY <2>1, ChartDay
  <2>3. WeekChartExact
    BY <2>1, WeekChartUtc, DayRowExact, WeekChartBounded DEF WeekChartExact
  <2>4. QED
    BY <2>2, <2>3 DEF ChartsExact
<1>2. QED
  BY <1>1, SpecChartInv, PTL
=============================================================================
