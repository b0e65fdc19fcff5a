--------------------------- MODULE Loudness_proofs ---------------------------
(***************************************************************************)
(* Proofs about the loudness meter, for every length of window, block and  *)
(* hop, every capacity and every relative gate: which frames a window and  *)
(* a block are of, what they add up to, and what the gates leave.          *)
(***************************************************************************)
EXTENDS Loudness, FiniteSetTheorems, WellFoundedInduction, TLAPS

\* Quotients by a positive divisor, as the solver needs them.
LEMMA Quotient ==
  ASSUME NEW a \in Nat, NEW b \in Nat \ {0}
  PROVE  /\ a \div b \in Nat
         /\ b * (a \div b) <= a
         /\ a < b * (a \div b) + b
  BY Z3

\* Products by the same factor keep an order, and lose none.
LEMMA TimesMono ==
  ASSUME NEW a \in Int, NEW b \in Int, NEW c \in Nat, a <= b
  PROVE  a * c <= b * c
  BY SMT

\* The quotient is the one number that fits.
LEMMA QuotientUnique ==
  ASSUME NEW a \in Nat, NEW b \in Nat \ {0}, NEW q \in Int,
         b * q <= a, a < b * q + b
  PROVE  a \div b = q
<1>1. /\ a \div b \in Nat /\ b * (a \div b) <= a /\ a < b * (a \div b) + b
  BY Quotient
<1> DEFINE r == a \div b
<1> HIDE DEF r
<1>2. r \in Nat /\ b * r <= a /\ a < b * r + b
  BY <1>1 DEF r
<1>3. b * q \in Int /\ b * r \in Int
  BY <1>2
<1>4. ~ (r < q)
  <2> SUFFICES ASSUME r < q PROVE FALSE
    OBVIOUS
  <2>1. r + 1 <= q /\ r + 1 \in Int
    BY <1>2
  <2>2. (r + 1) * b <= q * b
    BY <2>1, TimesMono
  <2>3. (r + 1) * b = b * r + b /\ q * b = b * q
    BY <1>2, SMT
  <2> QED BY <1>2, <1>3, <2>2, <2>3
<1>5. ~ (q < r)
  <2> SUFFICES ASSUME q < r PROVE FALSE
    OBVIOUS
  <2>1. q + 1 <= r /\ q + 1 \in Int
    BY <1>2
  <2>2. (q + 1) * b <= r * b
    BY <1>2, <2>1, TimesMono
  <2>3. (q + 1) * b = b * q + b /\ r * b = b * r
    BY <1>2, SMT
  <2> QED BY <1>2, <1>3, <2>2, <2>3
<1> QED BY <1>2, <1>4, <1>5 DEF r

-----------------------------------------------------------------------------
(***************************************************************************)
(* Sums over finite sets: MapThenSumSet takes the elements in an order of  *)
(* its own, by a recursive function on the subsets.  That such a function  *)
(* exists and that the order does not matter is shown by induction on the  *)
(* size of the subset, an induction on a set of naturals.                  *)
(***************************************************************************)
Below == {p \in Nat \X Nat : p[1] < p[2]}

\* Smaller naturals come first.
LEMMA BelowWellFounded == IsWellFoundedOn(Below, Nat)
  BY NatLessThanWellFounded DEF OpToRel, Below

\* Induction over the naturals, on sets.
LEMMA NatInd ==
  ASSUME NEW S \in SUBSET Nat, 0 \in S, \A n \in S : n + 1 \in S
  PROVE  S = Nat
<1> SUFFICES ASSUME S # Nat PROVE FALSE
  OBVIOUS
<1> DEFINE T == Nat \ S
<1>1. T \subseteq Nat /\ T # {}
  OBVIOUS
<1>2. PICK m \in T : \A k \in T : ~ (<<k, m>> \in Below)
  <2> HIDE DEF T
  <2> QED BY <1>1, BelowWellFounded, WFMin, Zenon
<1>3. m \in Nat /\ m # 0 /\ m \notin S
  BY <1>2
<1>4. m - 1 \in Nat /\ <<m - 1, m>> \in Below
  BY <1>3 DEF Below
<1>5. m - 1 \in S
  BY <1>2, <1>4
<1>6. m - 1 + 1 = m
  BY <1>3
<1> QED BY <1>3, <1>5, <1>6

\* Subsets of U of n elements at most.
Small(U, n) == {s \in SUBSET U : Cardinality(s) <= n}

\* Without an element a finite set is smaller by one.
LEMMA OneLess ==
  ASSUME NEW U, IsFiniteSet(U), NEW s \in SUBSET U, NEW x \in s
  PROVE  /\ s \ {x} \in SUBSET U /\ Cardinality(s) \in Nat \ {0}
         /\ Cardinality(s \ {x}) = Cardinality(s) - 1
<1>1. IsFiniteSet(s)
  BY FS_Subset
<1>2. Cardinality(s) \in Nat /\ (Cardinality(s) = 0 <=> s = {})
  BY <1>1, FS_CardinalityType, FS_EmptySet
<1>3. Cardinality(s \ {x}) = Cardinality(s) - 1
  BY <1>1, FS_RemoveElement
<1> QED BY <1>2, <1>3

\* What is true of the subsets of at most n elements, for all n, is true of all.
LEMMA SmallAll ==
  ASSUME NEW U, IsFiniteSet(U), NEW P \in SUBSET (SUBSET U),
         Small(U, 0) \subseteq P,
         \A n \in Nat : Small(U, n) \subseteq P => Small(U, n + 1) \subseteq P
  PROVE  P = SUBSET U
<1> DEFINE A == {n \in Nat : Small(U, n) \subseteq P}
<1>1. A \in SUBSET Nat /\ 0 \in A /\ \A n \in A : n + 1 \in A
  OBVIOUS
<1>2. A = Nat
  <2> HIDE DEF A
  <2> QED BY <1>1, NatInd
<1>3. ASSUME NEW s \in SUBSET U PROVE s \in P
  <2>1. IsFiniteSet(s) /\ Cardinality(s) \in Nat
    BY FS_Subset, FS_CardinalityType
  <2>2. s \in Small(U, Cardinality(s))
    BY <2>1 DEF Small
  <2> QED BY <1>2, <2>1, <2>2
<1> QED BY <1>3

\* Induction over the subsets of a finite set, one element at a time.
LEMMA SubsetInd ==
  ASSUME NEW U, IsFiniteSet(U), NEW P \in SUBSET (SUBSET U), {} \in P,
         \A s \in P : \A x \in U \ s : s \cup {x} \in P
  PROVE  P = SUBSET U
<1>1. Small(U, 0) \subseteq P
  <2> SUFFICES ASSUME NEW s \in Small(U, 0) PROVE s \in P
    OBVIOUS
  <2>1. IsFiniteSet(s) /\ Cardinality(s) <= 0
    BY FS_Subset DEF Small
  <2>2. s = {}
    BY <2>1, FS_CardinalityType, FS_EmptySet
  <2> QED BY <2>2
<1>2. ASSUME NEW n \in Nat, Small(U, n) \subseteq P, NEW s \in Small(U, n + 1)
      PROVE  s \in P
  <2>1. s \in SUBSET U /\ Cardinality(s) <= n + 1
    BY DEF Small
  <2>2. CASE s = {}
    BY <2>2
  <2>3. CASE s # {}
    <3>1. PICK x \in s : TRUE
      BY <2>3
    <3>2. s \ {x} \in Small(U, n)
      BY <2>1, OneLess DEF Small
    <3>3. (s \ {x}) \cup {x} = s /\ x \in U \ (s \ {x})
      BY <2>1
    <3> QED BY <1>2, <3>2, <3>3
  <2> QED BY <2>2, <2>3
<1> QED BY <1>1, <1>2, SmallAll

-----------------------------------------------------------------------------
\* The element the sum takes next.
Taken(s) == CHOOSE x \in s : TRUE

\* F is the recursive function of the sums of g on the subsets of U.
Folds(F, U, g) ==
  F = [s \in SUBSET U |-> IF s = {} THEN 0 ELSE g[Taken(s)] + F[s \ {Taken(s)}]]

Numbers(g, U) == \A x \in U : g[x] \in Int

\* What is taken from a set is one of its elements.
LEMMA TakenIn == ASSUME NEW s, s # {} PROVE Taken(s) \in s
  BY DEF Taken

\* The recursion has a solution.
LEMMA FoldsExist ==
  ASSUME NEW U, IsFiniteSet(U), NEW g, Numbers(g, U)
  PROVE  \E F : Folds(F, U, g)
<1> DEFINE Upto(F, n) ==
             /\ F \in [SUBSET U -> Int]
             /\ \A s \in Small(U, n) :
                  F[s] = IF s = {} THEN 0 ELSE g[Taken(s)] + F[s \ {Taken(s)}]
           A == {n \in Nat : \E F : Upto(F, n)}
<1>1. 0 \in A
  <2> DEFINE F == [s \in SUBSET U |-> 0]
  <2>1. ASSUME NEW s \in Small(U, 0) PROVE s = {}
    <3>1. IsFiniteSet(s) /\ Cardinality(s) <= 0
      BY FS_Subset DEF Small
    <3> QED BY <3>1, FS_CardinalityType, FS_EmptySet
  <2>2. Upto(F, 0)
    BY <2>1 DEF Small
  <2> QED BY <2>2
<1>2. ASSUME NEW n \in A PROVE n + 1 \in A
  <2>1. n \in Nat /\ \E F : Upto(F, n)
    OBVIOUS
  <2>2. PICK F : Upto(F, n)
    BY <2>1
  <2> DEFINE G == [s \in SUBSET U |->
                     IF s = {} \/ Cardinality(s) <= n THEN F[s]
                     ELSE g[Taken(s)] + F[s \ {Taken(s)}]]
  <2>3. G \in [SUBSET U -> Int]
    <3> SUFFICES ASSUME NEW s \in SUBSET U PROVE G[s] \in Int
      OBVIOUS
    <3>1. CASE s = {} \/ Cardinality(s) <= n
      BY <2>2, <3>1
    <3>2. CASE ~ (s = {} \/ Cardinality(s) <= n)
      <4>1. Taken(s) \in U /\ s \ {Taken(s)} \in SUBSET U
        BY <3>2, TakenIn
      <4>2. g[Taken(s)] \in Int /\ F[s \ {Taken(s)}] \in Int
        BY <2>2, <4>1 DEF Numbers
      <4> QED BY <3>2, <4>2
    <3> QED BY <3>1, <3>2
  <2>4. ASSUME NEW s \in Small(U, n + 1)
        PROVE  G[s] = IF s = {} THEN 0 ELSE g[Taken(s)] + G[s \ {Taken(s)}]
    <3>1. s \in SUBSET U /\ Cardinality(s) <= n + 1
      BY DEF Small
    <3>2. CASE s = {}
      <4>1. {} \in Small(U, n)
        BY <2>1, FS_EmptySet DEF Small
      <4> QED BY <2>2, <3>2, <4>1
    <3>3. CASE s # {}
      <4> DEFINE t == s \ {Taken(s)}
      <4>1. Taken(s) \in s
        BY <3>3, TakenIn
      <4>2. t \in SUBSET U /\ Cardinality(t) = Cardinality(s) - 1 /\ Cardinality(s) \in Nat
        BY <3>1, <4>1, OneLess
      <4>3. t \in Small(U, n) /\ Cardinality(t) <= n
        BY <2>1, <3>1, <4>2 DEF Small
      <4>4. G[t] = F[t]
        BY <4>2, <4>3
      <4>5. CASE Cardinality(s) <= n
        <5>1. s \in Small(U, n)
          BY <3>1, <4>5 DEF Small
        <5>2. F[s] = g[Taken(s)] + F[t]
          BY <2>2, <3>3, <5>1
        <5>3. G[s] = F[s]
          BY <3>1, <4>5
        <5> HIDE DEF G, t
        <5> QED BY <3>3, <4>4, <5>2, <5>3 DEF t
      <4>6. CASE ~ (Cardinality(s) <= n)
        <5>1. G[s] = g[Taken(s)] + F[t]
          BY <3>1, <3>3, <4>6
        <5> HIDE DEF G, t
        <5> QED BY <3>3, <4>4, <5>1 DEF t
      <4> QED BY <4>5, <4>6
    <3> QED BY <3>2, <3>3
  <2>5. Upto(G, n + 1)
    <3> HIDE DEF G
    <3> QED BY <2>3, <2>4
  <2> HIDE DEF Upto, G
  <2>6. n + 1 \in Nat /\ \E H : Upto(H, n + 1)
    BY <2>1, <2>5
  <2> QED BY <2>6
<1>3. A = Nat
  <2>1. A \in SUBSET Nat
    OBVIOUS
  <2> HIDE DEF A
  <2> QED BY <1>1, <1>2, <2>1, NatInd
<1>4. Cardinality(U) \in Nat
  BY FS_CardinalityType
<1>5. PICK F : Upto(F, Cardinality(U))
  BY <1>3, <1>4
<1>6. ASSUME NEW s \in SUBSET U PROVE s \in Small(U, Cardinality(U))
  BY FS_Subset DEF Small
<1>7. ASSUME NEW s \in SUBSET U
      PROVE  F[s] = IF s = {} THEN 0 ELSE g[Taken(s)] + F[s \ {Taken(s)}]
  BY <1>5, <1>6
<1>8. F = [s \in SUBSET U |-> F[s]]
  BY <1>5
<1>9. Folds(F, U, g)
  BY <1>7, <1>8 DEF Folds
<1> QED BY <1>9

\* All its values are integers.
LEMMA FoldsInt ==
  ASSUME NEW U, IsFiniteSet(U), NEW g, Numbers(g, U), NEW F, Folds(F, U, g)
  PROVE  /\ F[{}] = 0
         /\ \A s \in SUBSET U : s # {} => F[s] = g[Taken(s)] + F[s \ {Taken(s)}]
         /\ \A s \in SUBSET U : F[s] \in Int
<1>1. \A s \in SUBSET U : F[s] = IF s = {} THEN 0 ELSE g[Taken(s)] + F[s \ {Taken(s)}]
  <2> DEFINE rec == [s \in SUBSET U |-> IF s = {} THEN 0 ELSE g[Taken(s)] + F[s \ {Taken(s)}]]
  <2>1. F = rec
    BY DEF Folds
  <2>2. \A s \in SUBSET U : rec[s] = IF s = {} THEN 0 ELSE g[Taken(s)] + F[s \ {Taken(s)}]
    OBVIOUS
  <2> HIDE DEF rec
  <2> QED BY <2>1, <2>2
<1>2. F[{}] = 0
  BY <1>1
<1> DEFINE P == {s \in SUBSET U : F[s] \in Int}
<1>3. Small(U, 0) \subseteq P
  <2> SUFFICES ASSUME NEW s \in Small(U, 0) PROVE s \in P
    OBVIOUS
  <2>1. IsFiniteSet(s) /\ Cardinality(s) <= 0
    BY FS_Subset DEF Small
  <2>2. s = {}
    BY <2>1, FS_CardinalityType, FS_EmptySet
  <2> QED BY <1>2, <2>2
<1>4. ASSUME NEW n \in Nat, Small(U, n) \subseteq P, NEW s \in Small(U, n + 1)
      PROVE  s \in P
  <2>1. s \in SUBSET U /\ Cardinality(s) <= n + 1
    BY DEF Small
  <2>2. CASE s = {}
    BY <1>2, <2>2
  <2>3. CASE s # {}
    <3>1. Taken(s) \in s
      BY <2>3, TakenIn
    <3>2. s \ {Taken(s)} \in Small(U, n)
      BY <2>1, <3>1, OneLess DEF Small
    <3>3. F[s \ {Taken(s)}] \in Int /\ g[Taken(s)] \in Int
      BY <1>4, <2>1, <3>1, <3>2 DEF Numbers
    <3>4. F[s] = g[Taken(s)] + F[s \ {Taken(s)}]
      BY <1>1, <2>1, <2>3
    <3> QED BY <2>1, <3>3, <3>4
  <2> QED BY <2>2, <2>3
<1>5. P = SUBSET U
  <2>1. P \in SUBSET (SUBSET U)
    OBVIOUS
  <2> HIDE DEF P
  <2> QED BY <1>3, <1>4, <2>1, SmallAll
<1> QED BY <1>1, <1>2, <1>5

\* On the subsets of both there is no difference between two sums of equal terms.
LEMMA FoldsSame ==
  ASSUME NEW U, IsFiniteSet(U), NEW g, Numbers(g, U), NEW F, Folds(F, U, g),
         NEW V \in SUBSET U, NEW h, NEW G, Folds(G, V, h), \A x \in V : h[x] = g[x]
  PROVE  \A s \in SUBSET V : F[s] = G[s]
<1>1. IsFiniteSet(V) /\ Numbers(h, V)
  BY FS_Subset DEF Numbers
<1>2. /\ F[{}] = 0 /\ G[{}] = 0
      /\ \A s \in SUBSET U : s # {} => F[s] = g[Taken(s)] + F[s \ {Taken(s)}]
      /\ \A s \in SUBSET V : s # {} => G[s] = h[Taken(s)] + G[s \ {Taken(s)}]
  <2>1. /\ F[{}] = 0
        /\ \A s \in SUBSET U : s # {} => F[s] = g[Taken(s)] + F[s \ {Taken(s)}]
        /\ \A s \in SUBSET U : F[s] \in Int
    BY FoldsInt
  <2>2. G[{}] = 0 /\ \A s \in SUBSET V : s # {} => G[s] = h[Taken(s)] + G[s \ {Taken(s)}]
    BY <1>1, FoldsInt
  <2> QED BY <2>1, <2>2
<1> DEFINE P == {s \in SUBSET V : F[s] = G[s]}
<1>3. Small(V, 0) \subseteq P
  <2> SUFFICES ASSUME NEW s \in Small(V, 0) PROVE s \in P
    OBVIOUS
  <2>1. IsFiniteSet(s) /\ Cardinality(s) <= 0
    BY <1>1, FS_Subset DEF Small
  <2>2. s = {}
    BY <2>1, FS_CardinalityType, FS_EmptySet
  <2> QED BY <1>2, <2>2
<1>4. ASSUME NEW n \in Nat, Small(V, n) \subseteq P, NEW s \in Small(V, n + 1)
      PROVE  s \in P
  <2>1. s \in SUBSET V /\ s \in SUBSET U /\ Cardinality(s) <= n + 1
    BY DEF Small
  <2>2. CASE s = {}
    BY <1>2, <2>2
  <2>3. CASE s # {}
    <3>1. Taken(s) \in s
      BY <2>3, TakenIn
    <3>2. s \ {Taken(s)} \in Small(V, n)
      BY <1>1, <2>1, <3>1, OneLess DEF Small
    <3>3. F[s \ {Taken(s)}] = G[s \ {Taken(s)}]
      BY <1>4, <3>2
    <3>4. F[s] = g[Taken(s)] + F[s \ {Taken(s)}] /\ G[s] = h[Taken(s)] + G[s \ {Taken(s)}]
      BY <1>2, <2>1, <2>3
    <3>5. h[Taken(s)] = g[Taken(s)]
      BY <2>1, <3>1
    <3> QED BY <2>1, <3>3, <3>4, <3>5
  <2> QED BY <2>2, <2>3
<1>5. P = SUBSET V
  <2>1. P \in SUBSET (SUBSET V)
    OBVIOUS
  <2> HIDE DEF P
  <2> QED BY <1>1, <1>3, <1>4, <2>1, SmallAll
<1> QED BY <1>5

\* Any element may be the one taken.
LEMMA FoldsAny ==
  ASSUME NEW U, IsFiniteSet(U), NEW g, Numbers(g, U), NEW F, Folds(F, U, g)
  PROVE  \A s \in SUBSET U : \A x \in s : F[s] = g[x] + F[s \ {x}]
<1>1. /\ \A s \in SUBSET U : s # {} => F[s] = g[Taken(s)] + F[s \ {Taken(s)}]
      /\ \A s \in SUBSET U : F[s] \in Int
  BY FoldsInt
<1> DEFINE P == {s \in SUBSET U : \A x \in s : F[s] = g[x] + F[s \ {x}]}
<1>2. Small(U, 0) \subseteq P
  <2> SUFFICES ASSUME NEW s \in Small(U, 0) PROVE s \in P
    OBVIOUS
  <2>1. IsFiniteSet(s) /\ Cardinality(s) <= 0 /\ s \in SUBSET U
    BY FS_Subset DEF Small
  <2>2. s = {}
    BY <2>1, FS_CardinalityType, FS_EmptySet
  <2> QED BY <2>1, <2>2
<1>3. ASSUME NEW n \in Nat, Small(U, n) \subseteq P, NEW s \in Small(U, n + 1)
      PROVE  s \in P
  <2>1. s \in SUBSET U /\ Cardinality(s) <= n + 1
    BY DEF Small
  <2>2. ASSUME NEW x \in s PROVE F[s] = g[x] + F[s \ {x}]
    <3> DEFINE y == Taken(s)
               t == s \ {y}
               u == s \ {x}
    <3>1. y \in s
      BY TakenIn
    <3>2. F[s] = g[y] + F[t]
      BY <1>1, <2>1
    <3>3. t \in Small(U, n) /\ u \in Small(U, n)
      <4>1. ASSUME NEW z \in s PROVE s \ {z} \in Small(U, n)
        BY <2>1, OneLess DEF Small
      <4> QED BY <3>1, <4>1
    <3>4. CASE x = y
      BY <3>2, <3>4
    <3>5. CASE x # y
      <4>1. x \in t /\ y \in u /\ t \ {x} = u \ {y}
        BY <3>1, <3>5
      <4> HIDE DEF y, t, u
      <4>2. F[t] = g[x] + F[t \ {x}] /\ F[u] = g[y] + F[u \ {y}]
        BY <1>3, <3>3, <4>1
      <4>3. g[x] \in Int /\ g[y] \in Int /\ F[t \ {x}] \in Int
        <5>1. t \ {x} \in SUBSET U
          BY <3>3 DEF Small
        <5> QED BY <1>1, <2>1, <3>1, <5>1 DEF Numbers
      <4> DEFINE v == t \ {x}
      <4>5. F[t] = g[x] + F[v] /\ F[u] = g[y] + F[v] /\ F[v] \in Int
        BY <4>1, <4>2, <4>3
      <4> HIDE DEF v
      <4>4. F[s] = g[x] + F[u]
        BY <3>2, <4>3, <4>5
      <4> QED BY <4>4 DEF u
    <3> QED BY <3>4, <3>5
  <2> QED BY <2>1, <2>2
<1>4. P = SUBSET U
  <2>1. P \in SUBSET (SUBSET U)
    OBVIOUS
  <2> HIDE DEF P
  <2> QED BY <1>2, <1>3, <2>1, SmallAll
<1> QED BY <1>4

-----------------------------------------------------------------------------
\* The sum of g over S.
SumOver(g, S) == MapThenSumSet(LAMBDA i : g[i], S)

\* The sum is the value of a recursive function as above at S.
LEMMA SumFolds ==
  ASSUME NEW S, IsFiniteSet(S), NEW g, Numbers(g, S)
  PROVE  \E F : Folds(F, S, g) /\ SumOver(g, S) = F[S]
<1> DEFINE G == CHOOSE F : Folds(F, S, g)
<1>1. Folds(G, S, g)
  BY FoldsExist
<1>2. SumOver(g, S) = G[S]
  BY DEF SumOver, MapThenSumSet, MapThenFoldSet, Folds, Taken
<1> QED BY <1>1, <1>2

\* Nothing adds up to nothing; with one element more, the sum is that much more; and
\* the sum only depends on the terms.
LEMMA SumEmpty == \A g : SumOver(g, {}) = 0
<1> SUFFICES ASSUME NEW g PROVE SumOver(g, {}) = 0
  OBVIOUS
<1>1. IsFiniteSet({}) /\ Numbers(g, {})
  BY FS_EmptySet DEF Numbers
<1> QED BY <1>1, SumFolds, FoldsInt

\* Sums over a set agree when their terms do.
LEMMA SumSame ==
  ASSUME NEW S, IsFiniteSet(S), NEW g, Numbers(g, S), NEW h, \A x \in S : h[x] = g[x]
  PROVE  SumOver(h, S) = SumOver(g, S)
<1>1. Numbers(h, S)
  BY DEF Numbers
<1>2. PICK F : Folds(F, S, g) /\ SumOver(g, S) = F[S]
  BY SumFolds
<1>3. PICK G : Folds(G, S, h) /\ SumOver(h, S) = G[S]
  BY <1>1, SumFolds
<1>4. S \in SUBSET S
  OBVIOUS
<1>5. \A s \in SUBSET S : F[s] = G[s]
  BY <1>2, <1>3, <1>4, FoldsSame
<1> QED BY <1>2, <1>3, <1>4, <1>5

\* A sum with one more term.
LEMMA SumAdd ==
  ASSUME NEW S, IsFiniteSet(S), NEW x, x \notin S, NEW g, Numbers(g, S \cup {x})
  PROVE  /\ SumOver(g, S) \in Int /\ SumOver(g, S \cup {x}) \in Int
         /\ SumOver(g, S \cup {x}) = SumOver(g, S) + g[x]
<1> DEFINE U == S \cup {x}
<1>1. IsFiniteSet(U) /\ Numbers(g, U) /\ Numbers(g, S) /\ S \in SUBSET U /\ x \in U
      /\ S = U \ {x} /\ U \in SUBSET U
  BY FS_AddElement DEF Numbers
<1> HIDE DEF U
<1>2. PICK F : Folds(F, U, g) /\ SumOver(g, U) = F[U]
  BY <1>1, SumFolds
<1>3. PICK G : Folds(G, S, g) /\ SumOver(g, S) = G[S]
  BY <1>1, SumFolds
<1>4. \A s \in SUBSET S : F[s] = G[s]
  <2>1. \A y \in S : g[y] = g[y]
    OBVIOUS
  <2>2. IsFiniteSet(U) /\ Numbers(g, U) /\ Folds(F, U, g) /\ S \in SUBSET U /\ Folds(G, S, g)
    BY <1>1, <1>2, <1>3
  <2>3. ASSUME NEW h, h = g PROVE \A s \in SUBSET S : F[s] = G[s]
    <3>1. Folds(G, S, h) /\ \A y \in S : h[y] = g[y]
      BY <2>2, <2>3
    <3> HIDE <2>3
    <3> QED BY <2>2, <3>1, FoldsSame
  <2> QED BY <2>3
<1>5. F[U] = g[x] + F[S]
  BY <1>1, <1>2, FoldsAny
<1>6. F[S] \in Int /\ F[U] \in Int /\ g[x] \in Int
  BY <1>1, <1>2, FoldsInt DEF Numbers
<1>7. SumOver(g, S) = F[S]
  BY <1>3, <1>4
<1> QED BY <1>2, <1>5, <1>6, <1>7 DEF U

\* A sum of integers is one, and of naturals.
LEMMA SumInt ==
  ASSUME NEW S, IsFiniteSet(S), NEW g, Numbers(g, S)
  PROVE  /\ SumOver(g, S) \in Int
         /\ (\A x \in S : g[x] \in Nat) => SumOver(g, S) \in Nat
<1>1. SumOver(g, S) \in Int
  BY SumFolds, FoldsInt
<1> DEFINE P == {s \in SUBSET S : SumOver(g, s) \in Nat}
<1>2. ASSUME \A x \in S : g[x] \in Nat PROVE SumOver(g, S) \in Nat
  <2>1. {} \in P
    BY SumEmpty
  <2>2. ASSUME NEW s \in P, NEW x \in S \ s PROVE s \cup {x} \in P
    <3>1. s \in SUBSET S /\ SumOver(g, s) \in Nat
      OBVIOUS
    <3>2. IsFiniteSet(s) /\ Numbers(g, s \cup {x}) /\ s \cup {x} \in SUBSET S
      BY <3>1, FS_Subset DEF Numbers
    <3>3. SumOver(g, s \cup {x}) = SumOver(g, s) + g[x]
      BY <2>2, <3>2, SumAdd
    <3> QED BY <1>2, <3>1, <3>2, <3>3
  <2>3. P = SUBSET S
    <3>1. P \in SUBSET (SUBSET S)
      OBVIOUS
    <3> HIDE DEF P
    <3> QED BY <2>1, <2>2, <3>1, SubsetInd
  <2> QED BY <2>3
<1> QED BY <1>1, <1>2

\* A sum over other names for the same terms.
LEMMA SumRenamed ==
  ASSUME NEW S, IsFiniteSet(S), NEW g, NEW h, NEW b,
         \A x \in S : g[x] \in Int /\ h[b[x]] = g[x],
         \A x, y \in S : x # y => b[x] # b[y]
  PROVE  IsFiniteSet({b[x] : x \in S}) /\ SumOver(h, {b[x] : x \in S}) = SumOver(g, S)
<1> DEFINE Image(s) == {b[x] : x \in s}
           P == {s \in SUBSET S : IsFiniteSet(Image(s)) /\ SumOver(h, Image(s)) = SumOver(g, s)}
<1>1. {} \in P
  <2>1. Image({}) = {}
    OBVIOUS
  <2> HIDE DEF Image
  <2> QED BY <2>1, SumEmpty, FS_EmptySet
<1>2. ASSUME NEW s \in P, NEW x \in S \ s PROVE s \cup {x} \in P
  <2>1. s \in SUBSET S /\ IsFiniteSet(Image(s)) /\ SumOver(h, Image(s)) = SumOver(g, s)
    OBVIOUS
  <2>2. IsFiniteSet(s) /\ Numbers(g, s \cup {x}) /\ s \cup {x} \in SUBSET S
    BY <2>1, FS_Subset DEF Numbers
  <2>3. SumOver(g, s \cup {x}) = SumOver(g, s) + g[x]
    BY <1>2, <2>2, SumAdd
  <2>4. Image(s \cup {x}) = Image(s) \cup {b[x]} /\ b[x] \notin Image(s)
    BY <1>2, <2>1
  <2>5. Numbers(h, Image(s) \cup {b[x]}) /\ h[b[x]] = g[x]
    BY <1>2, <2>1 DEF Numbers
  <2> HIDE DEF Image
  <2>6. SumOver(h, Image(s) \cup {b[x]}) = SumOver(h, Image(s)) + h[b[x]]
    <3> DEFINE I == Image(s)
               y == b[x]
    <3>1. IsFiniteSet(I) /\ y \notin I /\ Numbers(h, I \cup {y})
      BY <2>1, <2>4, <2>5
    <3> HIDE DEF I, y
    <3>2. SumOver(h, I \cup {y}) = SumOver(h, I) + h[y]
      BY <3>1, SumAdd
    <3> QED BY <3>2 DEF I, y
  <2>7. IsFiniteSet(Image(s) \cup {b[x]})
    BY <2>1, FS_AddElement
  <2> QED BY <2>1, <2>2, <2>3, <2>4, <2>5, <2>6, <2>7
<1>3. P = SUBSET S
  <2>1. P \in SUBSET (SUBSET S)
    OBVIOUS
  <2> HIDE DEF P
  <2> QED BY <1>1, <1>2, <2>1, SubsetInd
<1> QED BY <1>3

\* A sum over two parts.
LEMMA SumParts ==
  ASSUME NEW S, IsFiniteSet(S), NEW T \in SUBSET S, NEW g, Numbers(g, S)
  PROVE  SumOver(g, S) = SumOver(g, T) + SumOver(g, S \ T)
<1> DEFINE R == S \ T
           P == {s \in SUBSET R : SumOver(g, T \cup s) = SumOver(g, T) + SumOver(g, s)}
<1>1. IsFiniteSet(R) /\ R \in SUBSET S /\ R \cup T = S /\ IsFiniteSet(T)
  BY FS_Subset
<1>2. SumOver(g, T) \in Int
  BY <1>1, SumInt DEF Numbers
<1>3. {} \in P
  <2>1. T \cup {} = T
    OBVIOUS
  <2> QED BY <1>2, <2>1, SumEmpty
<1>4. ASSUME NEW s \in P, NEW x \in R \ s PROVE s \cup {x} \in P
  <2>1. s \in SUBSET R /\ SumOver(g, T \cup s) = SumOver(g, T) + SumOver(g, s)
    OBVIOUS
  <2>2. /\ IsFiniteSet(s) /\ s \cup {x} \in SUBSET R /\ x \notin T \cup s
        /\ T \cup s \in SUBSET S /\ IsFiniteSet(T \cup s)
        /\ Numbers(g, s \cup {x}) /\ Numbers(g, (T \cup s) \cup {x}) /\ g[x] \in Int
    BY <1>1, <1>4, <2>1, FS_Subset DEF Numbers
  <2>3. SumOver(g, s \cup {x}) = SumOver(g, s) + g[x] /\ SumOver(g, s) \in Int
    BY <1>4, <2>2, SumAdd
  <2>4. SumOver(g, (T \cup s) \cup {x}) = SumOver(g, T \cup s) + g[x]
    BY <2>2, SumAdd
  <2>5. (T \cup s) \cup {x} = T \cup (s \cup {x})
    OBVIOUS
  <2>6. SumOver(g, T \cup (s \cup {x})) = SumOver(g, T) + SumOver(g, s \cup {x})
    <3> DEFINE a == SumOver(g, T)
               c == SumOver(g, s)
               d == SumOver(g, s \cup {x})
               e == SumOver(g, T \cup s)
    <3>1. a \in Int /\ c \in Int /\ g[x] \in Int /\ d = c + g[x] /\ e = a + c
      BY <1>2, <2>1, <2>2, <2>3
    <3>2. SumOver(g, T \cup (s \cup {x})) = e + g[x]
      BY <2>4, <2>5
    <3> HIDE DEF a, c, d, e
    <3>3. SumOver(g, T \cup (s \cup {x})) = a + d
      BY <3>1, <3>2
    <3> QED BY <3>3 DEF a, d
  <2> HIDE DEF R
  <2> QED BY <2>2, <2>6
<1>5. P = SUBSET R
  <2>1. P \in SUBSET (SUBSET R)
    OBVIOUS
  <2> HIDE DEF P, R
  <2> QED BY <1>1, <1>3, <1>4, <2>1, SubsetInd
<1> QED BY <1>1, <1>5

-----------------------------------------------------------------------------
(* The windows. *)

\* The slot written k + 1 pushes ago.
SlotBefore(pos, k, frames) == IF k < pos THEN pos - 1 - k ELSE pos - 1 - k + frames

\* The ring r holds the last frames of h, from the cursor backwards.
Holds(r, frames, h) ==
  /\ r.ring \in [Ring(frames) -> Nat] /\ r.pos \in Ring(frames)
  /\ r.len = IF Len(h) < frames THEN Len(h) ELSE frames
  /\ Len(h) < frames => r.pos = Len(h)
  /\ \A k \in Ring(frames) :
       k < Len(h) => r.ring[SlotBefore(r.pos, k, frames)] = h[Len(h) - k]

\* Each window holds the most recent frames heard, and all frames of its length once
\* there are enough of them: what is read is never of frames before a reset, nor of
\* fewer or other frames (RollingEnergy: push).
WindowsHold ==
  /\ Holds(momentary, BlockFrames, heard)
  /\ Holds(short_term, ShortFrames, heard)
  /\ Holds(integrated_block, BlockFrames, heard)

\* Nothing has been heard by an empty window.
LEMMA EmptyHolds ==
  ASSUME NEW frames \in Nat \ {0}
  PROVE  Holds(Empty(frames), frames, <<>>)
<1> DEFINE r == Empty(frames)
           h == <<>>
<1>1. /\ r.ring = [i \in Ring(frames) |-> 0] /\ r.pos = 0 /\ r.len = 0
  BY DEF Empty
<1>2. 0 \in Ring(frames) /\ Len(h) = 0
  BY DEF Ring
<1> HIDE DEF r, h
<1>3. \A k \in Ring(frames) : ~ (k < Len(h))
  BY <1>2 DEF Ring
<1>4. Holds(r, frames, h)
  BY <1>1, <1>2, <1>3 DEF Holds
<1> QED BY <1>4 DEF r, h

\* A push puts one frame in and lets the oldest go.
LEMMA PushHolds ==
  ASSUME NEW frames \in Nat \ {0}, NEW h \in Seq(Nat), NEW r, Holds(r, frames, h),
         NEW energy \in Nat, NEW slip
  PROVE  Holds(Push(r, frames, energy, slip), frames, Append(h, energy))
<1> DEFINE q == Push(r, frames, energy, slip)
           g == Append(h, energy)
           p == r.pos
           n == Len(h)
<1>1. /\ q.ring = [r.ring EXCEPT ![p] = energy]
      /\ q.pos = IF p + 1 = frames THEN 0 ELSE p + 1
      /\ q.len = IF r.len < frames THEN r.len + 1 ELSE r.len
  BY DEF Push, NextSlot
<1>2. n \in Nat /\ Len(g) = n + 1 /\ g[n + 1] = energy /\ \A i \in 1..n : g[i] = h[i]
  OBVIOUS
<1>3. p \in Int /\ 0 <= p /\ p < frames /\ r.ring \in [Ring(frames) -> Nat] /\ p \in Ring(frames)
  BY DEF Holds, Ring
<1>4. /\ r.len = IF n < frames THEN n ELSE frames
      /\ n < frames => p = n
  BY DEF Holds
<1>5. \A k \in Ring(frames) : k < n => r.ring[SlotBefore(p, k, frames)] = h[n - k]
  BY DEF Holds
<1> HIDE DEF q, g, p, n
<1>6. q.ring \in [Ring(frames) -> Nat]
  BY <1>1, <1>3
<1>7. q.pos \in Ring(frames)
  BY <1>1, <1>3 DEF Ring
<1>8. q.len = IF Len(g) < frames THEN Len(g) ELSE frames
  BY <1>1, <1>2, <1>4
<1>9. Len(g) < frames => q.pos = Len(g)
  BY <1>1, <1>2, <1>4
<1>10. ASSUME NEW k \in Ring(frames), k < Len(g)
       PROVE  q.ring[SlotBefore(q.pos, k, frames)] = g[Len(g) - k]
  <2>1. k \in Nat /\ k < frames /\ k <= n
    BY <1>2, <1>10 DEF Ring
  <2>2. CASE k = 0
    <3>1. SlotBefore(q.pos, k, frames) = p
      BY <1>1, <1>3, <2>2 DEF SlotBefore
    <3> QED BY <1>1, <1>2, <1>3, <2>2, <3>1
  <2>3. CASE k # 0
    <3>1. k - 1 \in Ring(frames) /\ k - 1 < n
      BY <1>2, <2>1, <2>3 DEF Ring
    <3>2. SlotBefore(q.pos, k, frames) = SlotBefore(p, k - 1, frames)
      BY <1>1, <1>3, <2>1, <2>3 DEF SlotBefore
    <3>3. SlotBefore(p, k - 1, frames) \in Ring(frames) /\ SlotBefore(p, k - 1, frames) # p
      BY <1>3, <2>1, <2>3 DEF SlotBefore, Ring
    <3>4. q.ring[SlotBefore(q.pos, k, frames)] = h[n - (k - 1)]
      BY <1>1, <1>3, <1>5, <3>1, <3>2, <3>3
    <3>5. Len(g) - k = n - (k - 1) /\ n - (k - 1) \in 1..n
      BY <1>2, <2>1, <2>3
    <3> QED BY <1>2, <3>4, <3>5
  <2> QED BY <2>2, <2>3
<1>11. Holds(q, frames, g)
  BY <1>6, <1>7, <1>8, <1>9, <1>10 DEF Holds
<1> QED BY <1>11 DEF q, g

-----------------------------------------------------------------------------
(* The schedule of the integrated blocks. *)

\* The quotient moves on exactly when the remainder is back at zero.
LEMMA RemainderStep ==
  ASSUME NEW a \in Nat, NEW b \in Nat \ {0}
  PROVE  (a + 1) \div b = (a \div b) + IF (a + 1) % b = 0 THEN 1 ELSE 0
<1>1. /\ a \div b \in Nat /\ b * (a \div b) <= a /\ a < b * (a \div b) + b
  BY Quotient
<1>2. /\ (a + 1) \div b \in Nat /\ b * ((a + 1) \div b) <= a + 1
      /\ a + 1 < b * ((a + 1) \div b) + b
  BY Quotient
<1>3. (a + 1) % b = (a + 1) - b * ((a + 1) \div b)
  BY Z3
<1> DEFINE q == a \div b
           p == (a + 1) \div b
           m == (a + 1) % b
<1> HIDE DEF q, p, m
<1>4. q \in Nat /\ b * q <= a /\ a < b * q + b
  BY <1>1 DEF q
<1>5. p \in Nat /\ b * p <= a + 1 /\ a + 1 < b * p + b /\ m = a + 1 - b * p
  BY <1>2, <1>3 DEF p, m
<1>6. b * q \in Nat /\ b * (q + 1) = b * q + b
  BY <1>4, Z3
<1>7. CASE a + 1 = b * q + b
  <2>1. p = q + 1
    <3>1. b * (q + 1) <= a + 1 /\ a + 1 < b * (q + 1) + b
      BY <1>6, <1>7
    <3> QED BY <1>4, <3>1, QuotientUnique DEF p
  <2>2. m = 0
    BY <1>5, <1>6, <1>7, <2>1
  <2> QED BY <2>1, <2>2 DEF p, q, m
<1>8. CASE a + 1 < b * q + b
  <2>1. p = q
    <3>1. b * q <= a + 1
      BY <1>4, <1>6
    <3> QED BY <1>4, <1>8, <3>1, QuotientUnique DEF p
  <2>2. m # 0
    BY <1>4, <1>5, <1>6, <2>1
  <2> QED BY <1>4, <2>1, <2>2 DEF p, q, m
<1> QED BY <1>4, <1>6, <1>7, <1>8

\* The number of blocks due is a number.
LEMMA DueIsInt == ASSUME NEW n \in Nat PROVE History!Due(n) \in Int
<1>1. CASE n < BlockFrames
  BY <1>1 DEF History!Due
<1>2. CASE ~ (n < BlockFrames)
  <2>1. n - BlockFrames \in Nat /\ HopFrames \in Nat \ {0}
    BY <1>2, LoudnessAssumption
  <2>2. (n - BlockFrames) \div HopFrames \in Nat
    BY <2>1, Quotient
  <2> QED BY <1>2, <2>2 DEF History!Due
<1> QED BY <1>1, <1>2

\* The smaller of two numbers.
LEMMA MinOfTwo ==
  ASSUME NEW a \in Int, NEW b \in Int
  PROVE  History!Min({a, b}) = IF a > b THEN b ELSE a
<1> DEFINE m == IF a > b THEN b ELSE a
<1>1. m \in {a, b} /\ \A y \in {a, b} : m <= y
  OBVIOUS
<1>2. ASSUME NEW x \in {a, b}, \A y \in {a, b} : x <= y PROVE x = m
  BY <1>2
<1> QED BY <1>1, <1>2 DEF History!Min

\* One more frame completes a block or none, as the code finds by the remainder.
LEMMA DueStep ==
  ASSUME NEW n \in Nat
  PROVE  History!Due(n + 1) = History!Due(n) + IF BlockDue(n + 1) THEN 1 ELSE 0
<1> DEFINE B == BlockFrames
           H == HopFrames
<1>1. B \in Nat \ {0} /\ H \in Nat \ {0}
  BY LoudnessAssumption
<1>2. CASE n + 1 < B
  BY <1>1, <1>2 DEF History!Due, BlockDue
<1>3. CASE n + 1 = B
  <2>1. (n + 1 - B) \div H = 0 /\ (n + 1 - B) % H = 0
    BY <1>1, <1>3, Z3
  <2> QED BY <1>1, <1>3, <2>1 DEF History!Due, BlockDue
<1>4. CASE n + 1 > B
  <2> DEFINE a == n - B
  <2>1. a \in Nat /\ n + 1 - B = a + 1 /\ ~ (n < B) /\ ~ (n + 1 < B) /\ n + 1 >= B
    BY <1>1, <1>4
  <2>2. (a + 1) \div H = (a \div H) + IF (a + 1) % H = 0 THEN 1 ELSE 0
    BY <1>1, <2>1, RemainderStep
  <2>3. a \div H \in Nat
    BY <1>1, <2>1, Quotient
  <2>4. History!Due(n + 1) = (a + 1) \div H + 1 /\ History!Due(n) = a \div H + 1
    <3>1. /\ History!Due(n + 1) = (n + 1 - B) \div H + 1
          /\ History!Due(n) = (n - B) \div H + 1
      BY <1>1, <2>1 DEF History!Due
    <3> QED BY <2>1, <3>1
  <2>5. BlockDue(n + 1) <=> (a + 1) % H = 0
    <3>1. BlockDue(n + 1) <=> (n + 1 - B) % H = 0
      BY <1>1, <2>1 DEF BlockDue
    <3> QED BY <2>1, <3>1
  <2> HIDE DEF a, B, H
  <2> QED BY <2>2, <2>3, <2>4, <2>5
<1> QED BY <1>1, <1>2, <1>3, <1>4

-----------------------------------------------------------------------------
(* What the windows and the blocks add up to. *)

\* What the assumptions say of the sizes, as the provers need it.
LEMMA Sizes ==
  /\ BlockFrames \in Nat \ {0} /\ ShortFrames \in Nat \ {0} /\ HopFrames \in Nat \ {0}
  /\ Capacity \in Nat \ {0} /\ AbsoluteGate \in Nat /\ RelativeGate \in Nat
  /\ RelativeGate >= 2 /\ Energies \subseteq Nat
  /\ MaxFrames \in Nat /\ MaxSlips \in Nat /\ MaxResets \in Nat
  BY LoudnessAssumption

\* The sum of the frames of h from first to last.
SumOf(h, first, last) == SumOver(h, first..last)

\* The first frame of the last ones that a window holds.
FirstOf(n, frames) == IF n < frames THEN 1 ELSE n - frames + 1

LastSum(h, frames) == SumOf(h, FirstOf(Len(h), frames), Len(h))

\* The sum that r keeps is the frames' up to s roundings, and theirs when just computed.
Summed(r, frames, h, s) ==
  /\ r \in Rolling(frames)
  /\ Off(r.sum, LastSum(h, frames)) <= s
  /\ r.updates_since_recompute = 0 => r.sum = LastSum(h, frames)

\* The sum of frames that have been heard.
LEMMA HeardSums ==
  ASSUME NEW h \in Seq(Nat), NEW a \in Int, NEW b \in Int, 1 <= a, b <= Len(h)
  PROVE  /\ IsFiniteSet(a..b) /\ Numbers(h, a..b) /\ (\A i \in a..b : h[i] \in Nat)
         /\ SumOf(h, a, b) \in Nat
<1>1. IsFiniteSet(a..b)
  BY FS_Interval
<1>2. \A i \in a..b : h[i] \in Nat
  OBVIOUS
<1>3. Numbers(h, a..b)
  BY <1>2 DEF Numbers
<1> QED BY <1>1, <1>2, <1>3, SumInt DEF SumOf

\* What comes later does not change it.
LEMMA SumStays ==
  ASSUME NEW h \in Seq(Nat), NEW e \in Nat, NEW a \in Int, NEW b \in Int,
         1 <= a, b <= Len(h)
  PROVE  SumOf(Append(h, e), a, b) = SumOf(h, a, b)
<1> DEFINE g == Append(h, e)
           S == a..b
<1>1. IsFiniteSet(S) /\ Numbers(h, S)
  BY HeardSums
<1>2. \A i \in S : g[i] = h[i]
  OBVIOUS
<1> HIDE DEF g, S
<1>3. SumOver(g, S) = SumOver(h, S)
  BY <1>1, <1>2, SumSame
<1> QED BY <1>3 DEF SumOf, S, g

\* One more frame at the end, or one less at the start.
LEMMA SumNext ==
  ASSUME NEW h \in Seq(Nat), NEW a \in Int, NEW b \in Int, 1 <= a, a <= b, b <= Len(h)
  PROVE  /\ SumOf(h, a, b) = SumOf(h, a, b - 1) + h[b]
         /\ SumOf(h, a, b) = SumOf(h, a + 1, b) + h[a]
<1>1. IsFiniteSet(a..b) /\ Numbers(h, a..b)
  BY HeardSums
<1>2. /\ a..(b - 1) \in SUBSET (a..b) /\ b \notin a..(b - 1) /\ (a..(b - 1)) \cup {b} = a..b
      /\ (a + 1)..b \in SUBSET (a..b) /\ a \notin (a + 1)..b /\ ((a + 1)..b) \cup {a} = a..b
  OBVIOUS
<1> DEFINE S == a..b
           T == a..(b - 1)
           U == (a + 1)..b
<1>3. IsFiniteSet(T) /\ IsFiniteSet(U)
  BY FS_Interval
<1> HIDE DEF S, T, U
<1>4. Numbers(h, T \cup {b}) /\ Numbers(h, U \cup {a})
  BY <1>1, <1>2 DEF S, T, U
<1>5. SumOver(h, T \cup {b}) = SumOver(h, T) + h[b]
  BY <1>2, <1>3, <1>4, SumAdd DEF T
<1>6. SumOver(h, U \cup {a}) = SumOver(h, U) + h[a]
  BY <1>2, <1>3, <1>4, SumAdd DEF U
<1> QED BY <1>2, <1>5, <1>6 DEF SumOf, T, U

\* The last frames add up to what they did, and what came, without what left.
LEMMA LastSumStep ==
  ASSUME NEW frames \in Nat \ {0}, NEW h \in Seq(Nat), NEW e \in Nat
  PROVE  /\ LastSum(h, frames) \in Nat
         /\ LastSum(Append(h, e), frames) \in Nat
         /\ Len(h) < frames => LastSum(Append(h, e), frames) = LastSum(h, frames) + e
         /\ Len(h) >= frames =>
              LastSum(Append(h, e), frames) = (LastSum(h, frames) + e) - h[Len(h) - (frames - 1)]
<1> DEFINE g == Append(h, e)
           n == Len(h)
           a == FirstOf(n, frames)
           c == FirstOf(n + 1, frames)
<1>1. g \in Seq(Nat) /\ Len(g) = n + 1 /\ g[n + 1] = e /\ n \in Nat
      /\ \A i \in 1..n : g[i] = h[i]
  OBVIOUS
<1>2. a \in Int /\ 1 <= a /\ a <= n + 1 /\ c \in Int /\ 1 <= c /\ c <= n + 1
  BY DEF FirstOf
<1>3. LastSum(h, frames) = SumOf(h, a, n) /\ LastSum(g, frames) = SumOf(g, c, n + 1)
  BY <1>1 DEF LastSum
<1>4. SumOf(h, a, n) \in Nat /\ SumOf(g, c, n + 1) \in Nat
  <2>1. SumOf(h, a, n) \in Nat
    BY <1>1, <1>2, HeardSums
  <2> HIDE DEF g, a, c, n
  <2>2. SumOf(g, c, n + 1) \in Nat
    BY <1>1, <1>2, HeardSums
  <2> QED BY <2>1, <2>2 DEF a, n
<1>5. SumOf(g, a, n) = SumOf(h, a, n)
  BY <1>1, <1>2, SumStays
<1>6. SumOf(g, a, n + 1) = SumOf(g, a, n) + e
  <2> HIDE DEF g, a, c, n
  <2>1. n + 1 \in Int /\ n + 1 <= Len(g) /\ n + 1 - 1 = n
    BY <1>1
  <2>2. SumOf(g, a, n + 1) = SumOf(g, a, n + 1 - 1) + g[n + 1]
    BY <1>1, <1>2, <2>1, SumNext
  <2> QED BY <1>1, <2>1, <2>2
<1>7. CASE n < frames
  <2>1. a = 1 /\ c = 1
    BY <1>1, <1>7 DEF FirstOf
  <2> HIDE DEF g, a, c, n
  <2> QED BY <1>1, <1>3, <1>4, <1>5, <1>6, <1>7, <2>1 DEF g, n
<1>8. CASE n >= frames
  <2>1. a = n - (frames - 1) /\ c = a + 1 /\ a <= n
    BY <1>1, <1>8 DEF FirstOf
  <2>2. g[a] = h[a] /\ h[a] \in Nat
    BY <1>1, <1>2, <2>1
  <2> HIDE DEF g, a, c, n
  <2>3. SumOf(g, a, n + 1) = SumOf(g, a + 1, n + 1) + g[a]
    <3>1. n + 1 \in Int /\ n + 1 <= Len(g) /\ a <= n + 1
      BY <1>1, <1>2
    <3> QED BY <1>1, <1>2, <3>1, SumNext
  <2>4. SumOf(g, c, n + 1) = (SumOf(h, a, n) + e) - h[a]
    BY <1>4, <1>5, <1>6, <2>1, <2>2, <2>3
  <2> QED BY <1>3, <1>4, <1>8, <2>1, <2>4, <1>1 DEF g, n
<1> QED BY <1>1, <1>7, <1>8

\* Computed afresh, the sum of the ring is that of the frames it holds.
LEMMA RingSums ==
  ASSUME NEW frames \in Nat \ {0}, NEW h \in Seq(Nat), NEW r, Holds(r, frames, h)
  PROVE  RingSum(r.ring, r.len) = LastSum(h, frames)
<1> DEFINE n == Len(h)
           a == FirstOf(n, frames)
           S == a..n
           b == [i \in S |-> SlotBefore(r.pos, n - i, frames)]
           ring == r.ring
           p == r.pos
<1>1. /\ n \in Nat /\ a \in Int /\ 1 <= a /\ a <= n + 1
      /\ n < frames => a = 1
      /\ n >= frames => a = n - frames + 1
  BY DEF FirstOf
<1>2. /\ p \in Int /\ 0 <= p /\ p < frames
      /\ n < frames => p = n
      /\ r.len = IF n < frames THEN n ELSE frames
      /\ \A k \in Ring(frames) : k < n => ring[SlotBefore(p, k, frames)] = h[n - k]
  BY DEF Holds, Ring
<1>3. \A i \in S : b[i] = SlotBefore(p, n - i, frames)
  OBVIOUS
<1>4. IsFiniteSet(S) /\ \A i \in S : h[i] \in Int
  BY <1>1, HeardSums DEF Numbers
<1>5. LastSum(h, frames) = SumOver(h, S)
  BY DEF LastSum, SumOf
<1> HIDE DEF n, a, b, ring, p
<1>6. ASSUME NEW i \in S
      PROVE  n - i \in Ring(frames) /\ n - i < n /\ n - (n - i) = i
  BY <1>1 DEF Ring
<1>7. \A i \in S : ring[b[i]] = h[i]
  BY <1>2, <1>3, <1>6
<1>8. ASSUME NEW i \in S, NEW j \in S, i # j PROVE b[i] # b[j]
  <2>1. n - i \in Int /\ 0 <= n - i /\ n - i < frames /\ n - j \in Int /\ 0 <= n - j
        /\ n - j < frames /\ n - i # n - j
    BY <1>1, <1>6, <1>8 DEF Ring
  <2> DEFINE k == n - i
             l == n - j
  <2> HIDE DEF k, l
  <2>2. SlotBefore(p, k, frames) # SlotBefore(p, l, frames)
    BY <1>2, <2>1 DEF SlotBefore, k, l
  <2> QED BY <1>3, <2>2 DEF k, l
<1>9. {b[i] : i \in S} = 0..(r.len - 1)
  <2>1. ASSUME NEW i \in S PROVE b[i] \in 0..(r.len - 1)
    <3> DEFINE k == n - i
    <3>1. k \in Int /\ 0 <= k /\ k < frames /\ k < n
      BY <1>1, <1>6 DEF Ring
    <3>2. b[i] = SlotBefore(p, k, frames)
      BY <1>3
    <3> HIDE DEF k
    <3> QED BY <1>1, <1>2, <3>1, <3>2 DEF SlotBefore
  <2>2. ASSUME NEW c \in 0..(r.len - 1) PROVE \E i \in S : b[i] = c
    <3> DEFINE k == IF c < p THEN p - 1 - c ELSE (p - 1 - c) + frames
    <3>1. /\ k \in Int /\ 0 <= k /\ k < frames /\ k < n /\ SlotBefore(p, k, frames) = c
      BY <1>1, <1>2 DEF SlotBefore
    <3>2. n - k \in S /\ n - (n - k) = k
      BY <1>1, <3>1
    <3>3. b[n - k] = SlotBefore(p, k, frames)
      BY <1>3, <3>2
    <3> QED BY <3>1, <3>2, <3>3
  <2> HIDE DEF S
  <2> QED BY <2>1, <2>2
<1>10. SumOver(ring, {b[i] : i \in S}) = SumOver(h, S)
  <2> HIDE DEF S
  <2>1. \A i \in S : h[i] \in Int /\ ring[b[i]] = h[i]
    BY <1>4, <1>7
  <2>2. \A i, j \in S : i # j => b[i] # b[j]
    BY <1>8
  <2> QED BY <1>4, <2>1, <2>2, SumRenamed
<1>11. RingSum(r.ring, r.len) = SumOver(ring, 0..(r.len - 1))
  BY DEF RingSum, SumOver, ring
<1> QED BY <1>5, <1>9, <1>10, <1>11

\* A push keeps the sum to one rounding more.
LEMMA PushSummed ==
  ASSUME NEW frames \in Nat \ {0}, NEW h \in Seq(Nat), NEW r, Holds(r, frames, h),
         NEW s \in Nat, Summed(r, frames, h, s), NEW e \in Nat, NEW slip \in {-1, 0, 1},
         NEW t \in Nat, s + Spent(slip) <= t
  PROVE  Summed(Push(r, frames, e, slip), frames, Append(h, e), t)
<1> DEFINE q == Push(r, frames, e, slip)
           g == Append(h, e)
           n == Len(h)
           u == r.updates_since_recompute + 1
           l == Leaving(r, frames)
           old == LastSum(h, frames)
           last == LastSum(g, frames)
<1>1. /\ r.sum \in Int /\ u \in Nat \ {0} /\ u <= frames /\ r.len \in 0..frames
      /\ r.pos \in Ring(frames) /\ r.ring \in [Ring(frames) -> Nat]
      /\ Off(r.sum, old) <= s
  <2>1. r \in Rolling(frames) /\ Off(r.sum, old) <= s
    BY DEF Summed
  <2>2. /\ r.sum \in Int /\ r.updates_since_recompute \in Ring(frames) /\ r.len \in 0..frames
        /\ r.pos \in Ring(frames) /\ r.ring \in [Ring(frames) -> Nat]
    BY <2>1 DEF Rolling
  <2>3. u \in Nat \ {0} /\ u <= frames
    <3> DEFINE x == r.updates_since_recompute
    <3>1. x \in 0..(frames - 1)
      BY <2>2 DEF Ring
    <3> HIDE DEF x
    <3>2. x + 1 \in Nat \ {0} /\ x + 1 <= frames
      BY <3>1
    <3> QED BY <3>2 DEF x
  <2> HIDE DEF u, old
  <2> QED BY <2>1, <2>2, <2>3
<1>2. Holds(q, frames, g) /\ g \in Seq(Nat) /\ n \in Nat
  BY PushHolds
<1>3. /\ old \in Nat /\ last \in Nat
      /\ n < frames => last = old + e
      /\ n >= frames => last = (old + e) - h[n - (frames - 1)]
  BY LastSumStep
<1>4. l = IF n < frames THEN 0 ELSE h[n - (frames - 1)]
  <2>1. r.len = (IF n < frames THEN n ELSE frames)
    BY DEF Holds
  <2>2. CASE n < frames
    BY <2>1, <2>2 DEF Leaving
  <2>3. CASE ~ (n < frames)
    <3>1. frames - 1 \in Ring(frames) /\ frames - 1 < n /\ r.pos \in Int /\ 0 <= r.pos
          /\ r.pos < frames
      BY <1>1, <1>2, <2>3 DEF Ring
    <3>2. SlotBefore(r.pos, frames - 1, frames) = r.pos
      BY <3>1 DEF SlotBefore
    <3>3. r.ring[SlotBefore(r.pos, frames - 1, frames)] = h[n - (frames - 1)]
      BY <3>1 DEF Holds
    <3>4. l = r.ring[r.pos]
      BY <2>1, <2>3 DEF Leaving
    <3> QED BY <2>3, <3>2, <3>3, <3>4
  <2> QED BY <2>2, <2>3
<1>5. l \in Int
  BY <1>1 DEF Leaving
<1>6. last = (old + e) - l
  <2> HIDE DEF last, old, l, n
  <2> QED BY <1>2, <1>3, <1>4
<1>7. /\ q.sum = IF u >= frames THEN RingSum(q.ring, q.len) ELSE ((r.sum + e) - l) + slip
      /\ q.updates_since_recompute = IF u >= frames THEN 0 ELSE u
  <2>1. /\ q.sum = IF u >= frames THEN RingSum(q.ring, q.len) ELSE r.sum + e - l + slip
        /\ q.updates_since_recompute = IF u >= frames THEN 0 ELSE u
    BY DEF Push, Recomputes
  <2>2. r.sum + e - l + slip = ((r.sum + e) - l) + slip
    <3> HIDE DEF l
    <3> QED BY <1>1, <1>5
  <2> QED BY <2>1, <2>2
<1>8. RingSum(q.ring, q.len) = last
  BY <1>2, RingSums
<1>9. q.sum \in Int /\ Off(q.sum, last) <= t /\ (q.updates_since_recompute = 0 => q.sum = last)
  <2> HIDE DEF q, last, old, l, n, u
  <2>1. CASE u >= frames
    BY <1>3, <1>7, <1>8, <2>1 DEF Off
  <2>2. CASE ~ (u >= frames)
    <3>1. q.sum = ((r.sum + e) - l) + slip /\ q.updates_since_recompute # 0
      BY <1>1, <1>7, <2>2
    <3>2. Spent(slip) = IF slip = 0 THEN 0 ELSE 1
      BY DEF Spent
    <3>3. q.sum \in Int
      BY <1>1, <1>5, <3>1
    <3> DEFINE rs == r.sum
               qs == q.sum
    <3>4. rs \in Int /\ qs \in Int /\ qs = ((rs + e) - l) + slip /\ Off(rs, old) <= s
      BY <1>1, <3>1, <3>3
    <3> HIDE DEF rs, qs
    <3>5. Off(qs, last) <= t
      BY <1>3, <1>5, <1>6, <3>2, <3>4 DEF Off
    <3> QED BY <3>1, <3>3, <3>5 DEF qs
  <2> QED BY <2>1, <2>2
<1>10. q \in Rolling(frames)
  <2>1. q = [ring |-> q.ring, pos |-> q.pos, len |-> q.len, sum |-> q.sum,
             updates_since_recompute |-> q.updates_since_recompute]
    BY DEF Push
  <2>2. q.ring \in [Ring(frames) -> Nat] /\ q.pos \in Ring(frames)
    BY <1>2 DEF Holds
  <2>3. q.len \in 0..frames
    <3>1. q.len = IF Len(g) < frames THEN Len(g) ELSE frames
      BY <1>2 DEF Holds
    <3>2. Len(g) \in Nat
      BY <1>2
    <3> HIDE DEF q, g
    <3> QED BY <3>1, <3>2
  <2>4. q.updates_since_recompute \in Ring(frames)
    <3> HIDE DEF q, u
    <3> QED BY <1>1, <1>7 DEF Ring
  <2> HIDE DEF q
  <2> QED BY <1>9, <2>1, <2>2, <2>3, <2>4 DEF Rolling
<1> HIDE DEF q, g, last
<1>11. Summed(q, frames, g, t)
  BY <1>9, <1>10 DEF Summed, last
<1> QED BY <1>11 DEF q, g

\* Nothing adds up in an empty window.
LEMMA EmptySummed ==
  ASSUME NEW frames \in Nat \ {0}
  PROVE  Summed(Empty(frames), frames, <<>>, 0)
<1>1. LastSum(<<>>, frames) = 0
  <2>1. 1..0 = {} /\ Len(<<>>) = 0 /\ FirstOf(0, frames) = 1
    BY DEF FirstOf
  <2> QED BY <2>1, SumEmpty DEF LastSum, SumOf
<1>2. Empty(frames) \in Rolling(frames)
  BY DEF Empty, Rolling, Ring
<1>3. Empty(frames).sum = 0 /\ Off(0, 0) = 0
  BY DEF Empty, Off
<1> QED BY <1>1, <1>2, <1>3 DEF Summed

-----------------------------------------------------------------------------
(* The invariant. *)

\* Each window's sum is that of the frames it holds, up to the roundings.
WindowsSum ==
  /\ Summed(momentary, BlockFrames, heard, slips)
  /\ Summed(short_term, ShortFrames, heard, slips)
  /\ Summed(integrated_block, BlockFrames, heard, slips)

\* The blocks kept when n frames have been heard.
Stored(n) == IF History!Due(n) > Capacity THEN Capacity ELSE History!Due(n)

\* The frame before the first of block j.
Before(j) == (j - 1) * HopFrames

BlockOf(h, j) == SumOf(h, Before(j) + 1, Before(j) + BlockFrames)

\* As many blocks are kept as were due and fit, each of its own frames.
BlocksKept ==
  /\ Len(integrated_blocks) = Stored(total_frames)
  /\ \A j \in 1..Len(integrated_blocks) :
       /\ Before(j) + BlockFrames <= Len(heard)
       /\ Off(integrated_blocks[j], BlockOf(heard, j)) <= slips

IInv == TypeOK /\ total_frames = Len(heard) /\ WindowsHold /\ WindowsSum /\ BlocksKept

\* When a block is due, it is the last frames heard.
LEMMA DueAt ==
  ASSUME NEW n \in Nat, BlockDue(n)
  PROVE  /\ History!Due(n) \in Nat \ {0}
         /\ Before(History!Due(n)) + BlockFrames = n
<1> DEFINE a == n - BlockFrames
           q == a \div HopFrames
<1>1. a \in Nat /\ n >= BlockFrames /\ a % HopFrames = 0 /\ HopFrames \in Nat \ {0}
      /\ BlockFrames \in Nat \ {0}
  BY Sizes DEF BlockDue
<1>2. q \in Nat /\ HopFrames * q = a
  <2>1. \A x \in Nat, b \in Nat \ {0} : x % b = 0 => b * (x \div b) = x
    BY Z3
  <2>2. q \in Nat
    BY <1>1, Quotient
  <2> QED BY <1>1, <2>1, <2>2
<1>3. History!Due(n) = q + 1
  BY <1>1 DEF History!Due
<1> HIDE DEF q
<1>4. Before(q + 1) = HopFrames * q
  BY <1>1, <1>2 DEF Before
<1>5. a + BlockFrames = n
  BY <1>1
<1> QED BY <1>1, <1>2, <1>3, <1>4, <1>5

\* The frames before a block are a natural number of them.
LEMMA BeforeIsNat ==
  ASSUME NEW j \in Nat \ {0}
  PROVE  Before(j) \in Nat
<1>1. j - 1 \in Nat /\ HopFrames \in Nat
  BY Sizes
<1> QED BY <1>1, TimesMono DEF Before

\* The frames heard are numbers, and so are the blocks.
LEMMA Types ==
  ASSUME TypeOK
  PROVE  /\ heard \in Seq(Nat) /\ total_frames \in Nat /\ slips \in Nat
         /\ integrated_blocks \in Seq(Nat) /\ Len(integrated_blocks) \in Nat
         /\ Len(integrated_blocks) <= Capacity /\ integrated_overflowed \in BOOLEAN
<1>1. heard \in Seq(Energies) /\ integrated_blocks \in Seq(Nat)
      /\ Len(integrated_blocks) <= Capacity /\ integrated_overflowed \in BOOLEAN
  BY DEF TypeOK
<1>2. total_frames \in 0..MaxFrames /\ slips \in 0..MaxSlips
  BY DEF TypeOK
<1>3. heard \in Seq(Nat)
  <2> DEFINE n == Len(heard)
  <2>1. n \in Nat /\ heard \in [1..n -> Energies]
    BY <1>1
  <2> HIDE DEF n
  <2>2. heard \in [1..n -> Nat]
    BY <2>1, Sizes
  <2> QED BY <2>1, <2>2
<1>4. total_frames \in Nat /\ slips \in Nat
  BY <1>2, Sizes
<1>5. Len(integrated_blocks) \in Nat
  BY <1>1
<1> QED BY <1>1, <1>3, <1>4, <1>5

\* A block stays what it is while more is heard, and roundings only grow.
LEMMA BlocksStay ==
  ASSUME TypeOK, BlocksKept, NEW e \in Nat, NEW t \in Nat, slips <= t,
         NEW j \in 1..Len(integrated_blocks)
  PROVE  /\ Before(j) + BlockFrames <= Len(Append(heard, e))
         /\ Off(integrated_blocks[j], BlockOf(Append(heard, e), j)) <= t
<1>1. heard \in Seq(Nat) /\ slips \in Nat /\ integrated_blocks[j] \in Nat
  BY Types
<1>2. j \in Nat \ {0} /\ Before(j) + BlockFrames <= Len(heard)
      /\ Off(integrated_blocks[j], BlockOf(heard, j)) <= slips
  BY <1>1 DEF BlocksKept
<1>3. Before(j) \in Nat /\ BlockFrames \in Nat \ {0}
  BY <1>2, BeforeIsNat, Sizes
<1>4. SumOf(Append(heard, e), Before(j) + 1, Before(j) + BlockFrames) =
        SumOf(heard, Before(j) + 1, Before(j) + BlockFrames)
  BY <1>1, <1>2, <1>3, SumStays
<1>5. BlockOf(Append(heard, e), j) = BlockOf(heard, j)
  BY <1>4 DEF BlockOf
<1>6. BlockOf(heard, j) \in Nat
  BY <1>1, <1>2, <1>3, HeardSums DEF BlockOf
<1>7. Len(Append(heard, e)) = Len(heard) + 1 /\ Len(heard) \in Nat
  BY <1>1
<1> DEFINE x == integrated_blocks[j]
           y == BlockOf(heard, j)
<1>8. x \in Nat /\ y \in Nat /\ Off(x, y) <= slips /\ BlockOf(Append(heard, e), j) = y
  BY <1>1, <1>2, <1>5, <1>6
<1> HIDE DEF x, y
<1>9. Off(x, y) <= t
  BY <1>1, <1>8 DEF Off
<1>10. Before(j) + BlockFrames <= Len(Append(heard, e))
  BY <1>2, <1>3, <1>7
<1> QED BY <1>8, <1>9, <1>10 DEF x

\* What is stored, or not, after one more frame.
LEMMA StoreKeeps ==
  ASSUME TypeOK, total_frames = Len(heard), BlocksKept, NEW e \in Nat,
         heard' = Append(heard, e), total_frames' = total_frames + 1,
         slips' \in Nat, slips <= slips',
         Summed(integrated_block', BlockFrames, heard', slips'),
         IF BlockDue(total_frames + 1) THEN StoreBlock(integrated_block')
         ELSE UNCHANGED <<integrated_blocks, integrated_overflowed>>
  PROVE  /\ BlocksKept'
         /\ integrated_blocks' \in Seq(Nat) /\ Len(integrated_blocks') <= Capacity
         /\ integrated_overflowed' \in BOOLEAN
<1> DEFINE n == total_frames
           m == Len(integrated_blocks)
<1>1. /\ heard \in Seq(Nat) /\ n \in Nat /\ m \in Nat /\ integrated_blocks \in Seq(Nat)
      /\ m <= Capacity /\ Capacity \in Nat \ {0} /\ BlockFrames \in Nat \ {0}
      /\ integrated_overflowed \in BOOLEAN
  BY Types, Sizes
<1>2. History!Due(n) \in Int /\ m = Stored(n)
  BY <1>1, DueIsInt DEF BlocksKept
<1>3. History!Due(n + 1) = History!Due(n) + IF BlockDue(n + 1) THEN 1 ELSE 0
  BY <1>1, DueStep
<1>4. Len(heard') = n + 1
  BY <1>1
<1>5. ASSUME NEW j \in 1..m
      PROVE  /\ Before(j) + BlockFrames <= Len(heard')
             /\ Off(integrated_blocks[j], BlockOf(heard', j)) <= slips'
  BY BlocksStay
<1>6. CASE ~ BlockDue(n + 1)
  <2>1. integrated_blocks' = integrated_blocks /\ integrated_overflowed' = integrated_overflowed
    BY <1>6
  <2>2. Stored(n + 1) = Stored(n)
    BY <1>2, <1>3, <1>6 DEF Stored
  <2> HIDE DEF n
  <2> QED BY <1>1, <1>2, <1>5, <2>1, <2>2 DEF BlocksKept, n
<1>7. CASE BlockDue(n + 1) /\ ~ HasRoom
  <2>1. integrated_blocks' = integrated_blocks /\ integrated_overflowed' = TRUE
    BY <1>7 DEF StoreBlock
  <2>2. Stored(n + 1) = Stored(n)
    <3>1. ~ (m < Capacity)
      BY <1>7 DEF HasRoom
    <3> HIDE DEF n, m
    <3> QED BY <1>1, <1>2, <1>3, <1>7, <3>1 DEF Stored
  <2> HIDE DEF n
  <2> QED BY <1>1, <1>2, <1>5, <2>1, <2>2 DEF BlocksKept, n
<1>8. CASE BlockDue(n + 1) /\ HasRoom
  <2> DEFINE x == CorrectedSum(integrated_block')
             j == m + 1
  <2>1. integrated_blocks' = Append(integrated_blocks, x)
        /\ integrated_overflowed' = (integrated_overflowed \/ FALSE)
    BY <1>8 DEF StoreBlock
  <2>2. j = History!Due(n + 1) /\ j \in Nat \ {0} /\ Before(j) + BlockFrames = n + 1
        /\ j <= Capacity /\ Stored(n + 1) = j
    <3>1. m < Capacity
      BY <1>8 DEF HasRoom
    <3>2. m = History!Due(n)
      <4> HIDE DEF n, m
      <4> QED BY <1>1, <1>2, <3>1 DEF Stored
    <3>3. j = History!Due(n + 1)
      BY <1>1, <1>2, <1>3, <1>8, <3>2
    <3>4. n + 1 \in Nat /\ Before(History!Due(n + 1)) + BlockFrames = n + 1
      BY <1>1, <1>8, DueAt
    <3> HIDE DEF n, m
    <3> QED BY <1>1, <3>1, <3>3, <3>4 DEF Stored
  <2>3. integrated_block'.sum \in Int /\ Off(integrated_block'.sum, LastSum(heard', BlockFrames)) <= slips'
    BY DEF Summed, Rolling
  <2>4. LastSum(heard', BlockFrames) = BlockOf(heard', j)
    <3>1. Before(j) \in Nat
      BY <2>2, BeforeIsNat
    <3>2. FirstOf(n + 1, BlockFrames) = Before(j) + 1
      <4> DEFINE k == Before(j)
      <4>1. k \in Nat /\ k + BlockFrames = n + 1 /\ n \in Nat /\ BlockFrames \in Nat \ {0}
        BY <1>1, <2>2, <3>1
      <4> HIDE DEF n, k
      <4>2. FirstOf(n + 1, BlockFrames) = k + 1
        BY <4>1 DEF FirstOf
      <4> QED BY <4>2 DEF k
    <3> QED BY <1>4, <2>2, <3>2 DEF LastSum, BlockOf
  <2>5. LastSum(heard', BlockFrames) \in Nat
    BY <1>1, LastSumStep
  <2>6. x \in Nat /\ Off(x, BlockOf(heard', j)) <= slips'
    <3> DEFINE s == integrated_block'.sum
               y == LastSum(heard', BlockFrames)
    <3>1. s \in Int /\ y \in Nat /\ Off(s, y) <= slips' /\ x = IF s < 0 THEN 0 ELSE s
      BY <2>3, <2>5 DEF CorrectedSum
    <3> HIDE DEF s, y, x, j
    <3>2. x \in Nat /\ Off(x, y) <= slips'
      BY <3>1 DEF Off
    <3> QED BY <2>4, <3>2 DEF y
  <2> HIDE DEF x, n
  <2>7. integrated_blocks' \in Seq(Nat) /\ Len(integrated_blocks') = j
        /\ integrated_blocks'[j] = x /\ \A i \in 1..m : integrated_blocks'[i] = integrated_blocks[i]
    BY <1>1, <2>1, <2>6
  <2>8. ASSUME NEW i \in 1..Len(integrated_blocks')
        PROVE  /\ Before(i) + BlockFrames <= Len(heard')
               /\ Off(integrated_blocks'[i], BlockOf(heard', i)) <= slips'
    <3>1. CASE i = j
      <4>1. n + 1 \in Nat
        BY <1>1
      <4> HIDE DEF j
      <4> QED BY <1>4, <2>2, <2>6, <2>7, <3>1, <4>1
    <3>2. CASE i # j
      <4>1. i \in 1..m
        BY <1>1, <2>7, <3>2
      <4> QED BY <1>5, <2>7, <4>1
    <3> QED BY <3>1, <3>2
  <2>9. integrated_overflowed' \in BOOLEAN
    BY <1>1, <2>1
  <2>10. Len(integrated_blocks') = Stored(total_frames') /\ Len(integrated_blocks') <= Capacity
    BY <2>2, <2>7 DEF n
  <2>11. BlocksKept'
    BY <2>8, <2>10 DEF BlocksKept
  <2> QED BY <2>7, <2>9, <2>10, <2>11
<1> QED BY <1>6, <1>7, <1>8


\* The invariant holds initially.
LEMMA InitIInv == Init => IInv
<1> SUFFICES ASSUME Init PROVE IInv
  OBVIOUS
<1> USE DEF Init
<1>1. WindowsHold
  BY EmptyHolds, Sizes DEF WindowsHold
<1>2. WindowsSum
  BY EmptySummed, Sizes DEF WindowsSum
<1>3. heard \in Seq(Energies) /\ Len(heard) = 0 /\ integrated_blocks \in Seq(Nat)
      /\ Len(integrated_blocks) = 0
  OBVIOUS
<1>4. TypeOK
  <2>1. momentary \in Rolling(BlockFrames) /\ short_term \in Rolling(ShortFrames)
        /\ integrated_block \in Rolling(BlockFrames)
    BY <1>2 DEF WindowsSum, Summed
  <2>2. /\ total_frames \in 0..MaxFrames /\ slips \in 0..MaxSlips /\ resets \in 0..MaxResets
        /\ Len(integrated_blocks) <= Capacity /\ integrated_overflowed \in BOOLEAN
    <3>1. total_frames = 0 /\ slips = 0 /\ resets = 0 /\ integrated_overflowed = FALSE
      OBVIOUS
    <3>2. 0 \in 0..MaxFrames /\ 0 \in 0..MaxSlips /\ 0 \in 0..MaxResets /\ 0 <= Capacity
      BY Sizes
    <3> QED BY <1>3, <3>1, <3>2
  <2> QED BY <1>3, <2>1, <2>2 DEF TypeOK
<1>5. BlocksKept
  <2>1. History!Due(0) = 0
    BY Sizes DEF History!Due
  <2>2. Stored(0) = 0
    BY <2>1, Sizes DEF Stored
  <2> QED BY <1>3, <2>2 DEF BlocksKept
<1> QED BY <1>1, <1>2, <1>3, <1>4, <1>5 DEF IInv

\* A reset keeps the invariant.
LEMMA ResetIInv == IInv /\ Reset => IInv'
<1> SUFFICES ASSUME IInv, Reset PROVE IInv'
  OBVIOUS
<1> USE DEF Reset, ResetWindows
<1>1. WindowsHold'
  BY EmptyHolds, Sizes DEF WindowsHold
<1>2. WindowsSum'
  BY EmptySummed, Sizes DEF WindowsSum
<1>3. heard' \in Seq(Energies) /\ Len(heard') = 0 /\ integrated_blocks' \in Seq(Nat)
      /\ Len(integrated_blocks') = 0
  OBVIOUS
<1>4. resets' \in 0..MaxResets
  <2>1. resets \in 0..MaxResets /\ resets < MaxResets /\ resets' = resets + 1
    BY DEF IInv, TypeOK
  <2> QED BY <2>1, Sizes
<1>5. TypeOK'
  <2>1. momentary' \in Rolling(BlockFrames) /\ short_term' \in Rolling(ShortFrames)
        /\ integrated_block' \in Rolling(BlockFrames)
    BY <1>2 DEF WindowsSum, Summed
  <2>2. /\ total_frames' \in 0..MaxFrames /\ slips' \in 0..MaxSlips
        /\ Len(integrated_blocks') <= Capacity /\ integrated_overflowed' \in BOOLEAN
    <3>1. total_frames' = 0 /\ slips' = 0 /\ integrated_overflowed' = FALSE
      OBVIOUS
    <3>2. 0 \in 0..MaxFrames /\ 0 \in 0..MaxSlips /\ 0 <= Capacity
      BY Sizes
    <3> QED BY <1>3, <3>1, <3>2
  <2> QED BY <1>3, <1>4, <2>1, <2>2 DEF TypeOK
<1>6. BlocksKept'
  <2>1. History!Due(0) = 0
    BY Sizes DEF History!Due
  <2>2. Stored(0) = 0
    BY <2>1, Sizes DEF Stored
  <2> QED BY <1>3, <2>2 DEF BlocksKept
<1> QED BY <1>1, <1>2, <1>3, <1>5, <1>6 DEF IInv

\* A frame of observe keeps the invariant.
LEMMA ObserveIInv ==
  ASSUME IInv, NEW energy \in Energies, Observe(energy)
  PROVE  IInv'
<1>1. PICK slip \in Slips(momentary, BlockFrames, energy),
           short_slip \in Slips(short_term, ShortFrames, energy) :
        /\ slips + Spent(slip) + Spent(short_slip) <= MaxSlips
        /\ PushEnergy(energy, slip, short_slip)
  BY DEF Observe
<1>2. slip \in {-1, 0, 1} /\ short_slip \in {-1, 0, 1}
  BY DEF Slips
<1>3. /\ energy \in Nat /\ heard \in Seq(Nat) /\ heard' = Append(heard, energy)
      /\ total_frames < MaxFrames /\ resets' = resets /\ total_frames = Len(heard)
  BY Sizes, Types DEF Observe, IInv
<1>4. /\ slips \in Nat /\ slips' \in Nat /\ slips' <= MaxSlips /\ slips <= slips'
      /\ slips + Spent(slip) <= slips' /\ slips + Spent(short_slip) <= slips'
  <2>1. slips \in Nat /\ MaxSlips \in Nat
    BY Types, Sizes DEF IInv
  <2>2. Spent(slip) \in {0, 1} /\ Spent(short_slip) \in {0, 1}
    BY DEF Spent
  <2>3. slips' = slips + Spent(slip) + Spent(short_slip)
    BY <1>1 DEF PushEnergy
  <2> QED BY <1>1, <2>1, <2>2, <2>3
<1>5. /\ momentary' = Push(momentary, BlockFrames, energy, slip)
      /\ short_term' = Push(short_term, ShortFrames, energy, short_slip)
      /\ integrated_block' = Push(integrated_block, BlockFrames, energy, slip)
      /\ total_frames' = total_frames + 1
  BY <1>1 DEF PushEnergy
<1>6. WindowsHold'
  BY <1>3, <1>5, PushHolds, Sizes DEF IInv, WindowsHold
<1>7. WindowsSum'
  <2>1. Holds(momentary, BlockFrames, heard) /\ Summed(momentary, BlockFrames, heard, slips)
    BY DEF IInv, WindowsHold, WindowsSum
  <2>2. Holds(short_term, ShortFrames, heard) /\ Summed(short_term, ShortFrames, heard, slips)
    BY DEF IInv, WindowsHold, WindowsSum
  <2>3. /\ Holds(integrated_block, BlockFrames, heard)
        /\ Summed(integrated_block, BlockFrames, heard, slips)
    BY DEF IInv, WindowsHold, WindowsSum
  <2>4. Summed(momentary', BlockFrames, heard', slips')
    BY <1>2, <1>3, <1>4, <1>5, <2>1, PushSummed, Sizes
  <2>5. Summed(short_term', ShortFrames, heard', slips')
    BY <1>2, <1>3, <1>4, <1>5, <2>2, PushSummed, Sizes
  <2>6. Summed(integrated_block', BlockFrames, heard', slips')
    BY <1>2, <1>3, <1>4, <1>5, <2>3, PushSummed, Sizes
  <2> QED BY <2>4, <2>5, <2>6 DEF WindowsSum
<1>8. /\ BlocksKept' /\ integrated_blocks' \in Seq(Nat)
      /\ Len(integrated_blocks') <= Capacity /\ integrated_overflowed' \in BOOLEAN
  <2>1. IF BlockDue(total_frames + 1) THEN StoreBlock(integrated_block')
        ELSE UNCHANGED <<integrated_blocks, integrated_overflowed>>
    BY <1>1 DEF PushEnergy
  <2>2. TypeOK /\ BlocksKept /\ Summed(integrated_block', BlockFrames, heard', slips')
    BY <1>7 DEF IInv, WindowsSum
  <2> QED BY <1>3, <1>4, <1>5, <2>1, <2>2, StoreKeeps
<1>9. heard' \in Seq(Energies) /\ total_frames' = Len(heard') /\ total_frames' \in 0..MaxFrames
  <2>1. heard \in Seq(Energies) /\ total_frames \in Nat
    BY Types DEF IInv, TypeOK
  <2>2. heard' \in Seq(Energies) /\ Len(heard') = Len(heard) + 1
    BY <1>3, <2>1
  <2> QED BY <1>3, <1>5, <2>1, <2>2, Sizes
<1>10. resets' \in 0..MaxResets /\ slips' \in 0..MaxSlips
  BY <1>3, <1>4, Sizes DEF IInv, TypeOK
<1>11. TypeOK'
  BY <1>7, <1>8, <1>9, <1>10 DEF TypeOK, WindowsSum, Summed
<1> QED BY <1>6, <1>7, <1>8, <1>9, <1>11 DEF IInv

\* The invariant speaks of the variables only.
LEMMA StutterIInv == IInv /\ UNCHANGED vars => IInv'
  BY DEF IInv, TypeOK, WindowsHold, WindowsSum, BlocksKept, vars, windowVars

\* Every step keeps the invariant.
LEMMA NextIInv == IInv /\ [Next]_vars => IInv'
  BY ResetIInv, ObserveIInv, StutterIInv DEF Next

\* The invariant of the meter.
THEOREM Inductive == Spec => []IInv
<1> QED BY InitIInv, NextIInv, PTL DEF Spec

\* Every part of the meter has the shape the code relies on: cursors stay in their rings, and
\* no more blocks are stored than were reserved.
THEOREM TypeCorrect == Spec => []TypeOK
<1>1. IInv => TypeOK
  BY DEF IInv
<1> QED BY <1>1, Inductive, PTL

\* For windows of every length, the frames a window sums are the last ones heard since
\* the reset (RollingEnergy::push and its cursor).
THEOREM WindowsRight == Spec => []WindowsHold
<1>1. IInv => WindowsHold
  BY DEF IInv
<1> QED BY <1>1, Inductive, PTL

-----------------------------------------------------------------------------
(* The properties of the windows and the blocks. *)

\* The greatest of two numbers.
LEMMA MaxOfTwo ==
  ASSUME NEW a \in Int, NEW b \in Int
  PROVE  Max({a, b}) = IF a < b THEN b ELSE a
<1> DEFINE m == IF a < b THEN b ELSE a
<1>1. m \in {a, b} /\ \A y \in {a, b} : m >= y
  OBVIOUS
<1>2. ASSUME NEW x \in {a, b}, \A y \in {a, b} : x >= y PROVE x = m
  BY <1>2
<1> QED BY <1>1, <1>2 DEF Max

\* The property's sums are those of the invariant.
LEMMA HeardIs ==
  ASSUME NEW first \in Int, NEW last
  PROVE  HeardSum(first, last) = SumOf(heard, IF first < 1 THEN 1 ELSE first, last)
<1>1. Max({first, 1}) = IF first < 1 THEN 1 ELSE first
  BY MaxOfTwo
<1> QED BY <1>1 DEF HeardSum, SumOf, SumOver

\* Whatever is read of a window is of the last frames heard, as many as the window is long, up
\* to the roundings since the reset, and exact when just computed afresh (RollingEnergy: push,
\* full_average).
THEOREM WindowsReadRight == Spec => []WindowsExact
<1>1. ASSUME IInv PROVE WindowsExact
  <2>1. ASSUME NEW r, NEW n \in Nat \ {0}, Holds(r, n, heard), Summed(r, n, heard, slips)
        PROVE  LET sum == HeardSum(total_frames - n + 1, total_frames)
               IN  /\ Full(r, n) <=> total_frames >= n
                   /\ Off(r.sum, sum) <= slips
                   /\ r.updates_since_recompute = 0 => r.sum = sum
    <3>1. total_frames \in Nat /\ total_frames = Len(heard)
      BY <1>1, Types DEF IInv
    <3>2. HeardSum(total_frames - n + 1, total_frames) = LastSum(heard, n)
      <4> DEFINE first == total_frames - n + 1
      <4>1. first \in Int /\ FirstOf(total_frames, n) = IF first < 1 THEN 1 ELSE first
        BY <3>1 DEF FirstOf
      <4> HIDE DEF first
      <4>2. HeardSum(first, total_frames) = SumOf(heard, FirstOf(total_frames, n), total_frames)
        BY <4>1, HeardIs
      <4> QED BY <3>1, <4>2 DEF first, LastSum
    <3>3. Full(r, n) <=> total_frames >= n
      BY <2>1, <3>1 DEF Holds, Full
    <3> QED BY <2>1, <3>2, <3>3 DEF Summed
  <2>2. /\ Holds(momentary, BlockFrames, heard) /\ Summed(momentary, BlockFrames, heard, slips)
        /\ Holds(short_term, ShortFrames, heard) /\ Summed(short_term, ShortFrames, heard, slips)
        /\ Holds(integrated_block, BlockFrames, heard)
        /\ Summed(integrated_block, BlockFrames, heard, slips)
    BY <1>1 DEF IInv, WindowsHold, WindowsSum
  <2>3. ASSUME NEW w \in Windows
        PROVE  w[2] \in Nat \ {0} /\ Holds(w[1], w[2], heard) /\ Summed(w[1], w[2], heard, slips)
    BY <2>2, Sizes DEF Windows
  <2> QED BY <2>1, <2>3 DEF WindowsExact
<1> QED BY <1>1, Inductive, PTL

\* Block j of the history is that of the frames from hop j - 1 on, whatever the lengths of block
\* and hop and however full the history is (push_weighted_energy).
THEOREM BlocksReadRight == Spec => []BlocksExact
<1>1. ASSUME IInv PROVE BlocksExact
  <2>1. ASSUME NEW j \in DOMAIN integrated_blocks
        PROVE  Off(integrated_blocks[j],
                   HeardSum((j - 1) * HopFrames + 1, (j - 1) * HopFrames + BlockFrames)) <= slips
    <3>1. j \in 1..Len(integrated_blocks) /\ j \in Nat \ {0}
      BY <1>1, Types DEF IInv
    <3> DEFINE k == Before(j)
    <3>2. k \in Nat /\ Off(integrated_blocks[j], SumOf(heard, k + 1, k + BlockFrames)) <= slips
      BY <1>1, <3>1, BeforeIsNat DEF IInv, BlocksKept, BlockOf
    <3>3. k = (j - 1) * HopFrames
      BY DEF Before
    <3> HIDE DEF k
    <3>4. k + 1 \in Int /\ (IF k + 1 < 1 THEN 1 ELSE k + 1) = k + 1
      BY <3>2
    <3>5. HeardSum(k + 1, k + BlockFrames) = SumOf(heard, k + 1, k + BlockFrames)
      BY <3>4, HeardIs
    <3> QED BY <3>2, <3>3, <3>5
  <2> QED BY <2>1 DEF BlocksExact
<1> QED BY <1>1, Inductive, PTL

-----------------------------------------------------------------------------
(* The gates. *)

\* Terms that are small enough, however scaled, have a sum that is.
LEMMA SumScaled ==
  ASSUME NEW S, IsFiniteSet(S), NEW g, Numbers(g, S), NEW c \in Nat, NEW m \in Int,
         \A x \in S : g[x] * c <= m
  PROVE  SumOver(g, S) * c <= m * Cardinality(S)
<1> DEFINE P == {s \in SUBSET S : SumOver(g, s) * c <= m * Cardinality(s)}
<1>1. {} \in P
  <2>1. SumOver(g, {}) = 0 /\ Cardinality({}) = 0 /\ 0 * c = 0 /\ m * 0 = 0
    BY SumEmpty, FS_EmptySet
  <2> QED BY <2>1
<1>2. ASSUME NEW s \in P, NEW x \in S \ s PROVE s \cup {x} \in P
  <2>1. s \in SUBSET S /\ SumOver(g, s) * c <= m * Cardinality(s)
    OBVIOUS
  <2>2. IsFiniteSet(s) /\ Numbers(g, s \cup {x}) /\ s \cup {x} \in SUBSET S /\ x \notin s
        /\ g[x] \in Int /\ g[x] * c <= m
    BY <1>2, <2>1, FS_Subset DEF Numbers
  <2>3. SumOver(g, s \cup {x}) = SumOver(g, s) + g[x] /\ SumOver(g, s) \in Int
    BY <2>2, SumAdd
  <2>4. Cardinality(s \cup {x}) = Cardinality(s) + 1 /\ Cardinality(s) \in Nat
    BY <2>2, FS_AddElement, FS_CardinalityType
  <2> DEFINE a == SumOver(g, s)
             b == g[x]
             k == Cardinality(s)
  <2>5. a \in Int /\ b \in Int /\ k \in Nat /\ a * c <= m * k /\ b * c <= m
    BY <2>1, <2>2, <2>3, <2>4
  <2> HIDE DEF a, b, k
  <2>6. (a + b) * c = a * c + b * c /\ m * (k + 1) = m * k + m
    BY <2>5, SMT
  <2>7. a * c \in Int /\ b * c \in Int /\ m * k \in Int
    BY <2>5
  <2>8. (a + b) * c <= m * (k + 1)
    <3> DEFINE ac == a * c
               bc == b * c
               mk == m * k
    <3>1. ac \in Int /\ bc \in Int /\ mk \in Int /\ ac <= mk /\ bc <= m
      BY <2>5, <2>7
    <3> HIDE DEF ac, bc, mk
    <3>2. ac + bc <= mk + m
      BY <3>1
    <3> QED BY <2>6, <3>2 DEF ac, bc, mk
  <2>9. SumOver(g, s \cup {x}) * c <= m * Cardinality(s \cup {x})
    BY <2>3, <2>4, <2>8 DEF a, b, k
  <2> QED BY <2>2, <2>9
<1>3. P = SUBSET S
  <2>1. P \in SUBSET (SUBSET S)
    OBVIOUS
  <2> HIDE DEF P
  <2> QED BY <1>1, <1>2, <2>1, SubsetInd
<1> QED BY <1>3

\* Of blocks that are numbers, some of the audible ones pass the relative gate, and those that
\* do are not lower on average.
LEMMA GatesSound ==
  ASSUME integrated_blocks \in Seq(Nat)
  PROVE  GateSound
<1> SUFFICES ASSUME Audible # {}
             PROVE  /\ Gated # {}
                    /\ BlockSum(Gated) * Cardinality(Audible)
                         >= BlockSum(Audible) * Cardinality(Gated)
  BY DEF GateSound
<1> DEFINE g == integrated_blocks
           A == Audible
           G == Gated
           R == RelativeGate
           n == Cardinality(A)
           total == SumOver(g, A)
<1>1. IsFiniteSet(A) /\ A \subseteq 1..Len(g) /\ G \in SUBSET A
  <2>1. DOMAIN g = 1..Len(g) /\ Len(g) \in Nat
    OBVIOUS
  <2>2. IsFiniteSet(1..Len(g)) /\ A \subseteq 1..Len(g)
    BY <2>1, FS_Interval DEF Audible
  <2>3. IsFiniteSet(A)
    BY <2>2, FS_Subset
  <2> QED BY <2>2, <2>3 DEF Gated
<1>2. \A x \in A : g[x] \in Nat /\ g[x] > AbsoluteGate
  <2>1. \A x \in DOMAIN g : g[x] \in Nat
    OBVIOUS
  <2> QED BY <2>1 DEF Audible
<1>3. Numbers(g, A)
  BY <1>2 DEF Numbers
<1>4. BlockSum(A) = total /\ BlockSum(G) = SumOver(g, G)
  BY DEF BlockSum, SumOver
<1>5. \A x \in A : x \in G <=> g[x] * R * n > total
  BY <1>4 DEF Gated, AboveRelative
<1>6. R \in Nat /\ R >= 2 /\ AbsoluteGate \in Nat
  BY Sizes
<1> HIDE DEF g, A, G, R, total
<1>7. n \in Nat /\ n >= 1 /\ A # {}
  <2>1. n \in Nat /\ (n = 0 <=> A = {})
    BY <1>1, FS_CardinalityType, FS_EmptySet
  <2> QED BY <2>1 DEF A
<1>8. total \in Nat /\ total >= 1
  <2>1. PICK x \in A : TRUE
    BY <1>7
  <2>2. A \ {x} \in SUBSET A /\ (A \ {x}) \cup {x} = A /\ x \notin A \ {x}
    BY <2>1
  <2> DEFINE B == A \ {x}
  <2>3. IsFiniteSet(B) /\ Numbers(g, B \cup {x}) /\ Numbers(g, B) /\ x \notin B /\ B \cup {x} = A
        /\ \A y \in B : g[y] \in Nat
    BY <1>1, <1>2, <1>3, <2>2, FS_Subset DEF Numbers
  <2> HIDE DEF B
  <2>4. SumOver(g, B \cup {x}) = SumOver(g, B) + g[x] /\ SumOver(g, B) \in Nat
    BY <2>3, SumAdd, SumInt
  <2>5. g[x] \in Nat /\ g[x] >= 1
    BY <1>2, <1>6, <2>1
  <2> DEFINE a == SumOver(g, B)
             b == g[x]
  <2>6. a \in Nat /\ b \in Nat /\ b >= 1 /\ total = a + b
    BY <2>3, <2>4, <2>5 DEF total
  <2> HIDE DEF a, b
  <2> QED BY <2>6
<1>9. G # {}
  <2> SUFFICES ASSUME G = {} PROVE FALSE
    OBVIOUS
  <2> DEFINE c == R * n
  <2>1. c \in Nat
    BY <1>6, <1>7
  <2>2. \A x \in A : g[x] * c <= total
    <3> SUFFICES ASSUME NEW x \in A PROVE g[x] * c <= total
      OBVIOUS
    <3> DEFINE e == g[x]
    <3>1. e \in Nat /\ ~ (e * R * n > total)
      BY <1>2, <1>5
    <3> HIDE DEF e, n
    <3>2. e * R * n = e * (R * n) /\ e * R * n \in Int
      BY <1>6, <1>7, <3>1, SMT
    <3>3. e * (R * n) <= total
      BY <1>8, <3>1, <3>2
    <3> QED BY <3>3 DEF e
  <2> HIDE DEF c
  <2>3. total * c <= total * n
    <3>1. total \in Int
      BY <1>8
    <3>2. SumOver(g, A) * c <= total * Cardinality(A)
      BY <1>1, <1>3, <2>1, <2>2, <3>1, SumScaled
    <3> QED BY <3>2 DEF total
  <2> DEFINE p == total * n
  <2> HIDE DEF n
  <2>4. p \in Nat /\ p >= 1
    <3>1. 1 * n <= total * n /\ 1 * n = n /\ total * n \in Nat
      BY <1>7, <1>8, TimesMono
    <3> QED BY <1>7, <3>1
  <2>5. total * c = R * p
    BY <1>6, <1>7, <1>8, SMT DEF c
  <2> HIDE DEF p
  <2>6. 2 * p <= R * p
    BY <1>6, <2>4, TimesMono
  <2>7. R * p <= p
    BY <2>3, <2>5 DEF p
  <2>8. R * p \in Int
    BY <1>6, <2>4
  <2> QED BY <2>4, <2>6, <2>7, <2>8
<1>10. SumOver(g, G) * n >= total * Cardinality(G)
  <2> DEFINE B == A \ G
             k == Cardinality(G)
             l == Cardinality(B)
             gs == SumOver(g, G)
             bs == SumOver(g, B)
  <2>1. IsFiniteSet(B) /\ IsFiniteSet(G) /\ Numbers(g, B) /\ Numbers(g, G)
    BY <1>1, <1>3, FS_Subset DEF Numbers
  <2>2. total = gs + bs /\ gs \in Int /\ bs \in Int
    BY <1>1, <1>3, <2>1, SumParts, SumInt DEF total
  <2>3. n = k + l /\ k \in Nat /\ l \in Nat
    <3>1. Cardinality(A \cap G) = k
      <4>1. A \cap G = G
        BY <1>1
      <4> QED BY <4>1
    <3>2. Cardinality(B) = Cardinality(A) - Cardinality(A \cap G)
      BY <1>1, FS_Difference
    <3>3. k \in Nat /\ l \in Nat
      BY <2>1, FS_CardinalityType
    <3> QED BY <1>7, <3>1, <3>2, <3>3
  <2>4. \A x \in B : g[x] * n <= total
    <3> SUFFICES ASSUME NEW x \in B PROVE g[x] * n <= total
      OBVIOUS
    <3> DEFINE e == g[x]
    <3>1. e \in Nat /\ ~ (e * R * n > total)
      BY <1>2, <1>5
    <3> HIDE DEF e, n
    <3> DEFINE p == e * n
    <3>2. p \in Nat /\ e * R * n = R * p
      BY <1>6, <1>7, <3>1, SMT
    <3> HIDE DEF p
    <3>3. 1 * p <= R * p /\ R * p \in Int
      BY <1>6, <3>2, TimesMono
    <3>4. p <= total
      BY <1>8, <3>1, <3>2, <3>3
    <3> QED BY <3>4 DEF p, e
  <2>5. bs * n <= total * l
    BY <1>7, <1>8, <2>1, <2>4, SumScaled
  <2> HIDE DEF k, l, gs, bs, n
  <2>6. total * n = gs * n + bs * n /\ total * n = total * k + total * l
    <3>1. (gs + bs) * n = gs * n + bs * n /\ total * (k + l) = total * k + total * l
      BY <1>7, <1>8, <2>2, <2>3, SMT
    <3> QED BY <2>2, <2>3, <3>1
  <2>7. gs * n \in Int /\ bs * n \in Int /\ total * k \in Int /\ total * l \in Int
    BY <1>7, <1>8, <2>2, <2>3
  <2>8. gs * n >= total * k
    BY <2>5, <2>6, <2>7
  <2> QED BY <2>8 DEF gs, k
<1> QED BY <1>4, <1>9, <1>10 DEF A, G

\* For every relative gate that is below the average and every history: what is audible at all
\* gives an integrated reading, and the gate does not lower it (integrated_loudness).
THEOREM GatesRight == Spec => []GateSound
<1>1. IInv => GateSound
  BY GatesSound, Types DEF IInv
<1> QED BY <1>1, Inductive, PTL

\* The initial states of the meter are initial states of the schedule.
LEMMA InitSchedule == Init => History!Init
  BY DEF Init, History!Init

\* A frame of the meter is a call of the schedule with one frame.
LEMMA ObserveSchedule ==
  ASSUME IInv, NEW energy \in Energies, Observe(energy)
  PROVE  History!Observe(1)
<1> DEFINE d == IF BlockDue(total_frames + 1) THEN 1 ELSE 0
           n == Len(integrated_blocks)
           complete == n + History!Due(total_frames + 1) - History!Due(total_frames)
<1>1. total_frames \in Nat /\ n \in Nat /\ n <= Capacity /\ Capacity \in Nat
      /\ integrated_overflowed \in BOOLEAN /\ integrated_blocks \in Seq(Nat)
  BY Types, Sizes DEF IInv
<1>2. PICK slip, short_slip : PushEnergy(energy, slip, short_slip)
  BY DEF Observe
<1>3. total_frames < MaxFrames /\ MaxFrames \in Nat /\ total_frames' = total_frames + 1
  BY <1>2, LoudnessAssumption DEF Observe, PushEnergy
<1>4. complete = n + d
  <2>1. History!Due(total_frames + 1) = History!Due(total_frames) + d
    BY <1>1, DueStep
  <2>2. History!Due(total_frames) \in Int
    BY <1>1, DueIsInt
  <2>3. d \in Int
    OBVIOUS
  <2> HIDE DEF d, n
  <2> QED BY <1>1, <2>1, <2>2, <2>3
<1>5. /\ Len(integrated_blocks') = IF n + d > Capacity THEN Capacity ELSE n + d
      /\ integrated_overflowed' = (integrated_overflowed \/ n + d > Capacity)
  <2>1. CASE BlockDue(total_frames + 1)
    <3>1. StoreBlock(integrated_block')
      BY <1>2, <2>1 DEF PushEnergy
    <3>2. CASE HasRoom
      <4>1. integrated_blocks' = Append(integrated_blocks, CorrectedSum(integrated_block'))
            /\ integrated_overflowed' = integrated_overflowed
        BY <1>1, <3>1, <3>2 DEF StoreBlock
      <4>5. CorrectedSum(integrated_block') \in Nat
        <5>1. integrated_block'.sum \in Int
          BY ObserveIInv DEF IInv, TypeOK, Rolling
        <5> QED BY <5>1 DEF CorrectedSum
      <4>2. Len(integrated_blocks') = n + 1
        BY <1>1, <4>1, <4>5
      <4>3. n < Capacity /\ d = 1
        BY <2>1, <3>2 DEF HasRoom
      <4> QED BY <1>1, <4>1, <4>2, <4>3
    <3>3. CASE ~HasRoom
      <4>1. integrated_blocks' = integrated_blocks /\ integrated_overflowed' = TRUE
        BY <3>1, <3>3 DEF StoreBlock
      <4>2. n = Capacity /\ d = 1
        BY <1>1, <2>1, <3>3 DEF HasRoom
      <4>3. n + d > Capacity
        BY <1>1, <4>2
      <4> HIDE DEF d
      <4> QED BY <4>1, <4>2, <4>3
    <3> QED BY <3>2, <3>3
  <2>2. CASE ~BlockDue(total_frames + 1)
    <3>1. integrated_blocks' = integrated_blocks
          /\ integrated_overflowed' = integrated_overflowed
      BY <1>2, <2>2 DEF PushEnergy
    <3>2. d = 0
      BY <2>2
    <3> QED BY <1>1, <3>1, <3>2
  <2> QED BY <2>1, <2>2
<1>6. History!Min({complete, Capacity}) = IF n + d > Capacity THEN Capacity ELSE n + d
  <2>1. n + d \in Int /\ Capacity \in Int
    BY <1>1
  <2> HIDE DEF n, d, complete
  <2> QED BY <1>4, <2>1, MinOfTwo
<1>7. total_frames + 1 <= MaxFrames
  BY <1>1, <1>3
<1> QED BY <1>3, <1>4, <1>5, <1>6, <1>7 DEF History!Observe

\* The meter implements the schedule of integrated blocks, for every length of block
\* and hop and every capacity: no block is missed or counted twice, and one that does
\* not fit is always reported (push_weighted_energy).
THEOREM KeepsSchedule == Spec => ScheduleKept
<1>1. Init => History!Init
  BY InitSchedule
<1>2. IInv /\ [Next]_vars => [History!Next]_(History!historyVars)
  <2> SUFFICES ASSUME IInv, [Next]_vars
               PROVE  [History!Next]_(History!historyVars)
    OBVIOUS
  <2>1. CASE Reset
    <3>1. History!Reset
      BY <2>1 DEF Reset, History!Reset
    <3> QED BY <3>1 DEF History!Next
  <2>2. CASE \E energy \in Energies : Observe(energy)
    <3>1. History!Observe(1)
      BY <2>2, ObserveSchedule
    <3> QED BY <3>1 DEF History!Next
  <2>3. CASE UNCHANGED vars
    BY <2>3 DEF vars, windowVars, History!historyVars
  <2> QED BY <2>1, <2>2, <2>3 DEF Next
<1> QED BY <1>1, <1>2, Inductive, PTL DEF Spec, ScheduleKept, History!Spec
=============================================================================
