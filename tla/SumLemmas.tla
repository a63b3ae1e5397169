----------------------------- MODULE SumLemmas ------------------------------
(***************************************************************************)
(* Sums over finite sets, for every function and every finite set: what    *)
(* MapThenSumSet computes does not depend on the order it picks.           *)
(***************************************************************************)
EXTENDS Integers, FiniteSetsExt, FiniteSetTheorems, WellFoundedInduction, TLAPS

Total(f, S) == MapThenSumSet(LAMBDA x : f[x], S)

\* The element the sum picks next, and the recursion it follows.
Picked(s) == CHOOSE x \in s : TRUE
Summing(f, D, g) ==
    g = [s \in D |-> IF s = {} THEN 0 ELSE f[Picked(s)] + g[s \ {Picked(s)}]]

(* Induction over the natural numbers, for a set of them.                  *)
LEMMA NatSet ==
    ASSUME NEW T \in SUBSET Nat, 0 \in T, \A n \in T : n + 1 \in T
    PROVE  T = Nat
<1> SUFFICES ASSUME T # Nat PROVE FALSE
  OBVIOUS
<1> DEFINE R == {ss \in Nat \X Nat : ss[1] < ss[2]}
<1>1. IsWellFoundedOn(R, Nat)
  BY NatLessThanWellFounded, Zenon DEF OpToRel
<1> HIDE DEF R
<1>2. Nat \ T \subseteq Nat /\ Nat \ T # {}
  OBVIOUS
<1>3. PICK x \in Nat \ T : \A y \in Nat \ T : <<y, x>> \notin R
  BY <1>1, <1>2, WFMin, Zenon
<1>4. x - 1 \in Nat /\ x - 1 \notin T
  <2>1. x # 0
    BY <1>3
  <2>2. x - 1 \in Nat /\ (x - 1) + 1 = x
    BY <1>3, <2>1
  <2> QED
    BY <1>3, <2>2
<1>5. <<x - 1, x>> \in Nat \X Nat /\ <<x - 1, x>>[1] < <<x - 1, x>>[2]
  BY <1>3, <1>4
<1> QED
  BY <1>3, <1>4, <1>5 DEF R

(* A set of natural numbers has a least one.                               *)
LEMMA NatMinimum ==
    ASSUME NEW T \in SUBSET Nat, T # {}
    PROVE  \E n \in T : \A m \in T : n <= m
<1> DEFINE R == {ss \in Nat \X Nat : ss[1] < ss[2]}
<1>1. IsWellFoundedOn(R, Nat)
  BY NatLessThanWellFounded, Zenon DEF OpToRel
<1> HIDE DEF R
<1>2. PICK n \in T : \A m \in T : <<m, n>> \notin R
  BY <1>1, WFMin, Zenon
<1>3. \A m \in T : ~(m < n)
  <2> TAKE m \in T
  <2>1. <<m, n>> \in Nat \X Nat /\ <<m, n>>[1] = m /\ <<m, n>>[2] = n
    OBVIOUS
  <2> QED
    BY <2>1, <1>2 DEF R
<1> QED
  BY <1>3

(* The recursion has a solution.                                           *)
LEMMA SummingExists ==
    ASSUME NEW f, NEW S, IsFiniteSet(S)
    PROVE  \E g : Summing(f, SUBSET S, g)
<1> DEFINE D(n) == {s \in SUBSET S : Cardinality(s) <= n}
           T == {n \in Nat : \E g : Summing(f, D(n), g)}
<1>a. \A s \in SUBSET S : IsFiniteSet(s) /\ Cardinality(s) \in Nat
  BY FS_Subset, FS_CardinalityType
<1>b. \A s \in SUBSET S : s # {} =>
          /\ Picked(s) \in s /\ s \ {Picked(s)} \in SUBSET S
          /\ Cardinality(s \ {Picked(s)}) = Cardinality(s) - 1
  <2>1. \A s : s # {} => Picked(s) \in s
    BY DEF Picked
  <2> QED
    BY <1>a, <2>1, FS_RemoveElement
<1>1. 0 \in T
  <2> DEFINE g == [s \in D(0) |-> 0]
  <2>1. \A s \in D(0) : s = {}
    BY <1>a, FS_EmptySet
  <2>2. Summing(f, D(0), g)
    BY <2>1 DEF Summing
  <2> QED
    BY <2>2
<1>2. ASSUME NEW n \in T PROVE n + 1 \in T
  <2>1. PICK g : Summing(f, D(n), g)
    BY <1>2
  <2> DEFINE h == [s \in D(n + 1) |->
                      IF s = {} THEN 0 ELSE f[Picked(s)] + g[s \ {Picked(s)}]]
  <2>2. \A s \in D(n + 1) : s # {} => s \ {Picked(s)} \in D(n)
    BY <1>a, <1>b, <1>2
  <2>3. \A s \in D(n) : s \in D(n + 1)
    BY <1>a, <1>2
  <2>4. \A s \in D(n) : h[s] = g[s]
    BY <2>1, <2>3 DEF Summing
  <2>5. \A s \in D(n + 1) :
            h[s] = IF s = {} THEN 0 ELSE f[Picked(s)] + h[s \ {Picked(s)}]
    BY <2>2, <2>4
  <2>6. h = [s \in D(n + 1) |-> h[s]]
    OBVIOUS
  <2> HIDE DEF h, D
  <2>7. Summing(f, D(n + 1), h)
    BY <2>5, <2>6 DEF Summing
  <2> QED
    BY <1>2, <2>7
<1> HIDE DEF T
<1>3. T = Nat
  <2>1. T \in SUBSET Nat
    BY DEF T
  <2> QED
    BY <1>1, <1>2, <2>1, NatSet
<1>4. Cardinality(S) \in T
  BY <1>3, FS_CardinalityType
<1>5. D(Cardinality(S)) = SUBSET S
  BY FS_Subset
<1> QED
  BY <1>4, <1>5 DEF T

(* Solutions agree wherever both are defined.                              *)
LEMMA SummingUnique ==
    ASSUME NEW f, NEW S, IsFiniteSet(S), NEW R \in SUBSET S, NEW g, NEW h,
           Summing(f, SUBSET S, g), Summing(f, SUBSET R, h)
    PROVE  \A s \in SUBSET R : g[s] = h[s]
<1> DEFINE T == {n \in Nat : \A s \in SUBSET R : Cardinality(s) = n => g[s] = h[s]}
<1>a. \A s \in SUBSET R : IsFiniteSet(s) /\ Cardinality(s) \in Nat /\ s \in SUBSET S
  BY FS_Subset, FS_CardinalityType
<1>b. \A s \in SUBSET R : s # {} =>
          s \ {Picked(s)} \in SUBSET R /\ Cardinality(s \ {Picked(s)}) = Cardinality(s) - 1
  <2>1. \A s : s # {} => Picked(s) \in s
    BY DEF Picked
  <2> QED
    BY <1>a, <2>1, FS_RemoveElement
<1>c. \A s \in SUBSET R :
          /\ g[s] = IF s = {} THEN 0 ELSE f[Picked(s)] + g[s \ {Picked(s)}]
          /\ h[s] = IF s = {} THEN 0 ELSE f[Picked(s)] + h[s \ {Picked(s)}]
  BY <1>a DEF Summing
<1>1. 0 \in T
  BY <1>a, <1>c, FS_EmptySet
<1>2. ASSUME NEW n \in T PROVE n + 1 \in T
  <2>0. n \in Nat
    BY <1>2
  <2>1. ASSUME NEW s \in SUBSET R, Cardinality(s) = n + 1 PROVE g[s] = h[s]
    <3>1. s # {}
      <4>1. s = {} => n + 1 = 0
        BY <2>1, FS_EmptySet
      <4> QED
        BY <2>0, <4>1
    <3>2. s \ {Picked(s)} \in SUBSET R /\ Cardinality(s \ {Picked(s)}) = n
      BY <1>2, <1>b, <2>1, <3>1
    <3> QED
      BY <1>2, <1>c, <3>1, <3>2
  <2> QED
    BY <1>2, <2>1
<1> HIDE DEF T
<1>3. T = Nat
  <2>1. T \in SUBSET Nat
    BY DEF T
  <2> QED
    BY <1>1, <1>2, <2>1, NatSet
<1> QED
  BY <1>a, <1>3 DEF T

(* The sum follows the recursion.                                          *)
LEMMA TotalPicked ==
    ASSUME NEW f, NEW S, IsFiniteSet(S)
    PROVE  /\ S = {} => Total(f, S) = 0
           /\ S # {} => Total(f, S) = f[Picked(S)] + Total(f, S \ {Picked(S)})
<1> DEFINE G(X) == CHOOSE g : Summing(f, SUBSET X, g)
<1>1. \A X : Total(f, X) = G(X)[X]
  BY DEF Total, MapThenSumSet, MapThenFoldSet, Summing, Picked
<1>2. \A X : IsFiniteSet(X) => Summing(f, SUBSET X, G(X))
  BY SummingExists
<1> HIDE DEF G
<1>3. G(S)[S] = IF S = {} THEN 0 ELSE f[Picked(S)] + G(S)[S \ {Picked(S)}]
  BY <1>2 DEF Summing
<1>4. S # {} => G(S)[S \ {Picked(S)}] = G(S \ {Picked(S)})[S \ {Picked(S)}]
  <2> DEFINE R == S \ {Picked(S)}
  <2>1. IsFiniteSet(R) /\ R \in SUBSET S /\ R \in SUBSET R
    BY FS_Subset
  <2> HIDE DEF R
  <2>2. PICK g, h : g = G(S) /\ h = G(R)
    OBVIOUS
  <2>3. Summing(f, SUBSET S, g) /\ Summing(f, SUBSET R, h)
    BY <1>2, <2>1, <2>2
  <2>4. \A s \in SUBSET R : g[s] = h[s]
    BY <2>1, <2>3, SummingUnique
  <2>5. G(S)[R] = G(R)[R]
    BY <2>1, <2>2, <2>4
  <2> QED
    BY <2>5 DEF R
<1> QED
  BY <1>1, <1>3, <1>4

(* A sum of integers is one.                                               *)
LEMMA TotalInteger ==
    ASSUME NEW C, NEW f \in [C -> Int], NEW S \in SUBSET C, IsFiniteSet(S)
    PROVE  Total(f, S) \in Int
<1> DEFINE T == {n \in Nat : \A s \in SUBSET S : Cardinality(s) = n => Total(f, s) \in Int}
<1>a. \A s \in SUBSET S : IsFiniteSet(s) /\ Cardinality(s) \in Nat
  BY FS_Subset, FS_CardinalityType
<1>1. 0 \in T
  <2>1. \A s \in SUBSET S : Cardinality(s) = 0 => s = {}
    BY <1>a, FS_EmptySet
  <2>2. Total(f, {}) = 0
    BY FS_EmptySet, TotalPicked
  <2> QED
    BY <2>1, <2>2
<1>2. ASSUME NEW n \in T PROVE n + 1 \in T
  <2>0. n \in Nat
    BY <1>2
  <2>1. ASSUME NEW s \in SUBSET S, Cardinality(s) = n + 1 PROVE Total(f, s) \in Int
    <3>1. s # {}
      <4>1. s = {} => n + 1 = 0
        BY <2>1, FS_EmptySet
      <4> QED
        BY <2>0, <4>1
    <3>2. PICK y \in s : y = Picked(s)
      BY <3>1 DEF Picked
    <3>3. s \ {y} \in SUBSET S /\ Cardinality(s \ {y}) = n
      <4>1. Cardinality(s \ {y}) = Cardinality(s) - 1
        BY <1>a, FS_RemoveElement
      <4> QED
        BY <2>0, <2>1, <4>1
    <3>4. Total(f, s \ {y}) \in Int
      BY <1>2, <3>3
    <3> QED
      BY <1>a, <3>1, <3>2, <3>4, TotalPicked
  <2> QED
    BY <2>0, <2>1
<1> HIDE DEF T
<1>3. T = Nat
  <2>1. T \in SUBSET Nat
    BY DEF T
  <2> QED
    BY <1>1, <1>2, <2>1, NatSet
<1> QED
  BY <1>a, <1>3 DEF T

(* The sum may take any element first.                                     *)
LEMMA TotalRemove ==
    ASSUME NEW C, NEW f \in [C -> Int], NEW S \in SUBSET C, IsFiniteSet(S)
    PROVE  \A x \in S : Total(f, S) = f[x] + Total(f, S \ {x})
<1> DEFINE Splits(s) == \A x \in s : Total(f, s) = f[x] + Total(f, s \ {x})
           T == {n \in Nat : \A s \in SUBSET S : Cardinality(s) = n => Splits(s)}
<1>a. \A s \in SUBSET S :
          IsFiniteSet(s) /\ Cardinality(s) \in Nat /\ Total(f, s) \in Int
  BY FS_Subset, FS_CardinalityType, TotalInteger
<1>1. 0 \in T
  BY <1>a, FS_EmptySet
<1>2. ASSUME NEW n \in T PROVE n + 1 \in T
  <2>0. n \in Nat
    BY <1>2
  <2>1. ASSUME NEW s \in SUBSET S, Cardinality(s) = n + 1, NEW x \in s
        PROVE  Total(f, s) = f[x] + Total(f, s \ {x})
    <3>1. PICK y \in s : y = Picked(s)
      BY <2>1 DEF Picked
    <3>2. \A z \in s : s \ {z} \in SUBSET S /\ Cardinality(s \ {z}) = n
      <4>1. \A z \in s : Cardinality(s \ {z}) = Cardinality(s) - 1
        BY <1>a, FS_RemoveElement
      <4> QED
        BY <2>0, <2>1, <4>1
    <3>3. Total(f, s) = f[y] + Total(f, s \ {y})
      BY <1>a, <2>1, <3>1, TotalPicked
    <3>4. CASE x # y
      <4> DEFINE r == (s \ {x}) \ {y}
      <4>1. r = (s \ {y}) \ {x} /\ y \in s \ {x} /\ x \in s \ {y} /\ r \in SUBSET S
        BY <2>1, <3>4
      <4>2. Splits(s \ {x}) /\ Splits(s \ {y})
        BY <1>2, <2>1, <3>2
      <4> HIDE DEF r
      <4>3. /\ Total(f, s \ {x}) = f[y] + Total(f, r)
            /\ Total(f, s \ {y}) = f[x] + Total(f, r)
        BY <4>1, <4>2 DEF r
      <4>4. f[x] \in Int /\ f[y] \in Int /\ Total(f, r) \in Int
        BY <1>a, <2>1, <4>1
      <4> QED
        BY <3>3, <4>3, <4>4
    <3> QED
      BY <3>3, <3>4
  <2> QED
    BY <2>0, <2>1
<1> HIDE DEF T
<1>3. T = Nat
  <2>1. T \in SUBSET Nat
    BY DEF T
  <2> QED
    BY <1>1, <1>2, <2>1, NatSet
<1> QED
  BY <1>a, <1>3 DEF T

(* Adding an element to the set, and an empty sum.                         *)
LEMMA TotalAdd ==
    ASSUME NEW C, NEW f \in [C -> Int], NEW S \in SUBSET C, IsFiniteSet(S), NEW x \in C
    PROVE  /\ x \notin S => Total(f, S \cup {x}) = f[x] + Total(f, S)
           /\ S = {} => Total(f, S) = 0
<1>1. IsFiniteSet(S \cup {x}) /\ S \cup {x} \in SUBSET C
  BY FS_AddElement
<1>2. x \notin S => (S \cup {x}) \ {x} = S
  OBVIOUS
<1>3. x \in S \cup {x}
  OBVIOUS
<1>4. x \notin S => Total(f, S \cup {x}) = f[x] + Total(f, S)
  BY <1>1, <1>2, <1>3, TotalRemove
<1> QED
  BY <1>4, TotalPicked

(* Induction over the subsets of a finite set: what holds for the empty    *)
(* set and with a set less its picked element holds for them all.          *)
LEMMA PickedInduction ==
    ASSUME NEW S, IsFiniteSet(S), NEW Q \in SUBSET (SUBSET S), {} \in Q,
           \A s \in SUBSET S : s # {} /\ s \ {Picked(s)} \in Q => s \in Q
    PROVE  Q = SUBSET S
<1> DEFINE T == {n \in Nat : \A s \in SUBSET S : Cardinality(s) = n => s \in Q}
<1>a. \A s \in SUBSET S : IsFiniteSet(s) /\ Cardinality(s) \in Nat
  BY FS_Subset, FS_CardinalityType
<1>1. 0 \in T
  BY <1>a, FS_EmptySet
<1>2. ASSUME NEW n \in T PROVE n + 1 \in T
  <2>0. n \in Nat
    BY <1>2
  <2>1. ASSUME NEW s \in SUBSET S, Cardinality(s) = n + 1 PROVE s \in Q
    <3>1. s # {}
      <4>1. s = {} => n + 1 = 0
        BY <2>1, FS_EmptySet
      <4> QED
        BY <2>0, <4>1
    <3>2. PICK y \in s : y = Picked(s)
      BY <3>1 DEF Picked
    <3>3. s \ {y} \in SUBSET S /\ Cardinality(s \ {y}) = n
      <4>1. Cardinality(s \ {y}) = Cardinality(s) - 1
        BY <1>a, FS_RemoveElement
      <4> QED
        BY <2>0, <2>1, <4>1
    <3> QED
      BY <1>2, <3>1, <3>2, <3>3
  <2> QED
    BY <2>0, <2>1
<1> HIDE DEF T
<1>3. T = Nat
  <2>1. T \in SUBSET Nat
    BY DEF T
  <2> QED
    BY <1>1, <1>2, <2>1, NatSet
<1> QED
  BY <1>a, <1>3 DEF T

(* Whatever solves the recursion computes the sum.                         *)
LEMMA SummingIsTotal ==
    ASSUME NEW f, NEW S, IsFiniteSet(S), NEW g, Summing(f, SUBSET S, g)
    PROVE  g[S] = Total(f, S)
<1> DEFINE G == CHOOSE h : Summing(f, SUBSET S, h)
<1>1. Total(f, S) = G[S]
  BY DEF Total, MapThenSumSet, MapThenFoldSet, Summing, Picked
<1>2. Summing(f, SUBSET S, G)
  BY SummingExists
<1> HIDE DEF G
<1> QED
  BY <1>1, <1>2, SummingUnique

(* The sum depends on the values in the set only.                          *)
LEMMA TotalCongruent ==
    ASSUME NEW f, NEW g, NEW S, IsFiniteSet(S), \A x \in S : f[x] = g[x]
    PROVE  Total(f, S) = Total(g, S)
<1> DEFINE Q == {s \in SUBSET S : Total(f, s) = Total(g, s)}
<1>1. {} \in Q
  BY FS_EmptySet, TotalPicked
<1>2. ASSUME NEW s \in SUBSET S, s # {}, s \ {Picked(s)} \in Q PROVE s \in Q
  <2>1. IsFiniteSet(s) /\ Picked(s) \in s
    BY <1>2, FS_Subset DEF Picked
  <2> QED
    BY <1>2, <2>1, TotalPicked
<1> HIDE DEF Q
<1>3. Q \in SUBSET (SUBSET S)
  BY DEF Q
<1>4. Q = SUBSET S
  BY <1>1, <1>2, <1>3, PickedInduction
<1> QED
  BY <1>4 DEF Q

(* A sum of zeros.                                                         *)
LEMMA TotalZero ==
    ASSUME NEW f, NEW S, IsFiniteSet(S), \A x \in S : f[x] = 0
    PROVE  Total(f, S) = 0
<1> DEFINE Q == {s \in SUBSET S : Total(f, s) = 0}
<1>1. {} \in Q
  BY FS_EmptySet, TotalPicked
<1>2. ASSUME NEW s \in SUBSET S, s # {}, s \ {Picked(s)} \in Q PROVE s \in Q
  <2>1. IsFiniteSet(s) /\ Picked(s) \in s
    BY <1>2, FS_Subset DEF Picked
  <2> QED
    BY <1>2, <2>1, TotalPicked
<1> HIDE DEF Q
<1>3. Q \in SUBSET (SUBSET S)
  BY DEF Q
<1>4. Q = SUBSET S
  BY <1>1, <1>2, <1>3, PickedInduction
<1> QED
  BY <1>4 DEF Q

(* One value grows by one.                                                 *)
LEMMA TotalBump ==
    ASSUME NEW C, NEW f \in [C -> Int], NEW g \in [C -> Int], NEW c \in C,
           g[c] = f[c] + 1, \A x \in C \ {c} : g[x] = f[x],
           NEW S \in SUBSET C, IsFiniteSet(S)
    PROVE  Total(g, S) = IF c \in S THEN Total(f, S) + 1 ELSE Total(f, S)
<1>1. CASE c \notin S
  BY <1>1, TotalCongruent
<1>2. CASE c \in S
  <2> DEFINE R == S \ {c}
  <2>1. IsFiniteSet(R) /\ R \in SUBSET C
    BY FS_Subset
  <2>2. Total(f, S) = f[c] + Total(f, R) /\ Total(g, S) = g[c] + Total(g, R)
    BY <1>2, TotalRemove
  <2>3. Total(g, R) = Total(f, R)
    BY <2>1, TotalCongruent
  <2>4. Total(f, R) \in Int /\ f[c] \in Int
    BY <2>1, TotalInteger
  <2> HIDE DEF R
  <2> QED
    BY <1>2, <2>2, <2>3, <2>4
<1> QED
  BY <1>1, <1>2
=============================================================================
