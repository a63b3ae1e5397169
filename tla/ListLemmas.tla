----------------------------- MODULE ListLemmas -----------------------------
(***************************************************************************)
(* What the proofs use of the sequences the program's linked lists and     *)
(* arrays are modelled by.                                                 *)
(***************************************************************************)
EXTENDS Integers, SequencesExt, SequenceTheorems, TLAPS

\* No element twice.
Distinct(s) == \A i, j \in DOMAIN s : s[i] = s[j] => i = j

(* What removing the element at one position leaves.                       *)
LEMMA RemoveAtProperties ==
    ASSUME NEW S, NEW s \in Seq(S), NEW i \in 1 .. Len(s)
    PROVE  /\ RemoveAt(s, i) \in Seq(S)
           /\ Len(RemoveAt(s, i)) = Len(s) - 1
           /\ \A j \in 1 .. Len(s) - 1 :
                RemoveAt(s, i)[j] = IF j < i THEN s[j] ELSE s[j + 1]
<1> DEFINE a == SubSeq(s, 1, i - 1)
           b == SubSeq(s, i + 1, Len(s))
<1>1. a \in Seq(S) /\ Len(a) = i - 1 /\ \A j \in 1 .. i - 1 : a[j] = s[j]
  BY SMT
<1>2. b \in Seq(S) /\ Len(b) = Len(s) - i /\ \A j \in 1 .. Len(s) - i : b[j] = s[i + j]
  BY SMT
<1>3. RemoveAt(s, i) = a \o b
  BY DEF RemoveAt
<1> HIDE DEF a, b
<1>4. /\ a \o b \in Seq(S)
      /\ Len(a \o b) = Len(a) + Len(b)
      /\ \A j \in 1 .. Len(a) + Len(b) :
            (a \o b)[j] = IF j <= Len(a) THEN a[j] ELSE b[j - Len(a)]
  BY <1>1, <1>2, ConcatProperties
<1> QED
  BY <1>1, <1>2, <1>3, <1>4, SMT

(* What putting an element in front gives.                                 *)
LEMMA ConsProperties ==
    ASSUME NEW S, NEW s \in Seq(S), NEW e \in S
    PROVE  /\ Cons(e, s) \in Seq(S)
           /\ Len(Cons(e, s)) = Len(s) + 1
           /\ Cons(e, s)[1] = e
           /\ \A j \in 1 .. Len(s) : Cons(e, s)[j + 1] = s[j]
<1> DEFINE a == <<e>>
<1>1. a \in Seq(S) /\ Len(a) = 1 /\ a[1] = e
  OBVIOUS
<1>2. Cons(e, s) = a \o s
  BY DEF Cons
<1> HIDE DEF a
<1>3. /\ a \o s \in Seq(S)
      /\ Len(a \o s) = Len(a) + Len(s)
      /\ \A j \in 1 .. Len(a) + Len(s) :
            (a \o s)[j] = IF j <= Len(a) THEN a[j] ELSE s[j - Len(a)]
  BY <1>1, ConcatProperties
<1> QED
  BY <1>1, <1>2, <1>3, SMT

(* Two elements, one put in front of the other.                            *)
LEMMA ConsOnto == \A a, b : Cons(a, <<b>>) = <<a, b>>
<1> SUFFICES ASSUME NEW a, NEW b PROVE Cons(a, <<b>>) = <<a, b>>
  OBVIOUS
<1> DEFINE S == {a, b}
<1>1. PICK s : s = <<b>>
  OBVIOUS
<1>2. s \in Seq(S) /\ Len(s) = 1 /\ s[1] = b
  BY <1>1
<1>3. PICK u : u = <<a, b>>
  OBVIOUS
<1>4. u \in Seq(S) /\ Len(u) = 2 /\ u[1] = a /\ u[2] = b
  BY <1>3
<1>5. s \in Seq(S) /\ a \in S
  BY <1>2
<1> HIDE DEF S
<1>6. Cons(a, s) \in Seq(S) /\ Len(Cons(a, s)) = Len(s) + 1 /\ Cons(a, s)[1] = a
  BY <1>5, ConsProperties
<1>7. \A j \in 1 .. Len(s) : Cons(a, s)[j + 1] = s[j]
  BY <1>5, ConsProperties
<1>8. Cons(a, s) = u
  BY <1>2, <1>4, <1>6, <1>7, SeqEqual
<1> QED
  BY <1>1, <1>3, <1>8

(* Two elements, one put behind the other.                                 *)
LEMMA AppendOnto == \A a, b : Append(<<a>>, b) = <<a, b>>
<1> SUFFICES ASSUME NEW a, NEW b PROVE Append(<<a>>, b) = <<a, b>>
  OBVIOUS
<1> DEFINE S == {a, b}
<1>1. PICK s : s = <<a>>
  OBVIOUS
<1>2. s \in Seq(S) /\ b \in S /\ Len(s) = 1 /\ s[1] = a
  BY <1>1
<1>3. PICK u : u = <<a, b>>
  OBVIOUS
<1>4. u \in Seq(S) /\ Len(u) = 2 /\ u[1] = a /\ u[2] = b
  BY <1>3
<1> HIDE DEF S
<1>5. /\ Append(s, b) \in Seq(S) /\ Len(Append(s, b)) = 2
      /\ Append(s, b)[1] = a /\ Append(s, b)[2] = b
  <2>1. s \in Seq(S) /\ b \in S
    BY <1>2
  <2>2. Append(s, b) \in Seq(S) /\ Len(Append(s, b)) = Len(s) + 1
    BY <2>1, AppendProperties
  <2>3. \A i \in 1 .. Len(s) : Append(s, b)[i] = s[i]
    BY <2>1, AppendProperties
  <2>4. Append(s, b)[Len(s) + 1] = b
    BY <2>1, AppendProperties
  <2> QED
    BY <1>2, <2>2, <2>3, <2>4
<1>6. Append(s, b) = u
  BY <1>4, <1>5, SeqEqual
<1> QED
  BY <1>1, <1>3, <1>6

(* A list with one more element in front.                                  *)
LEMMA ConsList ==
    ASSUME NEW S, NEW s \in Seq(S), NEW e \in S
    PROVE  /\ Cons(e, s) \in Seq(S)
           /\ ToSet(Cons(e, s)) = ToSet(s) \cup {e}
           /\ Distinct(s) /\ e \notin ToSet(s) => Distinct(Cons(e, s))
<1>c. PICK c : c = Cons(e, s)
  OBVIOUS
<1>1. /\ c \in Seq(S) /\ Len(c) = Len(s) + 1 /\ c[1] = e
      /\ \A j \in 1 .. Len(s) : c[j + 1] = s[j]
  BY <1>c, ConsProperties
<1>2. \A i \in 1 .. Len(c) : c[i] = IF i = 1 THEN e ELSE s[i - 1]
  BY <1>1
<1>3. ToSet(c) = ToSet(s) \cup {e}
  <2>1. ASSUME NEW x \in ToSet(c) PROVE x \in ToSet(s) \cup {e}
    BY <1>1, <1>2, <2>1 DEF ToSet
  <2>2. e \in ToSet(c)
    BY <1>1 DEF ToSet
  <2>3. ASSUME NEW x \in ToSet(s) PROVE x \in ToSet(c)
    <3>1. PICK j \in 1 .. Len(s) : s[j] = x
      BY <2>3 DEF ToSet
    <3>2. j + 1 \in 1 .. Len(c) /\ c[j + 1] = x
      BY <1>1, <3>1
    <3> QED
      BY <1>1, <3>2 DEF ToSet
  <2> QED
    BY <2>1, <2>2, <2>3
<1>4. ASSUME Distinct(s), e \notin ToSet(s) PROVE Distinct(c)
  <2> SUFFICES ASSUME NEW i \in 1 .. Len(c), NEW j \in 1 .. Len(c), c[i] = c[j]
               PROVE  i = j
    BY <1>1 DEF Distinct
  <2>1. \A k \in 1 .. Len(s) : s[k] # e
    BY <1>4 DEF ToSet
  <2>2. \A k, l \in 1 .. Len(s) : s[k] = s[l] => k = l
    BY <1>4 DEF Distinct
  <2>3. CASE i = 1 \/ j = 1
    BY <1>1, <1>2, <2>1, <2>3
  <2>4. CASE i # 1 /\ j # 1
    <3>1. i - 1 \in 1 .. Len(s) /\ j - 1 \in 1 .. Len(s) /\ s[i - 1] = s[j - 1]
      BY <1>1, <1>2, <2>4
    <3> QED
      BY <2>2, <3>1
  <2> QED
    BY <2>3, <2>4
<1> QED
  BY <1>c, <1>1, <1>3, <1>4

(* The position RemoveFirst() removes is the only one there is.            *)
LEMMA RemoveFirstPosition ==
    ASSUME NEW S, NEW s \in Seq(S), Distinct(s), NEW i \in 1 .. Len(s)
    PROVE  RemoveFirst(s, s[i]) = RemoveAt(s, i)
<1>1. {j \in 1 .. Len(s) : s[j] = s[i]} = {i}
  BY DEF Distinct
<1>2. Min({i}) = i
  BY DEF Min
<1> QED
  BY <1>1, <1>2 DEF RemoveFirst, SelectInSeq

(* A list with an element taken out.                                       *)
LEMMA RemoveFirstList ==
    ASSUME NEW S, NEW s \in Seq(S), Distinct(s), NEW e \in ToSet(s)
    PROVE  /\ RemoveFirst(s, e) \in Seq(S)
           /\ ToSet(RemoveFirst(s, e)) = ToSet(s) \ {e}
           /\ Distinct(RemoveFirst(s, e))
<1>1. PICK i \in 1 .. Len(s) : s[i] = e
  BY DEF ToSet
<1> DEFINE r == RemoveAt(s, i)
<1>2. RemoveFirst(s, e) = r
  BY <1>1, RemoveFirstPosition
<1>3. /\ r \in Seq(S) /\ Len(r) = Len(s) - 1
      /\ \A j \in 1 .. Len(s) - 1 : r[j] = IF j < i THEN s[j] ELSE s[j + 1]
  BY RemoveAtProperties
<1> HIDE DEF r
<1>4. Distinct(r)
  <2>1. \A k, l \in 1 .. Len(s) : s[k] = s[l] => k = l
    BY DEF Distinct
  <2>2. \A j, k \in 1 .. Len(r) : r[j] = r[k] => j = k
    BY <1>3, <2>1
  <2> QED
    BY <1>3, <2>2 DEF Distinct
<1>5. ToSet(r) = ToSet(s) \ {e}
  <2>1. ASSUME NEW x \in ToSet(r) PROVE x \in ToSet(s) \ {e}
    <3>1. PICK j \in 1 .. Len(r) : r[j] = x
      BY <1>3, <2>1 DEF ToSet
    <3> DEFINE k == IF j < i THEN j ELSE j + 1
    <3>2. k \in 1 .. Len(s) /\ k # i /\ x = s[k]
      BY <1>3, <3>1
    <3> QED
      BY <1>1, <3>2 DEF ToSet, Distinct
  <2>2. ASSUME NEW x \in ToSet(s), x # e PROVE x \in ToSet(r)
    <3>1. PICK k \in 1 .. Len(s) : s[k] = x
      BY <2>2 DEF ToSet
    <3> DEFINE j == IF k < i THEN k ELSE k - 1
    <3>2. j \in 1 .. Len(r) /\ r[j] = x
      BY <1>1, <1>3, <2>2, <3>1
    <3> QED
      BY <1>3, <3>2 DEF ToSet
  <2> QED
    BY <2>1, <2>2
<1> QED
  BY <1>2, <1>3, <1>4, <1>5
(* What is in a list is at some position of it.                            *)
LEMMA InList ==
    ASSUME NEW S, NEW s \in Seq(S), NEW x \in ToSet(s)
    PROVE  \E i \in 1 .. Len(s) : s[i] = x
BY DEF ToSet
=============================================================================
