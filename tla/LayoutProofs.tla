---------------------------- MODULE LayoutProofs ----------------------------
(***************************************************************************)
(* Proofs about Layout and RegionCreate, for every page size, every width  *)
(* of size_t and every list of chunk sizes.                                *)
(***************************************************************************)
EXTENDS RegionCreate, SumLemmas

-----------------------------------------------------------------------------
(* Recursion over data, stated for functions and sets.                     *)

\* f is defined along 0 .. n: it starts with z, and s gives the next value.
Climbs(f, n, V, z, s) ==
    /\ f \in [0 .. n -> V] /\ f[0] = z
    /\ \A i \in 1 .. n : f[i] = s[<<i, f[i - 1]>>]

(* Such a function exists.                                                 *)
LEMMA UpRecursion ==
    ASSUME NEW n \in Nat, NEW V, NEW z \in V, NEW s, s \in [(1 .. n) \X V -> V]
    PROVE  \E f : Climbs(f, n, V, z, s)
<1> DEFINE Solves(f, k) == /\ f \in [0 .. k -> V] /\ f[0] = z
                           /\ \A i \in 1 .. k : f[i] = s[<<i, f[i - 1]>>]
           T == {k \in Nat : k <= n => \E f : Solves(f, k)}
<1>1. 0 \in T
  <2>1. Solves([i \in 0 .. 0 |-> z], 0)
    OBVIOUS
  <2> QED
    BY <2>1
<1>2. ASSUME NEW k \in T PROVE k + 1 \in T
  <2> SUFFICES ASSUME k + 1 <= n PROVE \E f : Solves(f, k + 1)
    BY <1>2
  <2>1. PICK f : Solves(f, k)
    BY <1>2
  <2>2. k \in Nat /\ <<k + 1, f[k]>> \in (1 .. n) \X V
    BY <1>2, <2>1
  <2> DEFINE g == [i \in 0 .. k + 1 |-> IF i = k + 1 THEN s[<<k + 1, f[k]>>] ELSE f[i]]
  <2>0. k + 1 \notin 0 .. k /\ k \in 0 .. k
    BY <2>2
  <2>3. /\ \A i \in 0 .. k : g[i] = f[i]
        /\ g[k + 1] = s[<<k + 1, g[k]>>]
    <3>1. \A i \in 0 .. k : i \in 0 .. k + 1 /\ i # k + 1
      BY <2>2
    <3>2. \A i \in 0 .. k : g[i] = f[i]
      BY <3>1
    <3>3. k + 1 \in 0 .. k + 1
      BY <2>2
    <3>4. g[k + 1] = s[<<k + 1, f[k]>>]
      BY <3>3
    <3>5. g[k] = f[k]
      BY <3>2, <2>0
    <3> QED
      BY <3>2, <3>4, <3>5
  <2>6. g \in [0 .. k + 1 -> V]
    <3>1. s[<<k + 1, f[k]>>] \in V
      BY <2>2
    <3> QED
      BY <2>1, <2>2, <3>1
  <2> HIDE DEF g
  <2>4. ASSUME NEW i \in 1 .. k + 1 PROVE g[i] = s[<<i, g[i - 1]>>]
    <3>1. CASE i = k + 1
      BY <2>2, <2>3, <3>1
    <3>2. CASE i \in 1 .. k
      BY <2>1, <2>2, <2>3, <3>2
    <3> QED
      BY <2>2, <3>1, <3>2
  <2>5. Solves(g, k + 1)
    BY <2>1, <2>2, <2>3, <2>4, <2>6
  <2> QED
    BY <2>5
<1> HIDE DEF T
<1>3. T = Nat
  <2>1. T \in SUBSET Nat
    BY DEF T
  <2> QED
    BY <1>1, <1>2, <2>1, NatSet
<1>4. PICK f : Solves(f, n)
  BY <1>3 DEF T
<1> QED
  BY <1>4 DEF Climbs

(* A search, as a function: it stops in Stop with the result out, and      *)
(* moves on to nx elsewhere.                                               *)
Searching(D, Stop, out, nx, f) ==
    f = [d \in D |-> IF d \in Stop THEN out[d] ELSE f[nx[d]]]

(* A search whose moves decrease a measure is well defined ...             *)
LEMMA SearchExists ==
    ASSUME NEW D, NEW Stop, NEW out, NEW nx \in [D -> D],
           NEW m \in [D -> Nat], NEW b \in Nat, \A d \in D : m[d] <= b,
           \A d \in D \ Stop : m[nx[d]] < m[d]
    PROVE  \E f : Searching(D, Stop, out, nx, f)
<1> DEFINE E(k) == {d \in D : m[d] <= k}
           Value(f, d) == IF d \in Stop THEN out[d] ELSE f[nx[d]]
           Solves(f, k) == f = [d \in E(k) |-> Value(f, d)]
           T == {k \in Nat : \E f : Solves(f, k)}
<1>1. 0 \in T
  <2>1. \A d \in E(0) : d \in Stop
    OBVIOUS
  <2>2. Solves([d \in E(0) |-> out[d]], 0)
    BY <2>1
  <2> QED
    BY <2>2
<1>2. ASSUME NEW k \in T PROVE k + 1 \in T
  <2>1. PICK f : Solves(f, k)
    BY <1>2
  <2> DEFINE g == [d \in E(k + 1) |-> Value(f, d)]
  <2>2. \A d \in E(k) : d \in E(k + 1) /\ g[d] = f[d]
    BY <2>1, <1>2
  <2>3. \A d \in E(k + 1) : d \notin Stop => nx[d] \in E(k)
    BY <1>2
  <2>4. \A d \in E(k + 1) : g[d] = Value(g, d)
    BY <2>2, <2>3
  <2>5. g = [d \in E(k + 1) |-> g[d]]
    OBVIOUS
  <2> HIDE DEF g, E, Value
  <2>6. Solves(g, k + 1)
    BY <2>4, <2>5
  <2> QED
    BY <1>2, <2>6
<1> HIDE DEF T
<1>3. T = Nat
  <2>1. T \in SUBSET Nat
    BY DEF T
  <2> QED
    BY <1>1, <1>2, <2>1, NatSet
<1>4. PICK f : Solves(f, b)
  BY <1>3 DEF T
<1>5. E(b) = D
  OBVIOUS
<1> QED
  BY <1>4, <1>5 DEF Searching

(* ... and ends in every set of positions its moves do not leave.          *)
LEMMA SearchEnds ==
    ASSUME NEW D, NEW Stop, NEW out, NEW nx \in [D -> D],
           NEW m \in [D -> Nat],
           \A d \in D \ Stop : m[nx[d]] < m[d],
           NEW f, Searching(D, Stop, out, nx, f),
           NEW Q \in SUBSET D, \A d \in Q \ Stop : nx[d] \in Q,
           NEW d0 \in Q
    PROVE  \E e \in Q \cap Stop : f[d0] = out[e]
<1> DEFINE T == {k \in Nat : \E d \in Q : m[d] = k /\ f[d] = f[d0]}
<1>1. T \in SUBSET Nat /\ m[d0] \in T
  OBVIOUS
<1>2. PICK k \in T : \A j \in T : k <= j
  BY <1>1, NatMinimum
<1>3. PICK d \in Q : m[d] = k /\ f[d] = f[d0]
  BY <1>2
<1>4. f[d] = IF d \in Stop THEN out[d] ELSE f[nx[d]]
  BY DEF Searching
<1>5. d \in Stop
  <2> SUFFICES ASSUME d \notin Stop PROVE FALSE
    OBVIOUS
  <2>1. nx[d] \in Q /\ f[nx[d]] = f[d0] /\ m[nx[d]] < k /\ m[nx[d]] \in Nat /\ k \in Nat
    BY <1>3, <1>4
  <2>2. m[nx[d]] \in T
    BY <2>1
  <2> QED
    BY <2>1, <2>2, <1>2
<1> QED
  BY <1>3, <1>4, <1>5

-----------------------------------------------------------------------------
(* Pages.                                                                  *)

Aligned == {x \in Nat : x % PageSize = 0}

(* Division with remainder by the page size.                               *)
LEMMA PageDivision ==
    ASSUME NEW x \in Nat
    PROVE  \E k \in Nat, w \in Nat, y \in 0 .. PageSize - 1 :
               w = k * PageSize /\ x % PageSize = y /\ x = w + y
<1>1. PageSize \in Nat /\ PageSize > 0
  BY LayoutAssumption
<1>2. PICK k \in Nat : k = x \div PageSize
  BY <1>1
<1>3. PICK w \in Nat : w = k * PageSize /\ w = PageSize * k
  BY <1>1
<1>4. PICK y \in 0 .. PageSize - 1 : x % PageSize = y
  BY <1>1
<1>5. x % PageSize = x - PageSize * (x \div PageSize)
  <2>1. x \div PageSize \in Int /\ x % PageSize \in Int /\ PageSize * (x \div PageSize) \in Int
    BY <1>1
  <2> QED
    BY <1>1, <2>1
<1>6. y = x - w
  BY <1>2, <1>3, <1>4, <1>5
<1>7. x = w + y
  BY <1>6, <1>1
<1> QED
  BY <1>3, <1>4, <1>7

(* Aligned offsets are a page apart.                                       *)
LEMMA AlignedApart ==
    ASSUME NEW x \in Aligned, NEW y \in Aligned
    PROVE  /\ x < y => x + PageSize <= y
           /\ x + PageSize \in Aligned
<1>1. PageSize \in Nat /\ PageSize > 0 /\ x \in Nat /\ y \in Nat
  BY LayoutAssumption DEF Aligned
<1>0. ASSUME NEW v \in Aligned PROVE \E k \in Nat : v = k * PageSize
  <2>1. PICK k \in Nat, w \in Nat, u \in 0 .. PageSize - 1 :
            w = k * PageSize /\ v % PageSize = u /\ v = w + u
    BY PageDivision DEF Aligned
  <2>2. v = w
    BY <2>1 DEF Aligned
  <2> QED
    BY <2>1, <2>2
<1>2. PICK j \in Nat : x = j * PageSize
  BY <1>0
<1>3. PICK k \in Nat : y = k * PageSize
  BY <1>0
<1>4. j < k => j * PageSize + PageSize <= k * PageSize
  BY <1>1
<1>5. k <= j => k * PageSize <= j * PageSize
  BY <1>1
<1>6. (j + 1) * PageSize = j * PageSize + PageSize
  BY <1>1
<1>7. ((j + 1) * PageSize) % PageSize = 0
  BY <1>1
<1> QED
  BY <1>1, <1>2, <1>3, <1>4, <1>5, <1>6, <1>7 DEF Aligned

(* page_floor() rounds down.                                               *)
LEMMA Floor ==
    ASSUME NEW x \in Nat
    PROVE  /\ page_floor(x) \in Aligned
           /\ page_floor(x) <= x /\ x < page_floor(x) + PageSize
           /\ \A p \in Aligned : p <= x => p <= page_floor(x)
           /\ x \in Aligned <=> page_floor(x) = x
           /\ x % PageSize = 0 <=> page_floor(x) = x
<1>1. PageSize \in Nat /\ PageSize > 0
  BY LayoutAssumption
<1>2. PICK k \in Nat, w \in Nat, y \in 0 .. PageSize - 1 :
          w = k * PageSize /\ x % PageSize = y /\ x = w + y
  BY PageDivision
<1>3. w % PageSize = 0
  BY <1>1, <1>2
<1>4. page_floor(x) = w /\ w \in Aligned
  BY <1>1, <1>2, <1>3 DEF page_floor, Aligned
<1>5. ASSUME NEW p \in Aligned, p <= x PROVE p <= w
  <2>1. p \in Nat /\ w < p => w + PageSize <= p
    BY <1>4, AlignedApart DEF Aligned
  <2> QED
    BY <2>1, <1>1, <1>2, <1>5 DEF Aligned
<1>6. x % PageSize = 0 <=> w = x
  BY <1>1, <1>2
<1> QED
  BY <1>1, <1>2, <1>4, <1>5, <1>6 DEF Aligned

(* page_ceil() rounds up, unless the rounded size leaves size_t.           *)
LEMMA Ceil ==
    ASSUME NEW x \in Nat, x < SizeRange
    PROVE  IF x + PageSize - 1 < SizeRange
           THEN /\ page_ceil(x) \in Aligned
                /\ x <= page_ceil(x) /\ page_ceil(x) < x + PageSize
                /\ \A p \in Aligned : x <= p => page_ceil(x) <= p
                /\ x \in Aligned <=> page_ceil(x) = x
           ELSE page_ceil(x) = 0
<1>1. PageSize \in Nat /\ PageSize > 0 /\ SizeRange \in Nat /\ PageSize < SizeRange
  BY LayoutAssumption
<1> DEFINE y == x + PageSize - 1
<1>2. y \in Nat /\ y < 2 * SizeRange
  BY <1>1
<1>3. CASE y < SizeRange
  <2>1. page_ceil(x) = page_floor(y)
    <3>1. y % SizeRange = y
      BY <1>1, <1>2, <1>3
    <3> QED
      BY <3>1 DEF page_ceil
  <2>2. /\ page_floor(y) \in Aligned /\ page_floor(y) \in Nat
        /\ page_floor(y) <= y /\ y < page_floor(y) + PageSize
        /\ \A p \in Aligned : p <= y => p <= page_floor(y)
    BY <1>2, Floor DEF Aligned
  <2> HIDE DEF y
  <2>3. x <= page_floor(y) /\ page_floor(y) < x + PageSize
    BY <2>2, <1>1 DEF y
  <2>4. ASSUME NEW p \in Aligned, x <= p PROVE page_floor(y) <= p
    <3>1. p < page_floor(y) => p + PageSize <= page_floor(y)
      BY <2>2, AlignedApart
    <3> QED
      BY <3>1, <2>4, <2>3, <2>2, <1>1 DEF Aligned
  <2>5. x \in Aligned <=> page_floor(y) = x
    BY <2>2, <2>3, <2>4 DEF Aligned
  <2> QED
    BY <2>1, <2>2, <2>3, <2>4, <2>5, <1>3 DEF y
<1>4. CASE ~(y < SizeRange)
  <2>1. y % SizeRange = y - SizeRange
    BY <1>1, <1>2, <1>4
  <2>2. y - SizeRange \in Nat /\ y - SizeRange < PageSize
    BY <1>1, <1>2, <1>4
  <2> HIDE DEF y
  <2>3. page_floor(y - SizeRange) = 0
    <3>1. PICK w \in Aligned : w = page_floor(y - SizeRange) /\ w < PageSize
      <4>1. page_floor(y - SizeRange) \in Aligned /\ page_floor(y - SizeRange) <= y - SizeRange
        BY <2>2, Floor
      <4> QED
        BY <4>1, <2>2, <1>1 DEF Aligned
    <3>2. 0 \in Aligned
      BY <1>1 DEF Aligned
    <3>3. 0 < w => 0 + PageSize <= w
      BY <3>1, <3>2, AlignedApart
    <3> QED
      BY <3>1, <3>3, <1>1 DEF Aligned
  <2> QED
    BY <2>1, <2>3, <1>4 DEF page_ceil, y
<1> QED
  BY <1>3, <1>4

-----------------------------------------------------------------------------
(* What fc_region_create() accepts.                                        *)

\* f is the running total of the code; f is the sum of the sizes.
Totals(f, s) ==
    f = [i \in 0 .. Len(s) |-> IF i = 0 THEN 0 ELSE (f[i - 1] + s[i]) % SizeRange]
Adds(f, s) == f = [i \in 0 .. Len(s) |-> IF i = 0 THEN 0 ELSE f[i - 1] + s[i]]

(* A request is a sequence of sizes that fit size_t.                       *)
LEMMA RequestType ==
    ASSUME NEW s \in Request
    PROVE  /\ Len(s) \in Nat \ {0} /\ DOMAIN s = 1 .. Len(s)
           /\ \A i \in 1 .. Len(s) : s[i] \in Nat /\ s[i] < SizeRange
           /\ SizeRange \in Nat \ {0}
<1>1. PICK n \in 1 .. MaxChunks : s \in [1 .. n -> ChunkSize]
  BY DEF Request
<1>2. n \in Nat \ {0} /\ SizeRange \in Nat \ {0} /\ ChunkSize \subseteq 0 .. SizeRange - 1
  BY LayoutAssumption, RequestAssumption
<1>3. Len(s) = n /\ DOMAIN s = 1 .. n
  BY <1>1, <1>2
<1>4. \A i \in 1 .. n : s[i] \in 0 .. SizeRange - 1
  BY <1>1, <1>2
<1>5. \A i \in 1 .. n : s[i] \in Nat /\ s[i] < SizeRange
  BY <1>2, <1>4
<1> QED
  BY <1>2, <1>3, <1>5

(* size_t wraps at most once in an addition.                               *)
LEMMA ModOnce ==
    ASSUME NEW x \in Nat
    PROVE  /\ x < SizeRange => x % SizeRange = x
           /\ SizeRange <= x /\ x < 2 * SizeRange => x % SizeRange = x - SizeRange
<1>1. SizeRange \in Nat /\ SizeRange > 0
  BY LayoutAssumption
<1>2. x < SizeRange => x % SizeRange = x
  BY <1>1
<1>3. SizeRange <= x /\ x < 2 * SizeRange => x % SizeRange = x - SizeRange
  BY <1>1
<1> QED
  BY <1>2, <1>3

(* The running total of the code, and the sum of the sizes.                *)
LEMMA RunningTotal ==
    ASSUME NEW s \in Request
    PROVE  /\ running_total(s) \in [0 .. Len(s) -> 0 .. SizeRange - 1]
           /\ running_total(s)[0] = 0
           /\ \A i \in 1 .. Len(s) :
                running_total(s)[i] = (running_total(s)[i - 1] + s[i]) % SizeRange
<1> DEFINE n == Len(s)
           V == 0 .. SizeRange - 1
           step == [x \in (1 .. n) \X V |-> (x[2] + s[x[1]]) % SizeRange]
<1>1. /\ n \in Nat \ {0} /\ SizeRange \in Nat \ {0}
      /\ \A i \in 1 .. n : s[i] \in Nat /\ s[i] < SizeRange
  BY RequestType
<1> HIDE DEF n
<1>m. \A i \in 1 .. n, v \in V : (v + s[i]) % SizeRange \in V
  BY <1>1
<1>2. 0 \in V /\ step \in [(1 .. n) \X V -> V]
  BY <1>1, <1>m
<1>3. PICK f : Climbs(f, n, V, 0, step)
  <2>1. n \in Nat
    BY <1>1
  <2> HIDE DEF step, V
  <2> QED
    BY <2>1, <1>2, UpRecursion
<1>4. ASSUME NEW i \in 0 .. n, i # 0 PROVE f[i] = (f[i - 1] + s[i]) % SizeRange
  <2>1. i \in 1 .. n /\ i - 1 \in 0 .. n
    BY <1>1, <1>4
  <2>2. f[i - 1] \in V
    BY <1>3, <2>1 DEF Climbs
  <2> QED
    BY <1>3, <2>1, <2>2 DEF Climbs
<1>5. Totals(f, s)
  BY <1>3, <1>4 DEF Totals, Climbs, n
<1>6. running_total(s) = CHOOSE g : Totals(g, s)
  BY DEF running_total, Totals
<1>7. PICK g : g = running_total(s) /\ Totals(g, s)
  BY <1>5, <1>6
<1>8. /\ g[0] = 0
      /\ \A i \in 1 .. n : i - 1 \in 0 .. n /\ g[i] = (g[i - 1] + s[i]) % SizeRange
      /\ DOMAIN g = 0 .. n /\ g = [i \in 0 .. n |-> g[i]]
  BY <1>1, <1>7 DEF Totals, n
<1>9. \A i \in 0 .. n : g[i] \in V
  <2> DEFINE T == {i \in Nat : i <= n => g[i] \in V}
  <2>1. 0 \in T
    BY <1>1, <1>8
  <2>2. ASSUME NEW i \in T PROVE i + 1 \in T
    <3> SUFFICES ASSUME i + 1 <= n PROVE g[i + 1] \in V
      OBVIOUS
    <3>1. i \in Nat /\ g[i] \in V /\ i + 1 \in 1 .. n /\ (i + 1) - 1 = i
      BY <1>1
    <3>2. g[i + 1] = (g[i] + s[i + 1]) % SizeRange /\ s[i + 1] \in Nat
      BY <1>1, <1>8, <3>1
    <3> QED
      BY <1>m, <3>1, <3>2
  <2> HIDE DEF T
  <2>3. T = Nat
    <3>1. T \in SUBSET Nat
      BY DEF T
    <3> QED
      BY <2>1, <2>2, <3>1, NatSet
  <2> QED
    BY <1>1, <2>3 DEF T
<1>10. g \in [0 .. n -> V]
  BY <1>8, <1>9
<1> QED
  BY <1>7, <1>8, <1>10 DEF n

(* The sum of the sizes, added one by one.                                 *)
LEMMA TrueSums ==
    ASSUME NEW s \in Request
    PROVE  \E f : /\ f \in [0 .. Len(s) -> Nat]
                 /\ f[0] = 0 /\ f[Len(s)] = TrueSum(s)
                 /\ \A i \in 1 .. Len(s) : f[i] = f[i - 1] + s[i]
<1> DEFINE n == Len(s)
           step == [x \in (1 .. n) \X Nat |-> x[2] + s[x[1]]]
<1>1. n \in Nat \ {0} /\ \A i \in 1 .. n : s[i] \in Nat
  BY RequestType
<1> HIDE DEF n
<1>2. PICK f : Climbs(f, n, Nat, 0, step)
  <2>1. n \in Nat /\ 0 \in Nat /\ step \in [(1 .. n) \X Nat -> Nat]
    BY <1>1
  <2> HIDE DEF step
  <2> QED
    BY <2>1, UpRecursion
<1>3. ASSUME NEW i \in 0 .. n, i # 0 PROVE f[i] = f[i - 1] + s[i]
  <2>1. i \in 1 .. n /\ i - 1 \in 0 .. n
    BY <1>1, <1>3
  <2>2. f[i - 1] \in Nat
    BY <1>2, <2>1 DEF Climbs
  <2> QED
    BY <1>2, <2>1, <2>2 DEF Climbs
<1>4. Adds(f, s)
  BY <1>2, <1>3 DEF Adds, Climbs, n
<1>5. TrueSum(s) = (CHOOSE g : Adds(g, s))[n]
  BY DEF TrueSum, Adds, n
<1>6. PICK g : TrueSum(s) = g[n] /\ Adds(g, s)
  BY <1>4, <1>5
<1>7. /\ g[0] = 0
      /\ \A i \in 1 .. n : g[i] = g[i - 1] + s[i]
      /\ DOMAIN g = 0 .. n /\ g = [i \in 0 .. n |-> g[i]]
  <2>1. \A i \in 1 .. n : i \in 0 .. n /\ i # 0
    BY <1>1
  <2>2. 0 \in 0 .. n
    BY <1>1
  <2> QED
    BY <1>6, <2>1, <2>2 DEF Adds, n
<1>8. \A i \in 0 .. n : g[i] \in Nat
  <2> DEFINE T == {i \in Nat : i <= n => g[i] \in Nat}
  <2>1. 0 \in T
    BY <1>1, <1>7
  <2>2. ASSUME NEW i \in T PROVE i + 1 \in T
    <3> SUFFICES ASSUME i + 1 <= n PROVE g[i + 1] \in Nat
      OBVIOUS
    <3>1. i \in Nat /\ g[i] \in Nat /\ i + 1 \in 1 .. n /\ (i + 1) - 1 = i
      BY <1>1
    <3>2. g[i + 1] = g[i] + s[i + 1] /\ s[i + 1] \in Nat
      BY <1>1, <1>7, <3>1
    <3> QED
      BY <3>1, <3>2
  <2> HIDE DEF T
  <2>3. T = Nat
    <3>1. T \in SUBSET Nat
      BY DEF T
    <3> QED
      BY <2>1, <2>2, <3>1, NatSet
  <2> QED
    BY <1>1, <2>3 DEF T
<1>9. g \in [0 .. n -> Nat]
  BY <1>7, <1>8
<1> QED
  BY <1>6, <1>7, <1>9 DEF n

(* The code refuses a zero size and a sum that does not fit, and computes  *)
(* the sum otherwise: the one comparison per addition is enough.           *)
LEMMA RefusedExactly ==
    ASSUME NEW s \in Request
    PROVE  /\ refused(s) <=> (\E i \in DOMAIN s : s[i] = 0) \/ TrueSum(s) >= SizeRange
           /\ ~refused(s) => running_total(s)[Len(s)] = TrueSum(s)
<1> DEFINE n == Len(s)
           g == running_total(s)
<1>1. /\ n \in Nat \ {0} /\ SizeRange \in Nat \ {0} /\ DOMAIN s = 1 .. n
      /\ \A i \in 1 .. n : s[i] \in Nat /\ s[i] < SizeRange
  BY RequestType
<1>2. /\ g \in [0 .. n -> 0 .. SizeRange - 1] /\ g[0] = 0
      /\ \A i \in 1 .. n : g[i] = (g[i - 1] + s[i]) % SizeRange
  BY RunningTotal
<1>3. PICK f : /\ f \in [0 .. n -> Nat] /\ f[0] = 0 /\ f[n] = TrueSum(s)
               /\ \A i \in 1 .. n : f[i] = f[i - 1] + s[i]
  BY TrueSums
<1>4. refused(s) <=> \E i \in 1 .. n : s[i] = 0 \/ g[i] < g[i - 1]
  BY DEF refused
<1> HIDE DEF n, g
<1>5. \A i \in 0 .. n : f[i] <= f[n]
  <2> DEFINE T == {k \in Nat : k <= n => f[n - k] <= f[n]}
  <2>1. 0 \in T
    BY <1>1, <1>3
  <2>2. ASSUME NEW k \in T PROVE k + 1 \in T
    <3> SUFFICES ASSUME k + 1 <= n PROVE f[n - (k + 1)] <= f[n]
      OBVIOUS
    <3>1. k \in Nat /\ n - k \in 1 .. n /\ (n - k) - 1 = n - (k + 1) /\ n - (k + 1) \in 0 .. n
      BY <1>1
    <3>2. f[n - k] = f[n - (k + 1)] + s[n - k] /\ f[n - k] <= f[n]
      BY <1>1, <1>3, <3>1
    <3>3. f[n - k] \in Nat /\ f[n - (k + 1)] \in Nat /\ f[n] \in Nat /\ s[n - k] \in Nat
      BY <1>1, <1>3, <3>1
    <3> QED
      BY <3>2, <3>3
  <2> HIDE DEF T
  <2>3. T = Nat
    <3>1. T \in SUBSET Nat
      BY DEF T
    <3> QED
      BY <2>1, <2>2, <3>1, NatSet
  <2>4. ASSUME NEW i \in 0 .. n PROVE f[i] <= f[n]
    <3>1. n - i \in Nat /\ n - i <= n /\ n - (n - i) = i
      BY <1>1
    <3> QED
      BY <2>3, <3>1 DEF T
  <2> QED
    BY <2>4
<1>6. ASSUME ~refused(s) \/ (f[n] < SizeRange /\ \A i \in 1 .. n : s[i] # 0)
      PROVE  \A i \in 0 .. n : g[i] = f[i]
  <2> DEFINE T == {i \in Nat : i <= n => g[i] = f[i]}
  <2>1. 0 \in T
    BY <1>2, <1>3
  <2>2. ASSUME NEW i \in T PROVE i + 1 \in T
    <3> SUFFICES ASSUME i + 1 <= n PROVE g[i + 1] = f[i + 1]
      OBVIOUS
    <3>1. i \in Nat /\ i \in 0 .. n /\ i + 1 \in 1 .. n /\ i + 1 \in 0 .. n /\ (i + 1) - 1 = i /\ g[i] = f[i]
      BY <1>1
    <3>2. PICK a \in 0 .. SizeRange - 1, b \in 1 .. SizeRange - 1 : a = g[i] /\ b = s[i + 1]
      <4>1. g[i] \in 0 .. SizeRange - 1
        BY <1>2, <3>1
      <4>2. s[i + 1] \in Nat /\ s[i + 1] < SizeRange /\ s[i + 1] # 0
        BY <1>1, <1>4, <1>6, <3>1
      <4>3. s[i + 1] \in 1 .. SizeRange - 1
        BY <4>2, <1>1
      <4> QED
        BY <4>1, <4>3
    <3>3. g[i + 1] = (a + b) % SizeRange /\ f[i + 1] = a + b
      BY <1>2, <1>3, <3>1, <3>2
    <3>4. CASE a + b < SizeRange
      <4>1. (a + b) % SizeRange = a + b
        BY <3>4, ModOnce
      <4> QED
        BY <3>3, <4>1
    <3>5. CASE ~(a + b < SizeRange)
      <4>1. (a + b) % SizeRange = a + b - SizeRange
        <5>1. a + b \in Nat /\ SizeRange <= a + b /\ a + b < 2 * SizeRange
          BY <1>1, <3>5
        <5>2. PICK x \in Nat : x = a + b /\ SizeRange <= x /\ x < 2 * SizeRange
          BY <5>1
        <5>3. x % SizeRange = x - SizeRange
          BY <5>2, ModOnce
        <5> QED
          BY <1>1, <5>2, <5>3
      <4>2. g[i + 1] < g[i]
        BY <1>1, <3>2, <3>3, <4>1
      <4>3. ~(f[n] < SizeRange)
        <5>1. f[i + 1] <= f[n] /\ f[n] \in Nat
          BY <1>1, <1>3, <1>5, <3>1
        <5> QED
          BY <5>1, <3>3, <3>5, <1>1
      <4> QED
        BY <1>4, <1>6, <3>1, <4>2, <4>3
    <3> QED
      BY <3>4, <3>5
  <2> HIDE DEF T
  <2>3. T = Nat
    <3>1. T \in SUBSET Nat
      BY DEF T
    <3> QED
      BY <2>1, <2>2, <3>1, NatSet
  <2> QED
    BY <1>1, <2>3 DEF T
<1>7. ASSUME ~refused(s) PROVE g[n] = f[n] /\ f[n] < SizeRange /\ \A i \in 1 .. n : s[i] # 0
  <2>1. n \in 0 .. n
    BY <1>1
  <2>2. g[n] = f[n] /\ g[n] \in 0 .. SizeRange - 1
    BY <1>2, <1>6, <1>7, <2>1
  <2>3. f[n] < SizeRange
    BY <2>2, <1>1
  <2> QED
    BY <1>4, <1>7, <2>2, <2>3
<1>8. ASSUME f[n] < SizeRange, \A i \in 1 .. n : s[i] # 0 PROVE ~refused(s)
  <2>1. \A i \in 0 .. n : g[i] = f[i]
    BY <1>6, <1>8
  <2>2. ASSUME NEW i \in 1 .. n PROVE ~(g[i] < g[i - 1])
    <3>1. i \in 0 .. n /\ i - 1 \in 0 .. n /\ f[i - 1] \in Nat /\ s[i] \in Nat /\ f[i] = f[i - 1] + s[i]
      BY <1>1, <1>3
    <3> QED
      BY <2>1, <3>1
  <2> QED
    BY <1>4, <1>8, <2>2
<1>9. f[n] \in Nat
  BY <1>1, <1>3
<1>10. refused(s) <=> (\E i \in 1 .. n : s[i] = 0) \/ f[n] >= SizeRange
  BY <1>1, <1>7, <1>8, <1>9
<1> QED
  BY <1>1, <1>3, <1>7, <1>10 DEF n, g

-----------------------------------------------------------------------------
(* The shape of a region.                                                  *)

Geometry(r) ==
    /\ r.nchunks \in Nat \ {0}
    /\ r.chunk_start \in [0 .. r.nchunks -> Nat]
    /\ r.chunk_start[0] = 0
    /\ \A i, j \in 0 .. r.nchunks : i < j => r.chunk_start[i] < r.chunk_start[j]
    /\ r.total_size = r.chunk_start[r.nchunks]
    /\ r.total_size + PageSize - 1 < SizeRange
    /\ r.mapped_size = page_ceil(r.total_size)

(* A strictly growing step makes a strictly growing function.              *)
LEMMA Growing ==
    ASSUME NEW n \in Nat, NEW f, f \in [0 .. n -> Nat],
           \A i \in 1 .. n : f[i - 1] < f[i]
    PROVE  \A i, j \in 0 .. n : i < j => f[i] < f[j]
<1> DEFINE T == {k \in Nat : \A i \in 0 .. n : i + k + 1 <= n => f[i] < f[i + k + 1]}
<1>1. 0 \in T
  <2>1. ASSUME NEW i \in 0 .. n, i + 1 <= n PROVE f[i] < f[i + 1]
    <3>1. i + 1 \in 1 .. n /\ (i + 1) - 1 = i
      BY <2>1
    <3> QED
      BY <3>1
  <2> QED
    BY <2>1
<1>2. ASSUME NEW k \in T PROVE k + 1 \in T
  <2>1. ASSUME NEW i \in 0 .. n, i + (k + 1) + 1 <= n PROVE f[i] < f[i + (k + 1) + 1]
    <3>1. k \in Nat /\ i + k + 1 \in 0 .. n /\ i + (k + 1) + 1 \in 1 .. n
          /\ (i + (k + 1) + 1) - 1 = i + k + 1 /\ i + k + 1 <= n
      BY <1>2, <2>1
    <3>2. f[i] < f[i + k + 1] /\ f[i + k + 1] < f[i + (k + 1) + 1]
      BY <1>2, <3>1
    <3>3. f[i] \in Nat /\ f[i + k + 1] \in Nat /\ f[i + (k + 1) + 1] \in Nat
      BY <3>1
    <3> QED
      BY <3>2, <3>3
  <2> QED
    BY <1>2, <2>1
<1> HIDE DEF T
<1>3. T = Nat
  <2>1. T \in SUBSET Nat
    BY DEF T
  <2> QED
    BY <1>1, <1>2, <2>1, NatSet
<1>4. ASSUME NEW i \in 0 .. n, NEW j \in 0 .. n, i < j PROVE f[i] < f[j]
  <2>1. PICK k \in Nat : k = j - i - 1
    BY <1>4
  <2>2. i + k + 1 = j /\ i + k + 1 <= n
    BY <2>1
  <2> QED
    BY <1>3, <2>2 DEF T
<1> QED
  BY <1>4

(* An accepted request whose rounded size is not 0 gives a region of that  *)
(* shape.                                                                  *)
LEMMA GeometryHolds ==
    ASSUME NEW s \in Request, ~refused(s), region_of(s).mapped_size # 0
    PROVE  /\ Geometry(region_of(s))
           /\ region_of(s).nchunks = Len(s) /\ region_of(s).total_size = TrueSum(s)
<1> DEFINE n == Len(s)
           g == running_total(s)
           r == region_of(s)
<1>1. /\ n \in Nat \ {0} /\ SizeRange \in Nat \ {0}
      /\ \A i \in 1 .. n : s[i] \in Nat /\ s[i] < SizeRange
  BY RequestType
<1>2. /\ g \in [0 .. n -> 0 .. SizeRange - 1] /\ g[0] = 0
      /\ \A i \in 1 .. n : g[i] = (g[i - 1] + s[i]) % SizeRange
  BY RunningTotal
<1>3. \A i \in 1 .. n : s[i] # 0 /\ ~(g[i] < g[i - 1])
  BY DEF refused
<1>4. r.nchunks = n /\ r.chunk_start = g /\ r.total_size = g[n] /\ r.mapped_size = page_ceil(g[n])
  BY DEF region_of
<1>5. g[n] = TrueSum(s)
  BY RefusedExactly
<1> HIDE DEF n, g, r
<1>6. g \in [0 .. n -> Nat]
  BY <1>1, <1>2
<1>7. ASSUME NEW i \in 1 .. n PROVE g[i - 1] < g[i]
  <2>1. PICK a \in 0 .. SizeRange - 1, b \in 0 .. SizeRange - 1 : a = g[i - 1] /\ b = g[i]
    BY <1>1, <1>2
  <2>2. s[i] \in Nat /\ s[i] < SizeRange /\ s[i] # 0 /\ ~(b < a) /\ b = (a + s[i]) % SizeRange
    BY <1>1, <1>2, <1>3, <2>1
  <2>3. PICK x \in Nat : x = a + s[i] /\ x < 2 * SizeRange
    BY <1>1, <2>2
  <2>4. x % SizeRange = x \/ x % SizeRange = x - SizeRange
    BY <1>1, <2>3, ModOnce
  <2> QED
    BY <1>1, <2>1, <2>2, <2>3, <2>4
<1>8. \A i, j \in 0 .. n : i < j => g[i] < g[j]
  <2>1. n \in Nat
    BY <1>1
  <2> QED
    BY <1>6, <1>7, <2>1, Growing
<1>9. g[n] + PageSize - 1 < SizeRange
  <2>1. g[n] \in Nat /\ g[n] < SizeRange
    BY <1>1, <1>2
  <2>2. page_ceil(g[n]) # 0
    BY <1>4 DEF r
  <2> QED
    BY <2>1, <2>2, Ceil
<1>10. Geometry(r)
  BY <1>1, <1>2, <1>4, <1>6, <1>8, <1>9 DEF Geometry
<1> QED
  BY <1>4, <1>5, <1>10 DEF n, r

-----------------------------------------------------------------------------
(* find_chunk().                                                           *)

\* f is the binary search of find_chunk().
Halving(r, off, f) ==
    f = [w \in ChunkIds(r) \X ChunkIds(r) |->
            LET lo == w[1]  hi == w[2]  mid == lo + (hi - lo + 1) \div 2
            IN  IF lo >= hi THEN lo
                ELSE IF r.chunk_start[mid] <= off THEN f[<<mid, hi>>]
                ELSE f[<<lo, mid - 1>>]]

(* The middle of an interval is inside it, whichever way it is rounded.    *)
LEMMA Middle ==
    ASSUME NEW a \in Int, NEW b \in Int, a < b
    PROVE  /\ a + (b - a + 1) \div 2 \in Int
           /\ a < a + (b - a + 1) \div 2 /\ a + (b - a + 1) \div 2 <= b
           /\ a + (b - a) \div 2 \in Int
           /\ a <= a + (b - a) \div 2 /\ a + (b - a) \div 2 < b
OBVIOUS

(* The search ends at the last chunk that starts no later than off.        *)
LEMMA FindChunk ==
    ASSUME NEW r, Geometry(r), NEW off \in Nat
    PROVE  /\ find_chunk(r, off) \in ChunkIds(r)
           /\ r.chunk_start[find_chunk(r, off)] <= off
           /\ \/ find_chunk(r, off) = r.nchunks - 1
              \/ off < r.chunk_start[find_chunk(r, off) + 1]
<1> DEFINE n == r.nchunks
           S == r.chunk_start
           C == 0 .. n - 1
           D == C \X C
           mid(w) == w[1] + (w[2] - w[1] + 1) \div 2
           Stop == {w \in D : w[1] >= w[2]}
           out == [w \in D |-> w[1]]
           nx == [w \in D |-> IF w[1] >= w[2] THEN w
                              ELSE IF S[mid(w)] <= off THEN <<mid(w), w[2]>>
                              ELSE <<w[1], mid(w) - 1>>]
           m == [w \in D |-> IF w[1] >= w[2] THEN 0 ELSE w[2] - w[1]]
           Q == {w \in D : /\ w[1] <= w[2] /\ S[w[1]] <= off
                           /\ w[2] = n - 1 \/ off < S[w[2] + 1]}
<1>1. n \in Nat \ {0} /\ S \in [0 .. n -> Nat] /\ S[0] = 0 /\ ChunkIds(r) = C
  BY DEF Geometry, ChunkIds
<1>2. ASSUME NEW f PROVE Halving(r, off, f) <=> Searching(D, Stop, out, nx, f)
  <2>1. ASSUME NEW w \in D
        PROVE  (LET lo == w[1]  hi == w[2]  md == lo + (hi - lo + 1) \div 2
                IN  IF lo >= hi THEN lo
                    ELSE IF r.chunk_start[md] <= off THEN f[<<md, hi>>]
                    ELSE f[<<lo, md - 1>>])
               = IF w \in Stop THEN out[w] ELSE f[nx[w]]
    OBVIOUS
  <2> QED
    BY <1>1, <2>1 DEF Halving, Searching
<1> HIDE DEF n, S
<1>3. ASSUME NEW w \in D, w \notin Stop
      PROVE  /\ w[1] \in C /\ w[2] \in C /\ w[1] < w[2]
             /\ mid(w) \in C /\ mid(w) - 1 \in C /\ w[1] < mid(w) /\ mid(w) <= w[2]
             /\ S[mid(w)] \in Nat
             /\ nx[w] = IF S[mid(w)] <= off THEN <<mid(w), w[2]>> ELSE <<w[1], mid(w) - 1>>
  <2>1. w[1] \in C /\ w[2] \in C /\ w[1] < w[2] /\ w[1] \in Int /\ w[2] \in Int
    BY <1>1, <1>3
  <2>2. mid(w) \in Int /\ w[1] < mid(w) /\ mid(w) <= w[2]
    BY <2>1, Middle
  <2> HIDE DEF mid
  <2>3. mid(w) \in C /\ mid(w) - 1 \in C /\ mid(w) \in 0 .. n
    BY <1>1, <2>1, <2>2
  <2>4. ~(w[1] >= w[2])
    BY <2>1
  <2> QED
    BY <1>1, <2>1, <2>2, <2>3, <2>4
<1>4. nx \in [D -> D] /\ m \in [D -> Nat] /\ \A w \in D : m[w] <= n
  <2>1. ASSUME NEW w \in D PROVE nx[w] \in D
    <3>1. CASE w \in Stop
      BY <3>1
    <3>2. CASE w \notin Stop
      BY <1>3, <3>2
    <3> QED
      BY <3>1, <3>2
  <2>2. nx = [w \in D |-> nx[w]]
    OBVIOUS
  <2>3. nx \in [D -> D]
    <3> HIDE DEF nx, D
    <3> QED
      BY <2>1, <2>2
  <2>4. m \in [D -> Nat] /\ \A w \in D : m[w] <= n
    BY <1>1
  <2> QED
    BY <2>3, <2>4
<1>5. ASSUME NEW w \in D \ Stop PROVE m[nx[w]] < m[w]
  <2>1. /\ w[1] \in C /\ w[2] \in C /\ w[1] < w[2]
        /\ mid(w) \in C /\ mid(w) - 1 \in C /\ w[1] < mid(w) /\ mid(w) <= w[2]
        /\ nx[w] = <<mid(w), w[2]>> \/ nx[w] = <<w[1], mid(w) - 1>>
    BY <1>3
  <2>2. PICK k \in C : k = mid(w)
    BY <2>1
  <2>3. m[w] = w[2] - w[1]
    BY <1>1, <2>1
  <2>4. m[<<k, w[2]>>] = (IF k >= w[2] THEN 0 ELSE w[2] - k)
    BY <2>1
  <2>5. m[<<w[1], k - 1>>] = (IF w[1] >= k - 1 THEN 0 ELSE (k - 1) - w[1])
    BY <2>1, <2>2
  <2> HIDE DEF m, nx, mid
  <2>6. nx[w] = <<k, w[2]>> \/ nx[w] = <<w[1], k - 1>>
    BY <2>1, <2>2
  <2>7. m[nx[w]] = m[<<k, w[2]>>] \/ m[nx[w]] = m[<<w[1], k - 1>>]
    BY <2>6
  <2>8. w[1] \in Int /\ w[2] \in Int /\ k \in Int /\ w[1] < k /\ k <= w[2]
    BY <1>1, <2>1, <2>2
  <2> QED
    BY <2>3, <2>4, <2>5, <2>7, <2>8
<1>6. PICK f : Halving(r, off, f) /\ find_chunk(r, off) = f[<<0, n - 1>>]
  <2>1. \E f : Searching(D, Stop, out, nx, f)
    <3> n \in Nat
      BY <1>1
    <3> HIDE DEF D, Stop, out, nx, m
    <3> QED
      BY <1>4, <1>5, SearchExists
  <2>2. \E f : Halving(r, off, f)
    BY <1>2, <2>1
  <2>3. find_chunk(r, off) = (CHOOSE f : Halving(r, off, f))[<<0, n - 1>>]
    BY DEF find_chunk, Halving, n
  <2> QED
    BY <2>2, <2>3
<1>7. Q \in SUBSET D /\ <<0, n - 1>> \in Q
  BY <1>1
<1>8. ASSUME NEW w \in Q \ Stop PROVE nx[w] \in Q
  <2>1. /\ w[1] \in C /\ w[2] \in C /\ w[1] < w[2]
        /\ mid(w) \in C /\ mid(w) - 1 \in C /\ w[1] < mid(w) /\ mid(w) <= w[2]
        /\ S[mid(w)] \in Nat
        /\ nx[w] = IF S[mid(w)] <= off THEN <<mid(w), w[2]>> ELSE <<w[1], mid(w) - 1>>
    BY <1>3
  <2> HIDE DEF nx, mid
  <2>2. PICK k \in C : k = mid(w)
    BY <2>1
  <2>3. /\ k - 1 \in C /\ w[1] < k /\ k <= w[2] /\ S[k] \in Nat
        /\ nx[w] = IF S[k] <= off THEN <<k, w[2]>> ELSE <<w[1], k - 1>>
    BY <2>1, <2>2
  <2>4. (k - 1) + 1 = k /\ w[1] <= k - 1 /\ k <= w[2]
    BY <1>1, <2>1, <2>3
  <2> QED
    BY <2>1, <2>3, <2>4
<1>9. PICK e \in Q \cap Stop : f[<<0, n - 1>>] = out[e]
  <2>1. Searching(D, Stop, out, nx, f)
    BY <1>2, <1>6
  <2> HIDE DEF D, Stop, out, nx, m, Q
  <2> QED
    BY <1>4, <1>5, <1>7, <1>8, <2>1, SearchEnds
<1>10. e[1] \in C /\ e[1] = e[2] /\ S[e[1]] <= off /\ (e[1] = n - 1 \/ off < S[e[1] + 1]) /\ out[e] = e[1]
  BY <1>1
<1> QED
  BY <1>1, <1>6, <1>9, <1>10 DEF n, S

-----------------------------------------------------------------------------
(* Chunks and pages of a region.                                           *)

(* The starts of the chunks are ordered, and rounding one never wraps.     *)
LEMMA Starts ==
    ASSUME NEW r, Geometry(r)
    PROVE  /\ r.nchunks \in Nat \ {0} /\ PageSize \in Nat \ {0}
           /\ r.total_size \in Nat /\ r.chunk_start[r.nchunks] = r.total_size
           /\ r.chunk_start[0] = 0
           /\ \A i \in 0 .. r.nchunks :
                /\ r.chunk_start[i] \in Nat /\ r.chunk_start[i] <= r.total_size
                /\ r.chunk_start[i] + PageSize - 1 < SizeRange
           /\ \A i, j \in 0 .. r.nchunks :
                /\ i < j <=> r.chunk_start[i] < r.chunk_start[j]
                /\ i <= j <=> r.chunk_start[i] <= r.chunk_start[j]
<1> DEFINE n == r.nchunks
           S == r.chunk_start
<1>1. /\ n \in Nat \ {0} /\ S \in [0 .. n -> Nat] /\ S[0] = 0
      /\ \A i, j \in 0 .. n : i < j => S[i] < S[j]
      /\ r.total_size = S[n] /\ r.total_size + PageSize - 1 < SizeRange
  BY DEF Geometry
<1>2. PageSize \in Nat \ {0} /\ SizeRange \in Nat
  BY LayoutAssumption
<1> HIDE DEF n, S
<1>3. n \in 0 .. n /\ \A i \in 0 .. n : S[i] \in Nat
  BY <1>1
<1>4. ASSUME NEW i \in 0 .. n, NEW j \in 0 .. n
      PROVE  (i < j <=> S[i] < S[j]) /\ (i <= j <=> S[i] <= S[j])
  <2>1. /\ S[i] \in Nat /\ S[j] \in Nat
        /\ i < j => S[i] < S[j]
        /\ j < i => S[j] < S[i]
        /\ i = j => S[i] = S[j]
    BY <1>1, <1>3
  <2> QED
    BY <1>1, <2>1
<1>5. ASSUME NEW i \in 0 .. n PROVE S[i] \in Nat /\ S[i] <= S[n] /\ S[i] + PageSize - 1 < SizeRange
  <2>1. i <= n /\ S[i] \in Nat /\ S[n] \in Nat
    BY <1>1, <1>3
  <2>2. S[i] <= S[n]
    BY <1>3, <1>4, <2>1
  <2> QED
    BY <1>1, <1>2, <2>1, <2>2
<1> QED
  BY <1>1, <1>2, <1>3, <1>4, <1>5 DEF n, S

(* Which page an offset is in, and where rounding up takes it.             *)
LEMMA FloorIs ==
    ASSUME NEW x \in Nat, NEW p \in Aligned
    PROVE  page_floor(x) = p <=> p <= x /\ x < p + PageSize
<1>1. PICK w \in Aligned : /\ w = page_floor(x) /\ w <= x /\ x < w + PageSize
                           /\ p <= x => p <= w
  BY Floor
<1>2. p < w => p + PageSize <= w
  BY AlignedApart
<1>3. PageSize \in Nat /\ p \in Nat /\ w \in Nat
  BY LayoutAssumption DEF Aligned
<1> QED
  BY <1>1, <1>2, <1>3

(* Rounding up to a page, where it does not leave size_t.                  *)
LEMMA CeilIs ==
    ASSUME NEW x \in Nat, x + PageSize - 1 < SizeRange
    PROVE  /\ page_ceil(x) \in Aligned
           /\ x <= page_ceil(x) /\ page_ceil(x) < x + PageSize
           /\ \A p \in Aligned : x <= p <=> page_ceil(x) <= p
           /\ x \in Aligned <=> page_ceil(x) = x
<1>1. PageSize \in Nat /\ PageSize > 0 /\ SizeRange \in Nat
  BY LayoutAssumption
<1>2. x < SizeRange
  BY <1>1
<1>3. PICK w \in Aligned : /\ w = page_ceil(x) /\ x <= w /\ w < x + PageSize
                           /\ \A p \in Aligned : x <= p => w <= p
                           /\ x \in Aligned <=> w = x
  BY <1>2, Ceil
<1>4. w \in Nat /\ \A p \in Aligned : p \in Nat
  BY DEF Aligned
<1>5. \A p \in Aligned : x <= p <=> w <= p
  BY <1>3, <1>4
<1> QED
  BY <1>3, <1>5

(* The pages of a region: each holds bytes of it.                          *)
LEMMA Pages ==
    ASSUME Geometry(region)
    PROVE  /\ \A p : p \in Page <=> p \in Aligned /\ p < region.mapped_size
           /\ \A p \in Page : p \in Nat /\ p < region.total_size
           /\ region.mapped_size \in Aligned /\ region.mapped_size \in Nat
           /\ region.total_size <= region.mapped_size
           /\ region.mapped_size < region.total_size + PageSize
<1> DEFINE M == region.mapped_size
           N == region.total_size
<1>1. PageSize \in Nat \ {0} /\ N \in Nat /\ N + PageSize - 1 < SizeRange /\ M = page_ceil(N)
  BY Starts DEF Geometry
<1> HIDE DEF M, N
<1>2. M \in Aligned /\ N <= M /\ M < N + PageSize
  BY <1>1, CeilIs
<1>3. M \in Nat
  BY <1>2 DEF Aligned
<1>4. \A p : p \in Page <=> p \in Aligned /\ p < M
  BY <1>1, <1>3 DEF Page, PagesOf, Aligned, M
<1>5. ASSUME NEW p \in Page PROVE p \in Nat /\ p < N
  <2>1. p \in Aligned /\ p \in Nat /\ p < M
    BY <1>4 DEF Aligned
  <2>2. p + PageSize <= M
    BY <1>2, <2>1, AlignedApart
  <2> QED
    BY <1>1, <1>2, <1>3, <2>1, <2>2
<1> QED
  BY <1>2, <1>3, <1>4, <1>5 DEF M, N

(* A chunk has bytes in a page when their byte ranges meet.                *)
LEMMA Overlap ==
    ASSUME Geometry(region), NEW p \in Nat
    PROVE  /\ Contributors(p) \subseteq ChunkIds(region)
           /\ \A c \in ChunkIds(region) :
                c \in Contributors(p) <=> /\ region.chunk_start[c] < p + PageSize
                                          /\ p < region.chunk_start[c + 1]
<1> DEFINE n == region.nchunks
           S == region.chunk_start
           N == region.total_size
<1>1. /\ n \in Nat \ {0} /\ PageSize \in Nat \ {0} /\ N \in Nat
      /\ \A i \in 0 .. n : S[i] \in Nat /\ S[i] <= N
      /\ \A i, j \in 0 .. n : i < j <=> S[i] < S[j]
  BY Starts
<1> HIDE DEF n, S, N
<1>2. ASSUME NEW c \in 0 .. n - 1
      PROVE  (\E b \in p .. p + PageSize - 1 : b \in 0 .. N - 1 /\ S[c] <= b /\ b < S[c + 1])
                 <=> S[c] < p + PageSize /\ p < S[c + 1]
  <2>1. c \in 0 .. n /\ c + 1 \in 0 .. n /\ c < c + 1
    BY <1>1
  <2>2. S[c] \in Nat /\ S[c + 1] \in Nat /\ S[c + 1] <= N /\ S[c] < S[c + 1]
    BY <1>1, <2>1
  <2>3. ASSUME S[c] < p + PageSize, p < S[c + 1]
        PROVE  \E b \in p .. p + PageSize - 1 : b \in 0 .. N - 1 /\ S[c] <= b /\ b < S[c + 1]
    <3>1. CASE S[c] <= p
      BY <1>1, <2>2, <2>3, <3>1
    <3>2. CASE p < S[c]
      <4>1. S[c] \in p .. p + PageSize - 1 /\ S[c] \in 0 .. N - 1
        BY <1>1, <2>2, <2>3, <3>2
      <4> QED
        BY <4>1, <2>2
    <3> QED
      BY <2>2, <3>1, <3>2
  <2> QED
    BY <1>1, <2>2, <2>3
<1> QED
  BY <1>1, <1>2 DEF Contributors, ChunkIds, Byte, Covers, n, S, N

(* find_chunk() for a byte of the region and for one of its padding.       *)
LEMMA FindCovers ==
    ASSUME Geometry(region), NEW b \in Nat
    PROVE  /\ b \in Byte => Covers(find_chunk(region, b), b)
           /\ region.total_size <= b => find_chunk(region, b) = region.nchunks - 1
<1> DEFINE n == region.nchunks
           S == region.chunk_start
           c == find_chunk(region, b)
<1>1. /\ n \in Nat \ {0} /\ region.total_size = S[n]
      /\ \A i \in 0 .. n : S[i] \in Nat /\ S[i] <= S[n]
  BY Starts
<1>2. c \in 0 .. n - 1 /\ S[c] <= b /\ (c = n - 1 \/ b < S[c + 1])
  BY FindChunk DEF ChunkIds
<1> HIDE DEF n, S, c
<1>3. c + 1 \in 0 .. n /\ S[c + 1] \in Nat /\ S[c + 1] <= S[n] /\ S[n] \in Nat /\ (c = n - 1 => c + 1 = n)
  <2>1. c + 1 \in 0 .. n /\ n \in 0 .. n
    BY <1>1, <1>2
  <2> QED
    BY <1>1, <1>2, <2>1
<1>4. b \in Byte => b < S[n]
  BY <1>1, <1>3 DEF Byte
<1>5. b \in Byte => b < S[c + 1]
  BY <1>2, <1>3, <1>4
<1>6. S[n] <= b => c = n - 1
  BY <1>2, <1>3
<1> QED
  BY <1>1, <1>2, <1>5, <1>6 DEF Covers, n, S, c

\* The last byte of the page at p that belongs to the region.
LastByte(r, p) == IF p + PageSize - 1 >= r.total_size THEN r.total_size - 1
                  ELSE p + PageSize - 1

(* The contributors of a page are the chunks from the one at its first     *)
(* byte to the one at its last.                                            *)
LEMMA ContributorRange ==
    ASSUME Geometry(region), NEW p \in Page
    PROVE  /\ LastByte(region, p) \in Nat
           /\ Contributors(p) = find_chunk(region, p) .. find_chunk(region, LastByte(region, p))
           /\ find_chunk(region, p) \in Contributors(p)
<1> DEFINE n == region.nchunks
           S == region.chunk_start
           N == region.total_size
           l == LastByte(region, p)
           a == find_chunk(region, p)
           z == find_chunk(region, l)
<1>1. /\ n \in Nat \ {0} /\ PageSize \in Nat \ {0} /\ N \in Nat /\ S[n] = N
      /\ \A i \in 0 .. n : S[i] \in Nat /\ S[i] <= N
      /\ \A i, j \in 0 .. n : /\ i < j <=> S[i] < S[j]
                              /\ i <= j <=> S[i] <= S[j]
  BY Starts
<1>2. p \in Nat /\ p < N
  BY Pages
<1>3. l \in Nat /\ p <= l /\ l < p + PageSize /\ l < N /\ (l = N - 1 \/ l = p + PageSize - 1)
  BY <1>1, <1>2 DEF LastByte
<1> HIDE DEF l
<1>4. /\ a \in 0 .. n - 1 /\ S[a] <= p /\ (a = n - 1 \/ p < S[a + 1])
      /\ z \in 0 .. n - 1 /\ S[z] <= l /\ (z = n - 1 \/ l < S[z + 1])
  BY <1>2, <1>3, FindChunk DEF ChunkIds
<1>5. /\ Contributors(p) \subseteq 0 .. n - 1
      /\ \A c \in 0 .. n - 1 : c \in Contributors(p) <=> S[c] < p + PageSize /\ p < S[c + 1]
  BY <1>2, Overlap DEF ChunkIds
<1> HIDE DEF n, S, N, a, z
<1>6. ASSUME NEW c \in 0 .. n - 1 PROVE p < S[c + 1] <=> a <= c
  <2>1. a \in 0 .. n /\ c \in 0 .. n /\ c + 1 \in 0 .. n /\ a + 1 \in 0 .. n
    BY <1>1, <1>4
  <2>2. S[a] \in Nat /\ S[a + 1] \in Nat /\ S[c + 1] \in Nat
    BY <1>1, <2>1
  <2>3. p < S[a + 1]
    BY <1>1, <1>2, <1>4
  <2>4. CASE a <= c
    <3>1. S[a + 1] <= S[c + 1]
      BY <1>1, <2>1, <2>4
    <3> QED
      BY <2>2, <2>3, <2>4, <3>1, <1>2
  <2>5. CASE ~(a <= c)
    <3>1. S[c + 1] <= S[a]
      BY <1>1, <2>1, <2>5
    <3> QED
      BY <2>2, <2>5, <3>1, <1>2, <1>4
  <2> QED
    BY <2>4, <2>5
<1>7. ASSUME NEW c \in 0 .. n - 1 PROVE S[c] < p + PageSize <=> c <= z
  <2>1. z \in 0 .. n /\ c \in 0 .. n /\ z + 1 \in 0 .. n
    BY <1>1, <1>4
  <2>2. S[c] \in Nat /\ S[z] \in Nat /\ S[z + 1] \in Nat
    BY <1>1, <2>1
  <2>4. CASE c <= z
    <3>1. S[c] <= S[z]
      BY <1>1, <2>1, <2>4
    <3> QED
      BY <1>1, <1>2, <1>3, <1>4, <2>2, <2>4, <3>1
  <2>5. CASE ~(c <= z)
    <3>1. z + 1 <= c /\ z # n - 1 /\ ~(n <= c)
      BY <1>1, <1>4, <2>1, <2>5
    <3>2. S[z + 1] <= S[c] /\ S[c] < S[n] /\ l < S[z + 1]
      BY <1>1, <1>4, <2>1, <3>1
    <3>3. l + 1 <= S[c] /\ S[c] < N
      BY <1>1, <1>3, <2>2, <3>2
    <3> QED
      BY <1>1, <1>2, <1>3, <2>2, <2>5, <3>3
  <2> QED
    BY <2>4, <2>5
<1>8. Contributors(p) = a .. z
  <2>1. \A c \in 0 .. n - 1 : c \in Contributors(p) <=> a <= c /\ c <= z
    BY <1>5, <1>6, <1>7
  <2>2. \A c : c \in a .. z => c \in 0 .. n - 1
    BY <1>1, <1>4
  <2>3. \A c : c \in a .. z <=> c \in 0 .. n - 1 /\ a <= c /\ c <= z
    BY <1>1, <1>4
  <2> QED
    BY <1>5, <2>1, <2>3
<1>9. a \in Contributors(p)
  <2>1. a <= a /\ S[a] \in Nat
    BY <1>1, <1>4
  <2>2. S[a] < p + PageSize
    BY <1>1, <1>2, <1>4, <2>1
  <2>3. p < S[a + 1]
    BY <1>4, <1>6, <2>1
  <2> QED
    BY <1>4, <1>5, <2>2, <2>3
<1> QED
  BY <1>3, <1>8, <1>9 DEF a, z, l

(* A page has several contributors exactly when a chunk starts inside it.  *)
LEMMA Shared ==
    ASSUME Geometry(region), NEW p \in Page
    PROVE  Cardinality(Contributors(p)) > 1
               <=> \E i \in 1 .. region.nchunks - 1 :
                       /\ page_floor(region.chunk_start[i]) = p
                       /\ region.chunk_start[i] # p
<1> DEFINE n == region.nchunks
           S == region.chunk_start
           a == find_chunk(region, p)
           z == find_chunk(region, LastByte(region, p))
<1>1. /\ n \in Nat \ {0} /\ PageSize \in Nat \ {0} /\ S[0] = 0
      /\ \A i \in 0 .. n : S[i] \in Nat
      /\ \A i, j \in 0 .. n : i < j <=> S[i] < S[j]
  BY Starts
<1>2. p \in Nat /\ p \in Aligned
  BY Pages
<1>3. /\ Contributors(p) = a .. z /\ a \in Contributors(p)
      /\ Contributors(p) \subseteq 0 .. n - 1
      /\ \A c \in 0 .. n - 1 : c \in Contributors(p) <=> S[c] < p + PageSize /\ p < S[c + 1]
  BY <1>2, ContributorRange, Overlap DEF ChunkIds
<1>z. z \in Int
  <2>1. LastByte(region, p) \in Nat
    BY ContributorRange
  <2>2. z \in 0 .. n - 1
    BY <2>1, FindChunk DEF ChunkIds
  <2> QED
    BY <1>1, <2>2
<1> HIDE DEF n, S, a, z
<1>4. a \in Int /\ z \in Int /\ a <= z /\ a \in 0 .. n - 1 /\ z \in 0 .. n - 1
  <2>1. a \in 0 .. n - 1 /\ a \in a .. z
    BY <1>3
  <2>2. z \in Int
    BY <1>z
  <2>3. a \in Int /\ a <= z
    BY <1>1, <2>1, <2>2
  <2>4. z \in a .. z
    BY <2>2, <2>3
  <2> QED
    BY <1>3, <2>1, <2>2, <2>3, <2>4
<1>5. Cardinality(Contributors(p)) = z - a + 1
  BY <1>3, <1>4, FS_Interval
<1>6. Cardinality(Contributors(p)) > 1 <=> a < z
  BY <1>4, <1>5
<1>7. ASSUME a < z PROVE \E i \in 1 .. n - 1 : page_floor(S[i]) = p /\ S[i] # p
  <2>1. a + 1 \in 0 .. n - 1 /\ a + 1 \in 1 .. n - 1 /\ a + 1 \in a .. z /\ a + 1 \in 0 .. n
    BY <1>1, <1>4, <1>7
  <2>2. S[a + 1] < p + PageSize /\ p < S[a + 1] /\ S[a + 1] \in Nat
    BY <1>1, <1>3, <2>1
  <2>3. page_floor(S[a + 1]) = p
    BY <1>2, <2>2, FloorIs
  <2> QED
    BY <1>2, <2>1, <2>2, <2>3
<1>8. ASSUME NEW i \in 1 .. n - 1, page_floor(S[i]) = p, S[i] # p PROVE a < z
  <2>1. i \in 0 .. n /\ i - 1 \in 0 .. n /\ i + 1 \in 0 .. n /\ i - 1 \in 0 .. n - 1 /\ i \in 0 .. n - 1
        /\ (i - 1) + 1 = i /\ i - 1 < i /\ i < i + 1
    BY <1>1
  <2>2. S[i] \in Nat /\ S[i - 1] \in Nat /\ S[i + 1] \in Nat /\ S[i - 1] < S[i] /\ S[i] < S[i + 1]
    BY <1>1, <2>1
  <2>3. p <= S[i] /\ S[i] < p + PageSize
    BY <1>2, <1>8, <2>2, FloorIs
  <2>4. i \in Contributors(p) /\ i - 1 \in Contributors(p)
    <3>1. p < S[i] /\ p < S[i + 1] /\ S[i - 1] < p + PageSize
      BY <1>1, <1>2, <1>8, <2>2, <2>3
    <3> QED
      BY <1>3, <2>1, <2>3, <3>1
  <2> QED
    BY <1>3, <1>4, <2>1, <2>4
<1> QED
  BY <1>6, <1>7, <1>8 DEF n, S

(* A page is one chunk's alone when no other chunk starts or ends in it.   *)
LEMMA Alone ==
    ASSUME Geometry(region), NEW p \in Page, NEW c \in ChunkIds(region)
    PROVE  Contributors(p) = {c} <=>
               /\ region.chunk_start[c] <= p
               /\ c + 1 = region.nchunks \/ p + PageSize <= region.chunk_start[c + 1]
<1> DEFINE n == region.nchunks
           S == region.chunk_start
<1>1. /\ n \in Nat \ {0} /\ PageSize \in Nat \ {0} /\ S[n] = region.total_size
      /\ \A i \in 0 .. n : S[i] \in Nat
      /\ \A i, j \in 0 .. n : /\ i < j <=> S[i] < S[j]
                              /\ i <= j <=> S[i] <= S[j]
  BY Starts
<1>2. p \in Nat /\ p < S[n] /\ c \in 0 .. n - 1 /\ S[0] = 0
  BY <1>1, Pages, Starts DEF ChunkIds
<1>3. /\ Contributors(p) \subseteq 0 .. n - 1
      /\ \A i \in 0 .. n - 1 : i \in Contributors(p) <=> S[i] < p + PageSize /\ p < S[i + 1]
  BY <1>2, Overlap DEF ChunkIds
<1> HIDE DEF n, S
<1>4. c \in 0 .. n /\ c + 1 \in 0 .. n /\ S[c] \in Nat /\ S[c + 1] \in Nat
  BY <1>1, <1>2
<1>5. ASSUME S[c] <= p, c + 1 = n \/ p + PageSize <= S[c + 1] PROVE Contributors(p) = {c}
  <2>1. c \in Contributors(p)
    <3>1. S[c] < p + PageSize /\ p < S[c + 1]
      BY <1>1, <1>2, <1>4, <1>5
    <3> QED
      BY <1>2, <1>3, <3>1
  <2>2. ASSUME NEW i \in Contributors(p) PROVE i = c
    <3>1. i \in 0 .. n - 1 /\ i \in 0 .. n /\ i + 1 \in 0 .. n /\ i + 1 \in Int /\ S[i] < p + PageSize /\ p < S[i + 1]
      BY <1>1, <1>3
    <3>2. S[i] \in Nat /\ S[i + 1] \in Nat
      BY <1>1, <3>1
    <3>3. S[c] < S[i + 1]
      BY <1>2, <1>4, <1>5, <3>1, <3>2
    <3>4. c < i + 1
      BY <1>1, <1>4, <3>1, <3>3
    <3>5. c + 1 = n \/ S[i] < S[c + 1]
      BY <1>1, <1>2, <1>4, <1>5, <3>1, <3>2
    <3>6. c + 1 = n \/ i < c + 1
      BY <1>1, <1>4, <3>1, <3>5
    <3> QED
      BY <1>1, <1>2, <3>1, <3>4, <3>6
  <2> QED
    BY <2>1, <2>2
<1>6. ASSUME Contributors(p) = {c} PROVE S[c] <= p /\ (c + 1 = n \/ p + PageSize <= S[c + 1])
  <2>1. S[c] < p + PageSize /\ p < S[c + 1] /\ c \in Contributors(p)
    BY <1>2, <1>3, <1>6
  <2>2. ASSUME p < S[c] PROVE FALSE
    <3>1. c - 1 \in 0 .. n - 1 /\ c - 1 \in 0 .. n /\ c - 1 < c /\ (c - 1) + 1 = c
      BY <1>1, <1>2, <2>2
    <3>2. S[c - 1] \in Nat /\ S[c - 1] < S[c]
      BY <1>1, <1>4, <3>1
    <3>3. c - 1 \in Contributors(p)
      BY <1>1, <1>2, <1>3, <1>4, <2>1, <2>2, <3>1, <3>2
    <3> QED
      BY <1>6, <3>1, <3>3
  <2>3. ASSUME c + 1 # n, S[c + 1] < p + PageSize PROVE FALSE
    <3>1. c + 1 \in 0 .. n - 1 /\ (c + 1) + 1 \in 0 .. n /\ c + 1 < (c + 1) + 1
      BY <1>1, <1>2, <2>3
    <3>2. S[(c + 1) + 1] \in Nat /\ S[c + 1] < S[(c + 1) + 1]
      BY <1>1, <1>4, <3>1
    <3>3. c + 1 \in Contributors(p)
      BY <1>2, <1>3, <1>4, <2>1, <2>3, <3>1, <3>2
    <3> QED
      BY <1>6, <1>2, <3>1, <3>3
  <2> QED
    BY <1>1, <1>2, <1>4, <2>2, <2>3
<1> QED
  BY <1>5, <1>6 DEF n, S

(* chunk_exclusive_pages() gives the pages that are the chunk's alone.     *)
LEMMA Exclusive ==
    ASSUME Geometry(region), NEW c \in ChunkIds(region)
    PROVE  PagesOf(chunk_exclusive_pages(region, c)) = {p \in Page : Contributors(p) = {c}}
<1> DEFINE n == region.nchunks
           S == region.chunk_start
           M == region.mapped_size
           lo == page_ceil(S[c])
           hi == IF c + 1 = n THEN M ELSE page_floor(S[c + 1])
           x == chunk_exclusive_pages(region, c)
<1>1. n \in Nat \ {0} /\ PageSize \in Nat \ {0} /\ c \in 0 .. n - 1
  BY Starts DEF ChunkIds
<1>2. c \in 0 .. n /\ c + 1 \in 0 .. n
  BY <1>1
<1>3. /\ S[c] \in Nat /\ S[c] + PageSize - 1 < SizeRange
      /\ S[c + 1] \in Nat /\ S[c + 1] <= region.total_size /\ region.total_size \in Nat
  BY <1>2, Starts
<1>4. /\ M \in Nat /\ region.total_size <= M
      /\ \A p : p \in Page <=> p \in Aligned /\ p < M
  BY Pages
<1>5. ASSUME NEW p \in Page
      PROVE  Contributors(p) = {c} <=> S[c] <= p /\ (c + 1 = n \/ p + PageSize <= S[c + 1])
  BY Alone
<1>6. x = [lo |-> lo, hi |-> IF hi < lo THEN lo ELSE hi]
  BY DEF chunk_exclusive_pages
<1> HIDE DEF n, S, M
<1>7. lo \in Aligned /\ lo \in Nat /\ \A p \in Aligned : S[c] <= p <=> lo <= p
  BY <1>3, CeilIs DEF Aligned
<1>8. page_floor(S[c + 1]) \in Aligned /\ page_floor(S[c + 1]) \in Nat /\ page_floor(S[c + 1]) <= S[c + 1]
  BY <1>3, Floor DEF Aligned
<1>9. ASSUME NEW p \in Aligned PROVE p < page_floor(S[c + 1]) <=> p + PageSize <= S[c + 1]
  <2>1. p \in Nat /\ p + PageSize \in Aligned /\ p + PageSize \in Nat
    BY AlignedApart DEF Aligned
  <2>2. p < page_floor(S[c + 1]) => p + PageSize <= page_floor(S[c + 1])
    BY <1>8, AlignedApart
  <2>3. p + PageSize <= S[c + 1] => p + PageSize <= page_floor(S[c + 1])
    BY <1>3, <2>1, Floor
  <2> QED
    BY <1>1, <1>3, <1>8, <2>1, <2>2, <2>3
<1>10. hi \in Nat
  BY <1>4, <1>8
<1> HIDE DEF lo, x
<1>11. \A p : p \in PagesOf(x) <=> p \in Aligned /\ lo <= p /\ p < hi
  <2>1. x.lo = lo /\ x.hi = (IF hi < lo THEN lo ELSE hi)
    BY <1>6
  <2> HIDE DEF hi
  <2>2. x.hi \in Nat /\ x.lo \in Nat
    BY <1>7, <1>10, <2>1
  <2>3. \A p : p \in PagesOf(x) <=> p \in x.lo .. x.hi - 1 /\ p % PageSize = 0
    BY DEF PagesOf
  <2>4. \A p : p \in PagesOf(x) <=> p \in Aligned /\ x.lo <= p /\ p < x.hi
    BY <2>2, <2>3 DEF Aligned
  <2> QED
    BY <1>7, <1>10, <2>1, <2>4 DEF Aligned
<1>12. ASSUME NEW p \in Aligned
       PROVE  lo <= p /\ p < hi <=> p \in Page /\ Contributors(p) = {c}
  <2>1. p \in Nat
    BY DEF Aligned
  <2>2. CASE c + 1 = n
    <3>1. p < hi <=> p \in Page
      BY <1>4, <2>2
    <3> QED
      BY <1>5, <1>7, <2>2, <3>1
  <2>3. CASE c + 1 # n
    <3>1. p < hi <=> p + PageSize <= S[c + 1]
      BY <1>9, <2>3
    <3>2. p + PageSize <= S[c + 1] => p \in Page
      BY <1>1, <1>3, <1>4, <2>1
    <3> QED
      BY <1>5, <1>7, <2>3, <3>1, <3>2
  <2> QED
    BY <2>2, <2>3
<1>13. \A p \in Page : p \in Aligned
  BY <1>4
<1> HIDE DEF hi
<1> QED
  BY <1>11, <1>12, <1>13 DEF x

-----------------------------------------------------------------------------
(* shared_pages_init() and find_shared_page().                             *)

\* The entry shared_pages_init() makes for the page at p.
EntryOf(r, p) ==
    LET end  == p + PageSize - 1
        last == IF end >= r.total_size THEN r.total_size - 1 ELSE end
    IN  [page_off    |-> p,
         first_chunk |-> find_chunk(r, p),
         last_chunk  |-> find_chunk(r, last)]

\* f is the loop of shared_pages_init().
Scanning(r, f) ==
    f = [i \in 0 .. r.nchunks - 1 |->
            IF i = 0 THEN [prev |-> SIZE_MAX, found |-> << >>]
            ELSE LET p == page_floor(r.chunk_start[i])
                 IN  IF r.chunk_start[i] = p \/ p = f[i - 1].prev
                     THEN f[i - 1]
                     ELSE [prev  |-> p,
                           found |-> Append(f[i - 1].found, EntryOf(r, p))]]

\* What the loop has found after the first i chunks.
Found(r, i, t) ==
    /\ t.found \in Seq({EntryOf(r, p) : p \in Nat})
    /\ \A k \in 1 .. Len(t.found) :
         /\ t.found[k].page_off \in Nat
         /\ t.found[k] = EntryOf(r, t.found[k].page_off)
         /\ \E j \in 1 .. i : /\ page_floor(r.chunk_start[j]) = t.found[k].page_off
                              /\ r.chunk_start[j] # t.found[k].page_off
    /\ \A k, l \in 1 .. Len(t.found) : k < l => t.found[k].page_off < t.found[l].page_off
    /\ \A j \in 1 .. i : r.chunk_start[j] # page_floor(r.chunk_start[j]) =>
         \E k \in 1 .. Len(t.found) : t.found[k].page_off = page_floor(r.chunk_start[j])
    /\ IF Len(t.found) = 0 THEN t.prev = SIZE_MAX
       ELSE /\ t.prev = t.found[Len(t.found)].page_off
            /\ t.prev <= page_floor(r.chunk_start[i])

(* One more chunk keeps that.                                              *)
LEMMA FoundStep ==
    ASSUME NEW r, Geometry(r), NEW i \in Nat, i + 1 <= r.nchunks - 1,
           NEW t, Found(r, i, t), NEW p, p = page_floor(r.chunk_start[i + 1]),
           NEW u, u = IF r.chunk_start[i + 1] = p \/ p = t.prev THEN t
                      ELSE [prev |-> p, found |-> Append(t.found, EntryOf(r, p))]
    PROVE  Found(r, i + 1, u)
<1> DEFINE n == r.nchunks
           S == r.chunk_start
           E == {EntryOf(r, q) : q \in Nat}
           L == Len(t.found)
<1>1. /\ n \in Nat \ {0} /\ PageSize \in Nat \ {0} /\ SizeRange \in Nat
      /\ \A j \in 0 .. n : S[j] \in Nat /\ S[j] + PageSize - 1 < SizeRange
      /\ \A j, k \in 0 .. n : j < k <=> S[j] < S[k]
  BY Starts, LayoutAssumption
<1>2. i \in 0 .. n /\ i + 1 \in 0 .. n /\ i < i + 1
  BY <1>1
<1>3. /\ S[i] \in Nat /\ S[i + 1] \in Nat /\ S[i] < S[i + 1]
      /\ S[i + 1] + PageSize - 1 < SizeRange
  BY <1>1, <1>2
<1>4. /\ p \in Aligned /\ p \in Nat /\ p <= S[i + 1] /\ S[i + 1] < p + PageSize
      /\ page_floor(S[i]) \in Nat /\ page_floor(S[i]) <= p
  <2>1. /\ p \in Aligned /\ p <= S[i + 1] /\ S[i + 1] < p + PageSize
        /\ \A q \in Aligned : q <= S[i + 1] => q <= p
        /\ page_floor(S[i]) \in Aligned /\ page_floor(S[i]) <= S[i]
    BY <1>3, Floor
  <2>2. page_floor(S[i]) <= S[i + 1] /\ page_floor(S[i]) \in Nat /\ p \in Nat
    BY <1>3, <2>1 DEF Aligned
  <2> QED
    BY <2>1, <2>2
<1>5. EntryOf(r, p) \in E /\ EntryOf(r, p).page_off = p
  BY <1>4 DEF EntryOf
<1>6. /\ t.found \in Seq(E)
      /\ \A k \in 1 .. L : /\ t.found[k].page_off \in Nat
                           /\ t.found[k] = EntryOf(r, t.found[k].page_off)
                           /\ \E j \in 1 .. i : /\ page_floor(S[j]) = t.found[k].page_off
                                                /\ S[j] # t.found[k].page_off
      /\ \A k, l \in 1 .. L : k < l => t.found[k].page_off < t.found[l].page_off
      /\ \A j \in 1 .. i : S[j] # page_floor(S[j]) =>
            \E k \in 1 .. L : t.found[k].page_off = page_floor(S[j])
      /\ IF L = 0 THEN t.prev = SIZE_MAX
         ELSE t.prev = t.found[L].page_off /\ t.prev <= page_floor(S[i])
  BY DEF Found
<1>7. \A j : j \in 1 .. i + 1 <=> j \in 1 .. i \/ j = i + 1
  BY <1>1
<1>8. L \in Nat
  <2> HIDE DEF E
  <2> QED
    BY <1>6
<1>s. Found(r, i + 1, u) <=>
        /\ u.found \in Seq(E)
        /\ \A k \in 1 .. Len(u.found) :
             /\ u.found[k].page_off \in Nat
             /\ u.found[k] = EntryOf(r, u.found[k].page_off)
             /\ \E j \in 1 .. i + 1 : /\ page_floor(S[j]) = u.found[k].page_off
                                      /\ S[j] # u.found[k].page_off
        /\ \A k, l \in 1 .. Len(u.found) : k < l => u.found[k].page_off < u.found[l].page_off
        /\ \A j \in 1 .. i + 1 : S[j] # page_floor(S[j]) =>
              \E k \in 1 .. Len(u.found) : u.found[k].page_off = page_floor(S[j])
        /\ IF Len(u.found) = 0 THEN u.prev = SIZE_MAX
           ELSE u.prev = u.found[Len(u.found)].page_off /\ u.prev <= page_floor(S[i + 1])
  BY DEF Found
<1> HIDE DEF n, S, E
<1>9. CASE u = t
  <2>1. S[i + 1] # page_floor(S[i + 1]) => \E k \in 1 .. L : t.found[k].page_off = page_floor(S[i + 1])
    <3> SUFFICES ASSUME S[i + 1] # p PROVE \E k \in 1 .. L : t.found[k].page_off = p
      BY DEF S
    <3>1. p = t.prev
      <4>1. u # t => u = [prev |-> p, found |-> Append(t.found, EntryOf(r, p))]
        OBVIOUS
      <4>2. CASE p = t.prev
        BY <4>2
      <4>3. CASE p # t.prev
        <5>1. t = [prev |-> p, found |-> Append(t.found, EntryOf(r, p))]
          BY <1>9, <4>3 DEF S
        <5> QED
          BY <5>1, <4>3
      <4> QED
        BY <4>2, <4>3
    <3>2. p # SIZE_MAX
      BY <1>1, <1>3, <1>4 DEF SIZE_MAX
    <3>3. L # 0 /\ t.found[L].page_off = p
      BY <1>6, <3>1, <3>2
    <3>4. L \in 1 .. L
      BY <1>8, <3>3
    <3> QED
      BY <3>3, <3>4
  <2>2. L # 0 => t.prev <= page_floor(S[i + 1])
    <3> SUFFICES ASSUME L # 0 PROVE t.prev <= p
      BY DEF S
    <3>1. L \in 1 .. L
      BY <1>8
    <3>2. t.prev \in Nat /\ t.prev <= page_floor(S[i])
      BY <1>6, <3>1
    <3> QED
      BY <1>4, <3>2
  <2>3. \A j \in 1 .. i + 1 : S[j] # page_floor(S[j]) =>
              \E k \in 1 .. L : t.found[k].page_off = page_floor(S[j])
    BY <1>6, <1>7, <2>1
  <2>4. \A k \in 1 .. L : \E j \in 1 .. i + 1 : /\ page_floor(S[j]) = t.found[k].page_off
                                               /\ S[j] # t.found[k].page_off
    BY <1>6, <1>7
  <2> QED
    BY <1>6, <1>9, <1>s, <2>2, <2>3, <2>4
<1>10. CASE u # t
  <2> DEFINE F == Append(t.found, EntryOf(r, p))
  <2>1. S[i + 1] # p /\ p # t.prev /\ u = [prev |-> p, found |-> Append(t.found, EntryOf(r, p))]
    BY <1>10 DEF S
  <2>2. u.prev = p /\ u.found = F
    BY <2>1
  <2>3. F \in Seq(E) /\ Len(F) = L + 1 /\ F[L + 1] = EntryOf(r, p) /\ \A k \in 1 .. L : F[k] = t.found[k]
    BY <1>5, <1>6
  <2>4. \A k : k \in 1 .. L + 1 <=> k \in 1 .. L \/ k = L + 1
    BY <1>8
  <2> HIDE DEF F
  <2>5. ASSUME NEW k \in 1 .. L PROVE t.found[k].page_off < p
    <3>1. L \in 1 .. L /\ L # 0
      BY <1>8
    <3>2. t.found[L].page_off \in Nat /\ t.found[k].page_off \in Nat
      BY <1>6, <3>1
    <3>3. t.prev = t.found[L].page_off /\ t.prev <= page_floor(S[i])
      BY <1>6, <3>1
    <3>4. t.found[L].page_off < p
      BY <1>4, <2>1, <3>2, <3>3
    <3>5. k = L \/ k < L
      BY <1>8
    <3>6. k < L => t.found[k].page_off < t.found[L].page_off
      BY <1>6, <3>1
    <3> QED
      BY <1>4, <3>2, <3>4, <3>5, <3>6
  <2>6. \A k \in 1 .. L + 1 :
             /\ F[k].page_off \in Nat
             /\ F[k] = EntryOf(r, F[k].page_off)
             /\ \E j \in 1 .. i + 1 : /\ page_floor(S[j]) = F[k].page_off
                                      /\ S[j] # F[k].page_off
    <3>1. page_floor(S[i + 1]) = p
      BY DEF S
    <3>2. ASSUME NEW k \in 1 .. L
          PROVE  /\ F[k].page_off \in Nat
                 /\ F[k] = EntryOf(r, F[k].page_off)
                 /\ \E j \in 1 .. i + 1 : /\ page_floor(S[j]) = F[k].page_off
                                          /\ S[j] # F[k].page_off
      <4>1. F[k] = t.found[k]
        BY <2>3
      <4>2. PICK j \in 1 .. i : /\ page_floor(S[j]) = t.found[k].page_off
                               /\ S[j] # t.found[k].page_off
        BY <1>6
      <4>3. j \in 1 .. i + 1
        BY <1>7
      <4> QED
        BY <1>6, <4>1, <4>2, <4>3
    <3>3. /\ F[L + 1].page_off \in Nat
          /\ F[L + 1] = EntryOf(r, F[L + 1].page_off)
          /\ \E j \in 1 .. i + 1 : /\ page_floor(S[j]) = F[L + 1].page_off
                                   /\ S[j] # F[L + 1].page_off
      BY <1>4, <1>5, <1>7, <2>1, <2>3, <3>1
    <3> QED
      BY <2>4, <3>2, <3>3
  <2>7. ASSUME NEW k \in 1 .. L + 1, NEW l \in 1 .. L + 1, k < l
        PROVE  F[k].page_off < F[l].page_off
    <3>1. k \in 1 .. L
      BY <1>8, <2>7
    <3>2. CASE l = L + 1
      BY <1>5, <2>3, <2>5, <3>1, <3>2
    <3>3. CASE l \in 1 .. L
      BY <1>6, <2>3, <2>7, <3>1, <3>3
    <3> QED
      BY <2>4, <3>2, <3>3
  <2>8. ASSUME NEW j \in 1 .. i + 1, S[j] # page_floor(S[j])
        PROVE  \E k \in 1 .. L + 1 : F[k].page_off = page_floor(S[j])
    <3>1. CASE j = i + 1
      <4>1. F[L + 1].page_off = p /\ p = page_floor(S[i + 1])
        BY <1>5, <2>3 DEF S
      <4> QED
        BY <2>4, <3>1, <4>1
    <3>2. CASE j \in 1 .. i
      <4>1. PICK k \in 1 .. L : t.found[k].page_off = page_floor(S[j])
        BY <1>6, <2>8, <3>2
      <4> QED
        BY <2>3, <2>4, <4>1
    <3> QED
      BY <1>7, <3>1, <3>2
  <2>9. L + 1 # 0 /\ p = F[L + 1].page_off /\ p <= page_floor(S[i + 1])
    <3>1. p = page_floor(S[i + 1])
      BY DEF S
    <3> QED
      BY <1>4, <1>5, <1>8, <2>3, <3>1
  <2>10. Len(u.found) = L + 1
    BY <2>2, <2>3
  <2> HIDE DEF L
  <2>11. /\ u.found \in Seq(E)
         /\ \A k \in 1 .. Len(u.found) :
             /\ u.found[k].page_off \in Nat
             /\ u.found[k] = EntryOf(r, u.found[k].page_off)
             /\ \E j \in 1 .. i + 1 : /\ page_floor(S[j]) = u.found[k].page_off
                                      /\ S[j] # u.found[k].page_off
    BY <2>2, <2>3, <2>6, <2>10
  <2>12. \A k, l \in 1 .. Len(u.found) : k < l => u.found[k].page_off < u.found[l].page_off
    BY <2>2, <2>7, <2>10
  <2>13. \A j \in 1 .. i + 1 : S[j] # page_floor(S[j]) =>
              \E k \in 1 .. Len(u.found) : u.found[k].page_off = page_floor(S[j])
    BY <2>2, <2>8, <2>10
  <2>14. /\ Len(u.found) # 0
         /\ u.prev = u.found[Len(u.found)].page_off /\ u.prev <= page_floor(S[i + 1])
    BY <2>2, <2>9, <2>10
  <2> QED
    BY <1>s, <2>11, <2>12, <2>13, <2>14
<1> QED
  BY <1>9, <1>10

(* The table shared_pages_init() makes: sorted, an entry for each page a   *)
(* chunk starts inside, and no other.                                      *)
LEMMA SharedPages ==
    ASSUME NEW r, Geometry(r)
    PROVE  \E t : shared_pages(r) = t.found /\ Found(r, r.nchunks - 1, t)
<1> DEFINE n == r.nchunks
           S == r.chunk_start
           E == {EntryOf(r, p) : p \in Nat}
           V == [prev : Int, found : Seq(E)]
           z == [prev |-> SIZE_MAX, found |-> << >>]
           next(i, t) == IF S[i] = page_floor(S[i]) \/ page_floor(S[i]) = t.prev THEN t
                         ELSE [prev  |-> page_floor(S[i]),
                               found |-> Append(t.found, EntryOf(r, page_floor(S[i])))]
           step == [x \in (1 .. n - 1) \X V |-> next(x[1], x[2])]
<1>1. n \in Nat \ {0} /\ \A i \in 0 .. n : S[i] \in Nat
  BY Starts
<1>2. n - 1 \in Nat /\ \A i \in 1 .. n - 1 : i \in 0 .. n
  BY <1>1
<1>e. \A p \in Nat : EntryOf(r, p) \in E
  OBVIOUS
<1>3. \A f : Scanning(r, f) <=> f = [i \in 0 .. n - 1 |-> IF i = 0 THEN z ELSE next(i, f[i - 1])]
  BY DEF Scanning
<1>4. shared_pages(r) = (CHOOSE f : Scanning(r, f))[n - 1].found
  BY DEF shared_pages, Scanning, EntryOf
<1>5. z \in V
  <2>1. SIZE_MAX \in Int
    BY LayoutAssumption DEF SIZE_MAX
  <2> HIDE DEF E
  <2> QED
    BY <2>1
<1> HIDE DEF n, S, E
<1>6. ASSUME NEW i \in 1 .. n - 1, NEW t \in V PROVE next(i, t) \in V
  <2>1. S[i] \in Nat
    BY <1>1, <1>2
  <2>2. page_floor(S[i]) \in Nat
    BY <2>1, Floor DEF Aligned
  <2>3. EntryOf(r, page_floor(S[i])) \in E
    BY <1>e, <2>2
  <2> QED
    BY <2>2, <2>3
<1>7. step \in [(1 .. n - 1) \X V -> V]
  <2> HIDE DEF V, next
  <2> QED
    BY <1>6
<1> HIDE DEF V, z, next
<1>8. PICK f : Climbs(f, n - 1, V, z, step)
  <2> HIDE DEF step
  <2> QED
    BY <1>2, <1>5, <1>7, UpRecursion
<1>9. f = [i \in 0 .. n - 1 |-> IF i = 0 THEN z ELSE next(i, f[i - 1])]
  <2>1. ASSUME NEW i \in 0 .. n - 1, i # 0 PROVE f[i] = next(i, f[i - 1])
    <3>1. i \in 1 .. n - 1 /\ i - 1 \in 0 .. n - 1
      BY <1>2, <2>1
    <3>2. f[i - 1] \in V
      BY <1>8, <3>1 DEF Climbs
    <3>3. <<i, f[i - 1]>> \in (1 .. n - 1) \X V
      BY <3>1, <3>2
    <3>4. f[i] = step[<<i, f[i - 1]>>]
      BY <1>8, <3>1 DEF Climbs
    <3> QED
      BY <3>3, <3>4
  <2>2. f[0] = z /\ f = [i \in 0 .. n - 1 |-> f[i]]
    BY <1>8 DEF Climbs
  <2> HIDE DEF step
  <2> QED
    BY <2>1, <2>2
<1>10. PICK g : Scanning(r, g) /\ shared_pages(r) = g[n - 1].found
  BY <1>3, <1>4, <1>9
<1>11. g[0] = z /\ \A i \in 1 .. n - 1 : g[i] = next(i, g[i - 1])
  <2>1. g = [i \in 0 .. n - 1 |-> IF i = 0 THEN z ELSE next(i, g[i - 1])]
    BY <1>3, <1>10
  <2>2. 0 \in 0 .. n - 1 /\ \A i \in 1 .. n - 1 : i \in 0 .. n - 1 /\ i # 0
    BY <1>2
  <2> HIDE DEF step
  <2> QED
    BY <2>1, <2>2
<1>12. Found(r, 0, g[0])
  <2>1. g[0].found = << >> /\ g[0].prev = SIZE_MAX
    BY <1>11 DEF z
  <2>2. << >> \in Seq(E)
    OBVIOUS
  <2>3. 1 .. 0 = {} /\ Len(<< >>) = 0
    OBVIOUS
  <2> QED
    BY <2>1, <2>2, <2>3 DEF Found, E
<1> DEFINE T == {i \in Nat : i <= n - 1 => Found(r, i, g[i])}
<1>13. 0 \in T
  BY <1>12
<1>14. ASSUME NEW i \in T PROVE i + 1 \in T
  <2> SUFFICES ASSUME i + 1 <= n - 1 PROVE Found(r, i + 1, g[i + 1])
    BY <1>14
  <2>1. i \in Nat /\ i + 1 \in 1 .. n - 1 /\ (i + 1) - 1 = i /\ Found(r, i, g[i])
    BY <1>2, <1>14
  <2>2. g[i + 1] = next(i + 1, g[i])
    BY <1>11, <2>1
  <2>3. g[i + 1] = IF r.chunk_start[i + 1] = page_floor(r.chunk_start[i + 1])
                       \/ page_floor(r.chunk_start[i + 1]) = g[i].prev THEN g[i]
                   ELSE [prev  |-> page_floor(r.chunk_start[i + 1]),
                         found |-> Append(g[i].found, EntryOf(r, page_floor(r.chunk_start[i + 1])))]
    BY <2>2 DEF next, S
  <2>4. i + 1 <= r.nchunks - 1
    BY DEF n
  <2> HIDE DEF T, step
  <2> QED
    BY <2>1, <2>3, <2>4, FoundStep
<1> HIDE DEF T
<1>15. T = Nat
  <2>1. T \in SUBSET Nat
    BY DEF T
  <2> QED
    BY <1>13, <1>14, <2>1, NatSet
<1>16. Found(r, n - 1, g[n - 1])
  BY <1>2, <1>15 DEF T
<1> QED
  BY <1>10, <1>16 DEF n

\* f is the binary search of find_shared_page().
Bounding(pages, page_off, f) ==
    f = [w \in (1 .. Len(pages) + 1) \X (1 .. Len(pages) + 1) |->
            LET lo == w[1]  hi == w[2]  mid == lo + (hi - lo) \div 2
            IN  IF lo >= hi THEN lo
                ELSE IF pages[mid].page_off < page_off THEN f[<<mid + 1, hi>>]
                ELSE f[<<lo, mid>>]]

(* In a sorted table the search finds the entry of a page, if it has one.  *)
LEMMA FindSharedPage ==
    ASSUME NEW pages, Len(pages) \in Nat, NEW p \in Nat,
           \A k \in 1 .. Len(pages) : pages[k].page_off \in Nat,
           \A k, l \in 1 .. Len(pages) : k < l => pages[k].page_off < pages[l].page_off
    PROVE  LET at == find_shared_page(pages, p)
           IN  \/ at \in 1 .. Len(pages) /\ pages[at].page_off = p
               \/ at = 0 /\ \A k \in 1 .. Len(pages) : pages[k].page_off # p
<1> DEFINE L == Len(pages)
           C == 1 .. L + 1
           D == C \X C
           mid(w) == w[1] + (w[2] - w[1]) \div 2
           Stop == {w \in D : w[1] >= w[2]}
           out == [w \in D |-> w[1]]
           nx == [w \in D |-> IF w[1] >= w[2] THEN w
                              ELSE IF pages[mid(w)].page_off < p THEN <<mid(w) + 1, w[2]>>
                              ELSE <<w[1], mid(w)>>]
           m == [w \in D |-> IF w[1] >= w[2] THEN 0 ELSE w[2] - w[1]]
           Q == {w \in D : /\ w[1] <= w[2]
                           /\ \A k \in 1 .. L : k < w[1] => pages[k].page_off < p
                           /\ \A k \in 1 .. L : k >= w[2] => pages[k].page_off >= p}
<1>1. L \in Nat /\ \A k \in 1 .. L : pages[k].page_off \in Nat
  OBVIOUS
<1>s. \A k, l \in 1 .. L : k < l => pages[k].page_off < pages[l].page_off
  OBVIOUS
<1>2. ASSUME NEW f PROVE Bounding(pages, p, f) <=> Searching(D, Stop, out, nx, f)
  <2>1. ASSUME NEW w \in D
        PROVE  (LET lo == w[1]  hi == w[2]  md == lo + (hi - lo) \div 2
                IN  IF lo >= hi THEN lo
                    ELSE IF pages[md].page_off < p THEN f[<<md + 1, hi>>]
                    ELSE f[<<lo, md>>])
               = IF w \in Stop THEN out[w] ELSE f[nx[w]]
    OBVIOUS
  <2> QED
    BY <2>1 DEF Bounding, Searching
<1>p. find_shared_page(pages, p)
        = LET at == (CHOOSE f : Bounding(pages, p, f))[<<1, L + 1>>]
          IN  IF at <= L /\ pages[at].page_off = p THEN at ELSE 0
  BY DEF find_shared_page, Bounding, Matches
<1> HIDE DEF L
<1>3. ASSUME NEW w \in D, w \notin Stop
      PROVE  /\ w[1] \in C /\ w[2] \in C /\ w[1] < w[2]
             /\ mid(w) \in C /\ mid(w) \in 1 .. L /\ mid(w) + 1 \in C
             /\ w[1] <= mid(w) /\ mid(w) < w[2]
             /\ nx[w] = IF pages[mid(w)].page_off < p THEN <<mid(w) + 1, w[2]>> ELSE <<w[1], mid(w)>>
  <2>1. w[1] \in C /\ w[2] \in C /\ w[1] < w[2] /\ w[1] \in Int /\ w[2] \in Int
    BY <1>1, <1>3
  <2>2. mid(w) \in Int /\ w[1] <= mid(w) /\ mid(w) < w[2]
    BY <2>1, Middle
  <2> HIDE DEF mid
  <2>3. mid(w) \in C /\ mid(w) \in 1 .. L /\ mid(w) + 1 \in C
    BY <1>1, <2>1, <2>2
  <2>4. ~(w[1] >= w[2])
    BY <2>1
  <2> QED
    BY <1>1, <2>1, <2>2, <2>3, <2>4
<1>4. nx \in [D -> D] /\ m \in [D -> Nat] /\ \A w \in D : m[w] <= L
  <2>1. ASSUME NEW w \in D PROVE nx[w] \in D
    <3>1. CASE w \in Stop
      BY <3>1
    <3>2. CASE w \notin Stop
      BY <1>3, <3>2
    <3> QED
      BY <3>1, <3>2
  <2>2. nx = [w \in D |-> nx[w]]
    OBVIOUS
  <2>3. nx \in [D -> D]
    <3> HIDE DEF nx, D
    <3> QED
      BY <2>1, <2>2
  <2>4. m \in [D -> Nat] /\ \A w \in D : m[w] <= L
    BY <1>1
  <2> QED
    BY <2>3, <2>4
<1>5. ASSUME NEW w \in D \ Stop PROVE m[nx[w]] < m[w]
  <2>1. /\ w[1] \in C /\ w[2] \in C /\ w[1] < w[2]
        /\ mid(w) \in C /\ mid(w) + 1 \in C /\ w[1] <= mid(w) /\ mid(w) < w[2]
        /\ nx[w] = <<mid(w) + 1, w[2]>> \/ nx[w] = <<w[1], mid(w)>>
    BY <1>3
  <2>2. PICK k \in C : k = mid(w)
    BY <2>1
  <2>3. m[w] = w[2] - w[1]
    BY <1>1, <2>1
  <2>4. m[<<w[1], k>>] = (IF w[1] >= k THEN 0 ELSE k - w[1])
    BY <2>1
  <2>5. m[<<k + 1, w[2]>>] = (IF k + 1 >= w[2] THEN 0 ELSE w[2] - (k + 1))
    BY <2>1, <2>2
  <2> HIDE DEF m, nx, mid
  <2>6. nx[w] = <<k + 1, w[2]>> \/ nx[w] = <<w[1], k>>
    BY <2>1, <2>2
  <2>7. m[nx[w]] = m[<<k + 1, w[2]>>] \/ m[nx[w]] = m[<<w[1], k>>]
    BY <2>6
  <2>8. w[1] \in Int /\ w[2] \in Int /\ k \in Int /\ w[1] <= k /\ k < w[2]
    BY <1>1, <2>1, <2>2
  <2> QED
    BY <2>3, <2>4, <2>5, <2>7, <2>8
<1>6. PICK f : Bounding(pages, p, f)
               /\ find_shared_page(pages, p) = IF f[<<1, L + 1>>] <= L /\ pages[f[<<1, L + 1>>]].page_off = p
                                               THEN f[<<1, L + 1>>] ELSE 0
  <2>1. \E f : Searching(D, Stop, out, nx, f)
    <3> HIDE DEF D, Stop, out, nx, m
    <3> QED
      BY <1>1, <1>4, <1>5, SearchExists
  <2>2. \E f : Bounding(pages, p, f)
    BY <1>2, <2>1
  <2>3. PICK f : Bounding(pages, p, f) /\ f = CHOOSE h : Bounding(pages, p, h)
    BY <2>2
  <2> QED
    BY <1>p, <2>3
<1>7. Q \in SUBSET D /\ <<1, L + 1>> \in Q
  BY <1>1
<1>8. ASSUME NEW w \in Q \ Stop PROVE nx[w] \in Q
  <2>1. /\ w[1] \in C /\ w[2] \in C /\ w[1] < w[2]
        /\ mid(w) \in C /\ mid(w) \in 1 .. L /\ mid(w) + 1 \in C
        /\ w[1] <= mid(w) /\ mid(w) < w[2]
        /\ nx[w] = IF pages[mid(w)].page_off < p THEN <<mid(w) + 1, w[2]>> ELSE <<w[1], mid(w)>>
    BY <1>3
  <2> HIDE DEF nx, mid
  <2>2. PICK k \in 1 .. L : k = mid(w)
    BY <2>1
  <2>3. /\ k \in C /\ k + 1 \in C /\ w[1] <= k /\ k < w[2] /\ pages[k].page_off \in Nat
        /\ nx[w] = IF pages[k].page_off < p THEN <<k + 1, w[2]>> ELSE <<w[1], k>>
    BY <1>1, <2>1, <2>2
  <2>4. k \in Int /\ w[1] \in Int /\ w[2] \in Int
    BY <1>1, <2>1
  <2>5. CASE pages[k].page_off < p
    <3>1. ASSUME NEW j \in 1 .. L, j < k + 1 PROVE pages[j].page_off < p
      <4>1. j = k \/ j < k
        BY <1>1, <3>1
      <4>2. j < k => pages[j].page_off < pages[k].page_off
        BY <1>s
      <4> QED
        BY <1>1, <2>5, <4>1, <4>2
    <3>2. k + 1 <= w[2]
      BY <2>3, <2>4
    <3> QED
      BY <2>1, <2>3, <2>5, <3>1, <3>2
  <2>6. CASE ~(pages[k].page_off < p)
    <3>1. ASSUME NEW j \in 1 .. L, j >= k PROVE pages[j].page_off >= p
      <4>1. j = k \/ k < j
        BY <1>1, <3>1
      <4>2. k < j => pages[k].page_off < pages[j].page_off
        BY <1>s
      <4> QED
        BY <1>1, <2>6, <4>1, <4>2
    <3> QED
      BY <2>1, <2>3, <2>6, <3>1
  <2> QED
    BY <2>5, <2>6
<1>9. PICK e \in Q \cap Stop : f[<<1, L + 1>>] = out[e]
  <2>1. Searching(D, Stop, out, nx, f)
    BY <1>2, <1>6
  <2> HIDE DEF D, Stop, out, nx, m, Q
  <2> QED
    BY <1>4, <1>5, <1>7, <1>8, <2>1, SearchEnds
<1>10. /\ e[1] \in C /\ e[1] = e[2] /\ out[e] = e[1]
       /\ \A k \in 1 .. L : k < e[1] => pages[k].page_off < p
       /\ \A k \in 1 .. L : k >= e[1] => pages[k].page_off >= p
  BY <1>1
<1> HIDE DEF Q, Stop, D, out, nx, m
<1>11. PICK a \in C : /\ a = e[1]
                      /\ find_shared_page(pages, p) = IF a <= L /\ pages[a].page_off = p THEN a ELSE 0
                      /\ \A k \in 1 .. L : k < a => pages[k].page_off < p
                      /\ \A k \in 1 .. L : k >= a => pages[k].page_off >= p
  BY <1>6, <1>9, <1>10
<1>12. CASE a <= L /\ pages[a].page_off = p
  BY <1>1, <1>11, <1>12 DEF L
<1>13. CASE ~(a <= L /\ pages[a].page_off = p)
  <2>1. ASSUME NEW k \in 1 .. L PROVE pages[k].page_off # p
    <3>1. CASE k < a
      BY <1>1, <1>11, <3>1
    <3>2. CASE a < k
      <4>1. a \in 1 .. L
        BY <1>1, <3>2
      <4>2. pages[a].page_off >= p /\ pages[a].page_off < pages[k].page_off
        BY <1>1, <1>s, <1>11, <3>2, <4>1
      <4> QED
        BY <1>1, <4>1, <4>2
    <3>3. CASE a = k
      BY <1>1, <1>13, <3>3
    <3> QED
      BY <1>1, <3>1, <3>2, <3>3
  <2> QED
    BY <1>11, <1>13, <2>1 DEF L
<1> QED
  BY <1>12, <1>13

(* The table lists the pages with several contributors.                    *)
LEMMA SharedTable ==
    ASSUME Geometry(region), NEW pages, pages = shared_pages(region)
    PROVE  /\ Len(pages) \in Nat /\ DOMAIN pages = 1 .. Len(pages)
           /\ \A k \in 1 .. Len(pages) :
                /\ pages[k].page_off \in Nat
                /\ pages[k] = EntryOf(region, pages[k].page_off)
           /\ \A k, l \in 1 .. Len(pages) : k < l => pages[k].page_off < pages[l].page_off
           /\ \A p \in Page : Cardinality(Contributors(p)) > 1
                                 <=> \E k \in 1 .. Len(pages) : pages[k].page_off = p
<1> DEFINE E == {EntryOf(region, p) : p \in Nat}
           n == region.nchunks
           S == region.chunk_start
<1>1. PICK t : shared_pages(region) = t.found /\ Found(region, n - 1, t)
  BY SharedPages
<1>2. /\ pages \in Seq(E)
      /\ \A k \in 1 .. Len(pages) :
           /\ pages[k].page_off \in Nat
           /\ pages[k] = EntryOf(region, pages[k].page_off)
           /\ \E j \in 1 .. n - 1 : page_floor(S[j]) = pages[k].page_off /\ S[j] # pages[k].page_off
      /\ \A k, l \in 1 .. Len(pages) : k < l => pages[k].page_off < pages[l].page_off
      /\ \A j \in 1 .. n - 1 : S[j] # page_floor(S[j]) =>
           \E k \in 1 .. Len(pages) : pages[k].page_off = page_floor(S[j])
  BY <1>1 DEF Found
<1>3. ASSUME NEW p \in Page
      PROVE  Cardinality(Contributors(p)) > 1 <=> \E i \in 1 .. n - 1 : page_floor(S[i]) = p /\ S[i] # p
  BY Shared
<1> HIDE DEF E, n, S
<1>4. Len(pages) \in Nat /\ DOMAIN pages = 1 .. Len(pages)
  BY <1>2
<1>5. ASSUME NEW p \in Page
      PROVE  (\E i \in 1 .. n - 1 : page_floor(S[i]) = p /\ S[i] # p)
                 <=> \E k \in 1 .. Len(pages) : pages[k].page_off = p
  BY <1>2
<1> QED
  BY <1>2, <1>3, <1>4, <1>5

(* So everything LookupExact says of a region follows from its shape.      *)
LEMMA GeometryLooksUp ==
    ASSUME Geometry(region)
    PROVE  LookupExact
<1> SUFFICES ASSUME NEW pages, pages = shared_pages(region)
             PROVE  /\ \A b \in Byte : Covers(find_chunk(region, b), b)
                    /\ \A b \in region.total_size .. region.mapped_size - 1 :
                         find_chunk(region, b) = region.nchunks - 1
                    /\ \A i, j \in DOMAIN pages : i < j => pages[i].page_off < pages[j].page_off
                    /\ \A p \in Page :
                         IF Cardinality(Contributors(p)) > 1
                         THEN /\ find_shared_page(pages, p) # 0
                              /\ pages[find_shared_page(pages, p)].page_off = p
                              /\ pages[find_shared_page(pages, p)].first_chunk
                                   .. pages[find_shared_page(pages, p)].last_chunk
                                   = Contributors(p)
                         ELSE find_shared_page(pages, p) = 0
                    /\ \A c \in ChunkIds(region) :
                         PagesOf(chunk_exclusive_pages(region, c))
                             = {p \in Page : Contributors(p) = {c}}
  BY DEF LookupExact
<1>1. region.total_size \in Nat
  BY Starts
<1>2. \A b \in Byte : Covers(find_chunk(region, b), b)
  <2>1. \A b \in Byte : b \in Nat
    BY <1>1 DEF Byte
  <2> QED
    BY <2>1, FindCovers
<1>3. ASSUME NEW b \in region.total_size .. region.mapped_size - 1
      PROVE  find_chunk(region, b) = region.nchunks - 1
  <2>1. region.mapped_size \in Nat
    BY Pages
  <2>2. b \in Nat /\ region.total_size <= b
    BY <1>1, <2>1
  <2> QED
    BY <2>2, FindCovers
<1>4. /\ Len(pages) \in Nat /\ DOMAIN pages = 1 .. Len(pages)
      /\ \A k \in 1 .. Len(pages) :
           /\ pages[k].page_off \in Nat
           /\ pages[k] = EntryOf(region, pages[k].page_off)
      /\ \A k, l \in 1 .. Len(pages) : k < l => pages[k].page_off < pages[l].page_off
      /\ \A p \in Page : Cardinality(Contributors(p)) > 1
                            <=> \E k \in 1 .. Len(pages) : pages[k].page_off = p
  BY SharedTable
<1>5. ASSUME NEW p \in Page
      PROVE  IF Cardinality(Contributors(p)) > 1
             THEN /\ find_shared_page(pages, p) # 0
                  /\ pages[find_shared_page(pages, p)].page_off = p
                  /\ pages[find_shared_page(pages, p)].first_chunk
                       .. pages[find_shared_page(pages, p)].last_chunk
                       = Contributors(p)
             ELSE find_shared_page(pages, p) = 0
  <2> DEFINE at == find_shared_page(pages, p)
  <2>1. p \in Nat
    BY Pages
  <2>2. \/ at \in 1 .. Len(pages) /\ pages[at].page_off = p
        \/ at = 0 /\ \A k \in 1 .. Len(pages) : pages[k].page_off # p
    BY <1>4, <2>1, FindSharedPage
  <2> HIDE DEF at
  <2>3. CASE at = 0
    <3>1. at \notin 1 .. Len(pages)
      BY <1>4, <2>3
    <3> QED
      BY <1>4, <2>2, <2>3, <3>1 DEF at
  <2>4. CASE at # 0
    <3>1. at \in 1 .. Len(pages) /\ pages[at].page_off = p /\ pages[at] = EntryOf(region, p)
      BY <1>4, <2>2, <2>4
    <3>2. /\ pages[at].first_chunk = find_chunk(region, p)
          /\ pages[at].last_chunk = find_chunk(region, LastByte(region, p))
      BY <3>1 DEF EntryOf, LastByte
    <3>3. Contributors(p) = find_chunk(region, p) .. find_chunk(region, LastByte(region, p))
      BY ContributorRange
    <3> QED
      BY <1>4, <2>4, <3>1, <3>2, <3>3 DEF at
  <2> QED
    BY <2>3, <2>4
<1>6. \A c \in ChunkIds(region) :
         PagesOf(chunk_exclusive_pages(region, c)) = {p \in Page : Contributors(p) = {c}}
  BY Exclusive
<1> QED
  BY <1>2, <1>3, <1>4, <1>5, <1>6

-----------------------------------------------------------------------------
(* fill_chunk_locked().                                                    *)

(* The pieces of the scratch mapping tile its span.                        *)
LEMMA Tiling ==
    ASSUME Geometry(region), NEW c \in ChunkIds(region)
    PROVE  /\ UNION {RangeOf(d) : d \in scratch_pieces(region, c)} = RangeOf(fill_span(region, c))
           /\ \A d, e \in scratch_pieces(region, c) : d # e => RangeOf(d) \cap RangeOf(e) = {}
<1> DEFINE n == region.nchunks
           S == region.chunk_start
           span == fill_span(region, c)
           excl == chunk_exclusive_pages(region, c)
           pieces == scratch_pieces(region, c)
           before == [lo |-> span.lo, hi |-> excl.lo]
           after == [lo |-> excl.hi, hi |-> span.hi]
<1>1. n \in Nat \ {0} /\ c \in 0 .. n - 1
  BY Starts DEF ChunkIds
<1>2. c \in 0 .. n /\ c + 1 \in 0 .. n
  BY <1>1
<1>3. /\ S[c] \in Nat /\ S[c] + PageSize - 1 < SizeRange
      /\ S[c + 1] \in Nat /\ S[c + 1] + PageSize - 1 < SizeRange
      /\ S[n] = region.total_size
  BY <1>2, Starts
<1>4. PICK a \in Nat, x \in Nat, y \in Nat, z \in Nat :
          /\ a = page_floor(S[c]) /\ x = page_ceil(S[c]) /\ a <= x
          /\ y = page_floor(S[c + 1]) /\ z = page_ceil(S[c + 1]) /\ y <= z
          /\ c + 1 = n => region.mapped_size = z
  <2>1. /\ page_floor(S[c]) \in Aligned /\ page_floor(S[c]) <= S[c]
        /\ page_ceil(S[c]) \in Aligned /\ S[c] <= page_ceil(S[c])
        /\ page_floor(S[c + 1]) \in Aligned /\ page_floor(S[c + 1]) <= S[c + 1]
        /\ page_ceil(S[c + 1]) \in Aligned /\ S[c + 1] <= page_ceil(S[c + 1])
    BY <1>3, Floor, CeilIs
  <2>2. c + 1 = n => region.mapped_size = page_ceil(S[c + 1])
    BY <1>3 DEF Geometry
  <2>3. /\ page_floor(S[c]) \in Nat /\ page_ceil(S[c]) \in Nat
        /\ page_floor(S[c + 1]) \in Nat /\ page_ceil(S[c + 1]) \in Nat
    BY <2>1 DEF Aligned
  <2>4. page_floor(S[c]) <= page_ceil(S[c]) /\ page_floor(S[c + 1]) <= page_ceil(S[c + 1])
    BY <1>3, <2>1, <2>3
  <2> QED
    BY <2>2, <2>3, <2>4
<1>5. span = [lo |-> a, hi |-> z]
  BY <1>4 DEF fill_span
<1>6. PICK h \in Nat : /\ h = IF c + 1 = n THEN z ELSE y
                       /\ excl = [lo |-> x, hi |-> IF h < x THEN x ELSE h]
  BY <1>4 DEF chunk_exclusive_pages
<1>7. h <= z
  BY <1>4, <1>6
<1>8. pieces = IF excl.hi > excl.lo THEN {excl} \cup {d \in {before, after} : d.hi > d.lo}
               ELSE {span}
  BY DEF scratch_pieces
<1> HIDE DEF pieces, span, excl
<1>9. CASE h > x
  <2>1. excl = [lo |-> x, hi |-> h] /\ excl.hi = h /\ excl.lo = x
    BY <1>6, <1>9
  <2>2. /\ pieces = {excl} \cup {d \in {before, after} : d.hi > d.lo}
        /\ before.lo = a /\ before.hi = x /\ after.lo = h /\ after.hi = z
    BY <1>5, <1>8, <1>9, <2>1
  <2>3. /\ RangeOf(excl) = x .. h - 1 /\ RangeOf(before) = a .. x - 1
        /\ RangeOf(after) = h .. z - 1 /\ RangeOf(span) = a .. z - 1
    BY <1>5, <2>1, <2>2 DEF RangeOf
  <2> HIDE DEF before, after
  <2>4. \A d : d \in pieces <=> d = excl \/ (d = before /\ x > a) \/ (d = after /\ z > h)
    BY <2>2
  <2>5. ASSUME NEW b PROVE (\E d \in pieces : b \in RangeOf(d)) <=> b \in RangeOf(span)
    <3>1. b \in a .. z - 1 <=> b \in a .. x - 1 \/ b \in x .. h - 1 \/ b \in h .. z - 1
      BY <1>4, <1>7, <1>9
    <3>2. (b \in a .. x - 1 => x > a) /\ (b \in h .. z - 1 => z > h)
      OBVIOUS
    <3> QED
      BY <2>3, <2>4, <3>1, <3>2
  <2>6. ASSUME NEW d \in pieces, NEW e \in pieces, d # e PROVE RangeOf(d) \cap RangeOf(e) = {}
    <3>1. /\ (x .. h - 1) \cap (a .. x - 1) = {} /\ (a .. x - 1) \cap (x .. h - 1) = {}
          /\ (x .. h - 1) \cap (h .. z - 1) = {} /\ (h .. z - 1) \cap (x .. h - 1) = {}
          /\ (a .. x - 1) \cap (h .. z - 1) = {} /\ (h .. z - 1) \cap (a .. x - 1) = {}
      BY <1>9
    <3>2. /\ d = excl \/ d = before \/ d = after
          /\ e = excl \/ e = before \/ e = after
      BY <2>4
    <3>3. CASE d = excl
      BY <2>3, <2>6, <3>1, <3>2, <3>3
    <3>4. CASE d = before
      BY <2>3, <2>6, <3>1, <3>2, <3>4
    <3>5. CASE d = after
      BY <2>3, <2>6, <3>1, <3>2, <3>5
    <3> QED
      BY <3>2, <3>3, <3>4, <3>5
  <2> QED
    BY <2>5, <2>6 DEF pieces, span
<1>10. CASE ~(h > x)
  <2>1. ~(excl.hi > excl.lo)
    BY <1>6, <1>10
  <2>2. pieces = {span}
    BY <1>8, <2>1
  <2> QED
    BY <2>2 DEF pieces, span
<1> QED
  BY <1>9, <1>10

(* A chunk stages into the pages it shares, each once.                     *)
LEMMA Staging ==
    ASSUME Geometry(region), NEW c \in ChunkIds(region),
           NEW staged, staged = staged_pages(region, c)
    PROVE  /\ {staged[i] : i \in DOMAIN staged}
                = {p \in Page : c \in Contributors(p) /\ Contributors(p) # {c}}
           /\ \A i, j \in DOMAIN staged : i # j => staged[i] # staged[j]
<1> DEFINE n == region.nchunks
           S == region.chunk_start
<1>1. n \in Nat \ {0} /\ PageSize \in Nat \ {0} /\ c \in 0 .. n - 1
  BY Starts DEF ChunkIds
<1>2. c \in 0 .. n /\ c + 1 \in 0 .. n /\ c < c + 1
  BY <1>1
<1>3. /\ S[c] \in Nat /\ S[c + 1] \in Nat /\ S[c] < S[c + 1]
      /\ S[c] <= region.total_size /\ S[c + 1] <= region.total_size /\ region.total_size \in Nat
  BY <1>2, Starts
<1>4. /\ \A p : p \in Page <=> p \in Aligned /\ p < region.mapped_size
      /\ region.mapped_size \in Nat /\ region.total_size <= region.mapped_size
  BY Pages
<1>5. PICK a \in Aligned, z \in Aligned : a = page_floor(S[c]) /\ z = page_floor(S[c + 1])
  BY <1>3, Floor
<1>6. /\ a \in Nat /\ z \in Nat /\ a <= S[c] /\ z <= S[c + 1]
      /\ S[c] % PageSize = 0 <=> S[c] = a
      /\ S[c + 1] % PageSize = 0 <=> S[c + 1] = z
      /\ \A p \in Aligned : (a = p <=> p <= S[c] /\ S[c] < p + PageSize)
                         /\ (z = p <=> p <= S[c + 1] /\ S[c + 1] < p + PageSize)
  <2>1. a \in Nat /\ z \in Nat
    BY DEF Aligned
  <2>2. /\ a <= S[c] /\ z <= S[c + 1]
        /\ S[c] % PageSize = 0 <=> a = S[c]
        /\ S[c + 1] % PageSize = 0 <=> z = S[c + 1]
    BY <1>3, <1>5, Floor
  <2>3. \A p \in Aligned : (a = p <=> p <= S[c] /\ S[c] < p + PageSize)
                        /\ (z = p <=> p <= S[c + 1] /\ S[c + 1] < p + PageSize)
    BY <1>3, <1>5, FloorIs
  <2> QED
    BY <2>1, <2>2, <2>3
<1> DEFINE head == S[c] # a
           tail == S[c + 1] # z /\ c + 1 < n /\ ~(head /\ z = a)
<1>7. (has_head(region, c) <=> head) /\ (has_tail(region, c) <=> tail)
  BY <1>5, <1>6 DEF has_head, has_tail
<1>8. staged = (IF head THEN <<a>> ELSE << >>) \o (IF tail THEN <<z>> ELSE << >>)
  BY <1>5, <1>7 DEF staged_pages
<1>9. ASSUME NEW p \in Page
      PROVE  /\ c \in Contributors(p) <=> S[c] < p + PageSize /\ p < S[c + 1]
             /\ Contributors(p) = {c} <=> S[c] <= p /\ (c + 1 = n \/ p + PageSize <= S[c + 1])
  <2>1. p \in Nat
    BY Pages
  <2> QED
    BY <2>1, Overlap, Alone
<1>10. ASSUME NEW p
       PROVE  p \in Page /\ c \in Contributors(p) /\ Contributors(p) # {c}
                  <=> (head /\ p = a) \/ (S[c + 1] # z /\ c + 1 < n /\ p = z)
  <2> HIDE DEF S, n
  <2>1. CASE p \notin Page
    <3>1. head => a < S[c]
      BY <1>3, <1>6
    <3>2. head => a \in Page
      BY <1>3, <1>4, <1>6, <3>1
    <3>3. S[c + 1] # z => z \in Page
      BY <1>3, <1>4, <1>6
    <3> QED
      BY <2>1, <3>2, <3>3
  <2>2. CASE p \in Page
    <3>1. p \in Aligned /\ p \in Nat
      BY <1>4, <2>2 DEF Aligned
    <3>2. /\ a = p <=> p <= S[c] /\ S[c] < p + PageSize
          /\ z = p <=> p <= S[c + 1] /\ S[c + 1] < p + PageSize
      BY <1>6, <3>1
    <3>3. /\ c \in Contributors(p) <=> S[c] < p + PageSize /\ p < S[c + 1]
          /\ Contributors(p) = {c} <=> S[c] <= p /\ (c + 1 = n \/ p + PageSize <= S[c + 1])
      BY <1>9, <2>2
    <3>4. c + 1 # n <=> c + 1 < n
      BY <1>1
    <3> QED
      BY <1>1, <1>3, <2>2, <3>1, <3>2, <3>3, <3>4
  <2> QED
    BY <2>1, <2>2
<1> DEFINE shares(p) == (head /\ p = a) \/ (S[c + 1] # z /\ c + 1 < n /\ p = z)
<1>11. /\ \A p : p \in {staged[i] : i \in DOMAIN staged} <=> shares(p)
       /\ \A i, j \in DOMAIN staged : i # j => staged[i] # staged[j]
  <2>0. \A p : shares(p) <=> (head /\ p = a) \/ (tail /\ p = z)
    OBVIOUS
  <2>t. tail /\ head => a # z
    OBVIOUS
  <2> HIDE DEF head, tail, shares
  <2>1. CASE head /\ tail
    <3>1. staged = <<a>> \o <<z>>
      BY <1>8, <2>1
    <3>2. DOMAIN staged = 1 .. 2 /\ staged[1] = a /\ staged[2] = z
      BY <1>6, <3>1
    <3>3. \A i : i \in 1 .. 2 <=> i = 1 \/ i = 2
      OBVIOUS
    <3> QED
      BY <2>0, <2>1, <2>t, <3>2, <3>3
  <2>2. CASE head /\ ~tail
    <3>1. staged = <<a>>
      BY <1>8, <2>2
    <3> QED
      BY <2>0, <2>2, <3>1
  <2>3. CASE ~head /\ tail
    <3>1. staged = <<z>>
      BY <1>8, <2>3
    <3> QED
      BY <2>0, <2>3, <3>1
  <2>4. CASE ~head /\ ~tail
    <3>1. staged = << >>
      BY <1>8, <2>4
    <3> QED
      BY <2>0, <2>4, <3>1
  <2> QED
    BY <2>1, <2>2, <2>3, <2>4
<1> HIDE DEF head, tail
<1> QED
  BY <1>10, <1>11

(* The slices of a page cover its bytes.                                   *)
LEMMA Slices ==
    ASSUME Geometry(region), NEW p \in Nat
    PROVE  /\ UNION {RangeOf(staged_slice(region, p, c)) : c \in Contributors(p)}
                = Byte \cap (p .. p + PageSize - 1)
           /\ \A c \in Contributors(p) : \A b \in RangeOf(staged_slice(region, p, c)) : Covers(c, b)
<1> DEFINE n == region.nchunks
           S == region.chunk_start
           N == region.total_size
           slice(c) == RangeOf(staged_slice(region, p, c))
<1>1. n \in Nat \ {0} /\ PageSize \in Nat \ {0} /\ N \in Nat /\ \A i \in 0 .. n : S[i] \in Nat /\ S[i] <= N
  BY Starts
<1>2. Contributors(p) \subseteq 0 .. n - 1
  BY Overlap DEF ChunkIds
<1>3. ASSUME NEW c \in 0 .. n - 1, NEW b
      PROVE  b \in slice(c) <=> b \in p .. p + PageSize - 1 /\ S[c] <= b /\ b < S[c + 1]
  <2>1. c \in 0 .. n /\ c + 1 \in 0 .. n
    BY <1>1
  <2>2. S[c] \in Nat /\ S[c + 1] \in Nat
    BY <1>1, <2>1
  <2>3. slice(c) = (IF S[c] > p THEN S[c] ELSE p)
                      .. (IF S[c + 1] < p + PageSize THEN S[c + 1] ELSE p + PageSize) - 1
    BY DEF RangeOf, staged_slice
  <2> HIDE DEF slice, S, n, N
  <2> QED
    BY <1>1, <2>2, <2>3
<1>4. ASSUME NEW b \in Byte, b \in p .. p + PageSize - 1
      PROVE  \E c \in Contributors(p) : S[c] <= b /\ b < S[c + 1]
  <2>1. b \in Nat
    BY <1>1 DEF Byte
  <2>2. find_chunk(region, b) \in ChunkIds(region) /\ Covers(find_chunk(region, b), b)
    BY <2>1, FindChunk, FindCovers
  <2>3. find_chunk(region, b) \in Contributors(p)
    BY <1>4, <2>2 DEF Contributors
  <2> QED
    BY <2>2, <2>3 DEF Covers
<1>5. ASSUME NEW c \in 0 .. n - 1, NEW b \in Nat, b < S[c + 1] PROVE b \in Byte
  <2>1. c + 1 \in 0 .. n
    BY <1>1
  <2>2. S[c + 1] \in Nat /\ S[c + 1] <= N
    BY <1>1, <2>1
  <2>3. b \in 0 .. N - 1
    BY <1>1, <1>5, <2>2
  <2> QED
    BY <2>3 DEF Byte
<1>6. \A c \in Contributors(p) : \A b \in slice(c) : Covers(c, b)
  <2> HIDE DEF slice
  <2> QED
    BY <1>2, <1>3 DEF Covers
<1> HIDE DEF slice, S, n, N
<1>7. ASSUME NEW b PROVE (\E c \in Contributors(p) : b \in slice(c)) <=> b \in Byte \cap (p .. p + PageSize - 1)
  <2>1. ASSUME NEW c \in Contributors(p), b \in slice(c) PROVE b \in Byte \cap (p .. p + PageSize - 1)
    <3>1. c \in 0 .. n - 1 /\ b \in p .. p + PageSize - 1 /\ b < S[c + 1]
      BY <1>2, <1>3, <2>1
    <3>2. b \in Nat
      BY <1>1, <3>1
    <3> QED
      BY <1>5, <3>1, <3>2
  <2>2. ASSUME b \in Byte \cap (p .. p + PageSize - 1) PROVE \E c \in Contributors(p) : b \in slice(c)
    BY <1>2, <1>3, <1>4, <2>2
  <2> QED
    BY <2>1, <2>2
<1> QED
  BY <1>6, <1>7 DEF slice

(* So everything FillAccountsForSpan says follows from the shape.          *)
LEMMA GeometryFills ==
    ASSUME Geometry(region)
    PROVE  FillAccountsForSpan
<1> DEFINE pages == shared_pages(region)
<1>1. \A i \in DOMAIN pages : pages[i].page_off \in Nat
  BY SharedTable
<1>2. ASSUME NEW c \in ChunkIds(region)
      PROVE  LET span   == fill_span(region, c)
                 pieces == scratch_pieces(region, c)
                 staged == staged_pages(region, c)
             IN  /\ UNION {RangeOf(d) : d \in pieces} = RangeOf(span)
                 /\ \A d, e \in pieces : d # e => RangeOf(d) \cap RangeOf(e) = {}
                 /\ {staged[i] : i \in DOMAIN staged}
                      = {p \in Page : c \in Contributors(p) /\ Contributors(p) # {c}}
                 /\ \A i, j \in DOMAIN staged : i # j => staged[i] # staged[j]
  <2>1. PICK staged : staged = staged_pages(region, c)
    OBVIOUS
  <2>2. /\ {staged[i] : i \in DOMAIN staged}
             = {p \in Page : c \in Contributors(p) /\ Contributors(p) # {c}}
        /\ \A i, j \in DOMAIN staged : i # j => staged[i] # staged[j]
    BY <2>1, Staging
  <2> QED
    BY <2>1, <2>2, Tiling
<1>3. ASSUME NEW i \in DOMAIN pages
      PROVE  LET p        == pages[i].page_off
                 slice(c) == RangeOf(staged_slice(region, p, c))
             IN  /\ UNION {slice(c) : c \in Contributors(p)}
                      = Byte \cap (p .. p + PageSize - 1)
                 /\ \A c \in Contributors(p) : \A b \in slice(c) : Covers(c, b)
  BY <1>1, Slices
<1> QED
  BY <1>2, <1>3 DEF FillAccountsForSpan

-----------------------------------------------------------------------------
(* resolve_fault() of the server.                                          *)

Backing(r, f) == f = [c \in ChunkIds(r) |-> IF GrowsBack(r, c) THEN f[c - 1] ELSE c]
Forthing(r, f) == f = [c \in ChunkIds(r) |-> IF GrowsForth(r, c) THEN f[c + 1] ELSE c]

(* The two walks grow over the boundaries inside pages, and over no other. *)
LEMMA Growth ==
    ASSUME NEW r, Geometry(r), NEW c \in ChunkIds(r)
    PROVE  /\ GrowsBack(r, c) <=> r.chunk_start[c] \notin Aligned
           /\ GrowsForth(r, c) <=> c + 1 < r.nchunks /\ r.chunk_start[c + 1] \notin Aligned
<1> DEFINE n == r.nchunks
           S == r.chunk_start
<1>1. n \in Nat \ {0} /\ PageSize \in Nat \ {0} /\ S[0] = 0 /\ c \in 0 .. n - 1
  BY Starts DEF ChunkIds
<1>2. c \in 0 .. n /\ c + 1 \in 0 .. n
  BY <1>1
<1>3. S[c] \in Nat /\ S[c + 1] \in Nat /\ S[c + 1] + PageSize - 1 < SizeRange
  BY <1>2, Starts
<1>4. page_floor(S[c]) <= S[c] /\ (S[c] \in Aligned <=> page_floor(S[c]) = S[c]) /\ page_floor(S[c]) \in Aligned
  BY <1>3, Floor
<1>5. /\ S[c + 1] <= page_ceil(S[c + 1]) /\ page_ceil(S[c + 1]) \in Aligned
      /\ S[c + 1] \in Aligned <=> page_ceil(S[c + 1]) = S[c + 1]
  BY <1>3, CeilIs
<1>6. page_floor(S[c]) \in Nat /\ page_ceil(S[c + 1]) \in Nat /\ 0 \in Aligned
  BY <1>1, <1>4, <1>5 DEF Aligned
<1>7. GrowsBack(r, c) <=> c > 0 /\ S[c] > page_floor(S[c])
  BY DEF GrowsBack
<1>8. GrowsForth(r, c) <=> c + 1 < n /\ S[c + 1] < page_ceil(S[c + 1])
  BY DEF GrowsForth
<1> HIDE DEF n, S
<1>9. S[c] > page_floor(S[c]) <=> S[c] \notin Aligned
  BY <1>3, <1>4, <1>6
<1>10. c > 0 \/ c = 0
  BY <1>1
<1>11. S[c + 1] < page_ceil(S[c + 1]) <=> S[c + 1] \notin Aligned
  BY <1>3, <1>5, <1>6
<1> QED
  BY <1>1, <1>6, <1>7, <1>8, <1>9, <1>10, <1>11 DEF n, S

(* The walk back ends at the last aligned start before it.                 *)
LEMMA WalksBack ==
    ASSUME NEW r, Geometry(r), NEW a \in ChunkIds(r)
    PROVE  \E lo \in ChunkIds(r) :
             /\ lo = (CHOOSE f : Backing(r, f))[a]
             /\ lo <= a /\ r.chunk_start[lo] \in Aligned
             /\ \A i \in lo + 1 .. a : r.chunk_start[i] \notin Aligned
<1> DEFINE n == r.nchunks
           S == r.chunk_start
           D == 0 .. n - 1
           Stop == {c \in D : ~GrowsBack(r, c)}
           out == [c \in D |-> c]
           nx == [c \in D |-> IF GrowsBack(r, c) THEN c - 1 ELSE c]
           m == [c \in D |-> c]
           Q == {c \in D : c <= a /\ \A i \in c + 1 .. a : S[i] \notin Aligned}
<1>1. n \in Nat \ {0} /\ a \in D /\ ChunkIds(r) = D
  BY Starts DEF ChunkIds
<1>2. \A c \in D : GrowsBack(r, c) => c > 0
  BY DEF GrowsBack
<1>3. \A c \in D : GrowsBack(r, c) <=> S[c] \notin Aligned
  BY Growth DEF ChunkIds
<1>4. ASSUME NEW f PROVE Backing(r, f) <=> Searching(D, Stop, out, nx, f)
  <2>1. ASSUME NEW c \in D
        PROVE  (IF GrowsBack(r, c) THEN f[c - 1] ELSE c) = IF c \in Stop THEN out[c] ELSE f[nx[c]]
    OBVIOUS
  <2> QED
    BY <1>1, <2>1 DEF Backing, Searching
<1> HIDE DEF n, S
<1>5. nx \in [D -> D] /\ m \in [D -> Nat] /\ \A c \in D : m[c] <= n
  BY <1>1, <1>2
<1>6. \A c \in D \ Stop : m[nx[c]] < m[c]
  BY <1>1, <1>2
<1>7. PICK f : Searching(D, Stop, out, nx, f) /\ f = CHOOSE h : Backing(r, h)
  <2>1. \E f : Searching(D, Stop, out, nx, f)
    <3> n \in Nat
      BY <1>1
    <3> HIDE DEF D, Stop, out, nx, m
    <3> QED
      BY <1>5, <1>6, SearchExists
  <2> HIDE DEF D, Stop, out, nx, m
  <2>2. \E f : Backing(r, f)
    BY <1>4, <2>1
  <2>3. PICK f : Backing(r, f) /\ f = CHOOSE h : Backing(r, h)
    BY <2>2
  <2> QED
    BY <1>4, <2>3
<1>8. Q \in SUBSET D /\ a \in Q
  BY <1>1
<1>9. ASSUME NEW c \in Q \ Stop PROVE nx[c] \in Q
  <2>1. c \in D /\ GrowsBack(r, c) /\ c > 0 /\ S[c] \notin Aligned /\ nx[c] = c - 1 /\ c <= a
    BY <1>2, <1>3
  <2>2. c - 1 \in D /\ c - 1 <= a /\ \A i \in (c - 1) + 1 .. a : i = c \/ i \in c + 1 .. a
    BY <1>1, <2>1
  <2> HIDE DEF nx
  <2> QED
    BY <2>1, <2>2
<1>10. PICK e \in Q \cap Stop : f[a] = out[e]
  <2>1. Searching(D, Stop, out, nx, f)
    BY <1>7
  <2> HIDE DEF D, Stop, out, nx, m, Q
  <2> QED
    BY <1>5, <1>6, <1>8, <1>9, <2>1, SearchEnds
<1>11. e \in D /\ out[e] = e /\ e <= a /\ S[e] \in Aligned /\ \A i \in e + 1 .. a : S[i] \notin Aligned
  BY <1>3
<1> HIDE DEF Q, Stop, out, nx, m, D
<1> QED
  BY <1>1, <1>7, <1>10, <1>11 DEF S

(* The walk forth ends before the first aligned start after it.            *)
LEMMA WalksForth ==
    ASSUME NEW r, Geometry(r), NEW a \in ChunkIds(r)
    PROVE  \E hi \in ChunkIds(r) :
             /\ hi = (CHOOSE f : Forthing(r, f))[a]
             /\ a <= hi /\ (hi + 1 = r.nchunks \/ r.chunk_start[hi + 1] \in Aligned)
             /\ \A i \in a + 1 .. hi : r.chunk_start[i] \notin Aligned
<1> DEFINE n == r.nchunks
           S == r.chunk_start
           D == 0 .. n - 1
           Stop == {c \in D : ~GrowsForth(r, c)}
           out == [c \in D |-> c]
           nx == [c \in D |-> IF GrowsForth(r, c) THEN c + 1 ELSE c]
           m == [c \in D |-> n - c]
           Q == {c \in D : a <= c /\ \A i \in a + 1 .. c : S[i] \notin Aligned}
<1>1. n \in Nat \ {0} /\ a \in D /\ ChunkIds(r) = D
  BY Starts DEF ChunkIds
<1>3. \A c \in D : GrowsForth(r, c) <=> c + 1 < n /\ S[c + 1] \notin Aligned
  BY Growth DEF ChunkIds
<1>4. ASSUME NEW f PROVE Forthing(r, f) <=> Searching(D, Stop, out, nx, f)
  <2>1. ASSUME NEW c \in D
        PROVE  (IF GrowsForth(r, c) THEN f[c + 1] ELSE c) = IF c \in Stop THEN out[c] ELSE f[nx[c]]
    OBVIOUS
  <2> QED
    BY <1>1, <2>1 DEF Forthing, Searching
<1> HIDE DEF n, S
<1>5. nx \in [D -> D] /\ m \in [D -> Nat] /\ \A c \in D : m[c] <= n
  BY <1>1, <1>3
<1>6. \A c \in D \ Stop : m[nx[c]] < m[c]
  BY <1>1, <1>3
<1>7. PICK f : Searching(D, Stop, out, nx, f) /\ f = CHOOSE h : Forthing(r, h)
  <2>1. \E f : Searching(D, Stop, out, nx, f)
    <3> n \in Nat
      BY <1>1
    <3> HIDE DEF D, Stop, out, nx, m
    <3> QED
      BY <1>5, <1>6, SearchExists
  <2> HIDE DEF D, Stop, out, nx, m
  <2>2. \E f : Forthing(r, f)
    BY <1>4, <2>1
  <2>3. PICK f : Forthing(r, f) /\ f = CHOOSE h : Forthing(r, h)
    BY <2>2
  <2> QED
    BY <1>4, <2>3
<1>8. Q \in SUBSET D /\ a \in Q
  BY <1>1
<1>9. ASSUME NEW c \in Q \ Stop PROVE nx[c] \in Q
  <2>1. c \in D /\ GrowsForth(r, c) /\ c + 1 < n /\ S[c + 1] \notin Aligned /\ nx[c] = c + 1 /\ a <= c
    BY <1>3
  <2>2. c + 1 \in D /\ a <= c + 1 /\ \A i \in a + 1 .. c + 1 : i = c + 1 \/ i \in a + 1 .. c
    BY <1>1, <2>1
  <2> HIDE DEF nx
  <2> QED
    BY <2>1, <2>2
<1>10. PICK e \in Q \cap Stop : f[a] = out[e]
  <2>1. Searching(D, Stop, out, nx, f)
    BY <1>7
  <2> HIDE DEF D, Stop, out, nx, m, Q
  <2> QED
    BY <1>5, <1>6, <1>8, <1>9, <2>1, SearchEnds
<1>11. /\ e \in D /\ out[e] = e /\ a <= e
       /\ e + 1 = n \/ S[e + 1] \in Aligned
       /\ \A i \in a + 1 .. e : S[i] \notin Aligned
  BY <1>1, <1>3
<1> HIDE DEF Q, Stop, out, nx, m, D
<1> QED
  BY <1>1, <1>7, <1>10, <1>11 DEF S, n

\* g is the group of chunk c: from an aligned start to an aligned end, with
\* no aligned boundary inside.
GroupOf(r, c, g) ==
    /\ g.lo \in ChunkIds(r) /\ g.hi \in ChunkIds(r) /\ g.lo <= c /\ c <= g.hi
    /\ r.chunk_start[g.lo] \in Aligned
    /\ g.hi + 1 = r.nchunks \/ r.chunk_start[g.hi + 1] \in Aligned
    /\ \A i \in g.lo + 1 .. g.hi : r.chunk_start[i] \notin Aligned
    /\ g = [lo |-> g.lo, hi |-> g.hi,
            page_lo |-> page_floor(r.chunk_start[g.lo]),
            page_hi |-> page_ceil(r.chunk_start[g.hi + 1])]

(* What the two walks find is the group of the chunk at off.               *)
LEMMA Resolves ==
    ASSUME NEW r, Geometry(r), NEW off \in Nat
    PROVE  GroupOf(r, find_chunk(r, off), resolve_group(r, off))
<1> DEFINE a == find_chunk(r, off)
           g == resolve_group(r, off)
           S == r.chunk_start
<1>1. a \in ChunkIds(r)
  BY FindChunk
<1>2. PICK lo \in ChunkIds(r) :
             /\ lo = (CHOOSE f : Backing(r, f))[a]
             /\ lo <= a /\ S[lo] \in Aligned
             /\ \A i \in lo + 1 .. a : S[i] \notin Aligned
  BY <1>1, WalksBack
<1>3. PICK hi \in ChunkIds(r) :
             /\ hi = (CHOOSE f : Forthing(r, f))[a]
             /\ a <= hi /\ (hi + 1 = r.nchunks \/ S[hi + 1] \in Aligned)
             /\ \A i \in a + 1 .. hi : S[i] \notin Aligned
  BY <1>1, WalksForth
<1>4. g = [lo |-> lo, hi |-> hi, page_lo |-> page_floor(S[lo]), page_hi |-> page_ceil(S[hi + 1])]
  BY <1>2, <1>3 DEF resolve_group, Backing, Forthing
<1> HIDE DEF a, g, S
<1>5. g.lo = lo /\ g.hi = hi
  BY <1>4
<1>6. \A i \in lo + 1 .. hi : i \in lo + 1 .. a \/ i \in a + 1 .. hi
  <2>1. lo \in Int /\ a \in Int /\ hi \in Int
    BY <1>1, Starts DEF ChunkIds
  <2> QED
    BY <2>1
<1>7. GroupOf(r, a, g)
  BY <1>2, <1>3, <1>4, <1>5, <1>6 DEF GroupOf, S
<1> QED
  BY <1>7 DEF a, g

(* Two groups that meet are one.                                           *)
LEMMA GroupsAgree ==
    ASSUME NEW r, Geometry(r), NEW c, NEW d \in Int, NEW g, NEW h,
           GroupOf(r, c, g), GroupOf(r, d, h), g.lo <= d, d <= g.hi
    PROVE  g = h
<1> DEFINE n == r.nchunks
           S == r.chunk_start
<1>1. n \in Nat \ {0}
  BY Starts
<1>2. PICK lo \in 0 .. n - 1, hi \in 0 .. n - 1 :
          /\ g = [lo |-> lo, hi |-> hi, page_lo |-> page_floor(S[lo]), page_hi |-> page_ceil(S[hi + 1])]
          /\ lo <= d /\ d <= hi
          /\ S[lo] \in Aligned /\ (hi + 1 = n \/ S[hi + 1] \in Aligned)
          /\ \A i \in lo + 1 .. hi : S[i] \notin Aligned
  BY DEF GroupOf, ChunkIds
<1>3. PICK lx \in 0 .. n - 1, hx \in 0 .. n - 1 :
          /\ h = [lo |-> lx, hi |-> hx, page_lo |-> page_floor(S[lx]), page_hi |-> page_ceil(S[hx + 1])]
          /\ lx <= d /\ d <= hx
          /\ S[lx] \in Aligned /\ (hx + 1 = n \/ S[hx + 1] \in Aligned)
          /\ \A i \in lx + 1 .. hx : S[i] \notin Aligned
  BY DEF GroupOf, ChunkIds
<1> HIDE DEF n, S
<1>4. lo \in Int /\ hi \in Int /\ lx \in Int /\ hx \in Int /\ hi < n /\ hx < n
  BY <1>1
<1>5. lo <= hx /\ lx <= hi
  BY <1>2, <1>3, <1>4
<1>6. lo = lx
  <2>1. ~(lo < lx)
    <3>1. lo < lx => lx \in lo + 1 .. hi
      BY <1>4, <1>5
    <3> QED
      BY <1>2, <1>3, <3>1
  <2>2. ~(lx < lo)
    <3>1. lx < lo => lo \in lx + 1 .. hx
      BY <1>4, <1>5
    <3> QED
      BY <1>2, <1>3, <3>1
  <2> QED
    BY <1>4, <2>1, <2>2
<1>7. hi = hx
  <2>1. ~(hi < hx)
    <3>1. hi < hx => hi + 1 \in lx + 1 .. hx /\ hi + 1 # n
      BY <1>1, <1>4, <1>5
    <3> QED
      BY <1>2, <1>3, <3>1
  <2>2. ~(hx < hi)
    <3>1. hx < hi => hx + 1 \in lo + 1 .. hi /\ hx + 1 # n
      BY <1>1, <1>4, <1>5
    <3> QED
      BY <1>2, <1>3, <3>1
  <2> QED
    BY <1>4, <2>1, <2>2
<1> QED
  BY <1>2, <1>3, <1>6, <1>7

(* So everything GroupsPartitionPages says follows from the shape.         *)
LEMMA GeometryGroups ==
    ASSUME Geometry(region)
    PROVE  GroupsPartitionPages
<1> SUFFICES ASSUME NEW p \in Page, NEW g, g = resolve_group(region, p)
             PROVE  /\ p \in g.page_lo .. g.page_hi - 1
                    /\ \A q \in PagesOf([lo |-> g.page_lo, hi |-> g.page_hi]) :
                         /\ q \in Page
                         /\ Contributors(q) \subseteq g.lo .. g.hi
                         /\ resolve_group(region, q) = g
  BY DEF GroupsPartitionPages
<1> DEFINE n == region.nchunks
           S == region.chunk_start
           M == region.mapped_size
           a == find_chunk(region, p)
<1>1. /\ n \in Nat \ {0} /\ PageSize \in Nat \ {0} /\ S[n] = region.total_size
      /\ \A i \in 0 .. n : S[i] \in Nat /\ S[i] <= S[n] /\ S[i] + PageSize - 1 < SizeRange
      /\ \A i, j \in 0 .. n : i <= j <=> S[i] <= S[j]
  BY Starts
<1>2. /\ p \in Nat /\ p < S[n] /\ M \in Nat /\ S[n] <= M
      /\ \A q : q \in Page <=> q \in Aligned /\ q < M
  BY <1>1, Pages
<1>3. a \in 0 .. n - 1 /\ S[a] <= p /\ (a = n - 1 \/ p < S[a + 1])
  BY <1>2, FindChunk DEF ChunkIds
<1>4. GroupOf(region, a, g)
  BY <1>2, Resolves
<1>5. PICK lo \in 0 .. n - 1, hi \in 0 .. n - 1 :
          /\ g = [lo |-> lo, hi |-> hi, page_lo |-> page_floor(S[lo]), page_hi |-> page_ceil(S[hi + 1])]
          /\ lo <= a /\ a <= hi
          /\ S[lo] \in Aligned /\ (hi + 1 = n \/ S[hi + 1] \in Aligned)
  BY <1>4 DEF GroupOf, ChunkIds
<1>6. M = page_ceil(S[n])
  BY DEF Geometry
<1> HIDE DEF n, S, M
<1>7. /\ lo \in 0 .. n /\ hi + 1 \in 0 .. n /\ a \in 0 .. n /\ a + 1 \in 0 .. n
      /\ a + 1 <= hi + 1 /\ (a = n - 1 => a + 1 = n /\ hi + 1 = n)
  BY <1>1, <1>3, <1>5
<1>8. /\ S[lo] \in Nat /\ S[a] \in Nat /\ S[a + 1] \in Nat /\ S[hi + 1] \in Nat
      /\ S[hi + 1] + PageSize - 1 < SizeRange /\ S[hi + 1] <= S[n] /\ S[n] \in Nat
      /\ S[lo] <= S[a] /\ S[a + 1] <= S[hi + 1]
  <2>1. n \in 0 .. n
    BY <1>1
  <2> QED
    BY <1>1, <1>5, <1>7, <2>1
<1>9. PICK t \in Nat : /\ t = page_ceil(S[hi + 1]) /\ S[hi + 1] <= t /\ t <= M
                       /\ hi + 1 = n \/ t = S[hi + 1]
  <2>1. /\ page_ceil(S[hi + 1]) \in Aligned /\ S[hi + 1] <= page_ceil(S[hi + 1])
        /\ S[hi + 1] \in Aligned <=> page_ceil(S[hi + 1]) = S[hi + 1]
    BY <1>8, CeilIs
  <2>2. page_ceil(S[hi + 1]) \in Nat
    BY <2>1 DEF Aligned
  <2>3. hi + 1 = n \/ page_ceil(S[hi + 1]) = S[hi + 1]
    BY <1>5, <2>1
  <2>4. page_ceil(S[hi + 1]) <= M
    BY <1>2, <1>6, <1>8, <2>2, <2>3
  <2> QED
    BY <2>1, <2>2, <2>3, <2>4
<1>10. page_floor(S[lo]) = S[lo]
  BY <1>5, <1>8, Floor
<1>11. g.lo = lo /\ g.hi = hi /\ g.page_lo = S[lo] /\ g.page_hi = t
  BY <1>5, <1>9, <1>10
<1>12. p \in S[lo] .. t - 1
  <2>1. p < S[a + 1]
    BY <1>1, <1>2, <1>3, <1>7
  <2> QED
    BY <1>2, <1>3, <1>8, <1>9, <2>1
<1>13. ASSUME NEW q \in PagesOf([lo |-> g.page_lo, hi |-> g.page_hi])
       PROVE  /\ q \in Page
              /\ Contributors(q) \subseteq g.lo .. g.hi
              /\ resolve_group(region, q) = g
  <2>1. q \in S[lo] .. t - 1 /\ q % PageSize = 0
    BY <1>11 DEF PagesOf
  <2>2. q \in Aligned /\ q \in Nat /\ S[lo] <= q /\ q < t
    BY <1>8, <1>9, <2>1 DEF Aligned
  <2>3. q \in Page
    BY <1>2, <1>9, <2>2
  <2>4. ASSUME NEW c \in Contributors(q) PROVE c \in lo .. hi
    <3>1. c \in 0 .. n - 1 /\ S[c] < q + PageSize /\ q < S[c + 1]
      BY <2>2, Overlap DEF ChunkIds, n, S
    <3>2. c \in 0 .. n /\ c + 1 \in 0 .. n
      BY <1>1, <3>1
    <3>3. S[c] \in Nat /\ S[c + 1] \in Nat
      BY <1>1, <3>2
    <3>4. ~(c + 1 <= lo)
      <4>1. c + 1 <= lo => S[c + 1] <= S[lo]
        BY <1>1, <1>7, <3>2
      <4> QED
        BY <1>8, <2>2, <3>1, <3>3, <4>1
    <3>5. ~(hi + 1 <= c)
      <4> SUFFICES ASSUME hi + 1 <= c PROVE FALSE
        OBVIOUS
      <4>1. S[hi + 1] <= S[c] /\ hi + 1 # n
        BY <1>1, <1>7, <3>1, <3>2
      <4>2. t = S[hi + 1] /\ t \in Aligned
        BY <1>5, <1>9, <4>1
      <4>3. q + PageSize <= t
        BY <2>2, <4>2, AlignedApart
      <4> QED
        BY <1>1, <1>8, <2>2, <3>1, <3>3, <4>1, <4>2, <4>3
    <3> QED
      BY <1>1, <1>5, <3>1, <3>4, <3>5
  <2>5. resolve_group(region, q) = g
    <3>1. find_chunk(region, q) \in lo .. hi
      BY <2>3, <2>4, ContributorRange
    <3>2. /\ g.lo <= find_chunk(region, q) /\ find_chunk(region, q) <= g.hi
          /\ find_chunk(region, q) \in Int
      BY <1>1, <1>5, <1>11, <3>1
    <3>3. GroupOf(region, find_chunk(region, q), resolve_group(region, q))
      BY <2>2, Resolves
    <3> QED
      BY <1>4, <3>2, <3>3, GroupsAgree
  <2> QED
    BY <1>11, <2>3, <2>4, <2>5
<1> QED
  BY <1>11, <1>12, <1>13

-----------------------------------------------------------------------------
(* The requests of RegionCreate.                                           *)

\* An answered request was refused for what it is, and a region is the one
\* the code computes for its request.
Answered ==
    /\ outcome \in {"none", "region", "EINVAL", "abort"}
    /\ outcome # "none" => sizes \in Request /\ (outcome = "EINVAL" <=> refused(sizes))
    /\ Created => region = region_of(sizes) /\ region_of(sizes).mapped_size # 0

(* Every reachable state is answered.                                      *)
LEMMA AnsweredAlways == Spec => []Answered
<1>1. Init => Answered
  BY DEF Init, Answered, Created
<1>2. Answered /\ [Next]_vars => Answered'
  <2> SUFFICES ASSUME Answered, [Next]_vars PROVE Answered'
    OBVIOUS
  <2>1. CASE \E req \in Request : fc_region_create(req)
    BY <2>1 DEF fc_region_create, Answered, Created
  <2>2. CASE fc_region_destroy \/ Retry
    BY <2>2 DEF fc_region_destroy, Retry, Answered, Created
  <2>3. CASE UNCHANGED vars
    BY <2>3 DEF vars, Answered, Created
  <2> QED
    BY <2>1, <2>2, <2>3 DEF Next
<1> QED
  BY <1>1, <1>2, PTL DEF Spec

(* The region of an answered request has the shape of a region.            *)
LEMMA CreatedShape ==
    ASSUME Answered, Created
    PROVE  /\ Geometry(region)
           /\ region.nchunks = Len(sizes) /\ region.total_size = TrueSum(sizes)
<1>1. /\ sizes \in Request /\ ~refused(sizes)
      /\ region = region_of(sizes) /\ region_of(sizes).mapped_size # 0
  BY DEF Answered, Created
<1> QED
  BY <1>1, GeometryHolds

(* fc_region_create() answers EINVAL exactly for a zero size or a sum that *)
(* does not fit size_t, and a region it returns maps the sum in whole      *)
(* pages: for every page size, width of size_t and list of sizes.          *)
THEOREM AcceptedExactly == Spec => []AcceptsExactly
<1>1. Answered => AcceptsExactly
  <2> SUFFICES ASSUME Answered PROVE AcceptsExactly
    OBVIOUS
  <2>1. outcome # "none" =>
          (outcome = "EINVAL" <=>
             (\E i \in DOMAIN sizes : sizes[i] = 0) \/ TrueSum(sizes) >= SizeRange)
    BY RefusedExactly DEF Answered
  <2>2. ASSUME Created
        PROVE  /\ region.nchunks = Len(sizes)
               /\ region.total_size = TrueSum(sizes)
               /\ region.mapped_size \in region.total_size .. region.total_size + PageSize - 1
               /\ region.mapped_size % PageSize = 0
    <3>1. Geometry(region) /\ region.nchunks = Len(sizes) /\ region.total_size = TrueSum(sizes)
      BY <2>2, CreatedShape
    <3>2. PageSize \in Nat /\ region.total_size \in Nat
      BY <3>1, Starts
    <3>3. /\ region.mapped_size \in Aligned /\ region.mapped_size \in Nat
          /\ region.total_size <= region.mapped_size
          /\ region.mapped_size < region.total_size + PageSize
      BY <3>1, Pages
    <3> QED
      BY <3>1, <3>2, <3>3 DEF Aligned
  <2> QED
    BY <2>1, <2>2 DEF AcceptsExactly
<1> QED
  BY <1>1, AnsweredAlways, PTL

(* find_chunk(), shared_pages_init(), find_shared_page() and               *)
(* chunk_exclusive_pages() agree with the bytes, page by page, in every    *)
(* region fc_region_create() returns.                                      *)
THEOREM LookupsExact == Spec => []LookupExact
<1>1. Answered => LookupExact
  <2>1. Answered /\ Created => LookupExact
    BY CreatedShape, GeometryLooksUp
  <2>2. ~Created => LookupExact
    BY DEF LookupExact
  <2> QED
    BY <2>1, <2>2
<1> QED
  BY <1>1, AnsweredAlways, PTL

(* fill_chunk_locked() publishes, stages or discards every page of its     *)
(* scratch mapping exactly once, and what the contributors of a shared     *)
(* page stage makes up all its bytes, in every region.                     *)
THEOREM FillsAccounted == Spec => []FillAccountsForSpan
<1>1. Answered => FillAccountsForSpan
  <2>1. Answered /\ Created => FillAccountsForSpan
    BY CreatedShape, GeometryFills
  <2>2. ~Created => FillAccountsForSpan
    BY DEF FillAccountsForSpan
  <2> QED
    BY <2>1, <2>2
<1> QED
  BY <1>1, AnsweredAlways, PTL

(* The groups resolve_fault() copies partition the pages of every region,  *)
(* and a group holds every chunk with bytes in its pages.                  *)
THEOREM GroupsPartition == Spec => []GroupsPartitionPages
<1>1. Answered => GroupsPartitionPages
  <2>1. Answered /\ Created => GroupsPartitionPages
    BY CreatedShape, GeometryGroups
  <2>2. ~Created => GroupsPartitionPages
    BY DEF GroupsPartitionPages
  <2> QED
    BY <2>1, <2>2
<1> QED
  BY <1>1, AnsweredAlways, PTL

\* What the modules that are given the geometry as constants assume of it:
\* Pool of the contributors and sizes (PageAssumption, ChunkAssumption),
\* PoolWin32 of the pages a chunk shares or owns (OffsetAssumption) and Remote
\* of the groups (RemoteAssumption).
MeetsAssumptions ==
    /\ \A p \in Page : Contributors(p) # {} /\ IsFiniteSet(Contributors(p))
    /\ \A c \in ChunkIds(region) :
         /\ region.chunk_start[c + 1] - region.chunk_start[c] \in Nat \ {0}
         /\ IsFiniteSet({p \in Page : c \in Contributors(p) /\ Contributors(p) # {c}})
    /\ \A p, q, s \in Page : \A c \in ChunkIds(region) :
         /\ Contributors(p) = {c} /\ Contributors(q) = {c}
         /\ p <= s /\ s <= q
         => Contributors(s) = {c}
    /\ \A p, q \in Page :
         LET g == resolve_group(region, p)
             h == resolve_group(region, q)
         IN  /\ g.lo .. g.hi # {} /\ g.lo .. g.hi \subseteq Nat
             /\ g.lo .. g.hi = h.lo .. h.hi \/ (g.lo .. g.hi) \cap (h.lo .. h.hi) = {}

(* The shape of a region makes those assumptions true.                     *)
LEMMA GeometryMeets ==
    ASSUME Geometry(region)
    PROVE  MeetsAssumptions
<1> DEFINE n == region.nchunks
           S == region.chunk_start
<1>1. /\ n \in Nat \ {0} /\ PageSize \in Nat \ {0}
      /\ \A i \in 0 .. n : S[i] \in Nat
      /\ \A i, j \in 0 .. n : i < j <=> S[i] < S[j]
  BY Starts
<1>2. /\ \A p \in Page : p \in Nat /\ p < region.total_size
      /\ region.total_size \in Nat
  BY Pages, Starts
<1>3. ASSUME NEW p \in Page
      PROVE  Contributors(p) # {} /\ IsFiniteSet(Contributors(p))
  <2>1. /\ Contributors(p) \subseteq 0 .. n - 1
        /\ find_chunk(region, p) \in Contributors(p)
    BY <1>2, ContributorRange, Overlap DEF ChunkIds
  <2>2. IsFiniteSet(0 .. n - 1)
    BY <1>1, FS_Interval
  <2> QED
    BY <2>1, <2>2, FS_Subset
<1>4. ASSUME NEW c \in ChunkIds(region)
      PROVE  /\ S[c + 1] - S[c] \in Nat \ {0}
             /\ IsFiniteSet({p \in Page : c \in Contributors(p) /\ Contributors(p) # {c}})
  <2>1. c \in 0 .. n /\ c + 1 \in 0 .. n /\ c < c + 1
    BY <1>1 DEF ChunkIds
  <2>2. S[c] \in Nat /\ S[c + 1] \in Nat /\ S[c] < S[c + 1]
    BY <1>1, <2>1
  <2>3. S[c + 1] - S[c] \in Nat \ {0}
    BY <2>2
  <2>4. IsFiniteSet(0 .. region.total_size)
    BY <1>2, FS_Interval
  <2>5. {p \in Page : c \in Contributors(p) /\ Contributors(p) # {c}}
            \subseteq 0 .. region.total_size
    BY <1>2
  <2>6. IsFiniteSet({p \in Page : c \in Contributors(p) /\ Contributors(p) # {c}})
    BY <2>4, <2>5, FS_Subset
  <2> QED
    BY <2>3, <2>6
<1>5. ASSUME NEW p \in Page, NEW q \in Page, NEW s \in Page, NEW c \in ChunkIds(region),
             Contributors(p) = {c}, Contributors(q) = {c}, p <= s, s <= q
      PROVE  Contributors(s) = {c}
  <2>1. c + 1 \in 0 .. n /\ c \in 0 .. n
    BY <1>1 DEF ChunkIds
  <2>2. p \in Nat /\ q \in Nat /\ s \in Nat /\ S[c] \in Nat /\ S[c + 1] \in Nat
    BY <1>1, <1>2, <2>1
  <2>3. S[c] <= p /\ (c + 1 = n \/ q + PageSize <= S[c + 1])
    BY <1>5, Alone
  <2>4. S[c] <= s /\ (c + 1 = n \/ s + PageSize <= S[c + 1])
    BY <1>1, <1>5, <2>2, <2>3
  <2> QED
    BY <2>4, Alone
<1>6. ASSUME NEW p \in Page, NEW q \in Page,
             NEW g, g = resolve_group(region, p), NEW h, h = resolve_group(region, q)
      PROVE  /\ g.lo .. g.hi # {} /\ g.lo .. g.hi \subseteq Nat
             /\ g.lo .. g.hi = h.lo .. h.hi \/ (g.lo .. g.hi) \cap (h.lo .. h.hi) = {}
  <2>1. PICK a \in 0 .. n - 1 : GroupOf(region, a, g)
    BY <1>2, <1>6, FindChunk, Resolves DEF ChunkIds
  <2>2. PICK b : GroupOf(region, b, h)
    BY <1>2, <1>6, Resolves
  <2>3. /\ g.lo \in 0 .. n - 1 /\ g.hi \in 0 .. n - 1
        /\ h.lo \in 0 .. n - 1 /\ h.hi \in 0 .. n - 1
    BY <2>1, <2>2 DEF GroupOf, ChunkIds
  <2>4. g.lo <= g.hi
    BY <2>1, <2>3 DEF GroupOf, ChunkIds
  <2>5. ASSUME NEW d \in g.lo .. g.hi, d \in h.lo .. h.hi
        PROVE  g = h
    <3>1. d \in Int /\ g.lo <= d /\ d <= g.hi /\ h.lo <= d /\ d <= h.hi
      BY <2>3, <2>5
    <3>2. GroupOf(region, d, h)
      BY <2>2, <3>1 DEF GroupOf
    <3> QED
      BY <2>1, <3>1, <3>2, GroupsAgree
  <2> QED
    BY <1>1, <2>3, <2>4, <2>5
<1> QED
  BY <1>3, <1>4, <1>5, <1>6 DEF MeetsAssumptions

(* Whatever request a region is made for, its geometry meets every         *)
(* assumption on pages, chunks and groups that the proofs about the pool,  *)
(* its Windows memory and the server take for granted.                     *)
THEOREM AssumptionsMet == Spec => [](Created => MeetsAssumptions)
<1>1. Answered => (Created => MeetsAssumptions)
  BY CreatedShape, GeometryMeets
<1> QED
  BY <1>1, AnsweredAlways, PTL
=============================================================================
