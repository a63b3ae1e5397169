----------------------------- MODULE PoolProofs -----------------------------
(***************************************************************************)
(* Proofs about Pool for every set of regions, chunks and pages, every     *)
(* geometry and every target size.                                         *)
(***************************************************************************)
EXTENDS Pool, ListLemmas, SumLemmas, TLAPS, FiniteSetTheorems

-----------------------------------------------------------------------------
(* The queue.                                                              *)

\* A well-formed queue: what every queue operation takes and gives.
GoodQueue(q) == q \in QueueType /\ NoDuplicates(q) /\ SplitAtMidpoint(q)

(* A chunk in the queue is found at its position.                          *)
LEMMA PositionProperties ==
    ASSUME NEW q, q \in QueueType, NEW c \in Resident(q)
    PROVE  Position(q, c) \in 1 .. Len(q.order) /\ q.order[Position(q, c)] = c
  BY DEF Position, Resident, ToSet, QueueType

(* lru_unlink() takes exactly one node out and keeps the rest in order,    *)
(* split at the midpoint.                                                  *)
LEMMA UnlinkProperties ==
    ASSUME NEW q, GoodQueue(q), NEW c \in Resident(q), c \in Chunk
    PROVE  /\ GoodQueue(lru_unlink(q, c))
           /\ Resident(lru_unlink(q, c)) = Resident(q) \ {c}
           /\ lru_unlink(q, c).cold = q.cold
           /\ q.order[1] # c => /\ lru_unlink(q, c).order # << >>
                                /\ lru_unlink(q, c).order[1] = q.order[1]
<1> DEFINE i == Position(q, c)
           u == lru_unlink(q, c)
           n == Len(q.order)
<1>q. /\ q.order \in Seq(Chunk) /\ q.midpoint \in Chunk \cup {lru_head}
      /\ q.cold \subseteq Chunk /\ q.hot_bytes \in Int
      /\ DOMAIN q.order = 1 .. n
  BY DEF GoodQueue, QueueType
<1>n. n \in Nat /\ \A j \in 1 .. n : q.order[j] \in Chunk
  BY <1>q
<1>i. i \in 1 .. n /\ q.order[i] = c
  BY PositionProperties DEF GoodQueue
<1>u. /\ u.order = RemoveAt(q.order, i)
      /\ u.midpoint = IF q.midpoint = c THEN Prev(q, c) ELSE q.midpoint
      /\ u.cold = q.cold
      /\ u.hot_bytes = IF c \in q.cold THEN q.hot_bytes ELSE q.hot_bytes - Size[c]
      /\ u = [order |-> u.order, midpoint |-> u.midpoint, cold |-> u.cold,
              hot_bytes |-> u.hot_bytes]
  BY DEF lru_unlink, lru_node_size
<1>r. /\ RemoveAt(q.order, i) \in Seq(Chunk)
      /\ Len(RemoveAt(q.order, i)) = n - 1
      /\ \A j \in 1 .. n - 1 :
           RemoveAt(q.order, i)[j] = IF j < i THEN q.order[j] ELSE q.order[j + 1]
  BY <1>q, <1>i, RemoveAtProperties
<1>p. Prev(q, c) = IF i = 1 THEN lru_head ELSE q.order[i - 1]
  BY DEF Prev
<1> HIDE DEF i, u, n
<1>s. u.order \in Seq(Chunk) /\ Len(u.order) = n - 1 /\ DOMAIN u.order = 1 .. n - 1
  BY <1>r, <1>u
<1>o. \A j \in 1 .. n - 1 : u.order[j] = IF j < i THEN q.order[j] ELSE q.order[j + 1]
  BY <1>r, <1>u
<1>d. \A j, k \in 1 .. n : j # k => q.order[j] # q.order[k]
  BY <1>q DEF GoodQueue, NoDuplicates
<1>1. u \in QueueType
  <2>1. u.midpoint \in Chunk \cup {lru_head}
    BY <1>q, <1>n, <1>i, <1>u, <1>p, SMT
  <2>2. u.hot_bytes \in Int
    BY <1>q, <1>u, ChunkAssumption
  <2> QED
    BY <1>s, <1>q, <1>u, <2>1, <2>2 DEF QueueType
<1>2. NoDuplicates(u)
  <2> SUFFICES ASSUME NEW j \in 1 .. n - 1, NEW k \in 1 .. n - 1, j # k
               PROVE  u.order[j] # u.order[k]
    BY <1>s DEF NoDuplicates
  <2> QED
    BY <1>o, <1>d, <1>n, <1>i, SMT
<1>3. Resident(u) = Resident(q) \ {c}
  <2>1. ASSUME NEW x \in Resident(u) PROVE x \in Resident(q) \ {c}
    <3>1. PICK j \in 1 .. n - 1 : u.order[j] = x
      BY <1>s DEF Resident, ToSet
    <3> DEFINE k == IF j < i THEN j ELSE j + 1
    <3>2. k \in 1 .. n /\ k # i /\ q.order[k] = x
      BY <3>1, <1>o, <1>n, <1>i, SMT
    <3> HIDE DEF k
    <3>3. x # c
      BY <3>2, <1>d, <1>i
    <3> QED
      BY <3>2, <3>3, <1>q DEF Resident, ToSet
  <2>2. ASSUME NEW x \in Resident(q) \ {c} PROVE x \in Resident(u)
    <3>1. PICK k \in 1 .. n : q.order[k] = x
      BY <1>q DEF Resident, ToSet
    <3>2. k # i
      BY <3>1, <1>i
    <3> DEFINE j == IF k < i THEN k ELSE k - 1
    <3>3. j \in 1 .. n - 1 /\ u.order[j] = x
      BY <3>1, <3>2, <1>o, <1>n, <1>i, SMT
    <3> HIDE DEF j
    <3> QED
      BY <3>3, <1>s DEF Resident, ToSet
  <2> QED
    BY <2>1, <2>2
<1>4. SplitAtMidpoint(u)
  <2>1. CASE /\ q.midpoint = lru_head
             /\ \A j \in DOMAIN q.order : q.order[j] \in q.cold
    <3>1. u.midpoint = lru_head
      BY <2>1, <1>u, <1>q, <1>i, ChunkAssumption
    <3>0. \A j \in 1 .. n : q.order[j] \in q.cold
      BY <2>1, <1>q
    <3>2. \A j \in 1 .. n - 1 : u.order[j] \in u.cold
      BY <3>0, <1>o, <1>n, <1>i, <1>u, SMT
    <3> QED
      BY <3>1, <3>2, <1>s DEF SplitAtMidpoint
  <2>2. ASSUME NEW k \in 1 .. n, q.midpoint = q.order[k],
               \A j \in 1 .. n : q.order[j] \in q.cold <=> j > k
        PROVE  SplitAtMidpoint(u)
    <3>1. q.midpoint = c <=> k = i
      BY <2>2, <1>d, <1>i
    <3>2. CASE k = i /\ i = 1
      <4>1. u.midpoint = lru_head
        BY <3>1, <3>2, <1>u, <1>p
      <4>2. \A j \in 1 .. n - 1 : u.order[j] \in u.cold
        BY <2>2, <3>2, <1>o, <1>n, <1>i, <1>u, SMT
      <4> QED
        BY <4>1, <4>2, <1>s DEF SplitAtMidpoint
    <3>3. CASE k = i /\ i # 1
      <4>1. i - 1 \in 1 .. n - 1 /\ u.midpoint = u.order[i - 1]
        BY <3>1, <3>3, <1>u, <1>p, <1>o, <1>n, <1>i, SMT
      <4>2. \A j \in 1 .. n - 1 : u.order[j] \in u.cold <=> j > i - 1
        BY <2>2, <3>3, <1>o, <1>n, <1>i, <1>u, SMT
      <4> QED
        BY <4>1, <4>2, <1>s DEF SplitAtMidpoint
    <3>4. CASE k < i
      <4>1. k \in 1 .. n - 1 /\ u.midpoint = u.order[k]
        BY <2>2, <3>1, <3>4, <1>u, <1>o, <1>n, <1>i, SMT
      <4>2. \A j \in 1 .. n - 1 : u.order[j] \in u.cold <=> j > k
        BY <2>2, <3>4, <1>o, <1>n, <1>i, <1>u, SMT
      <4> QED
        BY <4>1, <4>2, <1>s DEF SplitAtMidpoint
    <3>5. CASE k > i
      <4>1. k - 1 \in 1 .. n - 1 /\ u.midpoint = u.order[k - 1]
        BY <2>2, <3>1, <3>5, <1>u, <1>o, <1>n, <1>i, SMT
      <4>2. \A j \in 1 .. n - 1 : u.order[j] \in u.cold <=> j > k - 1
        BY <2>2, <3>5, <1>o, <1>n, <1>i, <1>u, SMT
      <4> QED
        BY <4>1, <4>2, <1>s DEF SplitAtMidpoint
    <3> QED
      BY <3>2, <3>3, <3>4, <3>5, <1>n, <1>i, SMT
  <2> QED
    BY <2>1, <2>2, <1>q DEF GoodQueue, SplitAtMidpoint
<1>5. ASSUME q.order[1] # c PROVE u.order # << >> /\ u.order[1] = q.order[1]
  <2>1. i > 1 /\ n > 1
    BY <1>5, <1>n, <1>i, SMT
  <2> QED
    BY <2>1, <1>o, <1>s, <1>n, <1>i, SMT
<1> QED
  BY <1>1, <1>2, <1>3, <1>4, <1>5, <1>u DEF GoodQueue, u


(* lru_insert_mru() makes an absent chunk the hot front of the queue.      *)
LEMMA InsertProperties ==
    ASSUME NEW q, GoodQueue(q), NEW c \in Chunk, c \notin Resident(q)
    PROVE  /\ GoodQueue(lru_insert_mru(q, c))
           /\ Resident(lru_insert_mru(q, c)) = Resident(q) \cup {c}
           /\ lru_insert_mru(q, c).cold = q.cold \ {c}
           /\ lru_insert_mru(q, c).order # << >>
           /\ lru_insert_mru(q, c).order[1] = c
<1> DEFINE v == lru_insert_mru(q, c)
           n == Len(q.order)
<1>q. /\ q.order \in Seq(Chunk) /\ q.midpoint \in Chunk \cup {lru_head}
      /\ q.cold \subseteq Chunk /\ q.hot_bytes \in Int
      /\ DOMAIN q.order = 1 .. n
  BY DEF GoodQueue, QueueType
<1>n. n \in Nat /\ \A j \in 1 .. n : q.order[j] \in Chunk
  BY <1>q
<1>v. /\ v.order = Cons(c, q.order)
      /\ v.midpoint = IF q.midpoint = lru_head THEN c ELSE q.midpoint
      /\ v.cold = q.cold \ {c}
      /\ v.hot_bytes = q.hot_bytes + Size[c]
      /\ v = [order |-> v.order, midpoint |-> v.midpoint, cold |-> v.cold,
              hot_bytes |-> v.hot_bytes]
  BY DEF lru_insert_mru, lru_node_size
<1> HIDE DEF v
<1>r. /\ Cons(c, q.order) \in Seq(Chunk)
      /\ Len(Cons(c, q.order)) = n + 1
      /\ Cons(c, q.order)[1] = c
      /\ \A j \in 1 .. n : Cons(c, q.order)[j + 1] = q.order[j]
  <2>1. q.order \in Seq(Chunk)
    BY <1>q
  <2>2. Cons(c, q.order) \in Seq(Chunk) /\ Len(Cons(c, q.order)) = n + 1
    BY <2>1, ConsProperties
  <2>3. Cons(c, q.order)[1] = c
    BY <2>1, ConsProperties
  <2>4. \A j \in 1 .. n : Cons(c, q.order)[j + 1] = q.order[j]
    <3> DEFINE o == q.order
    <3>1. o \in Seq(Chunk)
      BY <2>1
    <3> HIDE DEF o
    <3>2. \A j \in 1 .. Len(o) : Cons(c, o)[j + 1] = o[j]
      BY <3>1, ConsProperties
    <3> QED
      BY <3>2 DEF o
  <2> QED
    BY <2>2, <2>3, <2>4
<1> HIDE DEF n
<1>s. v.order \in Seq(Chunk) /\ Len(v.order) = n + 1 /\ DOMAIN v.order = 1 .. n + 1
  BY <1>r, <1>v
<1>o. v.order[1] = c /\ \A j \in 1 .. n : v.order[j + 1] = q.order[j]
  BY <1>r, <1>v
<1>b. \A j \in 2 .. n + 1 : j - 1 \in 1 .. n /\ v.order[j] = q.order[j - 1]
  BY <1>o, <1>n, SMT
<1>d. \A j, k \in 1 .. n : j # k => q.order[j] # q.order[k]
  BY <1>q DEF GoodQueue, NoDuplicates
<1>c. \A j \in 1 .. n : q.order[j] # c
  BY <1>q DEF Resident, ToSet
<1>1. v \in QueueType
  <2>1. v.hot_bytes \in Int
    BY <1>q, <1>v, ChunkAssumption
  <2> QED
    BY <1>s, <1>q, <1>v, <2>1 DEF QueueType
<1>2. NoDuplicates(v)
  <2> SUFFICES ASSUME NEW j \in 1 .. n + 1, NEW k \in 1 .. n + 1, j # k
               PROVE  v.order[j] # v.order[k]
    BY <1>s DEF NoDuplicates
  <2>1. CASE j = 1 /\ k # 1
    BY <2>1, <1>b, <1>o, <1>c, <1>n, SMT
  <2>2. CASE j # 1 /\ k = 1
    BY <2>2, <1>b, <1>o, <1>c, <1>n, SMT
  <2>3. CASE j # 1 /\ k # 1
    BY <2>3, <1>b, <1>d, <1>n, SMT
  <2> QED
    BY <2>1, <2>2, <2>3
<1>3. Resident(v) = Resident(q) \cup {c}
  <2>1. ASSUME NEW x \in Resident(v) PROVE x \in Resident(q) \cup {c}
    <3>1. PICK j \in 1 .. n + 1 : v.order[j] = x
      BY <1>s DEF Resident, ToSet
    <3>2. CASE j = 1
      BY <3>1, <3>2, <1>o
    <3>3. CASE j # 1
      <4>1. j - 1 \in 1 .. n /\ q.order[j - 1] = x
        BY <3>1, <3>3, <1>b, <1>n, SMT
      <4> QED
        BY <4>1, <1>q DEF Resident, ToSet
    <3> QED
      BY <3>2, <3>3
  <2>2. ASSUME NEW x \in Resident(q) PROVE x \in Resident(v)
    <3>1. PICK k \in 1 .. n : q.order[k] = x
      BY <1>q DEF Resident, ToSet
    <3>2. k + 1 \in 1 .. n + 1 /\ v.order[k + 1] = x
      BY <3>1, <1>o, <1>n, SMT
    <3> QED
      BY <3>2, <1>s DEF Resident, ToSet
  <2>3. c \in Resident(v)
    <3>1. 1 \in 1 .. n + 1
      BY <1>n, SMT
    <3> QED
      BY <3>1, <1>s, <1>o DEF Resident, ToSet
  <2> QED
    BY <2>1, <2>2, <2>3
<1>4. SplitAtMidpoint(v)
  <2>1. CASE /\ q.midpoint = lru_head
             /\ \A j \in DOMAIN q.order : q.order[j] \in q.cold
    <3>0. \A j \in 1 .. n : q.order[j] \in q.cold
      BY <2>1, <1>q
    <3>1. 1 \in 1 .. n + 1 /\ v.midpoint = v.order[1]
      BY <2>1, <1>v, <1>o, <1>n, SMT
    <3>2. \A j \in 1 .. n + 1 : v.order[j] \in v.cold <=> j > 1
      <4> TAKE j \in 1 .. n + 1
      <4>1. CASE j = 1
        BY <4>1, <1>o, <1>v
      <4>2. CASE j # 1
        BY <4>2, <3>0, <1>b, <1>c, <1>v, <1>n, SMT
      <4> QED
        BY <4>1, <4>2
    <3> QED
      BY <3>1, <3>2, <1>s DEF SplitAtMidpoint
  <2>2. ASSUME NEW k \in 1 .. n, q.midpoint = q.order[k],
               \A j \in 1 .. n : q.order[j] \in q.cold <=> j > k
        PROVE  SplitAtMidpoint(v)
    <3>1. k + 1 \in 1 .. n + 1 /\ v.midpoint = v.order[k + 1]
      <4>1. q.midpoint # lru_head
        BY <2>2, <1>n, ChunkAssumption
      <4> QED
        BY <4>1, <2>2, <1>v, <1>o, <1>n, SMT
    <3>2. \A j \in 1 .. n + 1 : v.order[j] \in v.cold <=> j > k + 1
      <4> TAKE j \in 1 .. n + 1
      <4>1. CASE j = 1
        BY <4>1, <1>o, <1>v, <1>n, SMT
      <4>2. CASE j # 1
        BY <4>2, <2>2, <1>b, <1>c, <1>v, <1>n, SMT
      <4> QED
        BY <4>1, <4>2
    <3> QED
      BY <3>1, <3>2, <1>s DEF SplitAtMidpoint
  <2> QED
    BY <2>1, <2>2, <1>q DEF GoodQueue, SplitAtMidpoint
<1>5. v.order # << >> /\ v.order[1] = c
  BY <1>o, <1>s, <1>n, SMT
<1> QED
  BY <1>1, <1>2, <1>3, <1>4, <1>5, <1>v DEF GoodQueue, v

(* lru_rebalance()'s step: the last hot node becomes the first cold one.   *)
LEMMA DemoteProperties ==
    ASSUME NEW q, GoodQueue(q), q.midpoint \in Resident(q)
    PROVE  /\ GoodQueue(lru_demote(q))
           /\ Resident(lru_demote(q)) = Resident(q)
           /\ lru_demote(q).cold = q.cold \cup {q.midpoint}
           /\ lru_demote(q).order = q.order
<1> DEFINE w == lru_demote(q)
           n == Len(q.order)
           i == Position(q, q.midpoint)
<1>q. /\ q.order \in Seq(Chunk) /\ q.midpoint \in Chunk \cup {lru_head}
      /\ q.cold \subseteq Chunk /\ q.hot_bytes \in Int
      /\ DOMAIN q.order = 1 .. n
  BY DEF GoodQueue, QueueType
<1>n. n \in Nat /\ \A j \in 1 .. n : q.order[j] \in Chunk
  BY <1>q
<1>i. i \in 1 .. n /\ q.order[i] = q.midpoint
  BY PositionProperties DEF GoodQueue
<1>w. /\ w.order = q.order
      /\ w.midpoint = Prev(q, q.midpoint)
      /\ w.cold = q.cold \cup {q.midpoint}
      /\ w.hot_bytes = q.hot_bytes - Size[q.midpoint]
      /\ w = [order |-> w.order, midpoint |-> w.midpoint, cold |-> w.cold,
              hot_bytes |-> w.hot_bytes]
  BY DEF lru_demote, lru_node_size
<1>p. Prev(q, q.midpoint) = IF i = 1 THEN lru_head ELSE q.order[i - 1]
  BY DEF Prev
<1> HIDE DEF w, n, i
<1>m. q.midpoint \in Chunk
  BY <1>i, <1>n
<1>d. \A j, k \in 1 .. n : j # k => q.order[j] # q.order[k]
  BY <1>q DEF GoodQueue, NoDuplicates
<1>c. \A j \in 1 .. n : q.order[j] \in q.cold <=> j > i
  <2>1. q.midpoint # lru_head
    BY <1>m, ChunkAssumption
  <2>2. PICK k \in 1 .. n : /\ q.midpoint = q.order[k]
                            /\ \A j \in 1 .. n : q.order[j] \in q.cold <=> j > k
    BY <2>1, <1>q DEF GoodQueue, SplitAtMidpoint
  <2>3. k = i
    BY <2>2, <1>i, <1>d
  <2> QED
    BY <2>2, <2>3
<1>1. w \in QueueType
  <2>1. w.midpoint \in Chunk \cup {lru_head}
    BY <1>w, <1>p, <1>n, <1>i, SMT
  <2>2. w.hot_bytes \in Int
    BY <1>q, <1>w, <1>m, ChunkAssumption
  <2>3. w.cold \subseteq Chunk
    BY <1>q, <1>w, <1>m
  <2> QED
    BY <1>w, <1>q, <2>1, <2>2, <2>3 DEF QueueType
<1>2. NoDuplicates(w)
  BY <1>w DEF GoodQueue, NoDuplicates
<1>3. Resident(w) = Resident(q)
  BY <1>w DEF Resident
<1>4. SplitAtMidpoint(w)
  <2>1. \A j \in 1 .. n : w.order[j] \in w.cold <=> j > i - 1
    BY <1>c, <1>d, <1>w, <1>i, <1>n, SMT
  <2>2. DOMAIN w.order = 1 .. n
    BY <1>w, <1>q
  <2>3. CASE i = 1
    <3>1. w.midpoint = lru_head /\ \A j \in 1 .. n : w.order[j] \in w.cold
      BY <2>1, <2>3, <1>w, <1>p, <1>n, SMT
    <3> QED
      BY <3>1, <2>2 DEF SplitAtMidpoint
  <2>4. CASE i # 1
    <3>1. i - 1 \in 1 .. n /\ w.midpoint = w.order[i - 1]
      BY <2>4, <1>w, <1>p, <1>i, <1>n, SMT
    <3> QED
      BY <3>1, <2>1, <2>2 DEF SplitAtMidpoint
  <2> QED
    BY <2>3, <2>4
<1> QED
  BY <1>1, <1>2, <1>3, <1>4, <1>w DEF GoodQueue, w

-----------------------------------------------------------------------------
(* Geometry.                                                               *)

(* The chunks of a page belong to one region, and a page that is not       *)
(* shared is its owner's alone.                                            *)
LEMMA PageGeometry ==
    ASSUME NEW p \in Page
    PROVE  /\ Contributors[p] \subseteq Chunk /\ IsFiniteSet(Contributors[p])
           /\ Owner(p) \in Contributors[p]
           /\ RegionOfPage(p) \in Region
           /\ \A c \in Contributors[p] : RegionOf[c] = RegionOfPage(p)
           /\ p \notin SharedPage => Contributors[p] = {Owner(p)}
           /\ \A c : p \in exclusive_pages(c) <=> p \notin SharedPage /\ Owner(p) = c
<1>1. /\ Contributors[p] \subseteq Chunk /\ IsFiniteSet(Contributors[p])
      /\ Contributors[p] # {}
      /\ \A c, d \in Contributors[p] : RegionOf[c] = RegionOf[d]
  BY PageAssumption
<1>2. Owner(p) \in Contributors[p]
  BY <1>1 DEF Owner
<1>3. RegionOfPage(p) \in Region
  BY <1>1, <1>2, ChunkAssumption DEF RegionOfPage
<1>4. \A c \in Contributors[p] : RegionOf[c] = RegionOfPage(p)
  BY <1>1, <1>2 DEF RegionOfPage
<1>5. p \notin SharedPage => Contributors[p] = {Owner(p)}
  BY <1>2 DEF SharedPage
<1>6. ASSUME NEW c
      PROVE  p \in exclusive_pages(c) <=> p \notin SharedPage /\ Owner(p) = c
  BY <1>2, <1>5 DEF exclusive_pages, SharedPage
<1> QED
  BY <1>1, <1>2, <1>3, <1>4, <1>5, <1>6

-----------------------------------------------------------------------------
(* The inductive invariant.  Its parts hold each other up: the queue's     *)
(* order and midpoint decide page_readable(), which has to agree with the  *)
(* memory before and after each loop; that agreement needs the hidden      *)
(* pages to keep their bytes and the staging counts to be exact; and both  *)
(* loops stop in time only because the most recent chunk has bytes on the  *)
(* page being served.                                                      *)

IInv ==
    /\ TypeOK
    /\ QueueHoldsInitialized
    /\ HotPrefix
    /\ ShadowMatchesVM
    /\ PageComplete
    /\ StagingExact
    /\ MruIsServed
    /\ RegionsTakenApartLast

\* The queue of a state that satisfies the invariant.
LEMMA InvQueue ==
    ASSUME IInv
    PROVE  GoodQueue(queue) /\ Resident(queue) = initialized
  BY DEF IInv, TypeOK, QueueHoldsInitialized, HotPrefix, GoodQueue

(* The pool fc_pool_create() returns, with no region and an empty queue,   *)
(* satisfies the invariant.                                                *)
LEMMA InitInv == Init => IInv
<1> SUFFICES ASSUME Init PROVE IInv
  OBVIOUS
<1> USE DEF Init
<1>1. TypeOK
  BY DEF TypeOK, QueueType
<1>2. QueueHoldsInitialized
  BY DEF QueueHoldsInitialized, Resident, ToSet, NoDuplicates
<1>3. HotPrefix
  BY DEF HotPrefix, SplitAtMidpoint
<1>4. ShadowMatchesVM
  BY DEF ShadowMatchesVM, Settled
<1>5. PageComplete
  BY DEF PageComplete
<1>6. StagingExact
  <2>1. ASSUME NEW p \in SharedPage
        PROVE  /\ p \in mapped <=> Contributors[p] \subseteq chunk_staged
               /\ staging[p] = Contributors[p] \cap chunk_staged
               /\ staged[p] = Cardinality(staging[p])
    <3>1. p \in Page /\ Contributors[p] # {}
      BY PageAssumption DEF SharedPage
    <3> QED
      BY <3>1, FS_EmptySet
  <2> QED
    BY <2>1 DEF StagingExact
<1>7. MruIsServed
  BY DEF MruIsServed
<1>8. RegionsTakenApartLast
  BY DEF RegionsTakenApartLast
<1> QED
  BY <1>1, <1>2, <1>3, <1>4, <1>5, <1>6, <1>7, <1>8 DEF IInv

(* fc_region_create() preserves the invariant: the new region's pages are  *)
(* unreadable and none of its chunks is staged or resident.                *)
LEMMA CreateInv ==
    ASSUME IInv, NEW r \in Region, fc_region_create(r)
    PROVE  IInv'
<1> USE DEF fc_region_create, cache, shares, memory, job
<1>1. TypeOK'
  BY DEF IInv, TypeOK
<1>2. QueueHoldsInitialized'
  BY DEF IInv, QueueHoldsInitialized, Resident, NoDuplicates
<1>3. HotPrefix'
  BY DEF IInv, HotPrefix, SplitAtMidpoint
<1>4. ShadowMatchesVM'
  <2> SUFFICES ASSUME NEW p \in Page
               PROVE  /\ Settled(RegionOfPage(p))' => (p \in readable <=> page_readable(p))
                      /\ p \in readable => RegionOfPage(p) \in live \cup dying
    BY DEF ShadowMatchesVM, page_readable
  <2>1. p \in readable => RegionOfPage(p) \in live \cup dying
    BY DEF IInv, ShadowMatchesVM
  <2>2. CASE RegionOfPage(p) = r
    <3>1. p \notin mapped
      BY <2>1, <2>2 DEF IInv, RegionsTakenApartLast
    <3>2. p \notin SharedPage => Owner(p) \notin initialized
      BY <2>2, PageGeometry DEF IInv, QueueHoldsInitialized
    <3> QED
      BY <2>1, <2>2, <3>1, <3>2 DEF page_readable
  <2>3. CASE RegionOfPage(p) # r
    BY <2>1, <2>3 DEF IInv, ShadowMatchesVM, Settled
  <2> QED
    BY <2>2, <2>3
<1>5. PageComplete'
  BY DEF IInv, PageComplete
<1>6. StagingExact'
  BY DEF IInv, StagingExact
<1>7. MruIsServed'
  BY DEF IInv, MruIsServed
<1>8. RegionsTakenApartLast'
  BY DEF IInv, RegionsTakenApartLast
<1> QED
  BY <1>1, <1>2, <1>3, <1>4, <1>5, <1>6, <1>7, <1>8 DEF IInv

(* Taking the lock to destroy a region preserves the invariant.            *)
LEMMA DestroyInv ==
    ASSUME IInv, NEW r \in Region, fc_region_destroy(r)
    PROVE  IInv'
<1> USE DEF fc_region_destroy, cache, shares, memory, lifetime
<1>1. TypeOK'
  BY DEF IInv, TypeOK
<1>2. QueueHoldsInitialized'
  BY DEF IInv, QueueHoldsInitialized, Resident, NoDuplicates
<1>3. HotPrefix'
  BY DEF IInv, HotPrefix, SplitAtMidpoint
<1>4. ShadowMatchesVM'
  <2>1. dead_region = None
    BY DEF IInv, TypeOK
  <2>2. ASSUME NEW p \in Page, Settled(RegionOfPage(p))' PROVE Settled(RegionOfPage(p))
    BY <2>1, <2>2, PageGeometry, PageAssumption DEF Settled
  <2> QED
    BY <2>2 DEF IInv, ShadowMatchesVM, page_readable
<1>5. PageComplete'
  BY DEF IInv, PageComplete
<1>6. StagingExact'
  BY DEF IInv, StagingExact
<1>7. MruIsServed'
  BY DEF IInv, MruIsServed
<1>8. RegionsTakenApartLast'
  BY DEF IInv, RegionsTakenApartLast
<1> QED
  BY <1>1, <1>2, <1>3, <1>4, <1>5, <1>6, <1>7, <1>8 DEF IInv

(* Taking a fault preserves the invariant: the page it starts on is one    *)
(* page_readable() calls unreadable.                                       *)
LEMMA FaultInv ==
    ASSUME IInv, NEW p \in Page, Fault(p)
    PROVE  IInv'
<1> USE DEF Fault, cache, shares, memory, lifetime, Ours
<1>1. TypeOK'
  BY DEF IInv, TypeOK
<1>2. QueueHoldsInitialized'
  BY DEF IInv, QueueHoldsInitialized, Resident, NoDuplicates
<1>3. HotPrefix'
  BY DEF IInv, HotPrefix, SplitAtMidpoint
<1>4. ShadowMatchesVM'
  BY DEF IInv, ShadowMatchesVM, page_readable, Settled
<1>5. PageComplete'
  BY DEF IInv, PageComplete
<1>6. StagingExact'
  BY DEF IInv, StagingExact
<1>7. MruIsServed'
  <2>1. ASSUME p \in SharedPage PROVE Missing(p) # {}
    <3>1. ~(Contributors[p] \subseteq chunk_staged)
      BY <2>1 DEF page_readable, IInv, StagingExact
    <3>2. \A c \in Contributors[p] : c \in initialized => c \in chunk_staged
      BY <2>1 DEF IInv, StagingExact, SharedPagesOf
    <3> QED
      BY <3>1, <3>2 DEF Missing
  <2> QED
    BY <2>1 DEF MruIsServed, Missing, page_readable
<1>8. RegionsTakenApartLast'
  BY DEF IInv, RegionsTakenApartLast
<1> QED
  BY <1>1, <1>2, <1>3, <1>4, <1>5, <1>6, <1>7, <1>8 DEF IInv

(* Leaving the eviction loop preserves the invariant.                      *)
LEMMA EvictDoneInv ==
    ASSUME IInv, EvictDone
    PROVE  IInv'
<1> USE DEF EvictDone, cache, shares, memory, lifetime
<1>1. TypeOK'
  BY DEF IInv, TypeOK
<1>2. QueueHoldsInitialized'
  BY DEF IInv, QueueHoldsInitialized, Resident, NoDuplicates
<1>3. HotPrefix'
  BY DEF IInv, HotPrefix, SplitAtMidpoint
<1>4. ShadowMatchesVM'
  BY DEF IInv, ShadowMatchesVM, page_readable, Settled
<1>5. PageComplete'
  BY DEF IInv, PageComplete
<1>6. StagingExact'
  BY DEF IInv, StagingExact
<1>7. MruIsServed'
  BY DEF IInv, MruIsServed
<1>8. RegionsTakenApartLast'
  BY DEF IInv, RegionsTakenApartLast
<1> QED
  BY <1>1, <1>2, <1>3, <1>4, <1>5, <1>6, <1>7, <1>8 DEF IInv

(* Releasing the lock after a resolution preserves the invariant.          *)
LEMMA ReturnInv ==
    ASSUME IInv, Return
    PROVE  IInv'
<1> USE DEF Return, cache, shares, memory, lifetime
<1>1. TypeOK'
  BY DEF IInv, TypeOK
<1>2. QueueHoldsInitialized'
  BY DEF IInv, QueueHoldsInitialized, Resident, NoDuplicates
<1>3. HotPrefix'
  BY DEF IInv, HotPrefix, SplitAtMidpoint
<1>4. ShadowMatchesVM'
  BY DEF IInv, ShadowMatchesVM, page_readable, Settled
<1>5. PageComplete'
  BY DEF IInv, PageComplete
<1>6. StagingExact'
  BY DEF IInv, StagingExact
<1>7. MruIsServed'
  BY DEF IInv, MruIsServed
<1>8. RegionsTakenApartLast'
  BY DEF IInv, RegionsTakenApartLast
<1> QED
  BY <1>1, <1>2, <1>3, <1>4, <1>5, <1>6, <1>7, <1>8 DEF IInv

(* Taking a region out of the list preserves the invariant, because none   *)
(* of its chunks is in the queue any more.                                 *)
LEMMA ListRemoveInv ==
    ASSUME IInv, region_list_remove
    PROVE  IInv'
<1> USE DEF region_list_remove, cache, shares, memory
<1>0. dead_region \in live
  BY DEF IInv, RegionsTakenApartLast
<1>1. TypeOK'
  BY <1>0 DEF IInv, TypeOK
<1>2. QueueHoldsInitialized'
  <2>1. ASSUME NEW c \in initialized PROVE RegionOf[c] \in live'
    <3>1. c \in Chunk /\ c \in Resident(queue) /\ RegionOf[c] \in live
      BY DEF IInv, TypeOK, QueueHoldsInitialized
    <3> QED
      BY <3>1 DEF ChunksOf
  <2> QED
    BY <2>1 DEF IInv, QueueHoldsInitialized, Resident, NoDuplicates
<1>3. HotPrefix'
  BY DEF IInv, HotPrefix, SplitAtMidpoint
<1>4. ShadowMatchesVM'
  <2>1. ASSUME NEW p \in Page, Settled(RegionOfPage(p))' PROVE Settled(RegionOfPage(p))
    BY <2>1 DEF Settled
  <2>2. live' \cup dying' = live \cup dying
    BY <1>0
  <2> QED
    BY <2>1, <2>2 DEF IInv, ShadowMatchesVM, page_readable
<1>5. PageComplete'
  BY DEF IInv, PageComplete
<1>6. StagingExact'
  BY DEF IInv, StagingExact
<1>7. MruIsServed'
  BY DEF IInv, MruIsServed
<1>8. RegionsTakenApartLast'
  BY <1>0 DEF IInv, RegionsTakenApartLast
<1> QED
  BY <1>1, <1>2, <1>3, <1>4, <1>5, <1>6, <1>7, <1>8 DEF IInv

(* lru_forget_chunk() preserves the invariant: the node leaves a well-     *)
(* formed queue, and the pages it leaves readable belong to the region     *)
(* being destroyed.                                                        *)
LEMMA ForgetInv ==
    ASSUME IInv, lru_forget_chunk
    PROVE  IInv'
<1> USE DEF shares, memory, lifetime, job
<1>0. PICK c \in Resident(queue) \cap ChunksOf(dead_region) :
         /\ queue' = lru_unlink(queue, c)
         /\ initialized' = initialized \ {c}
         /\ resident_bytes' = resident_bytes - Size[c]
  BY DEF lru_forget_chunk, lru_node_size
<1>a. /\ pc = "forget"
      /\ UNCHANGED <<chunk_staged, staged, staging, mapped, readable, content,
                     live, dying, pc, fault_page, dead_region>>
  BY DEF lru_forget_chunk, lru_node_size
<1>b. c \in Chunk /\ RegionOf[c] = dead_region
  BY DEF ChunksOf
<1>c. GoodQueue(queue') /\ Resident(queue') = initialized' /\ queue'.cold = queue.cold
  BY <1>0, <1>b, InvQueue, UnlinkProperties
<1>d. queue' \in QueueType /\ QueueHoldsInitialized' /\ HotPrefix'
  <2>1. \A d \in initialized' : RegionOf[d] \in live'
    BY <1>0, <1>a DEF IInv, QueueHoldsInitialized
  <2> QED
    BY <2>1, <1>c DEF QueueHoldsInitialized, HotPrefix, GoodQueue, Resident,
                      NoDuplicates, SplitAtMidpoint
<1>1. TypeOK'
  <2>1. resident_bytes' \in Int
    BY <1>0, <1>b, ChunkAssumption DEF IInv, TypeOK
  <2> QED
    BY <2>1, <1>0, <1>a, <1>d DEF IInv, TypeOK
<1>4. ShadowMatchesVM'
  <2> SUFFICES ASSUME NEW p \in Page
               PROVE  /\ Settled(RegionOfPage(p)) => (p \in readable <=> page_readable(p)')
                      /\ p \in readable => RegionOfPage(p) \in live \cup dying
    BY <1>a DEF ShadowMatchesVM, Settled
  <2>1. Settled(RegionOfPage(p)) => Owner(p) # c
    BY <1>b, PageGeometry DEF Settled
  <2>2. Settled(RegionOfPage(p)) => (page_readable(p)' <=> page_readable(p))
    BY <2>1, <1>0, <1>a, <1>c DEF page_readable
  <2> QED
    BY <2>2 DEF IInv, ShadowMatchesVM
<1>5. PageComplete'
  BY <1>0, <1>a DEF IInv, PageComplete
<1>6. StagingExact'
  BY <1>0, <1>a DEF IInv, StagingExact
<1>7. MruIsServed'
  BY <1>a DEF MruIsServed
<1>8. RegionsTakenApartLast'
  BY <1>a DEF IInv, RegionsTakenApartLast
<1> QED
  BY <1>1, <1>d, <1>4, <1>5, <1>6, <1>7, <1>8 DEF IInv

(* region_free() preserves the invariant: what it clears belongs to a      *)
(* region that is out of the list.                                         *)
LEMMA FreeInv ==
    ASSUME IInv, NEW r \in Region, region_free(r)
    PROVE  IInv'
<1> USE DEF job
<1>a. /\ r \in dying /\ r \notin live
      /\ UNCHANGED <<live, initialized, resident_bytes, pc, fault_page, dead_region>>
      /\ dying' = dying \ {r}
  BY DEF region_free, IInv, RegionsTakenApartLast
<1>b. /\ readable' = readable \ PagesOfRegion(r)
      /\ mapped' = mapped \ PagesOfRegion(r)
      /\ chunk_staged' = chunk_staged \ ChunksOf(r)
      /\ queue' = [queue EXCEPT !.cold = @ \ ChunksOf(r)]
  BY DEF region_free
<1>c. ASSUME NEW p \in Page
      PROVE  /\ content'[p] = IF RegionOfPage(p) = r THEN {} ELSE content[p]
             /\ staged'[p] = IF RegionOfPage(p) = r THEN 0 ELSE staged[p]
             /\ staging'[p] = IF RegionOfPage(p) = r THEN {} ELSE staging[p]
             /\ p \in PagesOfRegion(r) <=> RegionOfPage(p) = r
  BY DEF region_free, PagesOfRegion
<1>d. ASSUME NEW p \in Page, NEW c \in Contributors[p]
      PROVE  c \in ChunksOf(r) <=> RegionOfPage(p) = r
  BY PageGeometry DEF ChunksOf
<1>q. /\ queue'.order = queue.order /\ queue'.midpoint = queue.midpoint
      /\ queue'.cold = queue.cold \ ChunksOf(r)
      /\ queue' \in QueueType
  <2>1. queue \in QueueType
    BY DEF IInv, TypeOK
  <2> QED
    BY <2>1, <1>b DEF QueueType
<1>e. \A i \in DOMAIN queue.order : queue.order[i] \notin ChunksOf(r)
  <2> TAKE i \in DOMAIN queue.order
  <2>1. queue.order[i] \in initialized
    BY InvQueue DEF Resident, ToSet
  <2> QED
    BY <2>1, <1>a DEF IInv, QueueHoldsInitialized, ChunksOf
<1>1. TypeOK'
  <2>1. /\ content' \in [Page -> SUBSET Chunk]
        /\ staging' \in [Page -> SUBSET Chunk]
        /\ staged' \in [Page -> Nat]
    BY DEF region_free, IInv, TypeOK
  <2> QED
    BY <2>1, <1>a, <1>b, <1>q DEF IInv, TypeOK
<1>2. QueueHoldsInitialized'
  BY <1>a, <1>q DEF IInv, QueueHoldsInitialized, Resident, NoDuplicates
<1>3. HotPrefix'
  BY <1>q, <1>e DEF IInv, HotPrefix, SplitAtMidpoint
<1>f. ASSUME NEW p \in Page, RegionOfPage(p) # r
      PROVE  /\ page_readable(p)' <=> page_readable(p)
             /\ p \in readable' <=> p \in readable
             /\ content'[p] = content[p]
             /\ p \in mapped' <=> p \in mapped
             /\ Contributors[p] \cap chunk_staged' = Contributors[p] \cap chunk_staged
             /\ staged'[p] = staged[p]
             /\ staging'[p] = staging[p]
  <2>1. p \in mapped' <=> p \in mapped
    BY <1>b, <1>c, <1>f
  <2>2. p \in readable' <=> p \in readable
    BY <1>b, <1>c, <1>f
  <2>3. Contributors[p] \cap chunk_staged' = Contributors[p] \cap chunk_staged
    BY <1>b, <1>d, <1>f
  <2>4. Owner(p) \notin ChunksOf(r)
    BY <1>d, <1>f, PageGeometry
  <2>5. page_readable(p)' <=> page_readable(p)
    BY <2>1, <2>4, <1>a, <1>q DEF page_readable
  <2> QED
    BY <2>1, <2>2, <2>3, <2>5, <1>c, <1>f
<1>4. ShadowMatchesVM'
  <2> SUFFICES ASSUME NEW p \in Page
               PROVE  /\ Settled(RegionOfPage(p)) => (p \in readable' <=> page_readable(p)')
                      /\ p \in readable' => RegionOfPage(p) \in live \cup dying'
    BY <1>a DEF ShadowMatchesVM, Settled
  <2>1. CASE RegionOfPage(p) = r
    BY <2>1, <1>a, <1>b, <1>c DEF Settled
  <2>2. CASE RegionOfPage(p) # r
    BY <2>2, <1>a, <1>f DEF IInv, ShadowMatchesVM
  <2> QED
    BY <2>1, <2>2
<1>5. PageComplete'
  <2>1. ASSUME NEW p \in Page,
               p \in readable' \/ (p \notin SharedPage /\ Owner(p) \in initialized)
        PROVE  content'[p] = Contributors[p]
    <3>1. RegionOfPage(p) # r
      BY <2>1, <1>a, <1>b, <1>c DEF RegionOfPage, IInv, QueueHoldsInitialized
    <3>2. content'[p] = content[p] /\ (p \in readable' <=> p \in readable)
      BY <3>1, <1>f
    <3> QED
      BY <2>1, <3>2 DEF IInv, PageComplete
  <2> QED
    BY <2>1, <1>a DEF PageComplete
<1>6. StagingExact'
  <2>1. ASSUME NEW p \in SharedPage
        PROVE  /\ p \in mapped' <=> Contributors[p] \subseteq chunk_staged'
               /\ p \notin mapped' =>
                    /\ staging'[p] = Contributors[p] \cap chunk_staged'
                    /\ staged'[p] = Cardinality(staging'[p])
    <3>1. p \in Page /\ Contributors[p] # {}
      BY PageAssumption DEF SharedPage
    <3>2. CASE RegionOfPage(p) = r
      <4>1. p \notin mapped' /\ staging'[p] = {} /\ staged'[p] = 0
        BY <3>1, <3>2, <1>b, <1>c
      <4>2. Contributors[p] \cap chunk_staged' = {}
        BY <3>1, <3>2, <1>b, <1>d
      <4> QED
        BY <3>1, <4>1, <4>2, FS_EmptySet
    <3>3. CASE RegionOfPage(p) # r
      <4>1. /\ p \in mapped' <=> p \in mapped
            /\ Contributors[p] \cap chunk_staged' = Contributors[p] \cap chunk_staged
            /\ staged'[p] = staged[p]
            /\ staging'[p] = staging[p]
        BY <3>1, <3>3, <1>f
      <4>2. Contributors[p] \subseteq chunk_staged' <=> Contributors[p] \subseteq chunk_staged
        BY <4>1
      <4> QED
        BY <4>1, <4>2 DEF IInv, StagingExact
    <3> QED
      BY <3>2, <3>3
  <2>2. ASSUME NEW c \in initialized, SharedPagesOf(c) # {} PROVE c \in chunk_staged'
    <3>1. c \in chunk_staged /\ c \notin ChunksOf(r)
      BY <2>2, <1>a DEF IInv, StagingExact, QueueHoldsInitialized, ChunksOf
    <3> QED
      BY <3>1, <1>b
  <2> QED
    BY <2>1, <2>2, <1>a DEF StagingExact
<1>7. MruIsServed'
  <2>1. ASSUME pc \in {"resolve", "evict", "rebalance"}
        PROVE  fault_page \in Page /\ RegionOfPage(fault_page) # r
    BY <2>1, <1>a DEF IInv, RegionsTakenApartLast, TypeOK
  <2>2. ASSUME pc = "resolve"
        PROVE  IF fault_page \in SharedPage THEN Missing(fault_page) # {}
               ELSE ~page_readable(fault_page)'
    <3>1. fault_page' = fault_page
      BY <1>a
    <3>2. page_readable(fault_page)' <=> page_readable(fault_page)
      BY <2>1, <2>2, <3>1, <1>f
    <3> QED
      BY <2>2, <3>2 DEF IInv, MruIsServed
  <2>3. ASSUME pc \in {"evict", "rebalance"}
        PROVE  /\ fault_page \in readable'
               /\ queue'.order # << >>
               /\ queue'.order[1] \in Contributors[fault_page]
               /\ queue'.order[1] \notin queue'.cold
    BY <2>1, <2>3, <1>f, <1>q DEF IInv, MruIsServed
  <2> QED
    BY <2>2, <2>3, <1>a DEF MruIsServed, Missing, page_readable
<1>8. RegionsTakenApartLast'
  <2>1. \A c \in chunk_staged' : RegionOf[c] \in live' \cup dying'
    BY <1>a, <1>b DEF IInv, RegionsTakenApartLast, TypeOK, ChunksOf
  <2> QED
    BY <2>1, <1>a, <1>b DEF IInv, RegionsTakenApartLast
<1> QED
  BY <1>1, <1>2, <1>3, <1>4, <1>5, <1>6, <1>7, <1>8 DEF IInv

(* lru_evict_chunk() preserves the invariant: the victim has no bytes on   *)
(* the page being resolved, and only its own pages go.                     *)
LEMMA EvictInv ==
    ASSUME IInv, lru_evict_chunk
    PROVE  IInv'
<1> USE DEF shares, lifetime, job
<1> DEFINE v == Last(queue.order)
<1>0. /\ pc = "evict"
      /\ queue.order # << >> /\ v \notin Contributors[fault_page]
      /\ queue' = lru_unlink(queue, v)
      /\ initialized' = initialized \ {v}
      /\ resident_bytes' = resident_bytes - Size[v]
      /\ readable' = readable \ exclusive_pages(v)
      /\ content' = [p \in Page |-> IF p \in exclusive_pages(v) THEN {} ELSE content[p]]
      /\ UNCHANGED <<chunk_staged, staged, staging, mapped, live, dying, pc,
                     fault_page, dead_region>>
  BY DEF lru_evict_chunk, CanEvict, Victim, lru_node_size
<1>b. v \in Resident(queue) /\ v \in Chunk
  <2>1. queue.order \in Seq(Chunk)
    BY DEF IInv, TypeOK, QueueType
  <2>2. Len(queue.order) \in 1 .. Len(queue.order) /\ v = queue.order[Len(queue.order)]
    BY <2>1, <1>0, SMT DEF Last
  <2> QED
    BY <2>1, <2>2 DEF Resident, ToSet
<1> HIDE DEF v
<1>m. /\ fault_page \in Page
      /\ fault_page \in readable
      /\ queue.order[1] \in Contributors[fault_page]
      /\ queue.order[1] \notin queue.cold
      /\ RegionOfPage(fault_page) \in live
  BY <1>0 DEF IInv, MruIsServed, TypeOK, RegionsTakenApartLast
<1>c. /\ GoodQueue(queue') /\ Resident(queue') = initialized' /\ queue'.cold = queue.cold
      /\ queue'.order # << >> /\ queue'.order[1] = queue.order[1]
  BY <1>0, <1>b, <1>m, InvQueue, UnlinkProperties
<1>d. queue' \in QueueType /\ QueueHoldsInitialized' /\ HotPrefix'
  <2>1. \A d \in initialized' : RegionOf[d] \in live'
    BY <1>0 DEF IInv, QueueHoldsInitialized
  <2> QED
    BY <2>1, <1>c DEF QueueHoldsInitialized, HotPrefix, GoodQueue, Resident,
                      NoDuplicates, SplitAtMidpoint
<1>1. TypeOK'
  <2>1. resident_bytes' \in Int
    BY <1>0, <1>b, ChunkAssumption DEF IInv, TypeOK
  <2>2. content' \in [Page -> SUBSET Chunk]
    BY <1>0 DEF IInv, TypeOK
  <2> QED
    BY <2>1, <2>2, <1>0, <1>d DEF IInv, TypeOK
<1>e. ASSUME NEW p \in Page
      PROVE  p \in exclusive_pages(v) <=> p \notin SharedPage /\ Owner(p) = v
  BY PageGeometry
<1>4. ShadowMatchesVM'
  <2> SUFFICES ASSUME NEW p \in Page
               PROVE  /\ Settled(RegionOfPage(p)) => (p \in readable' <=> page_readable(p)')
                      /\ p \in readable' => RegionOfPage(p) \in live \cup dying
    BY <1>0 DEF ShadowMatchesVM, Settled
  <2>1. CASE p \in exclusive_pages(v)
    BY <2>1, <1>0, <1>e DEF page_readable
  <2>2. CASE p \notin exclusive_pages(v)
    <3>1. page_readable(p)' <=> page_readable(p)
      BY <2>2, <1>0, <1>c, <1>e DEF page_readable
    <3> QED
      BY <3>1, <2>2, <1>0 DEF IInv, ShadowMatchesVM
  <2> QED
    BY <2>1, <2>2
<1>5. PageComplete'
  <2>1. ASSUME NEW p \in Page,
               p \in readable' \/ (p \notin SharedPage /\ Owner(p) \in initialized')
        PROVE  content'[p] = Contributors[p]
    <3>1. p \notin exclusive_pages(v)
      BY <2>1, <1>0, <1>e
    <3>2. content'[p] = content[p]
      BY <3>1, <1>0
    <3> QED
      BY <2>1, <3>2, <1>0 DEF IInv, PageComplete
  <2> QED
    BY <2>1 DEF PageComplete
<1>6. StagingExact'
  BY <1>0 DEF IInv, StagingExact
<1>7. MruIsServed'
  <2>1. fault_page \in readable'
    BY <1>0, <1>m, <1>e, PageGeometry
  <2> QED
    BY <2>1, <1>0, <1>m, <1>c DEF MruIsServed
<1>8. RegionsTakenApartLast'
  <2>1. mapped \cap exclusive_pages(v) = {}
    BY <1>e DEF IInv, RegionsTakenApartLast, TypeOK
  <2> QED
    BY <2>1, <1>0 DEF IInv, RegionsTakenApartLast
<1> QED
  BY <1>1, <1>d, <1>4, <1>5, <1>6, <1>7, <1>8 DEF IInv

(* A pool that still has to demote has a midpoint in the queue, and it is  *)
(* not the chunk just served.                                              *)
LEMMA MidpointBehindMru ==
    ASSUME IInv, pc = "rebalance", CanDemote
    PROVE  /\ queue.midpoint \in Resident(queue) \cap Chunk
           /\ queue.midpoint # queue.order[1]
           /\ queue.midpoint \notin queue.cold
<1>1. /\ queue.order \in Seq(Chunk) /\ DOMAIN queue.order = 1 .. Len(queue.order)
      /\ queue.order # << >> /\ queue.order[1] \notin queue.cold
      /\ queue.midpoint # queue.order[1]
  BY DEF IInv, TypeOK, QueueType, MruIsServed, CanDemote, Mru
<1>2. 1 \in DOMAIN queue.order
  BY <1>1, SMT
<1>3. PICK k \in DOMAIN queue.order :
         /\ queue.midpoint = queue.order[k]
         /\ \A i \in DOMAIN queue.order : queue.order[i] \in queue.cold <=> i > k
  BY <1>1, <1>2 DEF IInv, HotPrefix, SplitAtMidpoint
<1>4. queue.midpoint \notin queue.cold
  BY <1>1, <1>3, SMT
<1> QED
  BY <1>1, <1>3, <1>4 DEF Resident, ToSet

(* A demotion in lru_rebalance() preserves the invariant: the node demoted *)
(* is not the chunk just served, and its pages keep their bytes.           *)
LEMMA RebalanceInv ==
    ASSUME IInv, lru_rebalance
    PROVE  IInv'
<1> USE DEF shares, lifetime, job
<1> DEFINE m == queue.midpoint
<1>0. /\ pc = "rebalance" /\ CanDemote
      /\ readable' = readable \ exclusive_pages(m)
      /\ queue' = lru_demote(queue)
      /\ UNCHANGED <<initialized, resident_bytes, content, chunk_staged, staged,
                     staging, mapped, live, dying, pc, fault_page, dead_region>>
  BY DEF lru_rebalance, chunk_set_readable
<1>b. /\ m \in Resident(queue) /\ m \in Chunk /\ m # queue.order[1]
      /\ m \notin queue.cold
  BY <1>0, MidpointBehindMru
<1>c. /\ GoodQueue(queue') /\ Resident(queue') = initialized'
      /\ queue'.cold = queue.cold \cup {m} /\ queue'.order = queue.order
  BY <1>0, <1>b, InvQueue, DemoteProperties
<1> HIDE DEF m
<1>m. /\ fault_page \in Page
      /\ fault_page \in readable
      /\ queue.order # << >>
      /\ queue.order[1] \in Contributors[fault_page]
      /\ queue.order[1] \notin queue.cold
  BY <1>0 DEF IInv, MruIsServed, TypeOK, RegionsTakenApartLast
<1>d. queue' \in QueueType /\ QueueHoldsInitialized' /\ HotPrefix'
  <2>1. \A d \in initialized' : RegionOf[d] \in live'
    BY <1>0 DEF IInv, QueueHoldsInitialized
  <2> QED
    BY <2>1, <1>c DEF QueueHoldsInitialized, HotPrefix, GoodQueue, Resident,
                      NoDuplicates, SplitAtMidpoint
<1>1. TypeOK'
  BY <1>0, <1>d DEF IInv, TypeOK
<1>e. ASSUME NEW p \in Page
      PROVE  p \in exclusive_pages(m) <=> p \notin SharedPage /\ Owner(p) = m
  BY PageGeometry
<1>4. ShadowMatchesVM'
  <2> SUFFICES ASSUME NEW p \in Page
               PROVE  /\ Settled(RegionOfPage(p)) => (p \in readable' <=> page_readable(p)')
                      /\ p \in readable' => RegionOfPage(p) \in live \cup dying
    BY <1>0 DEF ShadowMatchesVM, Settled
  <2>1. CASE p \in exclusive_pages(m)
    BY <2>1, <1>0, <1>c, <1>e DEF page_readable
  <2>2. CASE p \notin exclusive_pages(m)
    <3>1. page_readable(p)' <=> page_readable(p)
      BY <2>2, <1>0, <1>c, <1>e DEF page_readable
    <3> QED
      BY <3>1, <2>2, <1>0 DEF IInv, ShadowMatchesVM
  <2> QED
    BY <2>1, <2>2
<1>5. PageComplete'
  BY <1>0 DEF IInv, PageComplete
<1>6. StagingExact'
  BY <1>0 DEF IInv, StagingExact
<1>7. MruIsServed'
  <2>1. fault_page \notin exclusive_pages(m)
    <3> SUFFICES ASSUME fault_page \in exclusive_pages(m) PROVE FALSE
      OBVIOUS
    <3>1. Contributors[fault_page] = {m}
      BY DEF exclusive_pages
    <3> QED
      BY <3>1, <1>m, <1>b
  <2> QED
    BY <2>1, <1>0, <1>m, <1>b, <1>c DEF MruIsServed
<1>8. RegionsTakenApartLast'
  <2>1. mapped \cap exclusive_pages(m) = {}
    BY <1>e DEF IInv, RegionsTakenApartLast, TypeOK
  <2> QED
    BY <2>1, <1>0 DEF IInv, RegionsTakenApartLast
<1> QED
  BY <1>1, <1>d, <1>4, <1>5, <1>6, <1>7, <1>8 DEF IInv

(* lru_promote() preserves the invariant: the owner's pages become         *)
(* readable with the bytes they were filled with.                          *)
LEMMA PromoteInv ==
    ASSUME IInv, lru_promote
    PROVE  IInv'
<1> USE DEF shares, lifetime
<1> DEFINE c == Owner(fault_page)
           u == lru_unlink(queue, c)
<1>0. /\ pc = "resolve" /\ pc' = "evict"
      /\ fault_page \notin SharedPage /\ Missing(fault_page) = {}
      /\ readable' = readable \cup exclusive_pages(c)
      /\ queue' = lru_insert_mru(u, c)
      /\ UNCHANGED <<fault_page, dead_region, initialized, resident_bytes, content,
                     chunk_staged, staged, staging, mapped, live, dying>>
  BY DEF lru_promote, chunk_set_readable
<1>a. fault_page \in Page /\ RegionOfPage(fault_page) \in live /\ dead_region = None
  BY <1>0 DEF IInv, TypeOK, RegionsTakenApartLast
<1>b. c \in Chunk /\ c \in initialized /\ c \in Resident(queue) /\ c \in Contributors[fault_page]
  BY <1>0, <1>a, PageGeometry, InvQueue DEF Missing
<1>c. /\ GoodQueue(queue') /\ Resident(queue') = initialized'
      /\ queue'.cold = queue.cold \ {c}
      /\ queue'.order # << >> /\ queue'.order[1] = c
  <2>1. GoodQueue(u) /\ Resident(u) = initialized \ {c} /\ u.cold = queue.cold
    BY <1>b, InvQueue, UnlinkProperties
  <2> HIDE DEF u, c
  <2>2. c \notin Resident(u)
    BY <2>1
  <2> DEFINE w == lru_insert_mru(u, c)
  <2>3. /\ GoodQueue(w) /\ Resident(w) = Resident(u) \cup {c} /\ w.cold = u.cold \ {c}
        /\ w.order # << >> /\ w.order[1] = c
    BY <1>b, <2>1, <2>2, InsertProperties
  <2>4. queue' = w
    BY <1>0
  <2> HIDE DEF w
  <2>5. Resident(w) = initialized
    BY <1>b, <2>1, <2>3
  <2> QED
    BY <1>0, <2>1, <2>3, <2>4, <2>5
<1>e. ASSUME NEW p \in Page
      PROVE  /\ p \in exclusive_pages(c) <=> p \notin SharedPage /\ Owner(p) = c
             /\ p \in exclusive_pages(c) => RegionOfPage(p) \in live
  <2>1. p \in exclusive_pages(c) <=> p \notin SharedPage /\ Owner(p) = c
    BY PageGeometry
  <2> QED
    BY <2>1, <1>a DEF RegionOfPage
<1>f. fault_page \in exclusive_pages(c)
  BY <1>0, <1>a, PageGeometry
<1> HIDE DEF c, u
<1>d. queue' \in QueueType /\ QueueHoldsInitialized' /\ HotPrefix'
  <2>1. \A d \in initialized' : RegionOf[d] \in live'
    BY <1>0 DEF IInv, QueueHoldsInitialized
  <2> QED
    BY <2>1, <1>c DEF QueueHoldsInitialized, HotPrefix, GoodQueue, Resident,
                      NoDuplicates, SplitAtMidpoint
<1>1. TypeOK'
  <2>1. readable' \subseteq Page
    BY <1>0 DEF IInv, TypeOK, exclusive_pages
  <2> QED
    BY <2>1, <1>0, <1>d DEF IInv, TypeOK
<1>4. ShadowMatchesVM'
  <2> SUFFICES ASSUME NEW p \in Page
               PROVE  /\ Settled(RegionOfPage(p)) => (p \in readable' <=> page_readable(p)')
                      /\ p \in readable' => RegionOfPage(p) \in live \cup dying
    BY <1>0 DEF ShadowMatchesVM, Settled
  <2>1. CASE p \in exclusive_pages(c)
    BY <2>1, <1>0, <1>b, <1>c, <1>e DEF page_readable
  <2>2. CASE p \notin exclusive_pages(c)
    <3>1. page_readable(p)' <=> page_readable(p)
      BY <2>2, <1>0, <1>c, <1>e DEF page_readable
    <3> QED
      BY <3>1, <2>2, <1>0 DEF IInv, ShadowMatchesVM
  <2> QED
    BY <2>1, <2>2
<1>5. PageComplete'
  <2>1. ASSUME NEW p \in exclusive_pages(c) PROVE content[p] = Contributors[p]
    <3>1. p \in Page
      BY DEF exclusive_pages
    <3>2. p \notin SharedPage /\ Owner(p) \in initialized
      BY <3>1, <1>b, <1>e
    <3> QED
      BY <3>1, <3>2 DEF IInv, PageComplete
  <2> QED
    BY <2>1, <1>0 DEF IInv, PageComplete
<1>6. StagingExact'
  BY <1>0 DEF IInv, StagingExact
<1>7. MruIsServed'
  BY <1>0, <1>b, <1>c, <1>f DEF MruIsServed
<1>8. RegionsTakenApartLast'
  BY <1>0, <1>a DEF IInv, RegionsTakenApartLast
<1> QED
  BY <1>1, <1>d, <1>4, <1>5, <1>6, <1>7, <1>8 DEF IInv

(* Staging is exact: the page a chunk stages into is unpublished, and the  *)
(* counter reaches the number of contributors exactly when all of them     *)
(* have staged.                                                            *)
LEMMA StageStep ==
    ASSUME IInv, NEW c \in Chunk, NEW p \in StagesInto(c)
    PROVE  /\ p \in SharedPage /\ p \in Page /\ c \in Contributors[p]
           /\ c \notin chunk_staged /\ p \notin mapped
           /\ staging[p] \cup {c} = Contributors[p] \cap (chunk_staged \cup {c})
           /\ staged[p] + 1 = Cardinality(staging[p] \cup {c})
           /\ p \in Completes(c) <=> Contributors[p] \subseteq chunk_staged \cup {c}
<1>1. /\ p \in SharedPage /\ p \in Page /\ c \in Contributors[p] /\ c \notin chunk_staged
  BY DEF StagesInto, SharedPagesOf, SharedPage
<1>2. p \notin mapped /\ staging[p] = Contributors[p] \cap chunk_staged
      /\ staged[p] = Cardinality(staging[p])
  BY <1>1 DEF IInv, StagingExact
<1>3. IsFiniteSet(Contributors[p]) /\ IsFiniteSet(staging[p])
  BY <1>1, <1>2, PageGeometry, FS_Subset
<1>4. c \notin staging[p]
  BY <1>1, <1>2
<1>5. staged[p] + 1 = Cardinality(staging[p] \cup {c}) /\ IsFiniteSet(staging[p] \cup {c})
  BY <1>2, <1>3, <1>4, FS_AddElement
<1>6. staging[p] \cup {c} = Contributors[p] \cap (chunk_staged \cup {c})
  BY <1>1, <1>2
<1>7. p \in Completes(c) <=> staged[p] + 1 = Cardinality(Contributors[p])
  BY DEF Completes
<1>8. p \in Completes(c) <=> Contributors[p] \subseteq chunk_staged \cup {c}
  <2>1. ASSUME p \in Completes(c) PROVE Contributors[p] \subseteq chunk_staged \cup {c}
    <3>1. Cardinality(staging[p] \cup {c}) = Cardinality(Contributors[p])
      BY <2>1, <1>5, <1>7
    <3>2. staging[p] \cup {c} \subseteq Contributors[p]
      BY <1>6
    <3>3. staging[p] \cup {c} = Contributors[p]
      BY <3>1, <3>2, <1>3, FS_Subset
    <3> QED
      BY <3>3, <1>6
  <2>2. ASSUME Contributors[p] \subseteq chunk_staged \cup {c} PROVE p \in Completes(c)
    <3>1. staging[p] \cup {c} = Contributors[p]
      BY <2>2, <1>6
    <3> QED
      BY <3>1, <1>5, <1>7
  <2> QED
    BY <2>1, <2>2
<1> QED
  BY <1>1, <1>2, <1>5, <1>6, <1>8

(* fill_chunk_locked() for one missing contributor preserves the           *)
(* invariant, whether the chunk stages for the first time or is refilled.  *)
LEMMA FillInv ==
    ASSUME IInv, Fill
    PROVE  IInv'
<1> USE DEF lifetime
<1>0. PICK c \in Missing(fault_page) :
         /\ fill_chunk_locked(c)
         /\ pc' = IF Missing(fault_page) = {c} THEN "evict" ELSE "resolve"
  BY DEF Fill
<1>a. /\ pc = "resolve" /\ fault_page \in Page /\ RegionOfPage(fault_page) \in live
      /\ dead_region = None
      /\ UNCHANGED <<fault_page, dead_region, live, dying>>
  BY DEF Fill, IInv, TypeOK, RegionsTakenApartLast
<1>b. /\ c \in Chunk /\ c \in Contributors[fault_page] /\ c \notin initialized
      /\ c \notin Resident(queue) /\ RegionOf[c] \in live
  BY <1>a, PageGeometry, InvQueue DEF Missing
<1>c. /\ initialized' = initialized \cup {c}
      /\ queue' = lru_insert_mru(queue, c)
      /\ resident_bytes' = resident_bytes + Size[c]
      /\ mapped' = mapped \cup Completes(c)
      /\ readable' = readable \cup Completes(c) \cup exclusive_pages(c)
      /\ chunk_staged' = IF SharedPagesOf(c) = {} THEN chunk_staged
                         ELSE chunk_staged \cup {c}
  BY <1>0, <1>b DEF fill_chunk_locked, stage_into_shared_page, publish
<1>p. ASSUME NEW p \in Page
      PROVE  /\ content'[p] = IF p \in Completes(c) THEN staging[p] \cup {c}
                              ELSE IF p \in exclusive_pages(c) THEN {c} ELSE content[p]
             /\ staged'[p] = IF p \in StagesInto(c) THEN staged[p] + 1 ELSE staged[p]
             /\ staging'[p] = IF p \in Completes(c) THEN {}
                              ELSE IF p \in StagesInto(c) THEN staging[p] \cup {c}
                              ELSE staging[p]
  BY <1>0 DEF fill_chunk_locked, stage_into_shared_page, publish
<1>q. /\ GoodQueue(queue') /\ Resident(queue') = initialized'
      /\ queue'.cold = queue.cold \ {c}
      /\ queue'.order # << >> /\ queue'.order[1] = c
  BY <1>b, <1>c, InvQueue, InsertProperties
<1>s. ASSUME NEW p \in Completes(c)
      PROVE  /\ p \in StagesInto(c) /\ p \in Page /\ p \in SharedPage
             /\ c \in Contributors[p] /\ staging[p] \cup {c} = Contributors[p]
             /\ RegionOfPage(p) \in live
  <2>1. p \in StagesInto(c)
    BY DEF Completes
  <2>2. p \in Page /\ p \in SharedPage /\ c \in Contributors[p]
    BY <2>1, <1>b, StageStep
  <2>3. staging[p] \cup {c} = Contributors[p]
    <3>1. /\ staging[p] \cup {c} = Contributors[p] \cap (chunk_staged \cup {c})
          /\ Contributors[p] \subseteq chunk_staged \cup {c}
      BY <2>1, <1>b, StageStep
    <3> QED
      BY <3>1
  <2>4. RegionOfPage(p) \in live
    BY <2>2, <1>b, PageGeometry
  <2> QED
    BY <2>1, <2>2, <2>3, <2>4
<1>e. ASSUME NEW p \in Page
      PROVE  /\ p \in exclusive_pages(c) <=> p \notin SharedPage /\ Owner(p) = c
             /\ p \in exclusive_pages(c) =>
                  RegionOfPage(p) \in live /\ Contributors[p] = {c}
  <2>1. p \in exclusive_pages(c) <=> p \notin SharedPage /\ Owner(p) = c
    BY PageGeometry
  <2> QED
    BY <2>1, <1>b DEF RegionOfPage, exclusive_pages
<1>d. queue' \in QueueType /\ QueueHoldsInitialized' /\ HotPrefix'
  <2>1. \A d \in initialized' : RegionOf[d] \in live'
    BY <1>a, <1>b, <1>c DEF IInv, QueueHoldsInitialized
  <2> QED
    BY <2>1, <1>q DEF QueueHoldsInitialized, HotPrefix, GoodQueue, Resident,
                      NoDuplicates, SplitAtMidpoint
<1>1. TypeOK'
  <2>1. resident_bytes' \in Int
    BY <1>b, <1>c, ChunkAssumption DEF IInv, TypeOK
  <2>2. /\ staged' \in [Page -> Nat] /\ staging' \in [Page -> SUBSET Chunk]
        /\ content' \in [Page -> SUBSET Chunk]
    <3>1. /\ staged \in [Page -> Nat] /\ staging \in [Page -> SUBSET Chunk]
          /\ content \in [Page -> SUBSET Chunk]
      BY DEF IInv, TypeOK
    <3>2. staged' \in [Page -> Nat]
      BY <3>1, <1>0 DEF fill_chunk_locked, stage_into_shared_page
    <3>3. staging' \in [Page -> SUBSET Chunk]
      BY <3>1, <1>0, <1>b DEF fill_chunk_locked, stage_into_shared_page
    <3>4. content' \in [Page -> SUBSET Chunk]
      BY <3>1, <1>0, <1>b DEF fill_chunk_locked, publish
    <3> QED
      BY <3>2, <3>3, <3>4
  <2>3. Completes(c) \subseteq Page /\ exclusive_pages(c) \subseteq Page
    BY <1>s DEF exclusive_pages
  <2>4. mapped' \subseteq Page /\ readable' \subseteq Page
    BY <2>3, <1>c DEF IInv, TypeOK
  <2>5. initialized' \subseteq Chunk /\ chunk_staged' \subseteq Chunk
    BY <1>b, <1>c DEF IInv, TypeOK
  <2>6. pc' \in {"evict", "resolve"}
    BY <1>0
  <2> QED
    BY <2>1, <2>2, <2>4, <2>5, <2>6, <1>a, <1>d DEF IInv, TypeOK
<1>4. ShadowMatchesVM'
  <2> SUFFICES ASSUME NEW p \in Page
               PROVE  /\ Settled(RegionOfPage(p)) => (p \in readable' <=> page_readable(p)')
                      /\ p \in readable' => RegionOfPage(p) \in live \cup dying
    BY <1>a DEF ShadowMatchesVM, Settled
  <2>1. CASE p \in Completes(c)
    BY <2>1, <1>c, <1>s DEF page_readable
  <2>2. CASE p \in exclusive_pages(c)
    BY <2>2, <1>c, <1>q, <1>e DEF page_readable
  <2>3. CASE p \notin Completes(c) /\ p \notin exclusive_pages(c)
    <3>1. page_readable(p)' <=> page_readable(p)
      BY <2>3, <1>c, <1>q, <1>e DEF page_readable
    <3> QED
      BY <3>1, <2>3, <1>c DEF IInv, ShadowMatchesVM
  <2> QED
    BY <2>1, <2>2, <2>3
<1>5. PageComplete'
  <2>1. ASSUME NEW p \in Page,
               p \in readable' \/ (p \notin SharedPage /\ Owner(p) \in initialized')
        PROVE  content'[p] = Contributors[p]
    <3>1. CASE p \in Completes(c)
      BY <3>1, <1>p, <1>s
    <3>2. CASE p \in exclusive_pages(c)
      <4>1. p \notin Completes(c)
        BY <3>2, <1>s, <1>e
      <4> QED
        BY <3>2, <4>1, <1>p, <1>e
    <3>3. CASE p \notin Completes(c) /\ p \notin exclusive_pages(c)
      <4>1. content'[p] = content[p]
        BY <3>3, <1>p
      <4>2. p \in readable \/ (p \notin SharedPage /\ Owner(p) \in initialized)
        BY <2>1, <3>3, <1>c, <1>e
      <4> QED
        BY <4>1, <4>2 DEF IInv, PageComplete
    <3> QED
      BY <3>1, <3>2, <3>3
  <2> QED
    BY <2>1 DEF PageComplete
<1>6. StagingExact'
  <2>1. ASSUME NEW p \in SharedPage
        PROVE  /\ p \in mapped' <=> Contributors[p] \subseteq chunk_staged'
               /\ p \notin mapped' =>
                    /\ staging'[p] = Contributors[p] \cap chunk_staged'
                    /\ staged'[p] = Cardinality(staging'[p])
    <3>1. p \in Page
      BY DEF SharedPage
    <3>2. CASE p \in StagesInto(c)
      <4>1. /\ p \notin mapped /\ c \in Contributors[p]
            /\ staging[p] \cup {c} = Contributors[p] \cap (chunk_staged \cup {c})
            /\ staged[p] + 1 = Cardinality(staging[p] \cup {c})
            /\ p \in Completes(c) <=> Contributors[p] \subseteq chunk_staged \cup {c}
        BY <3>2, <1>b, StageStep
      <4>2. chunk_staged' = chunk_staged \cup {c}
        BY <4>1, <1>c DEF SharedPagesOf
      <4>3. p \in mapped' <=> p \in Completes(c)
        BY <4>1, <1>c
      <4>4. p \notin Completes(c) => /\ staging'[p] = staging[p] \cup {c}
                                     /\ staged'[p] = staged[p] + 1
        BY <3>1, <3>2, <1>p
      <4> QED
        BY <4>1, <4>2, <4>3, <4>4
    <3>3. CASE p \notin StagesInto(c)
      <4>1. p \notin Completes(c)
        BY <3>3, <1>s
      <4>2. /\ p \in mapped' <=> p \in mapped
            /\ staging'[p] = staging[p] /\ staged'[p] = staged[p]
        BY <3>1, <3>3, <4>1, <1>c, <1>p
      <4>3. Contributors[p] \cap chunk_staged' = Contributors[p] \cap chunk_staged
        BY <3>3, <1>c DEF StagesInto, SharedPagesOf
      <4>4. Contributors[p] \subseteq chunk_staged' <=> Contributors[p] \subseteq chunk_staged
        BY <4>3
      <4> QED
        BY <4>2, <4>3, <4>4 DEF IInv, StagingExact
    <3> QED
      BY <3>2, <3>3
  <2>2. ASSUME NEW d \in initialized', SharedPagesOf(d) # {} PROVE d \in chunk_staged'
    BY <2>2, <1>c DEF IInv, StagingExact
  <2> QED
    BY <2>1, <2>2 DEF StagingExact
<1>7. MruIsServed'
  <2>1. CASE Missing(fault_page) = {c}
    <3>1. fault_page \in readable'
      <4>1. CASE fault_page \notin SharedPage
        <5>1. fault_page \in exclusive_pages(c)
          BY <4>1, <1>a, <1>b, PageGeometry
        <5> QED
          BY <5>1, <1>c
      <4>2. CASE fault_page \in SharedPage
        <5>1. Contributors[fault_page] \subseteq chunk_staged \cup {c}
          <6>1. \A d \in Contributors[fault_page] : d # c => d \in initialized
            BY <2>1 DEF Missing
          <6> QED
            BY <4>2, <6>1 DEF IInv, StagingExact, SharedPagesOf
        <5>2. CASE c \in chunk_staged
          <6>1. fault_page \in mapped
            BY <4>2, <5>1, <5>2 DEF IInv, StagingExact
          <6> QED
            BY <6>1, <1>c DEF IInv, RegionsTakenApartLast
        <5>3. CASE c \notin chunk_staged
          <6>1. fault_page \in StagesInto(c)
            BY <4>2, <5>3, <1>b DEF StagesInto, SharedPagesOf
          <6>2. fault_page \in Completes(c)
            BY <5>1, <6>1, <1>b, StageStep
          <6> QED
            BY <6>2, <1>c
        <5> QED
          BY <5>2, <5>3
      <4> QED
        BY <4>1, <4>2
    <3> QED
      BY <2>1, <3>1, <1>0, <1>a, <1>b, <1>q DEF MruIsServed
  <2>2. CASE Missing(fault_page) # {c}
    <3>1. fault_page \in SharedPage
      <4> SUFFICES ASSUME fault_page \notin SharedPage PROVE FALSE
        OBVIOUS
      <4>1. Contributors[fault_page] = {Owner(fault_page)}
        BY <1>a, PageGeometry
      <4> QED
        BY <4>1, <2>2, <1>b DEF Missing
    <3>2. Missing(fault_page)' = Missing(fault_page) \ {c}
      BY <1>a, <1>c DEF Missing
    <3>3. Missing(fault_page)' # {}
      BY <3>2, <2>2
    <3>4. pc' = "resolve" /\ fault_page' = fault_page
      BY <2>2, <1>0, <1>a
    <3> QED
      BY <3>1, <3>3, <3>4 DEF MruIsServed
  <2> QED
    BY <2>1, <2>2
<1>8. RegionsTakenApartLast'
  <2>1. \A d \in chunk_staged' : RegionOf[d] \in live \cup dying
    BY <1>b, <1>c DEF IInv, RegionsTakenApartLast
  <2>2. mapped' \subseteq readable' \cap SharedPage
    BY <1>c, <1>s DEF IInv, RegionsTakenApartLast
  <2>3. pc' \in {"evict", "resolve"}
    BY <1>0
  <2> QED
    BY <2>1, <2>2, <2>3, <1>a DEF IInv, RegionsTakenApartLast
<1> QED
  BY <1>1, <1>d, <1>4, <1>5, <1>6, <1>7, <1>8 DEF IInv

(* The invariant holds after a step that changes nothing.                  *)
LEMMA StutterInv ==
    ASSUME IInv, UNCHANGED vars
    PROVE  IInv'
<1> USE DEF vars, cache, shares, memory, lifetime, job
<1>1. TypeOK'
  BY DEF IInv, TypeOK
<1>2. QueueHoldsInitialized'
  BY DEF IInv, QueueHoldsInitialized, Resident, NoDuplicates
<1>3. HotPrefix'
  BY DEF IInv, HotPrefix, SplitAtMidpoint
<1>4. ShadowMatchesVM'
  BY DEF IInv, ShadowMatchesVM, page_readable, Settled
<1>5. PageComplete'
  BY DEF IInv, PageComplete
<1>6. StagingExact'
  BY DEF IInv, StagingExact
<1>7. MruIsServed'
  BY DEF IInv, MruIsServed, Missing, page_readable
<1>8. RegionsTakenApartLast'
  BY DEF IInv, RegionsTakenApartLast
<1> QED
  BY <1>1, <1>2, <1>3, <1>4, <1>5, <1>6, <1>7, <1>8 DEF IInv

(* The invariant is inductive: every step of Next, and stuttering,         *)
(* preserves it.                                                           *)
LEMMA NextInv == IInv /\ [Next]_vars => IInv'
<1> SUFFICES ASSUME IInv, [Next]_vars PROVE IInv'
  OBVIOUS
<1>1. ASSUME NEW r \in Region, fc_region_create(r) PROVE IInv'
  BY <1>1, CreateInv
<1>2. ASSUME NEW r \in Region, fc_region_destroy(r) PROVE IInv'
  BY <1>2, DestroyInv
<1>3. ASSUME NEW r \in Region, region_free(r) PROVE IInv'
  BY <1>3, FreeInv
<1>4. ASSUME NEW p \in Page, Fault(p) PROVE IInv'
  BY <1>4, FaultInv
<1>5. CASE LockHolder
  <2>1. CASE Fill BY <2>1, FillInv
  <2>2. CASE lru_promote BY <2>2, PromoteInv
  <2>3. CASE lru_evict_chunk BY <2>3, EvictInv
  <2>4. CASE EvictDone BY <2>4, EvictDoneInv
  <2>5. CASE lru_rebalance BY <2>5, RebalanceInv
  <2>6. CASE Return BY <2>6, ReturnInv
  <2>7. CASE lru_forget_chunk BY <2>7, ForgetInv
  <2>8. CASE region_list_remove BY <2>8, ListRemoveInv
  <2> QED
    BY <1>5, <2>1, <2>2, <2>3, <2>4, <2>5, <2>6, <2>7, <2>8 DEF LockHolder
<1>6. CASE UNCHANGED vars
  BY <1>6, StutterInv
<1> QED
  BY <1>1, <1>2, <1>3, <1>4, <1>5, <1>6 DEF Next

(* Every reachable state of a pool satisfies the inductive invariant.      *)
THEOREM Invariant == Spec => []IInv
  BY InitInv, NextInv, PTL DEF Spec

-----------------------------------------------------------------------------
(* What the invariant gives.                                               *)

(* The state of a pool is well typed in every reachable state.             *)
THEOREM TypeCorrect == Spec => []TypeOK
<1>1. IInv => TypeOK
  BY DEF IInv
<1> QED
  BY <1>1, Invariant, PTL

(* The LRU queue of every pool always holds exactly the initialized        *)
(* chunks, and its midpoint always separates the hot from the cold ones.   *)
THEOREM QueueCorrect == Spec => []QueueSound
<1>1. IInv => QueueSound
  BY DEF IInv, QueueSound
<1> QED
  BY <1>1, Invariant, PTL

(* For every geometry of chunks and pages, page_readable() always agrees   *)
(* with the protection of the pages of the live regions.                   *)
THEOREM ShadowCorrect == Spec => []ShadowMatchesVM
<1>1. IInv => ShadowMatchesVM
  BY DEF IInv
<1> QED
  BY <1>1, Invariant, PTL

(* No reader of any pool ever sees a page that misses the bytes of a chunk *)
(* it overlaps.                                                            *)
THEOREM ReadersSeeWholePages == Spec => []PageComplete
<1>1. IInv => PageComplete
  BY DEF IInv
<1> QED
  BY <1>1, Invariant, PTL

(* The staging count of a shared page is always the number of chunks that  *)
(* have staged into it, and it is published with the last of them.         *)
THEOREM StagingCorrect == Spec => []StagingExact
<1>1. IInv => StagingExact
  BY DEF IInv
<1> QED
  BY <1>1, Invariant, PTL

(* What the holder of pool->lock works on is alive and in the state its    *)
(* next loop expects, in every pool.                                       *)
THEOREM ResolutionCorrect == Spec => []ResolutionSound
<1>1. IInv => ResolutionSound
  BY DEF IInv, ResolutionSound
<1> QED
  BY <1>1, Invariant, PTL

(* The assertions on the resolve path hold in every pool.                  *)
THEOREM AssertionsNeverFail == Spec => []AssertionsHold
<1>1. ASSUME IInv PROVE AssertionsHold
  <2>1. ASSUME pc = "resolve", NEW c \in Missing(fault_page), c \notin chunk_staged
        PROVE  SharedPagesOf(c) \cap mapped = {}
    BY <1>1, <2>1 DEF IInv, StagingExact, SharedPagesOf
  <2>2. ASSUME pc = "resolve", Missing(fault_page) = {}
        PROVE  /\ fault_page \notin SharedPage
               /\ Owner(fault_page) \in Resident(queue) \cap queue.cold
    <3>1. fault_page \notin SharedPage /\ ~page_readable(fault_page) /\ fault_page \in Page
      BY <1>1, <2>2 DEF IInv, MruIsServed, TypeOK
    <3>2. Owner(fault_page) \in initialized
      BY <2>2, <3>1, PageGeometry DEF Missing
    <3> QED
      BY <1>1, <3>1, <3>2, InvQueue DEF page_readable
  <2>3. ASSUME pc = "evict" PROVE page_readable(fault_page) /\ queue.order # << >>
    <3>1. /\ fault_page \in readable /\ queue.order # << >> /\ fault_page \in Page
          /\ RegionOfPage(fault_page) \in live /\ dead_region = None
      BY <1>1, <2>3 DEF IInv, MruIsServed, TypeOK, RegionsTakenApartLast
    <3>2. Settled(RegionOfPage(fault_page))
      BY <3>1, PageGeometry, PageAssumption DEF Settled
    <3> QED
      BY <1>1, <3>1, <3>2 DEF IInv, ShadowMatchesVM
  <2>4. ASSUME pc = "rebalance", CanDemote PROVE queue.midpoint \in Resident(queue)
    BY <1>1, <2>4, MidpointBehindMru
  <2> QED
    BY <2>1, <2>2, <2>3, <2>4 DEF AssertionsHold
<1> QED
  BY <1>1, Invariant, PTL

-----------------------------------------------------------------------------
(* The pool implements LazyMemory.                                         *)

(* A new pool is an initial state of LazyMemory.                           *)
LEMMA LazyInit == Init => Lazy!Init
  BY DEF Init, Lazy!Init

(* Only the resolution of a fault has a page to serve.                     *)
LEMMA Serving ==
    ASSUME IInv
    PROVE  /\ fault_page # None <=> pc \in {"resolve", "evict", "rebalance"}
           /\ fault_page # None => /\ fault_page \in Page
                                   /\ RegionOfPage(fault_page) \in live
                                   /\ dead_region = None
  BY PageAssumption DEF IInv, TypeOK, RegionsTakenApartLast

(* Under the invariant each step of the pool is a step of LazyMemory or    *)
(* leaves its view unchanged.                                              *)
LEMMA LazyNext == IInv /\ [Next]_vars => [Lazy!Next]_(Lazy!vars)
<1> SUFFICES ASSUME IInv, [Next]_vars PROVE Lazy!Next \/ UNCHANGED Lazy!vars
  OBVIOUS
<1> USE DEF Lazy!vars
<1>g. \A p \in Page : [q \in Page |-> RegionOfPage(q)][p] = RegionOfPage(p)
  OBVIOUS
<1>t. readable \subseteq Page
  BY DEF IInv, TypeOK
<1>1. ASSUME NEW r \in Region, fc_region_create(r) PROVE Lazy!Next
  <2>1. Lazy!Create(r)
    BY <1>1 DEF fc_region_create, Lazy!Create, memory, job
  <2> QED
    BY <2>1 DEF Lazy!Next
<1>2. ASSUME NEW r \in Region, fc_region_destroy(r) PROVE UNCHANGED Lazy!vars
  BY <1>2 DEF fc_region_destroy, memory, lifetime
<1>3. ASSUME NEW r \in Region, region_free(r) PROVE Lazy!Next
  <2>1. /\ r \in dying /\ r \notin live /\ live' = live /\ dying' = dying \ {r}
        /\ fault_page' = fault_page /\ readable' = readable \ PagesOfRegion(r)
    BY <1>3 DEF region_free, job, IInv, RegionsTakenApartLast
  <2>2. live' \cup dying' = (live \cup dying) \ {r}
    BY <2>1
  <2>3. readable' = {p \in readable : [q \in Page |-> RegionOfPage(q)][p] # r}
    BY <2>1, <1>g, <1>t DEF PagesOfRegion
  <2>4. fault_page # None => [q \in Page |-> RegionOfPage(q)][fault_page] # r
    BY <2>1, <1>g, Serving
  <2>5. Lazy!Release(r)
    BY <2>1, <2>2, <2>3, <2>4 DEF Lazy!Release
  <2> QED
    BY <2>5 DEF Lazy!Next
<1>4. ASSUME NEW p \in Page, Fault(p) PROVE Lazy!Next
  <2>1. fault_page = None /\ dead_region = None
    BY <1>4 DEF Fault, IInv, TypeOK, Ours
  <2>2. p \notin readable
    BY <1>4, <2>1, PageGeometry, PageAssumption DEF Fault, IInv, ShadowMatchesVM, Settled, Ours
  <2>3. Lazy!Touch(p)
    BY <1>4, <2>1, <2>2, <1>g DEF Fault, Lazy!Touch, memory, lifetime, Ours
  <2> QED
    BY <2>3 DEF Lazy!Next
<1>5. ASSUME Fill PROVE Lazy!Next
  <2>1. PICK c \in Missing(fault_page) : publish(c)
    BY <1>5 DEF Fill, fill_chunk_locked
  <2> DEFINE S == Completes(c) \cup exclusive_pages(c)
  <2>2. pc = "resolve" /\ UNCHANGED <<fault_page, live, dying>>
    BY <1>5 DEF Fill, lifetime
  <2>3. fault_page # None /\ fault_page \in Page
    BY <2>2, Serving
  <2>4. readable' = readable \cup S
    BY <2>1 DEF publish
  <2>5. c \in Contributors[fault_page] /\ c \in Chunk
    BY <2>3, PageGeometry DEF Missing
  <2>6. ASSUME NEW p \in S PROVE p \in Page /\ c \in Contributors[p]
    <3>1. CASE p \in Completes(c)
      <4>1. p \in StagesInto(c)
        BY <3>1 DEF Completes
      <4> QED
        BY <4>1, <2>5, StageStep
    <3>2. CASE p \in exclusive_pages(c)
      BY <3>2 DEF exclusive_pages
    <3> QED
      BY <3>1, <3>2
  <2> HIDE DEF S
  <2>7. S \in SUBSET Page
    BY <2>6
  <2>8. \A p \in S : RegionOfPage(p) = RegionOfPage(fault_page)
    BY <2>3, <2>5, <2>6, PageGeometry
  <2>9. Lazy!Show(S)
    BY <2>2, <2>3, <2>4, <2>7, <2>8, <1>g DEF Lazy!Show
  <2> QED
    BY <2>7, <2>9 DEF Lazy!Next
<1>6. ASSUME lru_promote PROVE Lazy!Next
  <2> DEFINE S == exclusive_pages(Owner(fault_page))
  <2>1. /\ pc = "resolve" /\ UNCHANGED <<fault_page, live, dying>>
        /\ readable' = readable \cup S
    BY <1>6 DEF lru_promote, lifetime, chunk_set_readable
  <2>2. fault_page # None /\ fault_page \in Page
    BY <2>1, Serving
  <2>3. S \in SUBSET Page /\ \A p \in S : RegionOfPage(p) = RegionOfPage(fault_page)
    <3>1. S \subseteq Page
      BY DEF exclusive_pages
    <3>2. \A p \in S : Owner(p) = Owner(fault_page)
      BY <3>1, PageGeometry
    <3> QED
      BY <3>1, <3>2 DEF RegionOfPage
  <2> HIDE DEF S
  <2>4. Lazy!Show(S)
    BY <2>1, <2>2, <2>3, <1>g DEF Lazy!Show
  <2> QED
    BY <2>3, <2>4 DEF Lazy!Next
<1>7. ASSUME lru_evict_chunk PROVE Lazy!Next
  <2> DEFINE S == exclusive_pages(Last(queue.order))
  <2>1. /\ pc = "evict" /\ UNCHANGED <<fault_page, live, dying>>
        /\ readable' = readable \ S
        /\ Last(queue.order) \notin Contributors[fault_page]
    BY <1>7 DEF lru_evict_chunk, lifetime, job, CanEvict, Victim, lru_node_size
  <2>2. fault_page \in readable /\ fault_page \in Page
    BY <2>1 DEF IInv, MruIsServed, TypeOK
  <2>3. S \in SUBSET Page /\ S \cap SharedPage = {} /\ fault_page \notin S
    <3>1. S \subseteq Page
      BY DEF exclusive_pages
    <3>2. S \cap SharedPage = {}
      BY <3>1, PageGeometry
    <3>3. fault_page \notin S
      BY <2>1 DEF exclusive_pages
    <3> QED
      BY <3>1, <3>2, <3>3
  <2> HIDE DEF S
  <2>4. Lazy!Hide(S)
    BY <2>1, <2>2, <2>3 DEF Lazy!Hide
  <2> QED
    BY <2>3, <2>4 DEF Lazy!Next
<1>8. ASSUME EvictDone PROVE UNCHANGED Lazy!vars
  BY <1>8 DEF EvictDone, memory, lifetime
<1>9. ASSUME lru_rebalance PROVE Lazy!Next
  <2> DEFINE S == exclusive_pages(queue.midpoint)
  <2>1. /\ pc = "rebalance" /\ CanDemote /\ UNCHANGED <<fault_page, live, dying>>
        /\ readable' = readable \ S
    BY <1>9 DEF lru_rebalance, lifetime, job, chunk_set_readable
  <2>2. /\ fault_page \in readable /\ fault_page \in Page
        /\ queue.order[1] \in Contributors[fault_page]
    BY <2>1 DEF IInv, MruIsServed, TypeOK
  <2>3. S \in SUBSET Page /\ S \cap SharedPage = {} /\ fault_page \notin S
    <3>1. S \subseteq Page
      BY DEF exclusive_pages
    <3>2. S \cap SharedPage = {}
      BY <3>1, PageGeometry
    <3>3. queue.midpoint # queue.order[1]
      BY <2>1, MidpointBehindMru
    <3>4. fault_page \notin S
      BY <2>2, <3>3 DEF exclusive_pages
    <3> QED
      BY <3>1, <3>2, <3>4
  <2> HIDE DEF S
  <2>4. Lazy!Hide(S)
    BY <2>1, <2>2, <2>3 DEF Lazy!Hide
  <2> QED
    BY <2>3, <2>4 DEF Lazy!Next
<1>10. ASSUME Return PROVE Lazy!Next
  <2>1. Lazy!Resume
    BY <1>10 DEF Return, Lazy!Resume, memory, lifetime, IInv, MruIsServed
  <2> QED
    BY <2>1 DEF Lazy!Next
<1>11. ASSUME lru_forget_chunk PROVE UNCHANGED Lazy!vars
  BY <1>11 DEF lru_forget_chunk, memory, lifetime, job, lru_node_size
<1>12. ASSUME region_list_remove PROVE UNCHANGED Lazy!vars
  <2>1. dead_region \in live
    BY <1>12 DEF region_list_remove, IInv, RegionsTakenApartLast
  <2>2. live' \cup dying' = live \cup dying
    BY <1>12, <2>1 DEF region_list_remove
  <2> QED
    BY <1>12, <2>2 DEF region_list_remove, memory
<1>13. CASE UNCHANGED vars
  BY <1>13 DEF vars, memory, lifetime, job
<1> QED
  BY <1>1, <1>2, <1>3, <1>4, <1>5, <1>6, <1>7, <1>8, <1>9, <1>10, <1>11, <1>12, <1>13
     DEF Next, LockHolder

(* Every pool, whatever its geometry and budget, gives the readers of its  *)
(* memory exactly what LazyMemory promises: a touched page is there when   *)
(* the toucher resumes, and shared pages are never taken away.             *)
THEOREM Refinement == Spec => ImplementsLazyMemory
  BY Invariant, LazyInit, LazyNext, PTL DEF Spec, ImplementsLazyMemory, Lazy!Spec

-----------------------------------------------------------------------------
(* What a step may never do.                                               *)

(* What each step does to the protection of the pages.                     *)
LEMMA ReadableStep ==
    ASSUME IInv, [Next]_vars, NEW p \in readable, p \notin readable'
    PROVE  \/ RegionOfPage(p) \notin live' \cup dying'
           \/ /\ p \notin SharedPage /\ TargetSize # 0
              /\ pc \in {"evict", "rebalance"} /\ pc' = pc
<1>t. p \in Page
  BY DEF IInv, TypeOK
<1>1. ASSUME NEW r \in Region, region_free(r) PROVE RegionOfPage(p) \notin live' \cup dying'
  BY <1>1 DEF region_free, PagesOfRegion, IInv, RegionsTakenApartLast
<1>2. CASE lru_evict_chunk
  BY <1>2, <1>t, PageGeometry DEF lru_evict_chunk, CanEvict, OverBudget, job, Victim, lru_node_size
<1>3. CASE lru_rebalance
  BY <1>3, <1>t, PageGeometry DEF lru_rebalance, CanDemote, job, chunk_set_readable
<1>4. ASSUME NEW r \in Region, fc_region_create(r) \/ fc_region_destroy(r) PROVE FALSE
  BY <1>4 DEF fc_region_create, fc_region_destroy, memory
<1>5. ASSUME NEW q \in Page, Fault(q) PROVE FALSE
  BY <1>5 DEF Fault, memory, Ours
<1>6. CASE Fill \/ lru_promote
  BY <1>6 DEF Fill, fill_chunk_locked, publish, lru_promote, chunk_set_readable
<1>7. CASE EvictDone \/ Return \/ lru_forget_chunk \/ region_list_remove
  BY <1>7 DEF EvictDone, Return, lru_forget_chunk, region_list_remove, memory, lru_node_size
<1>8. CASE UNCHANGED vars
  BY <1>8 DEF vars, memory
<1> QED
  BY <1>1, <1>2, <1>3, <1>4, <1>5, <1>6, <1>7, <1>8 DEF Next, LockHolder

(* A published shared page is never taken back while its region exists.    *)
THEOREM SharedPagesStay == Spec => SharedPagePinned
<1>1. ASSUME IInv, [Next]_vars, NEW p \in mapped, RegionOfPage(p) \in live' \cup dying'
      PROVE  p \in readable'
  BY <1>1, ReadableStep DEF IInv, RegionsTakenApartLast
<1>2. IInv /\ [Next]_vars =>
        [\A p \in mapped : RegionOfPage(p) \in live' \cup dying' => p \in readable']_vars
  BY <1>1
<1> QED
  BY <1>2, Invariant, PTL DEF Spec, SharedPagePinned

(* An unbounded pool never hides or evicts a page.                         *)
THEOREM UnboundedPoolsKeepPages == Spec => UnboundedKeepsPages
<1>1. ASSUME IInv, [Next]_vars, TargetSize = 0,
             NEW p \in readable, RegionOfPage(p) \in live' \cup dying'
      PROVE  p \in readable'
  BY <1>1, ReadableStep
<1>2. IInv /\ [Next]_vars =>
        [TargetSize = 0 => \A p \in readable :
            RegionOfPage(p) \in live' \cup dying' => p \in readable']_vars
  BY <1>1
<1> QED
  BY <1>2, Invariant, PTL DEF Spec, UnboundedKeepsPages

(* Every resolution ends with its page readable.                           *)
THEOREM FaultsAreServed == Spec => ServedPageReadable
<1>1. ASSUME IInv, [Next]_vars, pc = "rebalance", pc' = "idle"
      PROVE  fault_page \in readable'
  <2>1. /\ fault_page \in readable
        /\ RegionOfPage(fault_page) \in live
    BY <1>1 DEF IInv, MruIsServed, RegionsTakenApartLast
  <2>2. Return
    BY <1>1 DEF Next, LockHolder, vars, job, fc_region_create, fc_region_destroy,
                region_free, Fault, Fill, lru_promote, lru_evict_chunk, EvictDone,
                lru_rebalance, lru_forget_chunk, region_list_remove,
                Ours, chunk_set_readable, Victim, lru_node_size
  <2> QED
    BY <2>1, <2>2 DEF Return, memory
<1>2. IInv /\ [Next]_vars =>
        [pc = "rebalance" /\ pc' = "idle" => fault_page \in readable']_vars
  BY <1>1
<1> QED
  BY <1>2, Invariant, PTL DEF Spec, ServedPageReadable

(* Eviction never takes a hot chunk while a cold one is resident.          *)
THEOREM ColdGoesFirst == Spec => ColdEvictedFirst
<1>1. ASSUME IInv, [Next]_vars, pc = "evict", NEW c \in initialized \ initialized'
      PROVE  c \in queue.cold \/ Resident(queue) \cap queue.cold = {}
  <2>1. lru_evict_chunk
    BY <1>1 DEF Next, LockHolder, vars, cache, fc_region_create, fc_region_destroy,
                region_free, Fault, Fill, lru_promote, EvictDone,
                lru_rebalance, Return, lru_forget_chunk, region_list_remove,
                Ours, chunk_set_readable, lru_node_size
  <2>2. c = Last(queue.order) /\ queue.order # << >>
    BY <1>1, <2>1 DEF lru_evict_chunk, CanEvict, Victim, lru_node_size
  <2> DEFINE n == Len(queue.order)
  <2>3. queue.order \in Seq(Chunk)
    BY <1>1 DEF IInv, TypeOK, QueueType
  <2>4. DOMAIN queue.order = 1 .. n /\ n \in 1 .. n /\ c = queue.order[n] /\ n \in Nat
    BY <2>2, <2>3, SMT DEF Last
  <2> HIDE DEF n
  <2> SUFFICES ASSUME NEW d \in Resident(queue) \cap queue.cold PROVE c \in queue.cold
    OBVIOUS
  <2>5. PICK i \in 1 .. n : queue.order[i] = d
    BY <2>4 DEF Resident, ToSet
  <2>6. SplitAtMidpoint(queue)
    BY <1>1 DEF IInv, HotPrefix
  <2>7. CASE \A j \in DOMAIN queue.order : queue.order[j] \in queue.cold
    BY <2>4, <2>7
  <2>8. ASSUME NEW k \in 1 .. n,
               \A j \in 1 .. n : queue.order[j] \in queue.cold <=> j > k
        PROVE  c \in queue.cold
    BY <2>4, <2>5, <2>8, SMT
  <2> QED
    BY <2>4, <2>6, <2>7, <2>8 DEF SplitAtMidpoint
<1>2. IInv /\ [Next]_vars =>
        [pc = "evict" => \A c \in initialized \ initialized' :
            c \in queue.cold \/ Resident(queue) \cap queue.cold = {}]_vars
  BY <1>1
<1> QED
  BY <1>2, Invariant, PTL DEF Spec, ColdEvictedFirst

-----------------------------------------------------------------------------
(* The budget.                                                             *)

\* evict_until_within_budget() is over: nothing more can be evicted.
EvictionOver == pc = "rebalance" => ~CanEvict

(* Nothing between the end of the eviction loop and the release of the     *)
(* lock makes a chunk evictable again.                                     *)
LEMMA EvictionOverInv == IInv /\ EvictionOver /\ [Next]_vars => EvictionOver'
<1> SUFFICES ASSUME IInv, EvictionOver, [Next]_vars, pc' = "rebalance"
             PROVE  ~CanEvict'
  BY DEF EvictionOver
<1> USE DEF CanEvict, OverBudget, Victim
<1>1. CASE EvictDone
  BY <1>1 DEF EvictDone, cache
<1>2. CASE lru_rebalance
  BY <1>2 DEF lru_rebalance, lru_demote, EvictionOver, job, chunk_set_readable, lru_node_size
<1>3. ASSUME NEW r \in Region, region_free(r)
      PROVE  ~CanEvict'
  <2>1. queue \in QueueType
    BY DEF IInv, TypeOK
  <2>2. queue'.order = queue.order
    BY <1>3, <2>1 DEF region_free, QueueType
  <2> QED
    BY <1>3, <2>2 DEF region_free, EvictionOver, job
<1>4. CASE UNCHANGED vars
  BY <1>4 DEF vars, cache, job, EvictionOver
<1> QED
  BY <1>1, <1>2, <1>3, <1>4 DEF Next, LockHolder, fc_region_create, fc_region_destroy,
       Fault, Fill, lru_promote, lru_evict_chunk, Return, lru_forget_chunk,
       region_list_remove, job, Ours, chunk_set_readable, Victim, lru_node_size

(* Every resolution ends with the pool within its target, or with the tail *)
(* of the queue on the page just served; a pool over budget after serving  *)
(* a page of one chunk holds that chunk and nothing else.                  *)
THEOREM BudgetIsKept == Spec => BudgetKept
<1>1. ASSUME IInv, EvictionOver, [Next]_vars, pc = "rebalance", pc' = "idle", OverBudget'
      PROVE  /\ Last(queue'.order) \in Contributors[fault_page]
             /\ fault_page \notin SharedPage => Len(queue'.order) = 1
  <2>1. Return
    BY <1>1 DEF Next, LockHolder, vars, job, fc_region_create, fc_region_destroy,
                region_free, Fault, Fill, lru_promote, lru_evict_chunk, EvictDone,
                lru_rebalance, lru_forget_chunk, region_list_remove,
                Ours, chunk_set_readable, Victim, lru_node_size
  <2>2. queue' = queue /\ resident_bytes' = resident_bytes
    BY <2>1 DEF Return, cache
  <2>3. /\ fault_page \in Page
        /\ queue.order # << >>
        /\ queue.order[1] \in Contributors[fault_page]
    BY <1>1 DEF IInv, TypeOK, MruIsServed
  <2>4. Last(queue.order) \in Contributors[fault_page]
    BY <1>1, <2>2, <2>3 DEF EvictionOver, CanEvict, OverBudget, Victim
  <2>5. ASSUME fault_page \notin SharedPage PROVE Len(queue.order) = 1
    <3> DEFINE n == Len(queue.order)
    <3>1. queue.order \in Seq(Chunk) /\ NoDuplicates(queue)
      BY <1>1 DEF IInv, TypeOK, QueueType, QueueHoldsInitialized
    <3>2. /\ n \in Nat /\ n >= 1 /\ DOMAIN queue.order = 1 .. n
          /\ Last(queue.order) = queue.order[n]
      BY <2>3, <3>1, SMT DEF Last
    <3>3. Contributors[fault_page] = {Owner(fault_page)}
      BY <2>3, <2>5, PageGeometry
    <3>4. queue.order[1] = queue.order[n]
      BY <2>3, <2>4, <3>2, <3>3
    <3> HIDE DEF n
    <3>5. 1 \in DOMAIN queue.order /\ n \in DOMAIN queue.order
      BY <3>2
    <3>6. n = 1
      BY <3>1, <3>4, <3>5 DEF NoDuplicates
    <3> QED
      BY <3>6 DEF n
  <2> QED
    BY <2>2, <2>4, <2>5
<1>2. IInv /\ EvictionOver /\ [Next]_vars =>
        [pc = "rebalance" /\ pc' = "idle" /\ OverBudget' =>
            /\ Last(queue'.order) \in Contributors[fault_page]
            /\ fault_page \notin SharedPage => Len(queue'.order) = 1]_vars
  BY <1>1
<1>3. Init => EvictionOver
  BY DEF Init, EvictionOver
<1> QED
  BY <1>2, <1>3, EvictionOverInv, Invariant, PTL DEF Spec, BudgetKept

-----------------------------------------------------------------------------
(* The byte counters.                                                      *)

(* The bytes of a finite set of chunks: a member's size can be split off.  *)
LEMMA SizeOfProperties ==
    ASSUME NEW S \in SUBSET Chunk, IsFiniteSet(S)
    PROVE  /\ SizeOf(S) \in Int
           /\ \A c \in S : SizeOf(S \ {c}) = SizeOf(S) - Size[c]
           /\ \A c \in Chunk \ S : SizeOf(S \cup {c}) = SizeOf(S) + Size[c]
<1>1. \A X : SizeOf(X) = Total(Size, X)
  BY DEF SizeOf, Total
<1>2. Size \in [Chunk -> Int] /\ \A c \in Chunk : Size[c] \in Int
  BY ChunkAssumption
<1>3. Total(Size, S) \in Int
  BY <1>2, TotalInteger
<1>4. \A c \in S : Total(Size, S) = Size[c] + Total(Size, S \ {c}) /\ Total(Size, S \ {c}) \in Int
  <2> TAKE c \in S
  <2>1. IsFiniteSet(S \ {c}) /\ S \ {c} \in SUBSET Chunk
    BY FS_RemoveElement
  <2> QED
    BY <2>1, <1>2, TotalInteger, TotalRemove
<1>5. \A c \in Chunk \ S : Total(Size, S \cup {c}) = Size[c] + Total(Size, S)
  BY <1>2, TotalAdd
<1> QED
  BY <1>1, <1>2, <1>3, <1>4, <1>5

(* No chunks, no bytes.                                                    *)
LEMMA SizeOfEmpty == SizeOf({}) = 0
<1>1. SizeOf({}) = Total(Size, {})
  BY DEF SizeOf, Total
<1> QED
  BY <1>1, FS_EmptySet, TotalPicked

(* A queue holds finitely many chunks.                                     *)
LEMMA ResidentFinite ==
    ASSUME NEW q, q \in QueueType
    PROVE  Resident(q) \in SUBSET Chunk /\ IsFiniteSet(Resident(q))
<1>1. q.order \in Seq(Chunk) /\ Len(q.order) \in Nat /\ DOMAIN q.order = 1 .. Len(q.order)
  BY DEF QueueType
<1>2. Resident(q) = {q.order[i] : i \in 1 .. Len(q.order)}
  BY <1>1 DEF Resident, ToSet
<1>3. IsFiniteSet(1 .. Len(q.order))
  BY <1>1, FS_Interval
<1>4. IsFiniteSet({q.order[i] : i \in 1 .. Len(q.order)})
  <2> DEFINE f == [i \in 1 .. Len(q.order) |-> q.order[i]]
             T == {q.order[i] : i \in 1 .. Len(q.order)}
  <2>1. f \in Surjection(1 .. Len(q.order), T)
    BY DEF Surjection
  <2> QED
    BY <2>1, <1>3, FS_Surjection
<1> QED
  BY <1>1, <1>2, <1>4

\* The counters of a pool whose queue is q and whose resident_bytes is n.
Counted(q, n) ==
    /\ n = SizeOf(Resident(q))
    /\ q.hot_bytes = SizeOf(Resident(q) \ q.cold)

(* lru_unlink() takes the chunk's bytes out of the count of its half.      *)
LEMMA UnlinkCounted ==
    ASSUME NEW q, GoodQueue(q), NEW n, Counted(q, n), NEW c \in Resident(q), c \in Chunk
    PROVE  Counted(lru_unlink(q, c), n - Size[c])
<1> DEFINE u == lru_unlink(q, c)
           H == Resident(q) \ q.cold
<1>1. /\ Resident(u) = Resident(q) \ {c} /\ u.cold = q.cold
      /\ u.hot_bytes = IF c \in q.cold THEN q.hot_bytes ELSE q.hot_bytes - Size[c]
  BY UnlinkProperties DEF lru_unlink, lru_node_size
<1>2. /\ Resident(q) \in SUBSET Chunk /\ IsFiniteSet(Resident(q))
      /\ H \in SUBSET Chunk /\ IsFiniteSet(H)
  BY ResidentFinite, FS_Subset DEF GoodQueue
<1>3. Resident(u) \ u.cold = IF c \in q.cold THEN H ELSE H \ {c}
  BY <1>1
<1>4. c \notin q.cold => c \in H
  OBVIOUS
<1> HIDE DEF u, H
<1>5. SizeOf(Resident(q) \ {c}) = SizeOf(Resident(q)) - Size[c]
  BY <1>2, SizeOfProperties
<1>6. c \notin q.cold => SizeOf(H \ {c}) = SizeOf(H) - Size[c]
  BY <1>2, <1>4, SizeOfProperties
<1> QED
  BY <1>1, <1>3, <1>5, <1>6 DEF Counted, u, H

(* lru_insert_mru() adds the chunk's bytes to the hot half, whatever its   *)
(* cold flag said before.                                                  *)
LEMMA InsertCounted ==
    ASSUME NEW q, GoodQueue(q), NEW n, Counted(q, n), NEW c \in Chunk, c \notin Resident(q)
    PROVE  Counted(lru_insert_mru(q, c), n + Size[c])
<1> DEFINE v == lru_insert_mru(q, c)
           H == Resident(q) \ q.cold
<1>1. /\ Resident(v) = Resident(q) \cup {c} /\ v.cold = q.cold \ {c}
      /\ v.hot_bytes = q.hot_bytes + Size[c]
  BY InsertProperties DEF lru_insert_mru, lru_node_size
<1>2. /\ Resident(q) \in SUBSET Chunk /\ IsFiniteSet(Resident(q))
      /\ H \in SUBSET Chunk /\ IsFiniteSet(H)
  BY ResidentFinite, FS_Subset DEF GoodQueue
<1>3. Resident(v) \ v.cold = H \cup {c} /\ c \notin H
  BY <1>1
<1> HIDE DEF v, H
<1>4. SizeOf(Resident(q) \cup {c}) = SizeOf(Resident(q)) + Size[c]
  BY <1>2, SizeOfProperties
<1>5. SizeOf(H \cup {c}) = SizeOf(H) + Size[c]
  BY <1>2, <1>3, SizeOfProperties
<1> QED
  BY <1>1, <1>3, <1>4, <1>5 DEF Counted, v, H

(* lru_demote() moves the midpoint's bytes out of the hot half.            *)
LEMMA DemoteCounted ==
    ASSUME NEW q, GoodQueue(q), NEW n, Counted(q, n),
           q.midpoint \in Resident(q), q.midpoint \notin q.cold
    PROVE  Counted(lru_demote(q), n)
<1> DEFINE w == lru_demote(q)
           m == q.midpoint
           H == Resident(q) \ q.cold
<1>1. /\ Resident(w) = Resident(q) /\ w.cold = q.cold \cup {m}
      /\ w.hot_bytes = q.hot_bytes - Size[m]
  BY DemoteProperties DEF lru_demote, lru_node_size
<1>2. H \in SUBSET Chunk /\ IsFiniteSet(H) /\ m \in H
  BY ResidentFinite, FS_Subset DEF GoodQueue
<1>3. Resident(w) \ w.cold = H \ {m}
  BY <1>1
<1> HIDE DEF w, m, H
<1>4. SizeOf(H \ {m}) = SizeOf(H) - Size[m]
  BY <1>2, SizeOfProperties
<1> QED
  BY <1>1, <1>3, <1>4 DEF Counted, w, H

(* Every step that moves a chunk moves its bytes in both counters.         *)
LEMMA BytesNext == IInv /\ BytesExact /\ [Next]_vars => BytesExact'
<1> SUFFICES ASSUME IInv, Counted(queue, resident_bytes), [Next]_vars
             PROVE  Counted(queue', resident_bytes')
  BY DEF BytesExact, Counted, Resident
<1>q. GoodQueue(queue) /\ Resident(queue) = initialized /\ resident_bytes \in Int
  BY InvQueue DEF IInv, TypeOK
<1>c. \A c \in Chunk : Size[c] \in Int
  BY ChunkAssumption
<1>1. ASSUME NEW r \in Region, region_free(r) PROVE Counted(queue', resident_bytes')
  <2>1. /\ queue'.order = queue.order /\ queue'.cold = queue.cold \ ChunksOf(r)
        /\ queue'.hot_bytes = queue.hot_bytes /\ resident_bytes' = resident_bytes
    BY <1>1, <1>q DEF region_free, GoodQueue, QueueType
  <2>2. initialized \cap ChunksOf(r) = {}
    BY <1>1 DEF region_free, IInv, RegionsTakenApartLast, QueueHoldsInitialized, ChunksOf
  <2>3. Resident(queue') = Resident(queue)
    BY <2>1 DEF Resident
  <2>4. Resident(queue') \ queue'.cold = Resident(queue) \ queue.cold
    BY <2>1, <2>2, <2>3, <1>q
  <2> QED
    BY <2>1, <2>3, <2>4 DEF Counted
<1>2. CASE Fill
  <2>1. PICK c \in Missing(fault_page) : fill_chunk_locked(c)
    BY <1>2 DEF Fill
  <2>2. c \in Chunk /\ c \notin Resident(queue)
    BY <1>2, <1>q, PageGeometry DEF Fill, Missing, IInv, TypeOK
  <2>3. queue' = lru_insert_mru(queue, c) /\ resident_bytes' = resident_bytes + Size[c]
    BY <2>1, <2>2 DEF fill_chunk_locked
  <2> QED
    BY <2>2, <2>3, <1>q, InsertCounted
<1>3. CASE lru_promote
  <2> DEFINE c == Owner(fault_page)
             u == lru_unlink(queue, c)
  <2>1. /\ queue' = lru_insert_mru(u, c) /\ resident_bytes' = resident_bytes
        /\ pc = "resolve" /\ Missing(fault_page) = {}
    BY <1>3 DEF lru_promote
  <2>2. c \in Chunk /\ c \in Resident(queue)
    BY <2>1, <1>q, PageGeometry DEF Missing, IInv, TypeOK
  <2> HIDE DEF c
  <2>3. /\ GoodQueue(u) /\ c \notin Resident(u)
        /\ Counted(u, resident_bytes - Size[c])
    BY <2>2, <1>q, UnlinkProperties, UnlinkCounted
  <2> HIDE DEF u
  <2>4. Counted(lru_insert_mru(u, c), (resident_bytes - Size[c]) + Size[c])
    BY <2>2, <2>3, InsertCounted
  <2>5. (resident_bytes - Size[c]) + Size[c] = resident_bytes
    BY <2>2, <1>q, <1>c
  <2> QED
    BY <2>1, <2>4, <2>5
<1>4. CASE lru_evict_chunk
  <2> DEFINE v == Last(queue.order)
  <2>1. /\ queue.order # << >> /\ queue' = lru_unlink(queue, v)
        /\ resident_bytes' = resident_bytes - Size[v]
    BY <1>4 DEF lru_evict_chunk, CanEvict, Victim, lru_node_size
  <2>2. v \in Resident(queue) /\ v \in Chunk
    <3>1. queue.order \in Seq(Chunk)
      BY <1>q DEF GoodQueue, QueueType
    <3>2. Len(queue.order) \in 1 .. Len(queue.order) /\ v = queue.order[Len(queue.order)]
      BY <3>1, <2>1, SMT DEF Last
    <3> QED
      BY <3>1, <3>2 DEF Resident, ToSet
  <2> QED
    BY <2>1, <2>2, <1>q, UnlinkCounted
<1>5. CASE lru_rebalance
  <2>1. pc = "rebalance" /\ CanDemote /\ queue' = lru_demote(queue)
        /\ resident_bytes' = resident_bytes
    BY <1>5 DEF lru_rebalance
  <2> QED
    BY <2>1, <1>q, MidpointBehindMru, DemoteCounted
<1>6. CASE lru_forget_chunk
  <2>1. PICK c \in Resident(queue) \cap ChunksOf(dead_region) :
           queue' = lru_unlink(queue, c) /\ resident_bytes' = resident_bytes - Size[c]
    BY <1>6 DEF lru_forget_chunk, lru_node_size
  <2> QED
    BY <2>1, <1>q, UnlinkCounted DEF ChunksOf
<1>7. CASE UNCHANGED cache
  BY <1>7 DEF cache
<1> QED
  BY <1>1, <1>2, <1>3, <1>4, <1>5, <1>6, <1>7 DEF Next, LockHolder, vars, cache,
     fc_region_create, fc_region_destroy, Fault, EvictDone, Return, region_list_remove

(* In every pool resident_bytes and hot_bytes are always the total sizes   *)
(* of the resident and of the hot chunks, so that neither counter can      *)
(* drift or wrap below zero.                                               *)
THEOREM CountersExact == Spec => []BytesExact
<1>1. Init => BytesExact
  <2>1. ASSUME Init PROVE Resident(queue) = {}
    BY <2>1 DEF Init, Resident, ToSet
  <2>2. ASSUME Init PROVE Resident(queue) \ queue.cold = {}
    BY <2>1, <2>2
  <2>3. ASSUME Init PROVE resident_bytes = 0 /\ queue.hot_bytes = 0
    BY <2>3 DEF Init
  <2> QED
    BY <2>1, <2>2, <2>3, SizeOfEmpty DEF BytesExact
<1> QED
  BY <1>1, BytesNext, Invariant, PTL DEF Spec

=============================================================================
