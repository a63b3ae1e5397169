------------------------- MODULE PoolWindowsProofs --------------------------
(***************************************************************************)
(* Proofs about PoolWindows: for every geometry the Windows address space  *)
(* under a pool is what the pool believes, no kernel call on it fails, and *)
(* the debug reports agree with each other and with the queue.             *)
(***************************************************************************)
EXTENDS PoolWindows, PoolProofs

(* Every step of the pool on Windows is a step of the pool.                *)
LEMMA WindowsStep == [WindowsNext]_WindowsVars => [Next]_vars
  BY DEF WindowsNext, WindowsVars, CreateRegion, FreeRegion, FaultWithinBound,
         FillAndPublish, Promote, Evict, Demote, Forget, Finish, Next, LockHolder

(* The pool on Windows is a pool: whatever is proved of Pool holds here.   *)
THEOREM WindowsIsPool == WindowsSpec => Spec
<1>1. WindowsInit => Init
  BY DEF WindowsInit
<1> QED
  BY <1>1, WindowsStep, PTL DEF WindowsSpec, Spec

-----------------------------------------------------------------------------
(* The debug counters.                                                     *)

Counter == [resident_bytes : Int, resident_chunks : Int, fault_events_total : Nat,
            chunks_resolved : Nat, faults_handled : Nat]

\* The counters k of region r, when init is initialized[] and f the faults.
Agrees(k, r, init, f) ==
    /\ k.resident_chunks = Cardinality(init \cap ChunksOf(r))
    /\ k.resident_bytes = SizeOf(init \cap ChunksOf(r))
    /\ k.fault_events_total = Total(f, ChunksOf(r))
    /\ k.resident_chunks <= k.chunks_resolved
    /\ k.chunks_resolved <= k.fault_events_total
    /\ k.faults_handled <= k.fault_events_total

(* The counters of every region, in the list or not, are those of its      *)
(* chunks; and a fault that has been filled or promoted has had its event  *)
(* counted before it is counted as handled.                                *)
StatsInv ==
    /\ chunk_faults_total \in [Chunk -> Nat]
    /\ counters \in [Region -> Counter]
    /\ \A r \in Region : Agrees(counters[r], r, initialized, chunk_faults_total)
    /\ \A c \in initialized : chunk_faults_total[c] > 0
    /\ pc \in {"evict", "rebalance"} =>
         LET k == counters[RegionOfPage(fault_page)]
         IN  k.faults_handled < k.fault_events_total

\* The chunks of a region are finitely many.
LEMMA ChunksFinite ==
    ASSUME NEW r, NEW init \in SUBSET Chunk
    PROVE  /\ ChunksOf(r) \in SUBSET Chunk /\ IsFiniteSet(ChunksOf(r))
           /\ init \cap ChunksOf(r) \in SUBSET Chunk /\ IsFiniteSet(init \cap ChunksOf(r))
  BY EventsAssumption, FS_Subset DEF ChunksOf

(* A region none of whose chunks changes keeps its counters.               *)
LEMMA AgreesElsewhere ==
    ASSUME NEW k, NEW r, NEW init \in SUBSET Chunk, NEW f, Agrees(k, r, init, f),
           NEW init2, init2 \cap ChunksOf(r) = init \cap ChunksOf(r),
           NEW g, \A c \in ChunksOf(r) : g[c] = f[c]
    PROVE  Agrees(k, r, init2, g)
<1>1. Total(g, ChunksOf(r)) = Total(f, ChunksOf(r))
  BY ChunksFinite, TotalCongruent
<1> QED
  BY <1>1 DEF Agrees

(* A region without history: zero counters for no faults and no residents. *)
LEMMA AgreesZero ==
    ASSUME NEW r, NEW init \in SUBSET Chunk, init \cap ChunksOf(r) = {},
           NEW f, \A c \in ChunksOf(r) : f[c] = 0
    PROVE  Agrees(Zero, r, init, f)
<1>1. Total(f, ChunksOf(r)) = 0
  BY ChunksFinite, TotalZero
<1>2. SizeOf({}) = 0 /\ Cardinality({}) = 0
  BY FS_EmptySet, SizeOfEmpty
<1> QED
  BY <1>1, <1>2 DEF Agrees, Zero

(* The counters at fc_pool_create().                                       *)
LEMMA StatsInit == WindowsInit => StatsInv
<1> SUFFICES ASSUME WindowsInit PROVE StatsInv
  OBVIOUS
<1>1. /\ initialized = {} /\ pc = "idle"
      /\ chunk_faults_total = [c \in Chunk |-> 0]
      /\ counters = [r \in Region |-> Zero]
  BY DEF WindowsInit, Init
<1>2. \A r \in Region : Agrees(counters[r], r, initialized, chunk_faults_total)
  <2> TAKE r \in Region
  <2>1. \A c \in ChunksOf(r) : chunk_faults_total[c] = 0
    BY <1>1 DEF ChunksOf
  <2>2. counters[r] = Zero /\ initialized \in SUBSET Chunk /\ initialized \cap ChunksOf(r) = {}
    BY <1>1
  <2> QED
    BY <2>1, <2>2, AgreesZero
<1>3. counters \in [Region -> Counter]
  BY <1>1 DEF Zero, Counter
<1> QED
  BY <1>1, <1>2, <1>3 DEF StatsInv

(* A step that changes the counters, the faults and the residents of one   *)
(* region only.                                                            *)
LEMMA OneRegionCounted ==
    ASSUME StatsInv, NEW R \in Region, NEW l \in Counter, initialized \in SUBSET Chunk,
           counters' = [counters EXCEPT ![R] = l],
           Agrees(l, R, initialized', chunk_faults_total'),
           \A c \in Chunk \ ChunksOf(R) :
               /\ chunk_faults_total'[c] = chunk_faults_total[c]
               /\ c \in initialized' <=> c \in initialized
    PROVE  /\ counters' \in [Region -> Counter] /\ counters'[R] = l
           /\ \A r \in Region : Agrees(counters'[r], r, initialized', chunk_faults_total')
<1>1. /\ counters \in [Region -> Counter] /\ counters'[R] = l
      /\ \A r \in Region \ {R} : counters'[r] = counters[r]
  BY DEF StatsInv
<1>2. ASSUME NEW r \in Region \ {R} PROVE Agrees(counters[r], r, initialized', chunk_faults_total')
  <2>1. ChunksOf(r) \subseteq Chunk \ ChunksOf(R)
    BY <1>2 DEF ChunksOf
  <2>2. initialized' \cap ChunksOf(r) = initialized \cap ChunksOf(r)
    BY <2>1
  <2>3. \A d \in ChunksOf(r) : chunk_faults_total'[d] = chunk_faults_total[d]
    BY <2>1
  <2>4. Agrees(counters[r], r, initialized, chunk_faults_total)
    BY DEF StatsInv
  <2> QED
    BY <2>2, <2>3, <2>4, AgreesElsewhere
<1> QED
  BY <1>1, <1>2

(* fill_chunk_locked() counts the chunk in its region and nowhere else.    *)
LEMMA FillCounted ==
    ASSUME IInv, StatsInv, NEW c \in Chunk, c \notin initialized, CountFill(c),
           initialized' = initialized \cup {c}
    PROVE  /\ chunk_faults_total' \in [Chunk -> Nat]
           /\ counters' \in [Region -> Counter]
           /\ \A r \in Region : Agrees(counters'[r], r, initialized', chunk_faults_total')
           /\ \A d \in initialized' : chunk_faults_total'[d] > 0
           /\ LET k == counters'[RegionOf[c]] IN k.faults_handled < k.fault_events_total
<1> DEFINE R == RegionOf[c]
<1>t. /\ chunk_faults_total \in [Chunk -> Nat] /\ counters \in [Region -> Counter]
      /\ R \in Region /\ Size[c] \in Int /\ initialized \in SUBSET Chunk
  BY ChunkAssumption DEF StatsInv, IInv, TypeOK
<1>f. /\ chunk_faults_total' \in [Chunk -> Nat]
      /\ chunk_faults_total'[c] = chunk_faults_total[c] + 1
      /\ \A d \in Chunk \ {c} : chunk_faults_total'[d] = chunk_faults_total[d]
  BY <1>t DEF CountFill
<1> DEFINE k == counters[R]
           l == [resident_bytes |-> k.resident_bytes + Size[c], resident_chunks |-> k.resident_chunks + 1,
                 fault_events_total |-> k.fault_events_total + 1,
                 chunks_resolved |-> k.chunks_resolved + 1, faults_handled |-> k.faults_handled]
<1>k. k \in Counter
  BY <1>t
<1>c. counters' = [counters EXCEPT ![R] = l]
  BY <1>t DEF CountFill, Filled
<1>a. Agrees(k, R, initialized, chunk_faults_total)
  BY <1>t DEF StatsInv
<1> HIDE DEF R, k
<1>n. /\ k.resident_chunks \in Int /\ k.resident_bytes \in Int
      /\ k.fault_events_total \in Nat /\ k.chunks_resolved \in Nat /\ k.faults_handled \in Nat
  BY <1>k DEF Counter
<1>l. /\ l \in Counter
      /\ l.resident_chunks = k.resident_chunks + 1 /\ l.resident_bytes = k.resident_bytes + Size[c]
      /\ l.fault_events_total = k.fault_events_total + 1
      /\ l.chunks_resolved = k.chunks_resolved + 1 /\ l.faults_handled = k.faults_handled
  BY <1>n, <1>t DEF Counter
<1> HIDE DEF l
<1>2. Agrees(l, R, initialized', chunk_faults_total')
  <2> DEFINE S == initialized \cap ChunksOf(R)
  <2>0. /\ S \in SUBSET Chunk /\ IsFiniteSet(S)
        /\ ChunksOf(R) \in SUBSET Chunk /\ IsFiniteSet(ChunksOf(R))
    BY <1>t, ChunksFinite
  <2>1. c \in ChunksOf(R) /\ c \notin S /\ initialized' \cap ChunksOf(R) = S \cup {c}
    BY DEF ChunksOf, R
  <2> HIDE DEF S
  <2>2. Cardinality(S \cup {c}) = Cardinality(S) + 1 /\ SizeOf(S \cup {c}) = SizeOf(S) + Size[c]
    BY <2>0, <2>1, FS_AddElement, SizeOfProperties
  <2>3. Total(chunk_faults_total', ChunksOf(R)) = Total(chunk_faults_total, ChunksOf(R)) + 1
    BY <1>t, <1>f, <2>0, <2>1, TotalBump
  <2> QED
    BY <1>a, <1>l, <1>n, <2>1, <2>2, <2>3 DEF Agrees, S
<1>3. \A d \in Chunk \ ChunksOf(R) :
          /\ chunk_faults_total'[d] = chunk_faults_total[d]
          /\ d \in initialized' <=> d \in initialized
  BY <1>f DEF ChunksOf, R
<1>4. \A d \in initialized' : chunk_faults_total'[d] > 0
  BY <1>t, <1>f DEF StatsInv
<1>5. l.faults_handled < l.fault_events_total
  BY <1>a, <1>l, <1>n DEF Agrees
<1> QED
  BY <1>f, <1>t, <1>c, <1>l, <1>2, <1>3, <1>4, <1>5, OneRegionCounted DEF R

(* A promotion is one more event of the chunk and of its region.           *)
LEMMA PromotionCounted ==
    ASSUME IInv, StatsInv, NEW c \in Chunk, CountPromotion(c), initialized' = initialized
    PROVE  /\ chunk_faults_total' \in [Chunk -> Nat]
           /\ counters' \in [Region -> Counter]
           /\ \A r \in Region : Agrees(counters'[r], r, initialized', chunk_faults_total')
           /\ \A d \in initialized' : chunk_faults_total'[d] > 0
           /\ LET k == counters'[RegionOf[c]] IN k.faults_handled < k.fault_events_total
<1> DEFINE R == RegionOf[c]
<1>t. /\ chunk_faults_total \in [Chunk -> Nat] /\ counters \in [Region -> Counter]
      /\ R \in Region /\ initialized \in SUBSET Chunk
  BY ChunkAssumption DEF StatsInv, IInv, TypeOK
<1>f. /\ chunk_faults_total' \in [Chunk -> Nat]
      /\ chunk_faults_total'[c] = chunk_faults_total[c] + 1
      /\ \A d \in Chunk \ {c} : chunk_faults_total'[d] = chunk_faults_total[d]
  BY <1>t DEF CountPromotion
<1> DEFINE k == counters[R]
           l == [k EXCEPT !.fault_events_total = @ + 1]
<1>c. counters' = [counters EXCEPT ![R] = l]
  BY <1>t DEF CountPromotion, Counter
<1>k. k \in Counter
  BY <1>t
<1>a. Agrees(k, R, initialized, chunk_faults_total)
  BY <1>t DEF StatsInv
<1> HIDE DEF R, k
<1>l. /\ l \in Counter
      /\ l.resident_chunks = k.resident_chunks /\ l.resident_bytes = k.resident_bytes
      /\ l.fault_events_total = k.fault_events_total + 1
      /\ l.chunks_resolved = k.chunks_resolved /\ l.faults_handled = k.faults_handled
  BY <1>k, <1>t DEF Counter
<1>n. /\ k.fault_events_total \in Int /\ k.chunks_resolved \in Int /\ k.faults_handled \in Int
  BY <1>k DEF Counter
<1> HIDE DEF l
<1>2. Agrees(l, R, initialized', chunk_faults_total')
  <2>1. c \in ChunksOf(R) /\ ChunksOf(R) \in SUBSET Chunk /\ IsFiniteSet(ChunksOf(R))
    BY <1>t, ChunksFinite DEF ChunksOf, R
  <2>2. Total(chunk_faults_total', ChunksOf(R)) = Total(chunk_faults_total, ChunksOf(R)) + 1
    BY <1>t, <1>f, <2>1, TotalBump
  <2> QED
    BY <1>a, <1>l, <1>n, <2>2 DEF Agrees
<1>3. \A d \in Chunk \ ChunksOf(R) : chunk_faults_total'[d] = chunk_faults_total[d]
  BY <1>f DEF ChunksOf, R
<1>4. \A d \in initialized' : chunk_faults_total'[d] > 0
  BY <1>t, <1>f DEF StatsInv
<1>5. l.faults_handled < l.fault_events_total
  BY <1>a, <1>l, <1>n DEF Agrees
<1> QED
  BY <1>f, <1>t, <1>c, <1>l, <1>2, <1>3, <1>4, <1>5, OneRegionCounted DEF R

(* lru_forget_chunk() takes the chunk out of its region's residents and    *)
(* leaves the history.                                                     *)
LEMMA ForgetCounted ==
    ASSUME IInv, StatsInv, NEW c \in initialized, CountForget(c),
           initialized' = initialized \ {c}
    PROVE  /\ counters' \in [Region -> Counter]
           /\ \A r \in Region : Agrees(counters'[r], r, initialized', chunk_faults_total')
           /\ \A r \in Region :
                /\ counters'[r].faults_handled = counters[r].faults_handled
                /\ counters'[r].fault_events_total = counters[r].fault_events_total
<1> DEFINE R == RegionOf[c]
<1>t. /\ counters \in [Region -> Counter]
      /\ c \in Chunk /\ R \in Region /\ Size[c] \in Int /\ initialized \in SUBSET Chunk
  BY ChunkAssumption DEF StatsInv, IInv, TypeOK
<1>f. chunk_faults_total' = chunk_faults_total
  BY DEF CountForget
<1> DEFINE k == counters[R]
           l == [resident_bytes |-> k.resident_bytes - Size[c], resident_chunks |-> k.resident_chunks - 1,
                 fault_events_total |-> k.fault_events_total,
                 chunks_resolved |-> k.chunks_resolved, faults_handled |-> k.faults_handled]
<1>k. k \in Counter
  BY <1>t
<1>c. counters' = [counters EXCEPT ![R] = l]
  BY <1>t DEF CountForget, Forgotten, lru_node_size
<1>a. Agrees(k, R, initialized, chunk_faults_total)
  BY <1>t DEF StatsInv
<1> HIDE DEF R, k
<1>n. /\ k.resident_chunks \in Int /\ k.resident_bytes \in Int
      /\ k.fault_events_total \in Nat /\ k.chunks_resolved \in Nat /\ k.faults_handled \in Nat
  BY <1>k DEF Counter
<1>l. /\ l \in Counter
      /\ l.resident_chunks = k.resident_chunks - 1 /\ l.resident_bytes = k.resident_bytes - Size[c]
      /\ l.fault_events_total = k.fault_events_total
      /\ l.chunks_resolved = k.chunks_resolved /\ l.faults_handled = k.faults_handled
  BY <1>n, <1>t DEF Counter
<1> HIDE DEF l
<1>2. Agrees(l, R, initialized', chunk_faults_total')
  <2> DEFINE S == initialized \cap ChunksOf(R)
  <2>0. S \in SUBSET Chunk /\ IsFiniteSet(S)
    BY <1>t, ChunksFinite
  <2>1. c \in S /\ initialized' \cap ChunksOf(R) = S \ {c}
    BY <1>t DEF ChunksOf, R
  <2> HIDE DEF S
  <2>2. Cardinality(S \ {c}) = Cardinality(S) - 1 /\ SizeOf(S \ {c}) = SizeOf(S) - Size[c]
    BY <2>0, <2>1, FS_RemoveElement, SizeOfProperties
  <2> QED
    BY <1>a, <1>f, <1>l, <1>n, <2>1, <2>2 DEF Agrees, S
<1>3. \A d \in Chunk \ ChunksOf(R) :
          /\ chunk_faults_total'[d] = chunk_faults_total[d]
          /\ d \in initialized' <=> d \in initialized
  BY <1>f, <1>t DEF ChunksOf, R
<1>4. ASSUME NEW r \in Region
      PROVE  /\ counters'[r].faults_handled = counters[r].faults_handled
             /\ counters'[r].fault_events_total = counters[r].fault_events_total
  <2>1. counters'[r] = IF r = R THEN l ELSE counters[r]
    BY <1>t, <1>c
  <2> QED
    BY <2>1, <1>l DEF k
<1> QED
  BY <1>t, <1>c, <1>l, <1>2, <1>3, <1>4, OneRegionCounted

(* A region created or released starts from zero, with no chunk resident.  *)
LEMMA ResetCounted ==
    ASSUME IInv, StatsInv, NEW r \in Region, r \notin live, lru_init(r),
           initialized' = initialized
    PROVE  /\ chunk_faults_total' \in [Chunk -> Nat]
           /\ counters' \in [Region -> Counter]
           /\ \A s \in Region : Agrees(counters'[s], s, initialized', chunk_faults_total')
           /\ \A d \in initialized' : chunk_faults_total'[d] > 0
           /\ \A s \in Region \ {r} : counters'[s] = counters[s]
<1>t. /\ chunk_faults_total \in [Chunk -> Nat] /\ counters \in [Region -> Counter]
      /\ initialized \in SUBSET Chunk
  BY DEF StatsInv, IInv, TypeOK
<1>f. /\ chunk_faults_total' \in [Chunk -> Nat]
      /\ \A d \in Chunk : chunk_faults_total'[d] = IF d \in ChunksOf(r) THEN 0
                                                   ELSE chunk_faults_total[d]
  BY <1>t DEF lru_init, ChunksOf
<1>c. counters' = [counters EXCEPT ![r] = Zero] /\ Zero \in Counter
  BY DEF lru_init, Zero, Counter
<1>i. initialized \cap ChunksOf(r) = {}
  BY DEF IInv, QueueHoldsInitialized, ChunksOf
<1>1. Agrees(Zero, r, initialized', chunk_faults_total')
  <2>1. \A d \in ChunksOf(r) : chunk_faults_total'[d] = 0
    BY <1>f DEF ChunksOf
  <2> QED
    BY <1>t, <1>i, <2>1, AgreesZero
<1>2. \A d \in Chunk \ ChunksOf(r) : chunk_faults_total'[d] = chunk_faults_total[d]
  BY <1>f
<1>3. \A d \in initialized' : chunk_faults_total'[d] > 0
  BY <1>t, <1>f, <1>i DEF StatsInv
<1>4. \A s \in Region \ {r} : counters'[s] = counters[s]
  BY <1>t, <1>c
<1> QED
  BY <1>t, <1>f, <1>c, <1>1, <1>2, <1>3, <1>4, OneRegionCounted

(* The fault is counted as handled when the lock is released.              *)
LEMMA ReturnCounted ==
    ASSUME IInv, StatsInv, NEW r \in Region, CountReturn(r), initialized' = initialized,
           counters[r].faults_handled < counters[r].fault_events_total
    PROVE  /\ counters' \in [Region -> Counter]
           /\ \A s \in Region : Agrees(counters'[s], s, initialized', chunk_faults_total')
<1>t. /\ counters \in [Region -> Counter] /\ initialized \in SUBSET Chunk
      /\ chunk_faults_total' = chunk_faults_total
  BY DEF StatsInv, IInv, TypeOK, CountReturn
<1> DEFINE k == counters[r]
           l == [k EXCEPT !.faults_handled = @ + 1]
<1>c. counters' = [counters EXCEPT ![r] = l]
  BY <1>t DEF CountReturn, Counter
<1>k. k \in Counter /\ k.faults_handled < k.fault_events_total
  BY <1>t
<1>a. Agrees(k, r, initialized, chunk_faults_total)
  BY <1>t DEF StatsInv
<1> HIDE DEF k
<1>l. /\ l \in Counter
      /\ l.resident_chunks = k.resident_chunks /\ l.resident_bytes = k.resident_bytes
      /\ l.fault_events_total = k.fault_events_total
      /\ l.chunks_resolved = k.chunks_resolved /\ l.faults_handled = k.faults_handled + 1
      /\ k.faults_handled \in Int /\ k.fault_events_total \in Int
  BY <1>k DEF Counter
<1> HIDE DEF l
<1>1. Agrees(l, r, initialized', chunk_faults_total')
  BY <1>a, <1>k, <1>l, <1>t DEF Agrees
<1> QED
  BY <1>t, <1>c, <1>l, <1>1, OneRegionCounted

(* The tail of the queue is an initialized chunk.                          *)
LEMMA VictimInitialized ==
    ASSUME IInv, queue.order # << >>
    PROVE  Victim \in initialized
<1>1. queue.order \in Seq(Chunk)
  BY DEF IInv, TypeOK, QueueType
<1>2. Len(queue.order) \in 1 .. Len(queue.order) /\ Victim = queue.order[Len(queue.order)]
  BY <1>1, SMT DEF Last, Victim
<1> QED
  BY <1>1, <1>2, InvQueue DEF Resident, ToSet

(* Every step keeps the counters.                                          *)
LEMMA StatsNext == IInv /\ StatsInv /\ [WindowsNext]_WindowsVars => StatsInv'
<1> SUFFICES ASSUME IInv, StatsInv, [WindowsNext]_WindowsVars PROVE StatsInv'
  OBVIOUS
<1> DEFINE Served == LET k == counters[RegionOfPage(fault_page)]
                     IN  k.faults_handled < k.fault_events_total
<1>p. ASSUME pc \in {"resolve", "evict", "rebalance"}
      PROVE  fault_page \in Page /\ RegionOfPage(fault_page) \in live \cap Region
  BY <1>p DEF IInv, TypeOK, RegionsTakenApartLast
<1>1. ASSUME NEW r \in Region, CreateRegion(r) \/ FreeRegion(r) PROVE StatsInv'
  <2>1. /\ r \notin live /\ lru_init(r) /\ UNCHANGED <<initialized, pc, fault_page>>
    BY <1>1 DEF CreateRegion, FreeRegion, fc_region_create, region_free, cache, job,
                IInv, RegionsTakenApartLast
  <2>2. pc \in {"evict", "rebalance"} => Served'
    <3> SUFFICES ASSUME pc \in {"evict", "rebalance"} PROVE Served'
      OBVIOUS
    <3>1. RegionOfPage(fault_page) \in Region \ {r}
      BY <1>p, <2>1
    <3> QED
      BY <2>1, <3>1, ResetCounted DEF StatsInv
  <2> QED
    BY <2>1, <2>2, ResetCounted DEF StatsInv
<1>2. CASE FillAndPublish
  <2>1. PICK c \in Missing(fault_page) : fill_chunk_locked(c)
    BY <1>2 DEF FillAndPublish, Fill
  <2>2. /\ pc = "resolve" /\ fault_page' = fault_page /\ fault_page \in Page
        /\ c \in Chunk /\ c \notin initialized /\ initialized' = initialized \cup {c}
        /\ RegionOf[c] = RegionOfPage(fault_page)
    BY <1>2, <2>1, <1>p, PageGeometry DEF FillAndPublish, Fill, Missing, fill_chunk_locked
  <2>3. CountFill(c)
    BY <1>2, <2>2 DEF FillAndPublish
  <2> QED
    BY <2>2, <2>3, FillCounted DEF StatsInv
<1>3. CASE Promote
  <2> DEFINE c == Owner(fault_page)
  <2>1. /\ pc = "resolve" /\ UNCHANGED <<fault_page, initialized>> /\ CountPromotion(c)
    BY <1>3 DEF Promote, lru_promote
  <2>2. c \in Chunk /\ RegionOf[c] = RegionOfPage(fault_page)
    BY <1>p, <2>1, PageGeometry DEF RegionOfPage
  <2> HIDE DEF c
  <2> QED
    BY <2>1, <2>2, PromotionCounted DEF StatsInv
<1>4. CASE Evict
  <2>1. /\ pc = "evict" /\ UNCHANGED <<pc, fault_page>> /\ CountForget(Victim)
        /\ initialized' = initialized \ {Victim} /\ queue.order # << >>
    BY <1>4 DEF Evict, lru_evict_chunk, job, CanEvict
  <2>2. Victim \in initialized
    BY <2>1, VictimInitialized
  <2>3. chunk_faults_total' = chunk_faults_total
    BY <2>1 DEF CountForget
  <2> QED
    BY <2>1, <2>2, <2>3, <1>p, ForgetCounted DEF StatsInv
<1>5. CASE Forget
  <2>1. PICK c \in initialized \ initialized' : CountForget(c)
    BY <1>5 DEF Forget
  <2>2. pc = "forget" /\ pc' = pc /\ initialized' = initialized \ {c}
    BY <1>5, <2>1 DEF Forget, lru_forget_chunk, job
  <2>3. chunk_faults_total' = chunk_faults_total
    BY <2>1 DEF CountForget
  <2> QED
    BY <2>1, <2>2, <2>3, ForgetCounted DEF StatsInv
<1>6. CASE Finish
  <2>1. /\ pc = "rebalance" /\ pc' = "idle" /\ initialized' = initialized
        /\ CountReturn(RegionOfPage(fault_page))
    BY <1>6 DEF Finish, Return, cache
  <2>2. Served /\ RegionOfPage(fault_page) \in Region /\ chunk_faults_total' = chunk_faults_total
    BY <2>1, <1>p DEF StatsInv, CountReturn
  <2> QED
    BY <2>1, <2>2, ReturnCounted DEF StatsInv
<1>7. ASSUME UNCHANGED <<stats, initialized>>,
             pc' \in {"evict", "rebalance"} =>
                 pc \in {"evict", "rebalance"} /\ fault_page' = fault_page
      PROVE  StatsInv'
  BY <1>7 DEF StatsInv, stats
<1>8. CASE Demote
  BY <1>7, <1>8 DEF Demote, lru_rebalance, job
<1>9. ASSUME NEW p \in Page, FaultWithinBound(p) PROVE StatsInv'
  BY <1>7, <1>9 DEF FaultWithinBound, Fault, cache
<1>10. CASE /\ EvictDone \/ region_list_remove \/ \E r \in Region : fc_region_destroy(r)
            /\ UNCHANGED <<win, stats>>
  BY <1>7, <1>10 DEF EvictDone, region_list_remove, fc_region_destroy, cache
<1>11. CASE UNCHANGED WindowsVars
  BY <1>7, <1>11 DEF WindowsVars, vars, cache, job
<1> QED
  BY <1>1, <1>2, <1>3, <1>4, <1>5, <1>6, <1>8, <1>9, <1>10, <1>11 DEF WindowsNext

(* The sums the reports are compared with, field by field.                 *)
LEMMA SizesTotal ==
    ASSUME NEW h, NEW f, NEW S, IsFiniteSet(S), \A c \in S : h[c].size = f[c]
    PROVE  MapThenSumSet(LAMBDA c : h[c].size, S) = Total(f, S)
<1> DEFINE P(g) == g = [s \in SUBSET S |->
                           IF s = {} THEN 0 ELSE h[Picked(s)].size + g[s \ {Picked(s)}]]
           G == CHOOSE g : P(g)
<1>1. MapThenSumSet(LAMBDA c : h[c].size, S) = G[S]
  BY DEF MapThenSumSet, MapThenFoldSet, Picked
<1>2. ASSUME NEW g PROVE P(g) <=> Summing(f, SUBSET S, g)
  <2>1. \A s \in SUBSET S : s # {} => h[Picked(s)].size = f[Picked(s)]
    BY DEF Picked
  <2> QED
    BY <2>1 DEF Summing
<1> HIDE DEF P
<1>3. \E g : P(g)
  BY <1>2, SummingExists
<1>4. P(G)
  BY <1>3
<1> HIDE DEF G
<1> QED
  BY <1>1, <1>2, <1>4, SummingIsTotal

(* The same for the faults of each chunk.                                  *)
LEMMA FaultsTotal ==
    ASSUME NEW h, NEW f, NEW S, IsFiniteSet(S), \A c \in S : h[c].faults_total = f[c]
    PROVE  MapThenSumSet(LAMBDA c : h[c].faults_total, S) = Total(f, S)
<1> DEFINE P(g) == g = [s \in SUBSET S |->
                           IF s = {} THEN 0 ELSE h[Picked(s)].faults_total + g[s \ {Picked(s)}]]
           G == CHOOSE g : P(g)
<1>1. MapThenSumSet(LAMBDA c : h[c].faults_total, S) = G[S]
  BY DEF MapThenSumSet, MapThenFoldSet, Picked
<1>2. ASSUME NEW g PROVE P(g) <=> Summing(f, SUBSET S, g)
  <2>1. \A s \in SUBSET S : s # {} => h[Picked(s)].faults_total = f[Picked(s)]
    BY DEF Picked
  <2> QED
    BY <2>1 DEF Summing
<1> HIDE DEF P
<1>3. \E g : P(g)
  BY <1>2, SummingExists
<1>4. P(G)
  BY <1>3
<1> HIDE DEF G
<1> QED
  BY <1>1, <1>2, <1>4, SummingIsTotal

(* The queue is no longer than there are chunks.                           *)
LEMMA QueueLength ==
    ASSUME IInv
    PROVE  Len(queue.order) \in Nat /\ Len(queue.order) <= Cardinality(Chunk)
<1>1. queue.order \in Seq(Chunk) /\ NoDuplicates(queue)
  BY DEF IInv, TypeOK, QueueType, QueueHoldsInitialized
<1>2. Len(queue.order) \in Nat /\ IsFiniteSet(1 .. Len(queue.order))
      /\ Cardinality(1 .. Len(queue.order)) = Len(queue.order)
  BY <1>1, FS_Interval
<1>3. queue.order \in Injection(1 .. Len(queue.order), Chunk)
  BY <1>1 DEF NoDuplicates, Injection, IsInjective
<1>4. Cardinality(1 .. Len(queue.order)) <= Cardinality(Chunk)
  BY <1>3, EventsAssumption, FS_Injection
<1> QED
  BY <1>2, <1>4

(* The report of the queue lists it whole.                                 *)
LEMMA QueueListed ==
    ASSUME IInv
    PROVE  LET listed == fc_pool_debug_lru_queue(Cardinality(Chunk))
           IN  /\ listed.out_count = Len(listed.entries)
               /\ {listed.entries[i].chunk : i \in DOMAIN listed.entries} = initialized
<1> DEFINE n == Len(queue.order)
           N == Cardinality(Chunk)
           listed == fc_pool_debug_lru_queue(N)
           e == [i \in 1 .. n |-> [chunk |-> queue.order[i], size |-> Size[queue.order[i]],
                                   faults_total |-> chunk_faults_total[queue.order[i]]]]
<1>1. n \in Nat /\ N \in Nat /\ n <= N
  BY QueueLength, EventsAssumption, FS_CardinalityType
<1>2. queue.order \in Seq(Chunk) /\ DOMAIN queue.order = 1 .. n
  BY DEF IInv, TypeOK, QueueType
<1> HIDE DEF n, N
<1>3. Min({N, n}) = n
  BY <1>1 DEF Min
<1>4. listed.out_count = n /\ listed.entries = e
  BY <1>3 DEF fc_pool_debug_lru_queue, n
<1> HIDE DEF listed
<1>5. Len(e) = n /\ DOMAIN e = 1 .. n
  BY <1>1
<1>6. {e[i].chunk : i \in 1 .. n} = {queue.order[i] : i \in 1 .. n}
  OBVIOUS
<1>7. {queue.order[i] : i \in 1 .. n} = initialized
  BY <1>2, InvQueue DEF Resident, ToSet
<1> HIDE DEF e
<1> QED
  BY <1>4, <1>5, <1>6, <1>7 DEF listed, N

-----------------------------------------------------------------------------
(* The address space.  The pool publishes, protects and decommits in units *)
(* that never change: a shared page, or all the pages a chunk has alone.   *)

Unit == {{p} : p \in SharedPage} \cup ({exclusive_pages(c) : c \in Chunk} \ {{}})

WinType == [placeholders : SUBSET (SUBSET Page), views : SUBSET (SUBSET Page),
            readable : SUBSET Page, sections : SUBSET Page, failed : BOOLEAN]

(* The pieces of an address space w that reserves the pages E and backs    *)
(* the pages B: each view is one unit, the placeholders tile the rest, and *)
(* no unit is ever cut by the edge of a placeholder -- which is what makes *)
(* the range of the next call a part of one piece.                         *)
Tiled(w, B, E) ==
    /\ w \in WinType /\ w.failed = FALSE
    /\ w.views \subseteq Unit
    /\ UNION w.views = B /\ B \subseteq E
    /\ UNION w.placeholders = E \ B
    /\ \A v, x \in w.placeholders : v = x \/ v \cap x = {}
    /\ \A v \in w.placeholders : \A u \in Unit : u \subseteq v \/ u \cap v = {}
    /\ \A v \in w.placeholders : \A p, q \in v : RegionOfPage(p) = RegionOfPage(q)

(* A range of pages has a first one.                                       *)
LEMMA FirstPageProperties ==
    ASSUME NEW S \in SUBSET Page, S # {}
    PROVE  FirstPage(S) \in S /\ \A q \in S : Offset[FirstPage(S)] <= Offset[q]
<1> DEFINE T == {Offset[p] : p \in S}
<1>1. T \in SUBSET Nat /\ T # {}
  BY OffsetAssumption
<1>2. PICK n \in T : \A m \in T : n <= m
  BY <1>1, NatMinimum
<1>3. PICK p \in S : \A q \in S : Offset[p] <= Offset[q]
  BY <1>2
<1> QED
  BY <1>3 DEF FirstPage

(* Units are whole, disjoint, in one region and contiguous there.          *)
LEMMA UnitGeometry ==
    /\ \A u \in Unit : u # {} /\ u \subseteq Page
    /\ \A u, v \in Unit : u = v \/ u \cap v = {}
    /\ \A u \in Unit : \A p, q \in u : RegionOfPage(p) = RegionOfPage(q)
    /\ \A u \in Unit : \A p, q \in u : \A s \in Page :
         /\ RegionOfPage(s) = RegionOfPage(p)
         /\ Offset[p] <= Offset[s] /\ Offset[s] <= Offset[q]
         => s \in u
<1>1. ASSUME NEW u \in Unit
      PROVE  \/ \E p \in SharedPage : u = {p}
             \/ \E c \in Chunk : u = exclusive_pages(c) /\ u # {}
  BY DEF Unit
<1>2. ASSUME NEW c \in Chunk, NEW p \in exclusive_pages(c)
      PROVE  p \in Page /\ p \notin SharedPage /\ Owner(p) = c /\ Contributors[p] = {c}
             /\ RegionOfPage(p) = RegionOf[c]
  <2>1. p \in Page /\ Contributors[p] = {c}
    BY DEF exclusive_pages
  <2> QED
    BY <2>1, PageGeometry DEF RegionOfPage
<1>3. SharedPage \subseteq Page
  BY DEF SharedPage
<1>4. \A u \in Unit : u # {} /\ u \subseteq Page
  BY <1>1, <1>2, <1>3
<1>5. \A u, v \in Unit : u = v \/ u \cap v = {}
  <2> SUFFICES ASSUME NEW u \in Unit, NEW v \in Unit, NEW p \in u \cap v PROVE u = v
    OBVIOUS
  <2>1. CASE p \in SharedPage
    <3>1. \A x \in Unit : p \in x => x = {p}
      BY <2>1, <1>1, <1>2
    <3> QED
      BY <3>1
  <2>2. CASE p \notin SharedPage
    <3>1. \E c \in Chunk : u = exclusive_pages(c)
      BY <2>2, <1>1
    <3>2. \E c \in Chunk : v = exclusive_pages(c)
      BY <2>2, <1>1
    <3> QED
      BY <3>1, <3>2, <1>2
  <2> QED
    BY <2>1, <2>2
<1>6. \A u \in Unit : \A p, q \in u : RegionOfPage(p) = RegionOfPage(q)
  BY <1>1, <1>2
<1>7. ASSUME NEW u \in Unit, NEW p \in u, NEW q \in u, NEW s \in Page,
             RegionOfPage(s) = RegionOfPage(p), Offset[p] <= Offset[s], Offset[s] <= Offset[q]
      PROVE  s \in u
  <2>0. p \in Page /\ q \in Page
    BY <1>4
  <2>1. CASE \E x \in SharedPage : u = {x}
    <3>1. p = q /\ Offset[p] \in Nat /\ Offset[s] \in Nat
      BY <2>0, <2>1, OffsetAssumption
    <3>2. Offset[s] = Offset[p]
      BY <3>1, <1>7
    <3> QED
      BY <2>0, <3>2, <1>7, OffsetAssumption
  <2>2. CASE \E c \in Chunk : u = exclusive_pages(c)
    <3>1. PICK c \in Chunk : u = exclusive_pages(c)
      BY <2>2
    <3>2. p \notin SharedPage /\ Contributors[p] = {c} /\ Contributors[q] = {c}
      BY <3>1, <1>2
    <3>3. Contributors[s] = {c}
      BY <2>0, <3>2, <1>7, OffsetAssumption
    <3> QED
      BY <3>1, <3>3 DEF exclusive_pages
  <2> QED
    BY <2>1, <2>2, <1>1
<1> QED
  BY <1>4, <1>5, <1>6, <1>7

(* The piece at a page that is reserved and not backed is the placeholder  *)
(* that holds its whole unit.                                              *)
LEMMA PieceOfUnit ==
    ASSUME NEW w, NEW B, NEW E, Tiled(w, B, E), NEW S \in Unit, S \subseteq E \ B,
           NEW a \in S
    PROVE  /\ PieceAt(w, a) \in w.placeholders /\ S \subseteq PieceAt(w, a)
<1>1. PICK v \in w.placeholders : a \in v
  BY DEF Tiled
<1>2. \A x \in w.placeholders \cup w.views : a \in x => x = v
  BY <1>1 DEF Tiled
<1>3. {x \in w.placeholders \cup w.views : a \in x} = {v}
  BY <1>1, <1>2
<1>4. PieceAt(w, a) = v
  BY <1>3 DEF PieceAt
<1>5. S \subseteq v
  BY <1>1 DEF Tiled
<1> QED
  BY <1>1, <1>4, <1>5

(* MapViewOfFile3() on a placeholder that is there.                        *)
LEMMA MapViewFields ==
    ASSUME NEW w \in WinType, NEW S \in SUBSET Page
    PROVE  LET x == MapView(w, S)
           IN  /\ x \in WinType
               /\ x.placeholders = w.placeholders \ {S} /\ x.views = w.views \cup {S}
               /\ x.readable = w.readable \cup S /\ x.sections = w.sections
               /\ S \in w.placeholders => x.failed = w.failed
  BY DEF MapView, WinType

(* vm_scratch_publish() of a unit that is reserved and not backed: whether *)
(* the placeholder is split first or replaced whole, no call fails and the *)
(* pieces still tile the reservation.                                      *)
LEMMA PublishUnit ==
    ASSUME NEW w, NEW B, NEW E, Tiled(w, B, E), NEW S \in Unit, S \subseteq E \ B
    PROVE  /\ Tiled(vm_scratch_publish(w, S), B \cup S, E)
           /\ vm_scratch_publish(w, S).readable = w.readable \cup S
           /\ vm_scratch_publish(w, S).sections = w.sections
<1> DEFINE a == FirstPage(S)
           v == PieceAt(w, a)
           before == {p \in v \ S : Offset[p] < Offset[a]}
           after == v \ (S \cup before)
           P == IF S = v THEN w.placeholders \ {S}
                ELSE (w.placeholders \ {v}) \cup ({before, after} \ {{}})
           x == vm_scratch_publish(w, S)
<1>s. S # {} /\ S \subseteq Page
  BY UnitGeometry
<1>a. a \in S /\ \A q \in S : Offset[a] <= Offset[q]
  BY <1>s, FirstPageProperties
<1> HIDE DEF a
<1>v. v \in w.placeholders /\ S \subseteq v
  BY <1>a, PieceOfUnit
<1>t. /\ w \in WinType /\ w.failed = FALSE /\ w.views \subseteq Unit
      /\ UNION w.views = B /\ B \subseteq E /\ UNION w.placeholders = E \ B
      /\ \A y, z \in w.placeholders : y = z \/ y \cap z = {}
      /\ \A y \in w.placeholders : \A u \in Unit : u \subseteq y \/ u \cap y = {}
      /\ \A y \in w.placeholders : \A p, q \in y : RegionOfPage(p) = RegionOfPage(q)
  BY DEF Tiled
<1>p. v \subseteq Page
  BY <1>v, <1>t DEF WinType
<1> HIDE DEF v
<1>1. IsWhole(w, S) <=> S = v
  <2>1. ASSUME IsWhole(w, S) PROVE S = v
    <3>1. S = {p \in v : Offset[p] >= Offset[a]} /\ a = FirstPage(v)
      BY <2>1 DEF IsWhole, a, v
    <3>2. \A p \in v : Offset[a] <= Offset[p]
      BY <3>1, <1>p, <1>v, <1>s, FirstPageProperties
    <3>3. \A p \in v : Offset[p] \in Nat
      BY <1>p, OffsetAssumption
    <3> QED
      BY <3>1, <3>2, <3>3, <1>a, <1>v
  <2>2. ASSUME S = v PROVE IsWhole(w, S)
    <3>1. \A p \in v : Offset[p] \in Nat
      BY <1>p, OffsetAssumption
    <3>2. S = {p \in v : Offset[p] >= Offset[a]}
      BY <3>1, <2>2, <1>a
    <3>3. a = FirstPage(v)
      BY <2>2 DEF a
    <3> QED
      BY <3>2, <3>3 DEF IsWhole, a, v
  <2> QED
    BY <2>1, <2>2
<1>2. /\ x.placeholders = P /\ x.views = w.views \cup {S} /\ x.readable = w.readable \cup S
      /\ x.sections = w.sections /\ x.failed = FALSE
      /\ P \in SUBSET (SUBSET Page) => x \in WinType
  <2>1. CASE S = v
    <3>1. x = MapView(w, S)
      BY <2>1, <1>1, <1>s DEF vm_scratch_publish
    <3> QED
      BY <2>1, <3>1, <1>s, <1>t, <1>v, MapViewFields
  <2>2. CASE S # v
    <3> DEFINE y == SplitPlaceholder(w, S)
               Q == (w.placeholders \ {v}) \cup ({S, before, after} \ {{}})
    <3>1. /\ y \in WinType /\ y.placeholders = Q /\ y.views = w.views
          /\ y.readable = w.readable /\ y.sections = w.sections /\ y.failed = FALSE
      <4>0. {S, before, after} \subseteq SUBSET Page
        BY <1>s, <1>p
      <4>1. Q \in SUBSET (SUBSET Page)
        BY <4>0, <1>t DEF WinType
      <4>2. /\ y = [w EXCEPT !.placeholders = Q,
                             !.failed = @ \/ v \notin w.placeholders \/ S = v \/ ~ S \subseteq v]
        BY DEF SplitPlaceholder, a, v
      <4> HIDE DEF y, Q
      <4> QED
        BY <2>2, <4>1, <4>2, <1>t, <1>v DEF WinType
    <3>2. x = MapView(y, S)
      BY <2>2, <1>1, <1>s DEF vm_scratch_publish
    <3>3. Q \ {S} = P /\ S \in Q
      <4>1. S \notin w.placeholders \ {v}
        BY <1>t, <1>v, <1>s
      <4>2. before \cap S = {} /\ after \cap S = {}
        OBVIOUS
      <4>3. S # before /\ S # after
        BY <4>2, <1>s
      <4> HIDE DEF before, after
      <4> QED
        BY <2>2, <4>1, <4>3, <1>s
    <3> HIDE DEF Q, P, y, x
    <3>4. /\ x \in WinType /\ x.placeholders = y.placeholders \ {S} /\ x.views = y.views \cup {S}
          /\ x.readable = y.readable \cup S /\ x.sections = y.sections
          /\ S \in y.placeholders => x.failed = y.failed
      BY <3>1, <3>2, <1>s, MapViewFields
    <3> QED
      BY <3>1, <3>3, <3>4
  <2> QED
    BY <2>1, <2>2
<1> HIDE DEF x
<1>3. /\ before \cup after = v \ S /\ before \cap after = {}
      /\ before \subseteq v /\ after \subseteq v
      /\ before \cap S = {} /\ after \cap S = {}
  OBVIOUS
<1>4. ASSUME NEW u \in Unit, NEW b \in {before, after} PROVE u \subseteq b \/ u \cap b = {}
  <2>1. CASE u = S
    BY <2>1, <1>3
  <2>2. CASE u \cap v = {}
    BY <2>2, <1>3
  <2>3. CASE u # S /\ u \subseteq v
    <3>1. u \cap S = {} /\ a \notin u
      BY <2>3, <1>a, UnitGeometry
    <3>2. ASSUME NEW p \in u \cap before, NEW q \in u \cap after PROVE FALSE
      <4>1. p \in Page /\ q \in Page /\ a \in Page /\ a \in v /\ p \in v
        BY <1>p, <1>a, <1>v, <2>3
      <4>2. Offset[p] \in Nat /\ Offset[q] \in Nat /\ Offset[a] \in Nat
        BY <4>1, OffsetAssumption
      <4>3. Offset[p] <= Offset[a] /\ Offset[a] <= Offset[q]
        BY <4>2, <3>1, <3>2
      <4>4. RegionOfPage(a) = RegionOfPage(p)
        BY <4>1, <1>t, <1>v
      <4>5. a \in u
        BY <4>1, <4>3, <4>4, UnitGeometry
      <4> QED
        BY <4>5, <3>1
    <3> HIDE DEF before, after
    <3> QED
      BY <3>1, <3>2, <2>3, <1>3
  <2> QED
    BY <2>1, <2>2, <2>3, <1>t, <1>v
<1> HIDE DEF before, after
<1>5. UNION P = E \ (B \cup S)
  <2>1. \A y \in w.placeholders \ {v} : y \cap v = {}
    BY <1>t, <1>v
  <2>2. UNION (w.placeholders \ {v}) = (E \ B) \ v
    BY <2>1, <1>t, <1>v
  <2>3. CASE S = v
    BY <2>2, <2>3
  <2>4. CASE S # v
    <3>1. UNION ({before, after} \ {{}}) = v \ S
      BY <1>3
    <3>2. UNION P = ((E \ B) \ v) \cup (v \ S)
      BY <2>2, <2>4, <3>1
    <3>3. v \subseteq E \ B
      BY <1>t, <1>v
    <3> HIDE DEF P
    <3> QED
      BY <3>2, <3>3, <1>v
  <2> QED
    BY <2>3, <2>4
<1>6. \A y \in P : y \in w.placeholders \/ (y \in {before, after} /\ S # v)
  OBVIOUS
<1>7. \A y, z \in P : y = z \/ y \cap z = {}
  <2>1. \A y \in w.placeholders \ {v} : y \cap before = {} /\ y \cap after = {}
    BY <1>t, <1>v, <1>3
  <2>2. \A y \in P : y \in w.placeholders \ {v} \/ y = before \/ y = after
    OBVIOUS
  <2> HIDE DEF P
  <2> QED
    BY <2>1, <2>2, <1>t, <1>3
<1>8. \A y \in P : \A u \in Unit : u \subseteq y \/ u \cap y = {}
  BY <1>4, <1>6, <1>t
<1>9. \A y \in P : y \subseteq Page /\ \A p, q \in y : RegionOfPage(p) = RegionOfPage(q)
  <2>1. \A p, q \in v : RegionOfPage(p) = RegionOfPage(q)
    BY <1>t, <1>v
  <2>2. \A y \in w.placeholders : y \subseteq Page
    BY <1>t DEF WinType
  <2> HIDE DEF P
  <2> QED
    BY <1>3, <1>6, <1>p, <1>t, <2>1, <2>2
<1>10. UNION (w.views \cup {S}) = B \cup S /\ B \cup S \subseteq E
  BY <1>t
<1>11. x \in WinType
  BY <1>2, <1>9
<1> HIDE DEF P
<1>12. Tiled(x, B \cup S, E)
  BY <1>2, <1>5, <1>7, <1>8, <1>9, <1>10, <1>11, <1>t DEF Tiled
<1> QED
  BY <1>2, <1>12 DEF x

(* VirtualProtect() on a unit that is backed stays within its view.        *)
LEMMA ProtectUnit ==
    ASSUME NEW w, NEW B, NEW E, Tiled(w, B, E), NEW S \in Unit \cup {{}}, S \subseteq B,
           NEW on \in BOOLEAN
    PROVE  /\ Tiled(vm_set_readable(w, S, on), B, E)
           /\ vm_set_readable(w, S, on).sections = w.sections
           /\ vm_set_readable(w, S, on).readable
                = IF on THEN w.readable \cup S ELSE w.readable \ S
<1>t. w \in WinType /\ w.failed = FALSE
  BY DEF Tiled
<1>1. CASE S = {}
  BY <1>1 DEF vm_set_readable
<1>2. CASE S # {}
  <2> DEFINE x == vm_set_readable(w, S, on)
             R == IF on THEN w.readable \cup S ELSE w.readable \ S
  <2>1. S \subseteq Page /\ S \in w.views
    BY <1>2, UnitGeometry DEF Tiled
  <2>2. x = [w EXCEPT !.readable = R, !.failed = @ \/ \A v \in w.views : ~ S \subseteq v]
    BY <1>2 DEF vm_set_readable
  <2>3. R \subseteq Page
    BY <1>t, <2>1 DEF WinType
  <2> HIDE DEF x, R
  <2>4. /\ x \in WinType /\ x.failed = FALSE /\ x.readable = R
        /\ x.placeholders = w.placeholders /\ x.views = w.views /\ x.sections = w.sections
    BY <1>t, <2>1, <2>2, <2>3 DEF WinType
  <2>5. Tiled(x, B, E)
    BY <2>4 DEF Tiled
  <2> QED
    BY <2>4, <2>5 DEF x, R
<1> QED
  BY <1>1, <1>2

(* Decommitting a unit that is backed unmaps its view and no other, and    *)
(* leaves a placeholder of the unit's size.                                *)
LEMMA DecommitUnit ==
    ASSUME NEW w, NEW B, NEW E, Tiled(w, B, E), NEW S \in Unit \cup {{}}, S \subseteq B
    PROVE  LET x == vm_decommit(w, S)
           IN  /\ Tiled(x, B \ S, E) /\ x.sections = w.sections
               /\ x.readable = w.readable \ S
<1> DEFINE met == {v \in w.views : v \cap S # {}}
           x == vm_decommit(w, S)
<1>t. w \in WinType /\ w.failed = FALSE /\ w.views \subseteq Unit /\ UNION w.views = B
  BY DEF Tiled
<1>1. met = IF S = {} THEN {} ELSE {S}
  <2>1. CASE S = {}
    BY <2>1
  <2>2. CASE S # {}
    <3>1. S \in w.views
      BY <2>2, <1>t, UnitGeometry
    <3>2. \A v \in w.views : v \cap S # {} => v = S
      BY <2>2, <1>t, UnitGeometry
    <3> QED
      BY <2>2, <3>1, <3>2
  <2> QED
    BY <2>1, <2>2
<1>2. \A v \in met : FirstPage(v) \in S /\ v = S /\ v \subseteq Page /\ v \in Unit
  BY <1>1, UnitGeometry, FirstPageProperties
<1>3. x = [w EXCEPT !.placeholders = @ \cup met, !.views = @ \ met,
                    !.readable = @ \ UNION met,
                    !.failed = @ \/ \E v \in met : FirstPage(v) \notin S]
  BY DEF vm_decommit
<1>u. UNION met = S
  BY <1>1
<1> HIDE DEF met, x
<1>4. /\ x.placeholders = w.placeholders \cup met /\ x.views = w.views \ met
      /\ x.readable = w.readable \ S /\ x.sections = w.sections /\ x.failed = FALSE
  BY <1>t, <1>2, <1>3, <1>u DEF WinType
<1>5. x \in WinType
  <2>1. w.placeholders \cup met \in SUBSET (SUBSET Page)
    BY <1>t, <1>2 DEF WinType
  <2> QED
    BY <1>t, <1>2, <1>3, <2>1 DEF WinType
<1>6. UNION x.views = B \ S
  <2>1. \A v \in w.views \ met : v \cap S = {}
    BY DEF met
  <2> QED
    BY <1>t, <1>4, <1>u, <2>1
<1>7. UNION x.placeholders = E \ (B \ S)
  BY <1>4, <1>u DEF Tiled
<1>8. \A v, y \in x.placeholders : v = y \/ v \cap y = {}
  <2>1. \A v \in w.placeholders : v \cap S = {}
    BY DEF Tiled
  <2> QED
    BY <1>2, <1>4, <2>1 DEF Tiled
<1>9. \A v \in x.placeholders : \A u \in Unit : u \subseteq v \/ u \cap v = {}
  BY <1>2, <1>4, UnitGeometry DEF Tiled
<1>10. \A v \in x.placeholders : \A p, q \in v : RegionOfPage(p) = RegionOfPage(q)
  BY <1>2, <1>4, UnitGeometry DEF Tiled
<1>11. x.views \subseteq Unit /\ B \ S \subseteq E
  BY <1>4 DEF Tiled
<1>12. Tiled(x, B \ S, E)
  BY <1>4, <1>5, <1>6, <1>7, <1>8, <1>9, <1>10, <1>11 DEF Tiled
<1> QED
  BY <1>4, <1>12 DEF x

(* vm_reserve() adds one placeholder for the pages of a new region.        *)
LEMMA ReserveRegion ==
    ASSUME NEW w, NEW B, NEW E, Tiled(w, B, E), NEW r \in Region,
           PagesOfRegion(r) \cap E = {}
    PROVE  LET x == vm_reserve(w, PagesOfRegion(r))
           IN  /\ Tiled(x, B, E \cup PagesOfRegion(r))
               /\ x.readable = w.readable /\ x.sections = w.sections
<1> DEFINE S == PagesOfRegion(r)
           x == vm_reserve(w, S)
<1>t. w \in WinType /\ w.failed = FALSE
  BY DEF Tiled
<1>s. S \subseteq Page /\ \A p \in Page : p \in S <=> RegionOfPage(p) = r
  BY DEF PagesOfRegion
<1> HIDE DEF S
<1>1. /\ x \in WinType /\ x.placeholders = w.placeholders \cup {S} /\ x.views = w.views
      /\ x.readable = w.readable /\ x.sections = w.sections /\ x.failed = FALSE
  BY <1>t, <1>s DEF vm_reserve, WinType
<1> HIDE DEF x
<1>0. S \cap E = {}
  BY DEF S
<1>2. \A u \in Unit : u \subseteq S \/ u \cap S = {}
  BY <1>s, UnitGeometry
<1>3. UNION x.placeholders = (E \cup S) \ B /\ B \subseteq E \cup S
  BY <1>0, <1>1 DEF Tiled
<1>4. \A v, y \in x.placeholders : v = y \/ v \cap y = {}
  <2>1. \A v \in w.placeholders : v \subseteq E
    BY DEF Tiled
  <2> QED
    BY <1>0, <1>1, <2>1 DEF Tiled
<1>5. \A v \in x.placeholders : \A p, q \in v : RegionOfPage(p) = RegionOfPage(q)
  BY <1>1, <1>s DEF Tiled
<1>6. Tiled(x, B, E \cup S)
  BY <1>1, <1>2, <1>3, <1>4, <1>5 DEF Tiled
<1> QED
  BY <1>1, <1>6 DEF S, x

(* vm_release() takes the region's pieces and no other.                    *)
LEMMA ReleaseRegion ==
    ASSUME NEW w, NEW B, NEW E, Tiled(w, B, E), NEW r \in Region
    PROVE  LET x == vm_release(w, PagesOfRegion(r))
           IN  /\ Tiled(x, B \ PagesOfRegion(r), E \ PagesOfRegion(r))
               /\ x.readable = w.readable \ PagesOfRegion(r)
               /\ x.sections = w.sections \ PagesOfRegion(r)
<1> DEFINE S == PagesOfRegion(r)
           x == vm_release(w, S)
           gone == {v \in w.placeholders \cup w.views : v \cap S # {}}
<1>t. w \in WinType /\ w.failed = FALSE
  BY DEF Tiled
<1>s. S \subseteq Page /\ \A p \in Page : p \in S <=> RegionOfPage(p) = r
  BY DEF PagesOfRegion
<1> HIDE DEF S
<1>g. /\ \A v \in w.placeholders \cup w.views : v \subseteq S \/ v \cap S = {}
      /\ \A v \in w.placeholders \cup w.views : v \in gone <=> v \cap S # {}
  <2>1. \A v \in w.placeholders \cup w.views :
          v \subseteq Page /\ \A p, q \in v : RegionOfPage(p) = RegionOfPage(q)
    BY <1>t, UnitGeometry DEF Tiled, WinType
  <2> QED
    BY <2>1, <1>s
<1>f. \A v \in gone : FirstPage(v) \in S
  <2>1. \A v \in gone : v # {} /\ v \in SUBSET Page /\ v \subseteq S
    BY <1>t, <1>g DEF WinType
  <2> QED
    BY <2>1, FirstPageProperties
<1>e. x = [w EXCEPT !.placeholders = @ \ gone, !.views = @ \ gone,
                    !.readable = @ \ S, !.sections = @ \ S,
                    !.failed = @ \/ \E v \in gone : FirstPage(v) \notin S]
  BY DEF vm_release
<1> HIDE DEF gone, x
<1>1. /\ x \in WinType /\ x.placeholders = w.placeholders \ gone /\ x.views = w.views \ gone
      /\ x.readable = w.readable \ S /\ x.sections = w.sections \ S /\ x.failed = FALSE
  BY <1>t, <1>e, <1>f DEF WinType
<1>2. UNION x.views = B \ S /\ UNION x.placeholders = (E \ S) \ (B \ S) /\ B \ S \subseteq E \ S
  <2>1. UNION (w.views \ gone) = (UNION w.views) \ S
    BY <1>g
  <2>2. UNION (w.placeholders \ gone) = (UNION w.placeholders) \ S
    BY <1>g
  <2> QED
    BY <1>1, <2>1, <2>2 DEF Tiled
<1>3. Tiled(x, B \ S, E \ S)
  BY <1>1, <1>2 DEF Tiled
<1> QED
  BY <1>1, <1>3 DEF S, x

\* The recursion by which PublishChunk() publishes one shared page at a time.
Publishing(w, D, g) ==
    g = [s \in D |-> IF s = {} THEN w
                     ELSE vm_scratch_publish(g[s \ {Picked(s)}], {Picked(s)})]

(* The recursion has a solution, set by set of growing size.               *)
LEMMA PublishingExists ==
    ASSUME NEW w, NEW S, IsFiniteSet(S)
    PROVE  \E g : Publishing(w, SUBSET S, g)
<1> DEFINE D(n) == {s \in SUBSET S : Cardinality(s) <= n}
           T == {n \in Nat : \E g : Publishing(w, D(n), g)}
<1>a. \A s \in SUBSET S : IsFiniteSet(s) /\ Cardinality(s) \in Nat
  BY FS_Subset, FS_CardinalityType
<1>b. \A s \in SUBSET S : s # {} =>
          /\ Picked(s) \in s /\ s \ {Picked(s)} \in SUBSET S
          /\ Cardinality(s \ {Picked(s)}) = Cardinality(s) - 1
  <2>1. \A s : s # {} => Picked(s) \in s
    BY DEF Picked
  <2> QED
    BY <1>a, <2>1, FS_RemoveElement
<1>1. 0 \in T
  <2> DEFINE g == [s \in D(0) |-> w]
  <2>1. \A s \in D(0) : s = {}
    BY <1>a, FS_EmptySet
  <2>2. Publishing(w, D(0), g)
    BY <2>1 DEF Publishing
  <2> QED
    BY <2>2
<1>2. ASSUME NEW n \in T PROVE n + 1 \in T
  <2>1. PICK g : Publishing(w, D(n), g)
    BY <1>2
  <2> DEFINE h == [s \in D(n + 1) |->
                      IF s = {} THEN w
                      ELSE vm_scratch_publish(g[s \ {Picked(s)}], {Picked(s)})]
  <2>2. \A s \in D(n + 1) : s # {} => s \ {Picked(s)} \in D(n)
    BY <1>a, <1>b, <1>2
  <2>3. \A s \in D(n) : s \in D(n + 1)
    BY <1>a, <1>2
  <2>4. \A s \in D(n) : h[s] = g[s]
    BY <2>1, <2>3 DEF Publishing
  <2>5. \A s \in D(n + 1) :
            h[s] = IF s = {} THEN w
                   ELSE vm_scratch_publish(h[s \ {Picked(s)}], {Picked(s)})
    BY <2>2, <2>4
  <2>6. h = [s \in D(n + 1) |-> h[s]]
    OBVIOUS
  <2> HIDE DEF h, D
  <2>7. Publishing(w, D(n + 1), h)
    BY <2>5, <2>6 DEF Publishing
  <2> QED
    BY <1>2, <2>7
<1> HIDE DEF T
<1>3. T = Nat
  <2>1. T \in SUBSET Nat
    BY DEF T
  <2> QED
    BY <1>1, <1>2, <2>1, NatSet
<1>4. Cardinality(S) \in T
  BY <1>3, FS_CardinalityType
<1>5. D(Cardinality(S)) = SUBSET S
  BY FS_Subset
<1> QED
  BY <1>4, <1>5 DEF T

\* The shared pages S published one by one.
PublishAll(w, S) == FoldSet(LAMBDA p, v : vm_scratch_publish(v, {p}), w, S)

(* Publishing any number of shared pages that are reserved and not backed, *)
(* in whatever order.                                                      *)
LEMMA PublishShared ==
    ASSUME NEW w, NEW B, NEW E, Tiled(w, B, E), NEW S \in SUBSET SharedPage, IsFiniteSet(S),
           S \subseteq E \ B
    PROVE  /\ Tiled(PublishAll(w, S), B \cup S, E)
           /\ PublishAll(w, S).readable = w.readable \cup S
           /\ PublishAll(w, S).sections = w.sections
<1> DEFINE G == CHOOSE g : Publishing(w, SUBSET S, g)
           Q == {s \in SUBSET S : /\ Tiled(G[s], B \cup s, E)
                                  /\ G[s].readable = w.readable \cup s
                                  /\ G[s].sections = w.sections}
<1>1. PublishAll(w, S) = G[S]
  BY DEF PublishAll, FoldSet, MapThenFoldSet, Publishing, Picked
<1>2. Publishing(w, SUBSET S, G)
  BY PublishingExists
<1> HIDE DEF G
<1>3. \A s \in SUBSET S : G[s] = IF s = {} THEN w
                                 ELSE vm_scratch_publish(G[s \ {Picked(s)}], {Picked(s)})
  BY <1>2 DEF Publishing
<1>4. {} \in Q
  <2>1. G[{}] = w
    BY <1>3
  <2> QED
    BY <2>1
<1>5. ASSUME NEW s \in SUBSET S, s # {}, s \ {Picked(s)} \in Q PROVE s \in Q
  <2>1. PICK p \in s : p = Picked(s)
    BY <1>5 DEF Picked
  <2> DEFINE r == s \ {p}
             y == G[r]
  <2>2. Tiled(y, B \cup r, E) /\ y.readable = w.readable \cup r /\ y.sections = w.sections
    BY <1>5, <2>1
  <2>3. {p} \in Unit /\ {p} \subseteq E \ (B \cup r)
    BY <1>5, <2>1 DEF Unit
  <2>4. G[s] = vm_scratch_publish(y, {p})
    BY <1>3, <1>5, <2>1
  <2>5. s = r \cup {p}
    BY <2>1
  <2> HIDE DEF r, y
  <2>6. /\ Tiled(G[s], (B \cup r) \cup {p}, E)
        /\ G[s].readable = y.readable \cup {p} /\ G[s].sections = y.sections
    <3> DEFINE u == {p}
               C == B \cup r
    <3>1. Tiled(y, C, E) /\ u \in Unit /\ u \subseteq E \ C /\ G[s] = vm_scratch_publish(y, u)
      BY <2>2, <2>3, <2>4
    <3> HIDE DEF u, C
    <3>2. Tiled(G[s], C \cup u, E) /\ G[s].readable = y.readable \cup u
          /\ G[s].sections = y.sections
      BY <3>1, PublishUnit
    <3> QED
      BY <3>2 DEF u, C
  <2>7. (B \cup r) \cup {p} = B \cup s /\ (w.readable \cup r) \cup {p} = w.readable \cup s
    BY <2>5
  <2> QED
    BY <2>2, <2>6, <2>7
<1>6. Q \in SUBSET (SUBSET S)
  OBVIOUS
<1> HIDE DEF Q
<1>7. Q = SUBSET S
  BY <1>4, <1>5, <1>6, PickedInduction
<1>8. S \in Q
  BY <1>7
<1> QED
  BY <1>1, <1>8 DEF Q

(* PublishChunk(): the completed shared pages, then the chunk's own.       *)
LEMMA PublishChunkTiles ==
    ASSUME NEW w, NEW B, NEW E, Tiled(w, B, E), NEW c \in Chunk,
           StagesInto(c) \subseteq SharedPage, Completes(c) \subseteq StagesInto(c),
           IsFiniteSet(Completes(c)), Completes(c) \subseteq E \ B,
           exclusive_pages(c) \subseteq E \ B
    PROVE  LET x == PublishChunk(w, c)
           IN  /\ Tiled(x, B \cup Completes(c) \cup exclusive_pages(c), E)
               /\ x.readable = w.readable \cup Completes(c) \cup exclusive_pages(c)
               /\ x.sections = (w.sections \cup StagesInto(c)) \ Completes(c)
<1> DEFINE T == Completes(c)
           X == exclusive_pages(c)
           y == StageSections(w, c)
           z == PublishAll(y, T)
           x == PublishChunk(w, c)
<1>0. /\ SharedPage \subseteq Page /\ T \in SUBSET SharedPage
      /\ IsFiniteSet(T) /\ T \subseteq E \ B
  BY DEF SharedPage
<1>1. /\ y \in WinType /\ y.sections = (w.sections \cup StagesInto(c)) \ T
      /\ y.placeholders = w.placeholders /\ y.views = w.views /\ y.readable = w.readable
      /\ y.failed = w.failed
  BY <1>0 DEF StageSections, WinType, Tiled
<1>2. Tiled(y, B, E)
  <2> HIDE DEF y
  <2> QED
    BY <1>1 DEF Tiled
<1>3. x = vm_scratch_publish(z, X)
  BY DEF PublishChunk, PublishAll
<1> HIDE DEF y, T, X
<1>4. Tiled(z, B \cup T, E) /\ z.readable = y.readable \cup T /\ z.sections = y.sections
  BY <1>0, <1>2, PublishShared
<1> HIDE DEF z, x
<1>5. X \cap T = {} /\ X \subseteq E \ (B \cup T)
  BY <1>0 DEF X, T, exclusive_pages, SharedPage
<1>6. CASE X = {}
  <2>1. x = z
    BY <1>3, <1>6 DEF vm_scratch_publish
  <2>2. B \cup T \cup X = B \cup T /\ w.readable \cup T \cup X = w.readable \cup T
    BY <1>6
  <2> QED
    BY <1>1, <1>4, <2>1, <2>2 DEF x, X, T
<1>7. CASE X # {}
  <2>1. X \in Unit
    BY <1>7 DEF Unit, X
  <2>2. /\ Tiled(x, (B \cup T) \cup X, E)
        /\ x.readable = z.readable \cup X /\ x.sections = z.sections
    BY <1>3, <1>4, <1>5, <2>1, PublishUnit
  <2> QED
    BY <1>1, <1>4, <2>2 DEF x, X, T
<1> QED
  BY <1>6, <1>7

-----------------------------------------------------------------------------
(* The pool over the address space.                                        *)

Backed == {p \in Page : content[p] # {}}
Existing == {p \in Page : RegionOfPage(p) \in live \cup dying}

\* A page of a settled region holds bytes only while its chunk is populated.
FilledIsPopulated ==
    \A p \in Backed : Settled(RegionOfPage(p)) =>
        IF p \in SharedPage THEN p \in mapped ELSE Owner(p) \in initialized

(* The pieces tile what the pool believes it has reserved and backed.      *)
TilesInv ==
    /\ Tiled(win, Backed, Existing)
    /\ win.readable = readable
    /\ win.sections = {p \in Page : staging[p] # {}}
    /\ FilledIsPopulated

(* The empty address space.                                                *)
LEMMA TilesInit == WindowsInit => TilesInv
<1> SUFFICES ASSUME WindowsInit PROVE TilesInv
  OBVIOUS
<1>1. /\ win = NoMemory /\ readable = {} /\ live = {} /\ dying = {}
      /\ \A p \in Page : content[p] = {} /\ staging[p] = {}
  BY DEF WindowsInit, Init
<1>2. Backed = {} /\ Existing = {} /\ {p \in Page : staging[p] # {}} = {}
  BY <1>1 DEF Backed, Existing
<1>3. Tiled(NoMemory, {}, {})
  BY DEF Tiled, NoMemory, WinType
<1> QED
  BY <1>1, <1>2, <1>3 DEF TilesInv, NoMemory, FilledIsPopulated

(* fc_region_create() reserves pages that no region has.                   *)
LEMMA CreateTiles ==
    ASSUME IInv, TilesInv, NEW r \in Region, CreateRegion(r)
    PROVE  TilesInv'
<1>1. /\ r \notin live \cup dying /\ live' = live \cup {r}
      /\ win' = vm_reserve(win, PagesOfRegion(r))
      /\ UNCHANGED <<dying, initialized, staging, mapped, readable, content, dead_region>>
  BY DEF CreateRegion, fc_region_create, cache, shares, memory, job
<1>2. Existing' = Existing \cup PagesOfRegion(r) /\ PagesOfRegion(r) \cap Existing = {}
      /\ Backed' = Backed
  BY <1>1 DEF Existing, PagesOfRegion, Backed
<1>3. /\ Tiled(win', Backed', Existing') /\ win'.readable = win.readable
      /\ win'.sections = win.sections
  BY <1>1, <1>2, ReserveRegion DEF TilesInv
<1>4. FilledIsPopulated'
  <2>1. \A p \in Backed : RegionOfPage(p) # r
    BY <1>1 DEF TilesInv, Tiled, Existing
  <2> QED
    BY <1>1, <1>2, <2>1 DEF TilesInv, FilledIsPopulated, Settled
<1> QED
  BY <1>1, <1>3, <1>4 DEF TilesInv

(* region_free() releases the region's pieces, its bytes and its sections. *)
LEMMA FreeTiles ==
    ASSUME IInv, TilesInv, NEW r \in Region, FreeRegion(r)
    PROVE  TilesInv'
<1> DEFINE S == PagesOfRegion(r)
<1>1. /\ r \in dying /\ r \notin live /\ dying' = dying \ {r}
      /\ win' = vm_release(win, S) /\ readable' = readable \ S
      /\ mapped' = mapped \ S
      /\ content' = [p \in Page |-> IF p \in S THEN {} ELSE content[p]]
      /\ staging' = [p \in Page |-> IF p \in S THEN {} ELSE staging[p]]
      /\ UNCHANGED <<live, initialized, dead_region>>
  BY DEF FreeRegion, region_free, job, IInv, RegionsTakenApartLast
<1>2. Existing' = Existing \ S /\ Backed' = Backed \ S
      /\ {p \in Page : staging'[p] # {}} = {p \in Page : staging[p] # {}} \ S
  BY <1>1 DEF Existing, PagesOfRegion, Backed
<1>3. /\ Tiled(win', Backed', Existing') /\ win'.readable = win.readable \ S
      /\ win'.sections = win.sections \ S
  BY <1>1, <1>2, ReleaseRegion DEF TilesInv
<1>4. FilledIsPopulated'
  <2> SUFFICES ASSUME NEW p \in Backed', Settled(RegionOfPage(p))'
               PROVE  IF p \in SharedPage THEN p \in mapped' ELSE Owner(p) \in initialized'
    BY DEF FilledIsPopulated
  <2>1. p \in Backed /\ p \notin S /\ Settled(RegionOfPage(p))
    BY <1>1, <1>2 DEF Settled
  <2> HIDE DEF S
  <2> QED
    BY <1>1, <2>1 DEF TilesInv, FilledIsPopulated
<1> QED
  BY <1>1, <1>2, <1>3, <1>4 DEF TilesInv

(* A fill publishes pages that are reserved and hold nothing yet.          *)
LEMMA FillTiles ==
    ASSUME IInv, TilesInv, FillAndPublish
    PROVE  TilesInv'
<1>0. PICK c \in Missing(fault_page) : fill_chunk_locked(c)
  BY DEF FillAndPublish, Fill
<1>a. /\ fault_page \in Page /\ RegionOfPage(fault_page) \in live /\ dead_region = None
      /\ UNCHANGED <<dead_region, live, dying>>
  BY DEF FillAndPublish, Fill, IInv, TypeOK, RegionsTakenApartLast, lifetime
<1>b. c \in Chunk /\ c \notin initialized /\ RegionOf[c] \in live
  BY <1>a, PageGeometry DEF Missing
<1> DEFINE T == Completes(c)
           X == exclusive_pages(c)
<1>c. /\ initialized' = initialized \cup {c} /\ mapped' = mapped \cup T
      /\ readable' = readable \cup T \cup X
      /\ content' = [p \in Page |-> IF p \in T THEN staging[p] \cup {c}
                                    ELSE IF p \in X THEN {c} ELSE content[p]]
      /\ staging' = [p \in Page |-> IF p \in T THEN {}
                                    ELSE IF p \in StagesInto(c) THEN staging[p] \cup {c}
                                    ELSE staging[p]]
  BY <1>0 DEF fill_chunk_locked, stage_into_shared_page, publish
<1>w. win' = PublishChunk(win, c)
  BY <1>b, <1>c DEF FillAndPublish
<1>s. /\ StagesInto(c) \subseteq SharedPagesOf(c) /\ T \subseteq StagesInto(c)
      /\ SharedPagesOf(c) \subseteq SharedPage /\ SharedPage \subseteq Page
      /\ X \subseteq Page
  BY DEF StagesInto, SharedPagesOf, SharedPage, Completes, exclusive_pages
<1>d. \A p \in T \cup X : RegionOfPage(p) \in live /\ p \in Existing
  <2>1. \A p \in T : c \in Contributors[p]
    BY <1>s DEF SharedPagesOf
  <2>2. \A p \in X : c \in Contributors[p]
    BY DEF exclusive_pages
  <2> QED
    BY <1>b, <1>s, <2>1, <2>2, PageGeometry DEF Existing
<1>e. \A p \in T \cup X : p \notin Backed
  <2>1. \A p \in T : p \notin mapped
    BY <1>b, <1>s, StageStep
  <2>2. \A p \in X : p \notin SharedPage /\ Owner(p) = c
    BY <1>s, PageGeometry
  <2>3. \A p \in T \cup X : Settled(RegionOfPage(p))
    BY <1>a, <1>d, <1>s, PageGeometry, PageAssumption DEF Settled
  <2> HIDE DEF T, X
  <2> QED
    BY <1>b, <1>s, <2>1, <2>2, <2>3 DEF TilesInv, FilledIsPopulated
<1>f. IsFiniteSet(T)
  BY <1>b, <1>s, OffsetAssumption, FS_Subset
<1>1. LET x == PublishChunk(win, c)
      IN  /\ Tiled(x, Backed \cup T \cup X, Existing)
          /\ x.readable = win.readable \cup T \cup X
          /\ x.sections = (win.sections \cup StagesInto(c)) \ T
  BY <1>b, <1>d, <1>e, <1>f, <1>s, PublishChunkTiles DEF TilesInv
<1> HIDE DEF T, X
<1>2. Backed' = Backed \cup T \cup X /\ Existing' = Existing
  BY <1>a, <1>c, <1>s DEF Backed, Existing
<1>3. {p \in Page : staging'[p] # {}} = ({p \in Page : staging[p] # {}} \cup StagesInto(c)) \ T
  BY <1>c, <1>s
<1>4. FilledIsPopulated'
  <2> SUFFICES ASSUME NEW p \in Backed', Settled(RegionOfPage(p))'
               PROVE  IF p \in SharedPage THEN p \in mapped' ELSE Owner(p) \in initialized'
    BY DEF FilledIsPopulated
  <2>0. Settled(RegionOfPage(p)) /\ p \in Page
    BY <1>a DEF Settled, Backed
  <2>1. CASE p \in T
    BY <1>c, <1>s, <2>1
  <2>2. CASE p \in X
    BY <1>c, <2>0, <2>2, PageGeometry DEF X
  <2>3. CASE p \in Backed
    BY <1>c, <2>0, <2>3 DEF TilesInv, FilledIsPopulated
  <2> QED
    BY <1>2, <2>1, <2>2, <2>3
<1> QED
  BY <1>1, <1>2, <1>3, <1>4, <1>w, <1>c DEF TilesInv

(* The pages an initialized chunk has alone are backed, hidden or not.     *)
LEMMA PopulatedIsBacked ==
    ASSUME IInv, NEW c \in initialized
    PROVE  /\ exclusive_pages(c) \in Unit \cup {{}} /\ exclusive_pages(c) \subseteq Backed
           /\ c \in Chunk
<1>1. c \in Chunk
  BY DEF IInv, TypeOK
<1>2. exclusive_pages(c) \in Unit \cup {{}}
  BY <1>1 DEF Unit
<1>3. ASSUME NEW p \in exclusive_pages(c) PROVE p \in Backed
  <2>1. p \in Page /\ p \notin SharedPage /\ Owner(p) = c /\ Contributors[p] = {c}
    BY PageGeometry DEF exclusive_pages
  <2>2. content[p] = {c}
    BY <2>1 DEF IInv, PageComplete
  <2> QED
    BY <2>1, <2>2 DEF Backed
<1> QED
  BY <1>1, <1>2, <1>3

(* A promotion or a demotion protects the view of one chunk: nothing else  *)
(* of the address space depends on it.                                     *)
LEMMA ProtectTiles ==
    ASSUME TilesInv, Tiled(win', Backed, Existing), win'.sections = win.sections,
           win'.readable = readable',
           UNCHANGED <<live, dying, dead_region, initialized, content, staging, mapped>>
    PROVE  TilesInv'
<1>1. Backed' = Backed /\ Existing' = Existing
  BY DEF Backed, Existing
<1>2. FilledIsPopulated'
  BY <1>1 DEF TilesInv, FilledIsPopulated, Settled
<1> QED
  BY <1>1, <1>2 DEF TilesInv

(* An eviction decommits the view of one chunk.                            *)
LEMMA EvictTiles ==
    ASSUME IInv, TilesInv, Evict
    PROVE  TilesInv'
<1> DEFINE v == Victim
           X == exclusive_pages(v)
<1>1. /\ win' = vm_decommit(win, X) /\ queue.order # << >>
      /\ initialized' = initialized \ {v} /\ readable' = readable \ X
      /\ content' = [p \in Page |-> IF p \in X THEN {} ELSE content[p]]
      /\ UNCHANGED <<live, dying, dead_region, staging, mapped>>
  BY DEF Evict, lru_evict_chunk, shares, lifetime, job, CanEvict
<1>2. v \in initialized
  BY <1>1, VictimInitialized
<1> HIDE DEF v
<1>3. X \in Unit \cup {{}} /\ X \subseteq Backed
  BY <1>2, PopulatedIsBacked
<1>e. \A p \in Page : p \in X <=> p \notin SharedPage /\ Owner(p) = v
  BY PageGeometry
<1> HIDE DEF X
<1>4. /\ Tiled(win', Backed \ X, Existing) /\ win'.sections = win.sections
      /\ win'.readable = win.readable \ X
  BY <1>1, <1>3, DecommitUnit DEF TilesInv
<1>5. Backed' = Backed \ X /\ Existing' = Existing
  BY <1>1 DEF Backed, Existing
<1>6. FilledIsPopulated'
  <2> SUFFICES ASSUME NEW p \in Backed', Settled(RegionOfPage(p))'
               PROVE  IF p \in SharedPage THEN p \in mapped' ELSE Owner(p) \in initialized'
    BY DEF FilledIsPopulated
  <2>1. p \in Page /\ p \in Backed /\ p \notin X /\ Settled(RegionOfPage(p))
    BY <1>1, <1>5 DEF Settled, Backed
  <2> QED
    BY <1>1, <1>e, <2>1 DEF TilesInv, FilledIsPopulated
<1> QED
  BY <1>1, <1>4, <1>5, <1>6 DEF TilesInv

(* Every step keeps the address space in pieces the next call can work on. *)
LEMMA TilesNext == IInv /\ TilesInv /\ [WindowsNext]_WindowsVars => TilesInv'
<1> SUFFICES ASSUME IInv, TilesInv, [WindowsNext]_WindowsVars PROVE TilesInv'
  OBVIOUS
<1>1. ASSUME NEW r \in Region, CreateRegion(r) PROVE TilesInv'
  BY <1>1, CreateTiles
<1>2. ASSUME NEW r \in Region, FreeRegion(r) PROVE TilesInv'
  BY <1>2, FreeTiles
<1>3. CASE FillAndPublish
  BY <1>3, FillTiles
<1>4. CASE Promote
  <2> DEFINE c == Owner(fault_page)
  <2>1. /\ pc = "resolve" /\ Missing(fault_page) = {}
        /\ readable' = readable \cup exclusive_pages(c)
        /\ win' = vm_set_readable(win, exclusive_pages(c), TRUE)
        /\ UNCHANGED <<live, dying, dead_region, initialized, content, staging, mapped>>
    BY <1>4 DEF Promote, lru_promote, chunk_set_readable, shares, lifetime
  <2>2. c \in initialized
    BY <2>1, PageGeometry DEF Missing, IInv, TypeOK
  <2> DEFINE X == exclusive_pages(c)
             x == vm_set_readable(win, X, TRUE)
  <2> HIDE DEF c
  <2>3. X \in Unit \cup {{}} /\ X \subseteq Backed /\ Tiled(win, Backed, Existing)
    BY <2>2, PopulatedIsBacked DEF TilesInv
  <2>4. win' = x /\ readable' = win.readable \cup X
    BY <2>1 DEF TilesInv
  <2> HIDE DEF X
  <2>5. /\ Tiled(x, Backed, Existing) /\ x.sections = win.sections
        /\ x.readable = win.readable \cup X
    BY <2>3, ProtectUnit
  <2> QED
    BY <2>1, <2>4, <2>5, ProtectTiles
<1>5. CASE Demote
  <2> DEFINE m == queue.midpoint
  <2>1. /\ pc = "rebalance" /\ CanDemote
        /\ readable' = readable \ exclusive_pages(m)
        /\ win' = vm_set_readable(win, exclusive_pages(m), FALSE)
        /\ UNCHANGED <<live, dying, dead_region, initialized, content, staging, mapped>>
    BY <1>5 DEF Demote, lru_rebalance, chunk_set_readable, shares, lifetime, job
  <2>2. m \in initialized
    BY <2>1, MidpointBehindMru, InvQueue
  <2> DEFINE X == exclusive_pages(m)
             x == vm_set_readable(win, X, FALSE)
  <2> HIDE DEF m
  <2>3. X \in Unit \cup {{}} /\ X \subseteq Backed /\ Tiled(win, Backed, Existing)
    BY <2>2, PopulatedIsBacked DEF TilesInv
  <2>4. win' = x /\ readable' = win.readable \ X
    BY <2>1 DEF TilesInv
  <2> HIDE DEF X
  <2>5. /\ Tiled(x, Backed, Existing) /\ x.sections = win.sections
        /\ x.readable = win.readable \ X
    BY <2>3, ProtectUnit
  <2> QED
    BY <2>1, <2>4, <2>5, ProtectTiles
<1>6. CASE Evict
  BY <1>6, EvictTiles
<1>7. CASE Forget
  <2>1. PICK c \in Chunk :
          /\ RegionOf[c] = dead_region /\ initialized' = initialized \ {c}
          /\ UNCHANGED <<win, live, dying, dead_region, readable, content, staging, mapped>>
    BY <1>7 DEF Forget, lru_forget_chunk, ChunksOf, shares, memory, lifetime, job
  <2>2. Backed' = Backed /\ Existing' = Existing
    BY <2>1 DEF Backed, Existing
  <2>3. FilledIsPopulated'
    BY <2>1, <2>2 DEF TilesInv, FilledIsPopulated, Settled, RegionOfPage
  <2> QED
    BY <2>1, <2>2, <2>3 DEF TilesInv
<1>8. CASE region_list_remove /\ UNCHANGED win
  <2>1. /\ live' = live \ {dead_region} /\ dying' = dying \cup {dead_region}
        /\ dead_region \in live
        /\ UNCHANGED <<win, initialized, readable, content, staging, mapped>>
    BY <1>8 DEF region_list_remove, cache, shares, memory, IInv, RegionsTakenApartLast
  <2>2. Backed' = Backed /\ Existing' = Existing
    BY <2>1 DEF Backed, Existing
  <2>3. FilledIsPopulated'
    BY <2>1, <2>2 DEF TilesInv, FilledIsPopulated, Settled
  <2> QED
    BY <2>1, <2>2, <2>3 DEF TilesInv
<1>9. ASSUME UNCHANGED <<win, live, dying, initialized, readable, content, staging, mapped>>,
             dead_region' = dead_region \/ dead_region = None
      PROVE  TilesInv'
  <2>1. Backed' = Backed /\ Existing' = Existing
    BY <1>9 DEF Backed, Existing
  <2>2. \A p \in Page : Settled(RegionOfPage(p))' => Settled(RegionOfPage(p))
    BY <1>9, PageGeometry, PageAssumption DEF Settled
  <2>3. FilledIsPopulated'
    BY <1>9, <2>1, <2>2 DEF TilesInv, FilledIsPopulated, Backed
  <2> QED
    BY <1>9, <2>1, <2>3 DEF TilesInv
<1>10. ASSUME NEW p \in Page, FaultWithinBound(p) PROVE TilesInv'
  BY <1>9, <1>10 DEF FaultWithinBound, Fault, cache, shares, memory, lifetime
<1>11. CASE Finish
  BY <1>9, <1>11 DEF Finish, Return, cache, shares, memory, lifetime
<1>12. ASSUME EvictDone \/ \E r \in Region : fc_region_destroy(r), UNCHANGED win
       PROVE  TilesInv'
  BY <1>9, <1>12 DEF EvictDone, fc_region_destroy, cache, shares, memory, lifetime,
                     IInv, TypeOK
<1>13. CASE UNCHANGED WindowsVars
  BY <1>9, <1>13 DEF WindowsVars, vars, cache, shares, memory, lifetime, job
<1> QED
  BY <1>1, <1>2, <1>3, <1>4, <1>5, <1>6, <1>7, <1>8, <1>10, <1>11, <1>12, <1>13
     DEF WindowsNext

(* The three invariants together, in every reachable state.                *)
THEOREM WindowsInvariant == WindowsSpec => [](IInv /\ StatsInv /\ TilesInv)
<1>1. IInv /\ [WindowsNext]_WindowsVars => IInv'
  BY NextInv, WindowsStep
<1>2. WindowsInit => IInv
  BY InitInv DEF WindowsInit
<1> QED
  BY <1>1, <1>2, StatsInit, StatsNext, TilesInit, TilesNext, PTL DEF WindowsSpec

(* For every geometry, no kernel call that the Windows seam makes for the  *)
(* pool fails, so none of its FC_ASSERTs aborts the process.               *)
THEOREM KernelCallsNeverFail == WindowsSpec => []KernelCallsSucceed
<1>1. TilesInv => KernelCallsSucceed
  BY DEF TilesInv, Tiled, KernelCallsSucceed
<1> QED
  BY <1>1, WindowsInvariant, PTL

(* The Windows address space always shows a reader what the pool believes, *)
(* backs exactly the pages that hold bytes and reserves exactly the pages  *)
(* of the regions that exist.                                              *)
THEOREM WindowsContractKept == WindowsSpec => []WindowsKeepsContract
<1>1. ASSUME TilesInv PROVE WindowsKeepsContract
  <2>1. /\ win.views \subseteq Unit /\ UNION win.views = Backed /\ Backed \subseteq Existing
        /\ UNION win.placeholders = Existing \ Backed
        /\ \A v, x \in win.placeholders : v = x \/ v \cap x = {}
    BY <1>1 DEF TilesInv, Tiled
  <2>2. \A v, x \in win.placeholders \cup win.views : v = x \/ v \cap x = {}
    <3>1. \A v, x \in win.views : v = x \/ v \cap x = {}
      BY <2>1, UnitGeometry
    <3>2. \A v \in win.placeholders, x \in win.views : v \cap x = {}
      BY <2>1
    <3> QED
      BY <2>1, <3>1, <3>2
  <2>3. UNION (win.placeholders \cup win.views) = Existing
    BY <2>1
  <2> QED
    BY <1>1, <2>1, <2>2, <2>3 DEF TilesInv, WindowsKeepsContract, Backed, Existing
<1> QED
  BY <1>1, WindowsInvariant, PTL

(* In every pool, whatever its history, the four debug reports agree with  *)
(* each other and with the LRU queue.                                      *)
THEOREM ReportsCorrect == WindowsSpec => []ReportsAgree
<1>1. ASSUME IInv, StatsInv PROVE ReportsAgree
  <2> DEFINE listed == fc_pool_debug_lru_queue(Cardinality(Chunk))
  <2>1. /\ listed.out_count = Len(listed.entries)
        /\ {listed.entries[i].chunk : i \in DOMAIN listed.entries} = initialized
    BY <1>1, QueueListed
  <2> HIDE DEF listed
  <2>2. ASSUME NEW r \in live
        PROVE  LET stat    == fc_region_debug_stats(r)
                   lru     == fc_region_debug_lru_stats(r)
                   history == fc_region_debug_lru_history(r)
                   here    == {c \in ChunksOf(r) : history[c].resident}
               IN  /\ lru.resident_chunks = Cardinality(here)
                   /\ lru.resident_bytes = MapThenSumSet(LAMBDA c : history[c].size, here)
                   /\ here = initialized \cap ChunksOf(r)
                   /\ lru.fault_events_total
                        = MapThenSumSet(LAMBDA c : history[c].faults_total, ChunksOf(r))
                   /\ \A c \in here : history[c].faults_total > 0
                   /\ stat.chunks_resolved \in
                        lru.resident_chunks .. lru.fault_events_total
                   /\ stat.faults_handled <= lru.fault_events_total
    <3> DEFINE stat    == fc_region_debug_stats(r)
               lru     == fc_region_debug_lru_stats(r)
               history == fc_region_debug_lru_history(r)
               here    == {c \in ChunksOf(r) : history[c].resident}
    <3>1. \A c \in ChunksOf(r) : /\ history[c].size = Size[c]
                                 /\ history[c].faults_total = chunk_faults_total[c]
                                 /\ history[c].resident <=> c \in Resident(queue)
      BY DEF fc_region_debug_lru_history
    <3>2. here = initialized \cap ChunksOf(r)
      BY <1>1, <3>1, InvQueue
    <3>3. /\ r \in Region /\ initialized \in SUBSET Chunk /\ counters[r] \in Counter
          /\ Agrees(counters[r], r, initialized, chunk_faults_total)
      BY <1>1, <2>2 DEF IInv, TypeOK, StatsInv
    <3>4. /\ stat.chunks_resolved = counters[r].chunks_resolved
          /\ stat.faults_handled = counters[r].faults_handled
          /\ lru.resident_chunks = counters[r].resident_chunks
          /\ lru.resident_bytes = counters[r].resident_bytes
          /\ lru.fault_events_total = counters[r].fault_events_total
      BY DEF fc_region_debug_stats, fc_region_debug_lru_stats
    <3>5. IsFiniteSet(here) /\ IsFiniteSet(ChunksOf(r)) /\ here \subseteq ChunksOf(r)
      BY <3>2, <3>3, ChunksFinite
    <3> HIDE DEF stat, lru, history, here
    <3>6. MapThenSumSet(LAMBDA c : history[c].size, here) = SizeOf(here)
      <4>1. SizeOf(here) = Total(Size, here)
        BY DEF SizeOf, Total
      <4> QED
        BY <4>1, <3>1, <3>5, SizesTotal
    <3>7. MapThenSumSet(LAMBDA c : history[c].faults_total, ChunksOf(r))
             = Total(chunk_faults_total, ChunksOf(r))
      BY <3>1, <3>5, FaultsTotal
    <3>8. \A c \in here : history[c].faults_total > 0
      BY <1>1, <3>1, <3>2, <3>5 DEF StatsInv
    <3>9. /\ counters[r].resident_chunks \in Int /\ counters[r].chunks_resolved \in Int
          /\ counters[r].fault_events_total \in Int
      BY <3>3 DEF Counter
    <3>10. stat.chunks_resolved \in lru.resident_chunks .. lru.fault_events_total
      BY <3>3, <3>4, <3>9 DEF Agrees
    <3> QED
      BY <3>2, <3>3, <3>4, <3>6, <3>7, <3>8, <3>10 DEF Agrees, stat, lru, history, here
  <2> QED
    BY <2>1, <2>2 DEF ReportsAgree, listed
<1> QED
  BY <1>1, WindowsInvariant, PTL
=============================================================================
