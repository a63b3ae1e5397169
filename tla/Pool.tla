-------------------------------- MODULE Pool --------------------------------
(***************************************************************************)
(* One in-process pool (src/src/inproc.c): the regions carved out of it,   *)
(* the resolution of a fault, the pool-wide LRU queue with its midpoint,   *)
(* eviction, demotion, the staging of pages shared between chunks, and     *)
(* what the virtual-memory layer shows of all this to a reader.            *)
(*                                                                         *)
(* Everything between taking and releasing pool->lock is one job, spread   *)
(* over the steps of pc so that a reader of the memory, who takes no lock, *)
(* sees every intermediate state.  pc = "idle" means the lock is free.     *)
(*                                                                         *)
(* The geometry is a parameter: Contributors[p] is the set of chunks with  *)
(* bytes in page p.  Module Layout computes it from chunk sizes.           *)
(***************************************************************************)
EXTENDS Integers, SequencesExt

CONSTANTS Region, Chunk, Page,
          RegionOf,       \* the region of each chunk
          Index,          \* the chunk's number within its region
          Size,           \* the chunk's size in bytes
          Contributors,   \* the chunks with bytes in each page
          TargetSize,     \* the pool's target_size, 0 for unbounded
          lru_head,       \* the sentinel of the LRU queue
          None            \* no page, no region

ASSUME ChunkAssumption ==
    /\ RegionOf \in [Chunk -> Region]
    /\ Index \in [Chunk -> Nat]
    /\ Size \in [Chunk -> Nat \ {0}]
    /\ lru_head \notin Chunk

ASSUME PageAssumption ==
    /\ Contributors \in [Page -> SUBSET Chunk]
    /\ \A p \in Page :
         /\ Contributors[p] # {}
         /\ IsFiniteSet(Contributors[p])
         /\ \A c, d \in Contributors[p] : RegionOf[c] = RegionOf[d]
    /\ None \notin Page
    /\ None \notin Region

ASSUME TargetAssumption == TargetSize \in Nat

VARIABLES
    live,             \* regions in the pool's list
    dying,            \* regions out of the list whose memory is not yet released
    initialized,      \* chunks whose initialized[] flag is set
    chunk_staged,     \* chunks that have handed their bytes to their shared pages
    queue,            \* the LRU queue: order (MRU first), midpoint, cold, hot_bytes
    resident_bytes,   \* pool->resident_bytes
    staged,           \* shared_page_t.staged of each page
    staging,          \* the chunks whose bytes are in the page's staging page
    mapped,           \* shared pages that have been published
    readable,         \* pages mapped PROT_READ; every other page is PROT_NONE
    content,          \* the chunks whose bytes the page's mapping holds
    pc,               \* what the holder of pool->lock does next
    fault_page,       \* the page being resolved
    dead_region       \* the region being destroyed

cache == <<initialized, queue, resident_bytes>>
shares == <<chunk_staged, staged, staging, mapped>>
memory == <<readable, content>>
lifetime == <<live, dying>>
job == <<pc, fault_page, dead_region>>
vars == <<cache, shares, memory, lifetime, job>>

-----------------------------------------------------------------------------
(* Geometry.                                                               *)

SharedPage == {p \in Page : \E c, d \in Contributors[p] : c # d}

Owner(p) == CHOOSE c \in Contributors[p] : TRUE

RegionOfPage(p) == RegionOf[Owner(p)]

PagesOfRegion(r) == {p \in Page : RegionOfPage(p) = r}

ChunksOf(r) == {c \in Chunk : RegionOf[c] = r}

exclusive_pages(c) == {p \in Page : Contributors[p] = {c}}

\* The shared pages fill_chunk_locked() stages into: the chunk's head and tail.
SharedPagesOf(c) == {p \in SharedPage : c \in Contributors[p]}

\* Mutant: the pages stay as they are.
Mutant_chunk_set_readable(c, on) == UNCHANGED readable

chunk_set_readable(c, on) ==
    readable' = IF on THEN readable \cup exclusive_pages(c) ELSE readable \ exclusive_pages(c)

page_readable(p) ==
    IF p \in SharedPage THEN p \in mapped
    ELSE Owner(p) \in initialized /\ Owner(p) \notin queue.cold

-----------------------------------------------------------------------------
(* The LRU queue.  A chunk is resident when it is in order.                *)

Resident(q) == ToSet(q.order)

Position(q, c) == CHOOSE i \in DOMAIN q.order : q.order[i] = c

\* Mutant: the midpoint is reset and not moved back.
Mutant_Prev(q, c) == lru_head

\* node->prev
Prev(q, c) ==
    IF Position(q, c) = 1 THEN lru_head ELSE q.order[Position(q, c) - 1]

\* pool->lru_head.next
Mru(q) == IF q.order = << >> THEN lru_head ELSE q.order[1]

\* Mutant: the last byte of a chunk is not counted.
Mutant_lru_node_size(c) == Size[c] - 1

lru_node_size(c) == Size[c]

\* The node's cold flag is left as it was.
lru_unlink(q, c) ==
    [order     |-> RemoveAt(q.order, Position(q, c)),
     midpoint  |-> IF q.midpoint = c THEN Prev(q, c) ELSE q.midpoint,
     cold      |-> q.cold,
     hot_bytes |-> IF c \in q.cold THEN q.hot_bytes ELSE q.hot_bytes - lru_node_size(c)]

lru_insert_mru(q, c) ==
    [order     |-> Cons(c, q.order),
     midpoint  |-> IF q.midpoint = lru_head THEN c ELSE q.midpoint,
     cold      |-> q.cold \ {c},
     hot_bytes |-> q.hot_bytes + lru_node_size(c)]

lru_demote(q) ==
    [order     |-> q.order,
     midpoint  |-> Prev(q, q.midpoint),
     cold      |-> q.cold \cup {q.midpoint},
     hot_bytes |-> q.hot_bytes - lru_node_size(q.midpoint)]

-----------------------------------------------------------------------------
(* Regions come and go.                                                    *)

\* The last part of fc_region_create(): the region enters the pool's list.
fc_region_create(r) ==
    /\ pc = "idle"
    /\ r \notin live \cup dying
    /\ live' = live \cup {r}
    /\ UNCHANGED <<dying, cache, shares, memory, job>>

fc_region_destroy(r) ==
    /\ pc = "idle"
    /\ r \in live
    /\ pc' = "forget"
    /\ dead_region' = r
    /\ UNCHANGED <<fault_page, cache, shares, memory, lifetime>>

\* Its chunks leave the queue one by one; the pages stay as they are.
lru_forget_chunk ==
    /\ pc = "forget"
    /\ \E c \in Resident(queue) \cap ChunksOf(dead_region) :
         /\ \A d \in Resident(queue) \cap ChunksOf(dead_region) : Index[c] <= Index[d]
         /\ queue' = lru_unlink(queue, c)
         /\ initialized' = initialized \ {c}
         /\ resident_bytes' = resident_bytes - lru_node_size(c)
    /\ UNCHANGED <<shares, memory, lifetime, job>>

region_list_remove ==
    /\ pc = "forget"
    /\ Resident(queue) \cap ChunksOf(dead_region) = {}
    /\ live' = live \ {dead_region}
    /\ dying' = dying \cup {dead_region}
    /\ pc' = "idle"
    /\ dead_region' = None
    /\ UNCHANGED <<fault_page, cache, shares, memory>>

\* After the lock is released: the memory goes, and with it every flag of
\* the region.  A region created later starts from zeroed memory.
region_free(r) ==
    /\ r \in dying
    /\ dying' = dying \ {r}
    /\ readable' = readable \ PagesOfRegion(r)
    /\ content' = [p \in Page |-> IF p \in PagesOfRegion(r) THEN {} ELSE content[p]]
    /\ chunk_staged' = chunk_staged \ ChunksOf(r)
    /\ staged' = [p \in Page |-> IF p \in PagesOfRegion(r) THEN 0 ELSE staged[p]]
    /\ staging' = [p \in Page |-> IF p \in PagesOfRegion(r) THEN {} ELSE staging[p]]
    /\ mapped' = mapped \ PagesOfRegion(r)
    /\ queue' = [queue EXCEPT !.cold = @ \ ChunksOf(r)]
    /\ UNCHANGED <<live, initialized, resident_bytes, job>>

-----------------------------------------------------------------------------
(* A fault.                                                                *)

\* Mutant: a fault on a readable page is taken for one of ours.
Mutant_Ours(p) == RegionOfPage(p) \in live

Ours(p) == RegionOfPage(p) \in live /\ ~page_readable(p)

\* fault_try_resolve() finds the region under the lock and takes the fault
\* only when the page is not readable.
Fault(p) ==
    /\ pc = "idle"
    /\ Ours(p)
    /\ pc' = "resolve"
    /\ fault_page' = p
    /\ UNCHANGED <<dead_region, cache, shares, memory, lifetime>>

Missing(p) == {c \in Contributors[p] : c \notin initialized}

\* Mutant: a chunk filled again stages again.
Mutant_StagesInto(c) == SharedPagesOf(c)

\* The effect of fill_chunk_locked() on the shared pages of chunk c: a chunk
\* that has staged before stages nothing.
StagesInto(c) == IF c \in chunk_staged THEN {} ELSE SharedPagesOf(c)

\* Mutant: a page is published one contributor early.
Mutant_Completes(c) ==
    {p \in StagesInto(c) : staged[p] + 2 >= Cardinality(Contributors[p])}

\* The pages for which c was the last contributor missing.
Completes(c) ==
    {p \in StagesInto(c) : staged[p] + 1 = Cardinality(Contributors[p])}

stage_into_shared_page(c) ==
    /\ chunk_staged' = IF SharedPagesOf(c) = {} THEN chunk_staged
                       ELSE chunk_staged \cup {c}
    /\ staged' = [p \in Page |-> IF p \in StagesInto(c) THEN staged[p] + 1 ELSE staged[p]]
    /\ staging' = [p \in Page |-> IF p \in Completes(c) THEN {}
                                  ELSE IF p \in StagesInto(c) THEN staging[p] \cup {c}
                                  ELSE staging[p]]
    /\ mapped' = mapped \cup Completes(c)

\* install_shared_page() and the publishing of the chunk's own pages.
publish(c) ==
    /\ content' = [p \in Page |-> IF p \in Completes(c) THEN staging[p] \cup {c}
                                  ELSE IF p \in exclusive_pages(c) THEN {c}
                                  ELSE content[p]]
    /\ readable' = readable \cup Completes(c) \cup exclusive_pages(c)

fill_chunk_locked(c) ==
    /\ initialized' = initialized \cup {c}
    /\ stage_into_shared_page(c)
    /\ publish(c)
    /\ IF c \in Resident(queue)
       THEN UNCHANGED <<queue, resident_bytes>>
       ELSE /\ queue' = lru_insert_mru(queue, c)
            /\ resident_bytes' = resident_bytes + Size[c]

\* One turn of the loop over the contributors, in ascending order.
Fill ==
    /\ pc = "resolve"
    /\ \E c \in Missing(fault_page) :
         /\ \A d \in Missing(fault_page) : Index[c] <= Index[d]
         /\ fill_chunk_locked(c)
         /\ pc' = IF Missing(fault_page) = {c} THEN "evict" ELSE "resolve"
    /\ UNCHANGED <<fault_page, dead_region, lifetime>>

\* The owner is populated and only demoted: hand its read access back.
lru_promote ==
    /\ pc = "resolve"
    /\ fault_page \notin SharedPage
    /\ Missing(fault_page) = {}
    /\ LET c == Owner(fault_page)
       IN  /\ chunk_set_readable(c, TRUE)
           /\ queue' = lru_insert_mru(lru_unlink(queue, c), c)
    /\ pc' = "evict"
    /\ UNCHANGED <<fault_page, dead_region, initialized, resident_bytes,
                   content, shares, lifetime>>

OverBudget == TargetSize # 0 /\ resident_bytes > TargetSize

\* Mutant: the victim is taken at the midpoint.
Mutant_Victim == queue.midpoint

\* pool->lru_head.prev
Victim == Last(queue.order)

\* Mutant: every chunk of the region being served is protected.
Mutant_CanEvict ==
    /\ OverBudget /\ queue.order # << >>
    /\ RegionOf[Victim] # RegionOfPage(fault_page)

\* The loop stops at a victim whose bytes are on the page being resolved.
CanEvict ==
    /\ OverBudget
    /\ queue.order # << >>
    /\ Victim \notin Contributors[fault_page]

lru_evict_chunk ==
    /\ pc = "evict"
    /\ CanEvict
    /\ queue' = lru_unlink(queue, Victim)
    /\ initialized' = initialized \ {Victim}
    /\ resident_bytes' = resident_bytes - lru_node_size(Victim)
    /\ readable' = readable \ exclusive_pages(Victim)
    /\ content' = [p \in Page |-> IF p \in exclusive_pages(Victim) THEN {} ELSE content[p]]
    /\ UNCHANGED <<shares, lifetime, job>>

EvictDone ==
    /\ pc = "evict"
    /\ ~CanEvict
    /\ pc' = "rebalance"
    /\ UNCHANGED <<fault_page, dead_region, cache, shares, memory, lifetime>>

\* Mutant: the most recent chunk may be demoted too.
Mutant_CanDemote ==
    /\ TargetSize # 0
    /\ queue.hot_bytes > resident_bytes \div 2
    /\ queue.midpoint # lru_head

CanDemote ==
    /\ TargetSize # 0
    /\ queue.hot_bytes > resident_bytes \div 2
    /\ queue.midpoint # Mru(queue)

\* One turn of the loop in lru_rebalance().
lru_rebalance ==
    /\ pc = "rebalance"
    /\ CanDemote
    /\ chunk_set_readable(queue.midpoint, FALSE)
    /\ queue' = lru_demote(queue)
    /\ UNCHANGED <<initialized, resident_bytes, content, shares, lifetime, job>>

\* Mutant: the fault is still in progress after the unlock, as it would be with
\* g_resolving_fault left set.
Mutant_Return ==
    /\ pc = "rebalance" /\ ~CanDemote /\ pc' = "idle"
    /\ UNCHANGED <<fault_page, dead_region, cache, shares, memory, lifetime>>

\* The loop ends, the locks are released and the instruction is retried.
Return ==
    /\ pc = "rebalance"
    /\ ~CanDemote
    /\ pc' = "idle"
    /\ fault_page' = None
    /\ UNCHANGED <<dead_region, cache, shares, memory, lifetime>>

-----------------------------------------------------------------------------
\* fc_pool_create()
Init ==
    /\ live = {} /\ dying = {}
    /\ initialized = {} /\ chunk_staged = {}
    /\ queue = [order |-> << >>, midpoint |-> lru_head, cold |-> {}, hot_bytes |-> 0]
    /\ resident_bytes = 0
    /\ staged = [p \in Page |-> 0]
    /\ staging = [p \in Page |-> {}]
    /\ mapped = {} /\ readable = {}
    /\ content = [p \in Page |-> {}]
    /\ pc = "idle" /\ fault_page = None /\ dead_region = None

\* The steps of the thread that holds pool->lock.
LockHolder ==
    \/ Fill \/ lru_promote \/ lru_evict_chunk \/ EvictDone \/ lru_rebalance \/ Return
    \/ lru_forget_chunk \/ region_list_remove

Next ==
    \/ \E r \in Region : fc_region_create(r) \/ fc_region_destroy(r) \/ region_free(r)
    \/ \E p \in Page : Fault(p)
    \/ LockHolder

Spec == Init /\ [][Next]_vars

\* The thread that holds the lock keeps running.
FairSpec == Spec /\ WF_vars(LockHolder)

-----------------------------------------------------------------------------
(* Properties.                                                             *)

QueueType == [order : Seq(Chunk), midpoint : Chunk \cup {lru_head},
              cold : SUBSET Chunk, hot_bytes : Int]

(* The values the variables take: in particular a resolving thread always *)
(* has a page, a destroying one always has a region.                       *)
TypeOK ==
    /\ live \subseteq Region /\ dying \subseteq Region
    /\ initialized \subseteq Chunk /\ chunk_staged \subseteq Chunk
    /\ queue \in QueueType
    /\ resident_bytes \in Int
    /\ staged \in [Page -> Nat] /\ staging \in [Page -> SUBSET Chunk]
    /\ mapped \subseteq Page /\ readable \subseteq Page
    /\ content \in [Page -> SUBSET Chunk]
    /\ pc \in {"idle", "resolve", "evict", "rebalance", "forget"}
    /\ IF pc \in {"resolve", "evict", "rebalance"}
       THEN fault_page \in Page ELSE fault_page = None
    /\ IF pc = "forget" THEN dead_region \in Region ELSE dead_region = None

NoDuplicates(q) ==
    \A i, j \in DOMAIN q.order : i # j => q.order[i] # q.order[j]

(* The LRU queue holds exactly the initialized chunks, each once, and only *)
(* chunks of regions still in the pool's list: fc_region_destroy() leaves  *)
(* no node of freed memory behind, and no chunk is initialized without     *)
(* being evictable.                                                        *)
QueueHoldsInitialized ==
    /\ Resident(queue) = initialized
    /\ NoDuplicates(queue)
    /\ \A c \in initialized : RegionOf[c] \in live

SplitAtMidpoint(q) ==
    \/ /\ q.midpoint = lru_head
       /\ \A i \in DOMAIN q.order : q.order[i] \in q.cold
    \/ \E k \in DOMAIN q.order :
         /\ q.midpoint = q.order[k]
         /\ \A i \in DOMAIN q.order : q.order[i] \in q.cold <=> i > k

(* The midpoint splits the queue: the nodes up to it are hot, the ones     *)
(* after it cold, and the sentinel stands for an empty hot half -- through *)
(* every unlink, insertion, promotion and demotion.                        *)
HotPrefix == SplitAtMidpoint(queue)

(* Both: the queue that eviction, demotion and promotion work on never     *)
(* loses a chunk, keeps one of a destroyed region, or mixes hot and cold.  *)
QueueSound == QueueHoldsInitialized /\ HotPrefix

\* The region is in the list and not being taken apart.
Settled(r) == r \in live /\ r # dead_region

(* page_readable(), which decides from the bookkeeping whether a fault is  *)
(* ours, agrees with the protection of every page of a live region at each *)
(* step of a resolution; outside the pool's regions nothing is mapped.     *)
ShadowMatchesVM ==
    \A p \in Page :
        /\ Settled(RegionOfPage(p)) => (p \in readable <=> page_readable(p))
        /\ p \in readable => RegionOfPage(p) \in live \cup dying

(* A readable page holds the bytes of all the chunks it overlaps, and a    *)
(* demoted chunk's hidden pages keep theirs: no reader ever sees a page    *)
(* half filled, and promotion hands back what was filled.                  *)
PageComplete ==
    \A p \in Page :
        \/ p \in readable
        \/ p \notin SharedPage /\ Owner(p) \in initialized
        => content[p] = Contributors[p]

(* Eviction and refill never make a chunk count twice towards a shared     *)
(* page: the count is the number of distinct contributors in the staging   *)
(* page, and the page is published exactly when all of them have staged.   *)
StagingExact ==
    /\ \A p \in SharedPage :
         /\ p \in mapped <=> Contributors[p] \subseteq chunk_staged
         /\ p \notin mapped =>
              /\ staging[p] = Contributors[p] \cap chunk_staged
              /\ staged[p] = Cardinality(staging[p])
    /\ \A c \in initialized : SharedPagesOf(c) # {} => c \in chunk_staged

(* A page stays unresolved until its last chunk is filled or promoted, and *)
(* while the pool then shrinks and rebalances the page stays readable and  *)
(* the most recent node is a hot chunk with bytes on it, so neither loop   *)
(* runs out of queue.                                                      *)
MruIsServed ==
    /\ pc = "resolve" =>
         IF fault_page \in SharedPage THEN Missing(fault_page) # {}
         ELSE ~page_readable(fault_page)
    /\ pc \in {"evict", "rebalance"} =>
         /\ fault_page \in readable
         /\ queue.order # << >>
         /\ queue.order[1] \in Contributors[fault_page]
         /\ queue.order[1] \notin queue.cold

(* No region is taken apart under a fault, and nothing of a region that is *)
(* gone is left: its chunks are not staged and its pages not published.    *)
RegionsTakenApartLast ==
    /\ live \cap dying = {}
    /\ pc \in {"resolve", "evict", "rebalance"} => RegionOfPage(fault_page) \in live
    /\ pc = "forget" => dead_region \in live
    /\ \A c \in chunk_staged : RegionOf[c] \in live \cup dying
    /\ mapped \subseteq readable \cap SharedPage

(* Both: what the thread inside pool->lock works on is alive and in the    *)
(* state its next loop expects, whatever other threads create and destroy. *)
ResolutionSound == MruIsServed /\ RegionsTakenApartLast

(* None of the FC_ASSERTs on the resolve path can fail: a chunk stages     *)
(* only into unpublished pages, only a resident cold chunk is promoted, a  *)
(* resolution ends with the page readable, a pool over budget has a victim *)
(* and the rebalance loop never walks past the sentinel.                   *)
AssertionsHold ==
    /\ pc = "resolve" =>
         /\ \A c \in Missing(fault_page) :
              c \notin chunk_staged => SharedPagesOf(c) \cap mapped = {}
         /\ Missing(fault_page) = {} =>
              /\ fault_page \notin SharedPage
              /\ Owner(fault_page) \in Resident(queue) \cap queue.cold
    /\ pc = "evict" =>
         /\ page_readable(fault_page)
         /\ OverBudget => queue.order # << >>
    /\ pc = "rebalance" /\ CanDemote => queue.midpoint \in Resident(queue)

SizeOf(S) == MapThenSumSet(LAMBDA c : Size[c], S)

(* The running byte counters never drift from the queue they summarise,    *)
(* whatever sequence of fills, promotions, demotions, evictions and        *)
(* destroyed regions led here; in particular neither ever underflows.      *)
BytesExact ==
    /\ resident_bytes = SizeOf(Resident(queue))
    /\ queue.hot_bytes = SizeOf(Resident(queue) \ queue.cold)

(* Resolving a fault ends with the faulting page readable: neither the     *)
(* eviction nor the rebalance that follow the fill take it back, so the    *)
(* retried instruction finds it.                                           *)
ServedPageReadable ==
    [][pc = "rebalance" /\ pc' = "idle" => fault_page \in readable']_vars

(* A resolution ends with the pool within its target, unless the chunk at  *)
(* the tail of the queue has bytes on the very page being served; when     *)
(* that page is one chunk's alone, it is then the only chunk resident.     *)
BudgetKept ==
    [][pc = "rebalance" /\ pc' = "idle" /\ OverBudget' =>
            /\ Last(queue'.order) \in Contributors[fault_page]
            /\ fault_page \notin SharedPage => Len(queue'.order) = 1]_vars

(* Eviction takes a hot chunk only when no resident chunk is cold.         *)
ColdEvictedFirst ==
    [][pc = "evict" => \A c \in initialized \ initialized' :
            c \in queue.cold \/ Resident(queue) \cap queue.cold = {}]_vars

(* Whoever takes pool->lock gives it back: the loops that fill a page's    *)
(* chunks, evict, demote and forget the chunks of a dead region all end,   *)
(* and none of them is left without a step to take.                        *)
LockReleased == pc # "idle" ~> pc = "idle"

(* A published shared page stays readable for as long as its region        *)
(* exists, whatever happens to the chunks with bytes in it.                *)
SharedPagePinned ==
    [][\A p \in mapped :
            RegionOfPage(p) \in live' \cup dying' => p \in readable']_vars

(* In an unbounded pool a page once readable stays readable until its      *)
(* region is released: no chunk is ever hidden, evicted or filled again.   *)
UnboundedKeepsPages ==
    [][TargetSize = 0 => \A p \in readable :
            RegionOfPage(p) \in live' \cup dying' => p \in readable']_vars

Lazy == INSTANCE LazyMemory
            WITH PageRegion <- [p \in Page |-> RegionOfPage(p)],
                 Pinned     <- SharedPage,
                 existing   <- live \cup dying,
                 shown      <- readable,
                 serving    <- fault_page

(* The pool implements LazyMemory: under every interleaving of faults,     *)
(* evictions, demotions and destroyed regions a reader sees only what that *)
(* contract allows.                                                        *)
ImplementsLazyMemory == Lazy!Spec

=============================================================================
