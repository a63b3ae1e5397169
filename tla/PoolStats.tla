----------------------------- MODULE PoolStats ------------------------------
(***************************************************************************)
(* The counters a pool keeps beside its queue and the debug interface that *)
(* reports them (src/include/faultcache/debug.h, src/src/inproc.c).  The   *)
(* reports take pool->lock, so they see the state between two jobs.        *)
(***************************************************************************)
EXTENDS Pool

CONSTANT MaxEvents   \* bound on a region's fault_events_total

ASSUME EventsAssumption == MaxEvents \in Nat /\ IsFiniteSet(Chunk)

VARIABLES
    chunk_faults_total,   \* per chunk
    counters              \* per region: the rest

Zero == [resident_bytes |-> 0, resident_chunks |-> 0, fault_events_total |-> 0,
         chunks_resolved |-> 0, faults_handled |-> 0]

\* lru_init(); a later region of the same name starts from zero again.
lru_init(r) ==
    /\ chunk_faults_total' = [c \in Chunk |-> IF RegionOf[c] = r THEN 0 ELSE chunk_faults_total[c]]
    /\ counters' = [counters EXCEPT ![r] = Zero]

WithinBound(p) == counters[RegionOfPage(p)].fault_events_total < MaxEvents

\* What a fill of c adds to the counters k of its region.
Filled(k, c) ==
    [resident_bytes |-> k.resident_bytes + Size[c], resident_chunks |-> k.resident_chunks + 1,
     fault_events_total |-> k.fault_events_total + 1, chunks_resolved |-> k.chunks_resolved + 1,
     faults_handled |-> k.faults_handled]

\* The end of fill_chunk_locked(), on a chunk that was not resident.
CountFill(c) ==
    /\ chunk_faults_total' = [chunk_faults_total EXCEPT ![c] = @ + 1]
    /\ counters' = [counters EXCEPT ![RegionOf[c]] = Filled(@, c)]

\* A promotion is a fault event that resolves nothing.
CountPromotion(c) ==
    /\ chunk_faults_total' = [chunk_faults_total EXCEPT ![c] = @ + 1]
    /\ counters' = [counters EXCEPT ![RegionOf[c]].fault_events_total = @ + 1]

\* What forgetting c takes from them; the fault history stays.
Forgotten(k, c) ==
    [resident_bytes |-> k.resident_bytes - lru_node_size(c),
     resident_chunks |-> k.resident_chunks - 1,
     fault_events_total |-> k.fault_events_total, chunks_resolved |-> k.chunks_resolved,
     faults_handled |-> k.faults_handled]

\* Mutant: eviction does not tell the region.
Mutant_CountForget(c) == UNCHANGED <<chunk_faults_total, counters>>

\* lru_forget_chunk(), for eviction too.
CountForget(c) ==
    /\ counters' = [counters EXCEPT ![RegionOf[c]] = Forgotten(@, c)]
    /\ UNCHANGED chunk_faults_total

CountReturn(r) ==
    /\ counters' = [counters EXCEPT ![r].faults_handled = @ + 1]
    /\ UNCHANGED chunk_faults_total

-----------------------------------------------------------------------------
(* The reports.                                                            *)

fc_region_debug_stats(r) ==
    [nchunks |-> Cardinality(ChunksOf(r)), chunks_resolved |-> counters[r].chunks_resolved,
     faults_handled |-> counters[r].faults_handled]

fc_region_debug_lru_stats(r) ==
    [resident_bytes |-> counters[r].resident_bytes,
     resident_chunks |-> counters[r].resident_chunks,
     fault_events_total |-> counters[r].fault_events_total]

\* MRU first; out_count is the total, however few entries were asked for.
fc_pool_debug_lru_queue(max_entries) ==
    [out_count |-> Len(queue.order),
     entries |-> [i \in 1 .. Min({max_entries, Len(queue.order)}) |->
                     [chunk |-> queue.order[i], size |-> Size[queue.order[i]],
                      faults_total |-> chunk_faults_total[queue.order[i]]]]]

fc_region_debug_lru_history(r) ==
    [c \in ChunksOf(r) |->
        [size |-> Size[c], faults_total |-> chunk_faults_total[c],
         resident |-> c \in Resident(queue), cold |-> c \in queue.cold]]

-----------------------------------------------------------------------------
(* Properties.                                                             *)

(* The four reports agree with each other and with the queue, whatever     *)
(* fills, promotions, evictions and destroyed regions came before: a       *)
(* region's residents are the chunks marked resident in its history and    *)
(* the ones the pool's queue lists for it, its fault events are the faults *)
(* of its chunks, a resident chunk has had at least one, and a region has  *)
(* resolved at least what is resident and had an event for every fault it  *)
(* handled.                                                                *)
ReportsAgree ==
    pc = "idle" =>
        LET listed == fc_pool_debug_lru_queue(Cardinality(Chunk))
        IN  /\ listed.out_count = Len(listed.entries)
            /\ \A r \in live :
                 LET stats   == fc_region_debug_stats(r)
                     lru     == fc_region_debug_lru_stats(r)
                     history == fc_region_debug_lru_history(r)
                     here    == {c \in ChunksOf(r) : history[c].resident}
                 IN  /\ lru.resident_chunks = Cardinality(here)
                     /\ lru.resident_bytes = MapThenSumSet(LAMBDA c : history[c].size, here)
                     /\ here = {listed.entries[i].chunk : i \in DOMAIN listed.entries}
                                  \cap ChunksOf(r)
                     /\ lru.fault_events_total
                          = MapThenSumSet(LAMBDA c : history[c].faults_total, ChunksOf(r))
                     /\ \A c \in here : history[c].faults_total > 0
                     /\ stats.chunks_resolved \in
                          lru.resident_chunks .. lru.fault_events_total
                     /\ stats.faults_handled <= lru.fault_events_total
=============================================================================
