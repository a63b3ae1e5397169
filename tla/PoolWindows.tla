---------------------------- MODULE PoolWindows -----------------------------
(***************************************************************************)
(* The pool with the Windows address space below it and its counters and   *)
(* debug reports beside it: every action of Pool, with the calls it makes  *)
(* through the virtual-memory seam and the counters it updates.            *)
(***************************************************************************)
EXTENDS PoolWin32, PoolStats

stats == <<chunk_faults_total, counters>>
WindowsVars == <<vars, win, stats>>

WindowsInit ==
    /\ Init
    /\ win = NoMemory
    /\ chunk_faults_total = [c \in Chunk |-> 0]
    /\ counters = [r \in Region |-> Zero]

CreateRegion(r) ==
    /\ fc_region_create(r)
    /\ win' = vm_reserve(win, PagesOfRegion(r))
    /\ lru_init(r)

FreeRegion(r) ==
    /\ region_free(r)
    /\ win' = vm_release(win, PagesOfRegion(r))
    /\ lru_init(r)

FaultWithinBound(p) == WithinBound(p) /\ Fault(p) /\ UNCHANGED <<win, stats>>

FillAndPublish ==
    /\ Fill
    /\ \E c \in initialized' \ initialized : win' = PublishChunk(win, c) /\ CountFill(c)

Promote ==
    /\ lru_promote
    /\ win' = vm_set_readable(win, exclusive_pages(Owner(fault_page)), TRUE)
    /\ CountPromotion(Owner(fault_page))

Evict ==
    /\ lru_evict_chunk
    /\ win' = vm_decommit(win, exclusive_pages(Victim))
    /\ CountForget(Victim)

Demote ==
    /\ lru_rebalance
    /\ win' = vm_set_readable(win, exclusive_pages(queue.midpoint), FALSE)
    /\ UNCHANGED stats

Forget ==
    /\ lru_forget_chunk
    /\ \E c \in initialized \ initialized' : CountForget(c)
    /\ UNCHANGED win

Finish ==
    /\ Return
    /\ CountReturn(RegionOfPage(fault_page))
    /\ UNCHANGED win

WindowsNext ==
    \/ \E r \in Region : CreateRegion(r) \/ FreeRegion(r)
    \/ \E p \in Page : FaultWithinBound(p)
    \/ FillAndPublish \/ Promote \/ Evict \/ Demote \/ Forget \/ Finish
    \/ /\ EvictDone \/ region_list_remove \/ \E r \in Region : fc_region_destroy(r)
       /\ UNCHANGED <<win, stats>>

WindowsSpec == WindowsInit /\ [][WindowsNext]_WindowsVars
=============================================================================
