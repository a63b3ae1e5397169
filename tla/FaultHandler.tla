---------------------------- MODULE FaultHandler ----------------------------
(***************************************************************************)
(* The process-wide side of a fault: threads that read regions and call    *)
(* the API, the handlers a fault is offered to -- the SIGSEGV disposition  *)
(* and what each handler displaced (src/src/fault-posix.c), or the list of *)
(* vectored handlers (src/src/fault-win32.c) -- the registry of pools and  *)
(* the two levels of locks a fault takes (fault_try_resolve and the pool   *)
(* and region lifecycle in src/src/inproc.c).                              *)
(*                                                                         *)
(* What resolving does to a pool is module Pool; here it is its contract   *)
(* (module LazyMemory): the faulting region becomes readable and others of *)
(* the pool may be hidden.  A region is one page.                          *)
(***************************************************************************)
EXTENDS Integers, SequencesExt

CONSTANTS Thread, Pool, Region,
          PoolOf,        \* the pool each region is carved out of
          Stray,         \* an address of no region
          Scene,         \* the programs considered: the port, the threads there are
                         \* and what each reads, the kind of the other party's
                         \* handler, and whether fill_chunk() touches unresolved memory
          None

ASSUME FaultHandlerAssumption ==
    /\ PoolOf \in [Region -> Pool]
    /\ Stray \notin Region
    /\ \A s \in Scene :
         /\ DOMAIN s.touches \subseteq Thread
         /\ \A t \in DOMAIN s.touches : s.touches[t] \subseteq Region \cup {Stray}
         /\ s.foreign \in {None, "fatal", "fixes", "chains", "leaves"}
         /\ s.windows \in BOOLEAN /\ s.fill_faults \in BOOLEAN
         /\ s.windows => s.foreign # "leaves"
    /\ None \notin Thread \cup Pool \cup Region \cup {Stray}
    /\ None \notin {"default", "faultcache", "fatal", "fixes", "chains", "leaves"}

VARIABLES
    scene,              \* which of the programs this is
    process,            \* "running", "killed" by a signal, or "misuse" abort
    disposition,        \* whose handler the kernel calls for SIGSEGV
    g_handler_installed,
    g_old_action,       \* what install_handler() displaced
    foreign_saved,      \* what the other party displaced, None before it installs
    veh,                \* on Windows: the vectored handlers, first one first
    g_pools_lock, g_pools,
    pool_lock,          \* the owner of each pool's lock
    regions,            \* pool -> the regions in its list
    readable,           \* regions whose page can be read
    pc, addr, cursor,   \* per thread: next step, address or region, pool
    g_resolving_fault,  \* the threads whose flag is set
    g_chaining,         \* the threads whose flag is set
    depth               \* per thread: handlers on its stack

signals == <<disposition, g_handler_installed, g_old_action, foreign_saved, veh>>
locks == <<g_pools_lock, pool_lock>>
lists == <<g_pools, regions>>
flags == <<g_resolving_fault, g_chaining>>
threads == <<pc, addr, cursor, depth>>
vars == <<scene, process, signals, locks, lists, readable, threads, flags>>

Active == DOMAIN scene.touches

Running(t) == process = "running" /\ pc[t] = "run"
At(t, label) == process = "running" /\ pc[t] = label
Goto(t, label) == pc' = [pc EXCEPT ![t] = label]

-----------------------------------------------------------------------------
(* Installing handlers.                                                    *)

\* Our own handler is never kept as the chain target.
install_handler ==
    /\ ~scene.windows
    /\ disposition' = "faultcache"
    /\ g_old_action' = IF disposition = "faultcache" THEN g_old_action ELSE disposition
    /\ UNCHANGED veh

\* Windows: to the front of the list, out of its old place first.
AddVectoredExceptionHandler ==
    /\ scene.windows
    /\ veh' = Cons("faultcache", RemoveFirst(veh, "faultcache"))
    /\ UNCHANGED <<disposition, g_old_action>>

Arm(t) ==
    /\ Running(t)
    /\ install_handler \/ AddVectoredExceptionHandler
    /\ g_handler_installed' = TRUE
    /\ UNCHANGED <<process, foreign_saved, locks, lists, readable, threads, flags>>

\* pthread_once: only the first call installs.
fc_init(t) == ~g_handler_installed /\ Arm(t)

\* Refused as misuse before fc_init().  On Windows the handler is in no place
\* for a moment: the caller is told to call it where it controls the threads.
fc_rearm_handler(t) ==
    /\ g_handler_installed
    /\ scene.windows => \A u \in Active : pc[u] = "run"
    /\ Arm(t)

\* Another party installs a handler of its own and remembers what it
\* displaced, or joins the list at either end.
ForeignInstall ==
    /\ process = "running" /\ scene.foreign # None /\ foreign_saved = None
    /\ foreign_saved' = disposition
    /\ \/ /\ ~scene.windows
          /\ disposition' = "foreign"
          /\ UNCHANGED veh
       \/ /\ scene.windows
          /\ veh' \in {Cons("foreign", veh), Append(veh, "foreign")}
          /\ UNCHANGED disposition
    /\ UNCHANGED <<scene, process, g_handler_installed, g_old_action, locks, lists, readable,
                   threads, flags>>

-----------------------------------------------------------------------------
(* Pools and regions.                                                      *)

\* Mutant: the registry is changed without its lock.
Mutant_RegistryFree == TRUE

RegistryFree == g_pools_lock = None

\* The caller has stopped using the region, as the API demands.
Unused(r) == \A t \in Thread : addr[t] # r

fc_pool_create(t, p) ==
    /\ Running(t)
    /\ p \notin ToSet(g_pools) /\ \A u \in Thread : cursor[u] # p
    /\ RegistryFree
    /\ g_pools' = Cons(p, g_pools)
    /\ UNCHANGED <<process, signals, locks, regions, readable, threads, flags>>

fc_region_create(t, r) ==
    /\ Running(t)
    /\ g_handler_installed
    /\ PoolOf[r] \in ToSet(g_pools)
    /\ r \notin regions[PoolOf[r]] /\ Unused(r)
    /\ pool_lock[PoolOf[r]] = None
    /\ regions' = [regions EXCEPT ![PoolOf[r]] = @ \cup {r}]
    /\ UNCHANGED <<process, signals, locks, g_pools, readable, threads, flags>>

fc_region_destroy(t, r) ==
    /\ Running(t)
    /\ PoolOf[r] \in ToSet(g_pools)
    /\ r \in regions[PoolOf[r]] /\ Unused(r)
    /\ pool_lock[PoolOf[r]] = None
    /\ regions' = [regions EXCEPT ![PoolOf[r]] = @ \ {r}]
    /\ Goto(t, "region_free")
    /\ addr' = [addr EXCEPT ![t] = r]
    /\ UNCHANGED <<process, signals, locks, g_pools, readable, cursor, depth, flags>>

\* Outside the lock.
region_free(t) ==
    /\ At(t, "region_free")
    /\ readable' = readable \ {addr[t]}
    /\ Goto(t, "run")
    /\ addr' = [addr EXCEPT ![t] = None]
    /\ UNCHANGED <<process, signals, locks, lists, cursor, depth, flags>>

\* Unlinked under g_pools_lock; the pool's own lock is not taken.
fc_pool_destroy(t, p) ==
    /\ Running(t)
    /\ p \in ToSet(g_pools)
    /\ \A r \in Region : PoolOf[r] = p => Unused(r)
    /\ RegistryFree
    /\ g_pools' = RemoveFirst(g_pools, p)
    /\ Goto(t, "pool_free")
    /\ cursor' = [cursor EXCEPT ![t] = p]
    /\ UNCHANGED <<process, signals, locks, regions, readable, addr, depth, flags>>

pool_free(t) ==
    /\ At(t, "pool_free")
    /\ readable' = readable \ regions[cursor[t]]
    /\ regions' = [regions EXCEPT ![cursor[t]] = {}]
    /\ Goto(t, "run")
    /\ cursor' = [cursor EXCEPT ![t] = None]
    /\ UNCHANGED <<process, signals, locks, g_pools, addr, depth, flags>>

-----------------------------------------------------------------------------
(* A thread executes an instruction that reads addr[t].                    *)

Read(t, a) ==
    /\ Running(t)
    /\ a # Stray => PoolOf[a] \in ToSet(g_pools) /\ a \in regions[PoolOf[a]]
    /\ Goto(t, "exec")
    /\ addr' = [addr EXCEPT ![t] = a]
    /\ UNCHANGED <<process, signals, locks, lists, readable, cursor, depth, flags>>

Retire(t) ==
    /\ At(t, "exec")
    /\ addr[t] \in readable
    /\ Goto(t, "run")
    /\ addr' = [addr EXCEPT ![t] = None]
    /\ UNCHANGED <<process, signals, locks, lists, readable, cursor, depth, flags>>

\* A handler is called; at the end of the chain is the default action.
Enter(t, handler) ==
    \/ /\ handler = "default"
       /\ process' = "killed"
       /\ UNCHANGED <<pc, depth>>
    \/ /\ handler # "default"
       /\ Goto(t, IF handler = "faultcache" THEN "segv_handler" ELSE "foreign")
       /\ depth' = [depth EXCEPT ![t] = @ + 1]
       /\ UNCHANGED process

\* The vectored handler after h.
Below(h) ==
    LET i == CHOOSE j \in DOMAIN veh : veh[j] = h
    IN  IF i = Len(veh) THEN "default" ELSE veh[i + 1]

\* The kernel delivers SIGSEGV to whoever holds the disposition, an access
\* violation to the first handler of the list.
Deliver(t) ==
    Enter(t, IF ~scene.windows THEN disposition
             ELSE IF veh = << >> THEN "default" ELSE Head(veh))

Trap(t) ==
    /\ At(t, "exec")
    /\ addr[t] \notin readable
    /\ Deliver(t)
    /\ UNCHANGED <<signals, locks, lists, readable, addr, cursor, flags>>

\* A fault inside fill_chunk(): a nested call of segv_handler().
nested_fault(t) == process' = "misuse" /\ UNCHANGED <<pc, cursor, locks>>

\* The start of fault_try_resolve().
fault_try_resolve(t) ==
    /\ At(t, "segv_handler")
    /\ IF t \in g_resolving_fault
       THEN nested_fault(t)
       ELSE /\ g_pools_lock = None
            /\ g_pools_lock' = t
            /\ cursor' = [cursor EXCEPT ![t] = IF g_pools = << >> THEN None ELSE g_pools[1]]
            /\ Goto(t, "walk")
            /\ UNCHANGED <<process, pool_lock>>
    /\ UNCHANGED <<signals, lists, readable, addr, depth, flags>>

\* Mutant: only the first pool of the registry is looked at.
Mutant_NextPool(p) == None

\* pool->next_pool
NextPool(p) ==
    LET i == CHOOSE j \in DOMAIN g_pools : g_pools[j] = p
    IN  IF i = Len(g_pools) THEN None ELSE g_pools[i + 1]

LockPool(t) ==
    /\ At(t, "walk")
    /\ cursor[t] # None
    /\ pool_lock[cursor[t]] = None
    /\ pool_lock' = [pool_lock EXCEPT ![cursor[t]] = t]
    /\ Goto(t, "find_region")
    /\ UNCHANGED <<process, signals, g_pools_lock, lists, readable, addr, cursor, depth, flags>>

\* Mutant: the pool's lock is not released.
Mutant_Unlock(p) == UNCHANGED pool_lock

Unlock(p) == pool_lock' = [pool_lock EXCEPT ![p] = None]

OursToResolve(t) == addr[t] \in regions[cursor[t]] /\ addr[t] \notin readable

\* Not in this pool, or in it and readable: on to the next pool.
SkipPool(t) ==
    /\ At(t, "find_region")
    /\ ~OursToResolve(t)
    /\ Unlock(cursor[t])
    /\ cursor' = [cursor EXCEPT ![t] = NextPool(cursor[t])]
    /\ Goto(t, "walk")
    /\ UNCHANGED <<process, signals, g_pools_lock, lists, readable, addr, depth, flags>>

\* Mutant: the thread does not note that it is resolving.
Mutant_StartResolving(t) == UNCHANGED g_resolving_fault

StartResolving(t) == g_resolving_fault' = g_resolving_fault \cup {t}

find_region_locked(t) ==
    /\ At(t, "find_region")
    /\ OursToResolve(t)
    /\ StartResolving(t)
    /\ Goto(t, "resolve")
    /\ UNCHANGED <<process, signals, locks, lists, readable, addr, cursor, depth, g_chaining>>

\* Back to the interrupted instruction, through every handler on the stack;
\* a frame of ours that was chaining clears its flag on the way, unless the
\* stack it was on has been left for good.
ReturnFromHandlers(t) ==
    /\ Goto(t, "exec")
    /\ depth' = [depth EXCEPT ![t] = 0]
    /\ g_chaining' = IF scene.foreign = "leaves" THEN g_chaining ELSE g_chaining \ {t}

resolve_fault_locked(t) ==
    /\ At(t, "resolve")
    /\ \E hidden \in SUBSET (regions[cursor[t]] \cap readable) :
         readable' = (readable \cup {addr[t]}) \ hidden
    /\ g_resolving_fault' = g_resolving_fault \ {t}
    /\ Unlock(cursor[t])
    /\ g_pools_lock' = None
    /\ cursor' = [cursor EXCEPT ![t] = None]
    /\ ReturnFromHandlers(t)
    /\ UNCHANGED <<process, signals, lists, addr>>

\* fill_chunk() itself faults; SA_NODEFER lets the signal through.
fill_chunk_faults(t) ==
    /\ scene.fill_faults
    /\ At(t, "resolve")
    /\ Deliver(t)
    /\ UNCHANGED <<signals, locks, lists, readable, addr, cursor, flags>>

\* No pool has it: the tail of segv_handler(), or EXCEPTION_CONTINUE_SEARCH.
NotOurs(t) ==
    /\ At(t, "walk")
    /\ cursor[t] = None
    /\ g_pools_lock' = None
    /\ IF scene.windows THEN Enter(t, Below("faultcache"))
       ELSE Goto(t, "chain") /\ UNCHANGED <<process, depth>>
    /\ UNCHANGED <<signals, pool_lock, lists, readable, addr, cursor, flags>>

-----------------------------------------------------------------------------
(* The tail of segv_handler(): the fault is passed down.                   *)

\* Mutant: the handler returns without giving the disposition back.
Mutant_SetDefault == UNCHANGED signals

SetDefault == disposition' = "default"
              /\ UNCHANGED <<g_handler_installed, g_old_action, foreign_saved, veh>>

\* The same fault has come round, or there is nothing to call: give the
\* disposition back and let the kernel act on it.
EndChain(t) ==
    /\ At(t, "chain")
    /\ t \in g_chaining \/ g_old_action = "default"
    /\ SetDefault
    /\ ReturnFromHandlers(t)
    /\ UNCHANGED <<process, locks, lists, readable, addr, cursor, g_resolving_fault>>

\* Mutant: nothing records that this thread is chaining.
Mutant_StartChaining(t) == UNCHANGED g_chaining

StartChaining(t) == g_chaining' = g_chaining \cup {t}

CallOldAction(t) ==
    /\ At(t, "chain")
    /\ t \notin g_chaining
    /\ g_old_action = "foreign"
    /\ StartChaining(t)
    /\ Enter(t, g_old_action)
    /\ UNCHANGED <<signals, locks, lists, readable, addr, cursor, g_resolving_fault>>

(* The other party's handler.                                              *)

\* A crash reporter, or a library that repairs only its own faults.
ForeignDies(t) ==
    /\ At(t, "foreign")
    /\ scene.foreign = "fatal" \/ (scene.foreign = "fixes" /\ addr[t] # Stray)
    /\ process' = "killed"
    /\ UNCHANGED <<signals, locks, lists, readable, threads, flags>>

\* It repairs the fault and returns; the instruction completes.
ForeignFixes(t) ==
    /\ At(t, "foreign")
    /\ scene.foreign = "fixes" /\ addr[t] = Stray
    /\ Goto(t, "run")
    /\ depth' = [depth EXCEPT ![t] = 0]
    /\ addr' = [addr EXCEPT ![t] = None]
    /\ g_chaining' = g_chaining \ {t}
    /\ UNCHANGED <<process, signals, locks, lists, readable, cursor, g_resolving_fault>>

\* It leaves by siglongjmp(): the frames below never get to clear their flags.
ForeignLeaves(t) ==
    /\ At(t, "foreign")
    /\ scene.foreign = "leaves"
    /\ Goto(t, "run")
    /\ depth' = [depth EXCEPT ![t] = 0]
    /\ addr' = [addr EXCEPT ![t] = None]
    /\ UNCHANGED <<process, signals, locks, lists, readable, cursor, flags>>

\* It passes the fault on to what it displaced, or down the list.
ForeignPassesOn(t) ==
    /\ At(t, "foreign")
    /\ scene.foreign = "chains"
    /\ IF scene.windows THEN Enter(t, Below("foreign")) /\ UNCHANGED <<signals, g_chaining>>
       ELSE IF foreign_saved = "default" THEN SetDefault /\ ReturnFromHandlers(t) /\ UNCHANGED process
       ELSE Enter(t, foreign_saved) /\ UNCHANGED <<signals, g_chaining>>
    /\ UNCHANGED <<locks, lists, readable, addr, cursor, g_resolving_fault>>

ForeignHandler(t) ==
    ForeignDies(t) \/ ForeignFixes(t) \/ ForeignLeaves(t) \/ ForeignPassesOn(t)

-----------------------------------------------------------------------------
Init ==
    /\ scene \in Scene
    /\ process = "running"
    /\ disposition = "default" /\ g_old_action = "default" /\ g_handler_installed = FALSE
    /\ foreign_saved = None /\ veh = << >>
    /\ g_pools_lock = None /\ g_pools = << >>
    /\ pool_lock = [p \in Pool |-> None]
    /\ regions = [p \in Pool |-> {}]
    /\ readable = {}
    /\ pc = [t \in Thread |-> "run"]
    /\ addr = [t \in Thread |-> None]
    /\ cursor = [t \in Thread |-> None]
    /\ depth = [t \in Thread |-> 0]
    /\ g_resolving_fault = {} /\ g_chaining = {}

\* What a thread does by itself once it has entered an operation.
Step(t) ==
    \/ Retire(t) \/ Trap(t) \/ fault_try_resolve(t) \/ LockPool(t) \/ SkipPool(t)
    \/ find_region_locked(t) \/ resolve_fault_locked(t) \/ NotOurs(t)
    \/ EndChain(t) \/ CallOldAction(t) \/ ForeignHandler(t)
    \/ region_free(t) \/ pool_free(t)

\* What the program and its other parties choose to do.
Choose(t) ==
    \/ fc_init(t) \/ fc_rearm_handler(t) \/ fill_chunk_faults(t)
    \/ \E p \in Pool : fc_pool_create(t, p) \/ fc_pool_destroy(t, p)
    \/ \E r \in Region : fc_region_create(t, r) \/ fc_region_destroy(t, r)
    \/ \E a \in scene.touches[t] : Read(t, a)

Ended == process # "running" /\ UNCHANGED vars

Next ==
    \/ \E t \in Active : (Step(t) \/ Choose(t)) /\ UNCHANGED scene
    \/ ForeignInstall
    \/ Ended

Spec == Init /\ [][Next]_vars

\* Every thread keeps running; nothing is assumed about who wins a lock.
FairSpec == Spec /\ \A t \in Thread : WF_vars(Step(t) /\ UNCHANGED scene)

-----------------------------------------------------------------------------
(* Properties.                                                             *)

(* The values the variables take; a lock has at most one owner, and only a *)
(* thread inside fault_try_resolve() owns one.                             *)
TypeOK ==
    /\ process \in {"running", "killed", "misuse"}
    /\ disposition \in {"default", "faultcache", "foreign"}
    /\ g_old_action \in {"default", "foreign"}
    /\ ToSet(g_pools) \subseteq Pool
    /\ regions \in [Pool -> SUBSET Region] /\ readable \subseteq Region
    /\ process = "running" => \A t \in Thread :
         /\ g_pools_lock = t <=> \/ pc[t] \in {"walk", "find_region", "resolve"}
                                 \/ t \in g_resolving_fault
         /\ \A p \in Pool : pool_lock[p] = t => g_pools_lock = t /\ cursor[t] = p

(* A thread walking the registry from the fault handler only ever holds    *)
(* pools that are still in it, and resolves only regions still in their    *)
(* pool's list: neither fc_pool_destroy() nor fc_region_destroy() on       *)
(* another thread frees what the handler is working on.                    *)
WalkedPoolListed ==
    \A t \in Thread :
        /\ pc[t] \in {"walk", "find_region", "resolve"} =>
               cursor[t] \in ToSet(g_pools) \cup {None}
        /\ pc[t] = "resolve" => addr[t] \in regions[cursor[t]]

(* A fault raised by fill_chunk() never waits for a lock its own thread    *)
(* holds: the flag turns it into a misuse report instead of a deadlock.    *)
NoSelfWait ==
    \A t \in Thread :
        pc[t] = "segv_handler" /\ g_pools_lock = t => t \in g_resolving_fault

(* A fault is passed round at most once: two handlers that have saved each *)
(* other end at the default disposition, not in unbounded recursion.  When *)
(* fill_chunk() faults below them, that adds one handler more at most.     *)
ChainBounded ==
    \A t \in Thread : depth[t] <= IF t \in g_resolving_fault THEN 5 ELSE 4

\* Every thread reads regions only, and the other party passes on what it did
\* not cause.
Legal ==
    /\ \A t \in Active : Stray \notin scene.touches[t]
    /\ scene.foreign \in {None, "chains"} /\ ~scene.fill_faults

Installed ==
    IF scene.windows THEN "faultcache" \in ToSet(veh) ELSE disposition # "default"

(* Threads that only read live regions are never harmed: the process keeps *)
(* running and the handler stays installed, so later faults are served     *)
(* too.  ("Touching an unresolved chunk faults synchronously on the        *)
(* accessing thread, which resolves it inline"; "the faultcache handler is *)
(* never uninstalled".)                                                    *)
LegalReadsSurvive ==
    Legal => process = "running" /\ (g_handler_installed => Installed)

(* Once the handler below ours takes care of every fault it is given, by   *)
(* leaving with siglongjmp(), no fault passed down to it kills the         *)
(* process.  (g_chaining is "true while this thread is passing a fault     *)
(* down g_old_action", and only a fault met twice is to end the chain.)    *)
PassedDownSurvives ==
    scene.foreign = "leaves" /\ g_old_action = "foreign" => process # "killed"

(* Whoever takes g_pools_lock gives it back: no fault, pool creation or    *)
(* pool destruction blocks the others for ever, whatever handlers there    *)
(* are above and below ours -- but for one that jumps out of a faulting    *)
(* fill_chunk() and over the unlocking.                                    *)
GPoolsLockReleased ==
    g_pools_lock # None ~> \/ g_pools_lock = None \/ process # "running"
                           \/ scene.foreign = "leaves" /\ scene.fill_faults

(* Every fault the handler sees is answered: resolved, repaired by another *)
(* handler, or fatal -- never retried for ever, unless by what other       *)
(* threads do at the same time.                                            *)
FaultAnswered ==
    \A t \in Thread :
        pc[t] = "segv_handler" ~> \/ pc[t] = "run" \/ process # "running"
                                  \/ \E u \in Active \ {t} : pc[u] # "run"
=============================================================================
