------------------------------ MODULE Bindings ------------------------------
(***************************************************************************)
(* The Python bindings (src/python/faultcache/__init__.py) and the shim    *)
(* that runs a Python fill_chunk (src/python/_faultcache_shim.c): the      *)
(* lifetime of Pool, Region and view objects, the interpreter lock (GIL)   *)
(* that every call into the library gives up and takes again, and the      *)
(* garbage collector's switch.                                             *)
(*                                                                         *)
(* The library below is its contract: a fault is resolved under one lock   *)
(* (g_pools_lock and the pool's), which the C calls take too.  A region is *)
(* one page.  Any thread may close any object at any time, also one that   *)
(* others are using: a use of what the library has released ends the       *)
(* process.  Only reads are apart: each thread reads regions of its own    *)
(* (FaultHandler covers reads of the same one).                            *)
(***************************************************************************)
EXTENDS Naturals

CONSTANTS Thread, Region, None,
          Reads,      \* thread -> the regions it reads
          MayView,    \* are zero-copy views used?
          MaxViews    \* region -> bound on its views

ASSUME BindingsAssumption ==
    /\ Reads \in [Thread -> SUBSET Region]
    /\ \A t, u \in Thread : t # u => Reads[t] \cap Reads[u] = {}
    /\ MayView \in BOOLEAN /\ MaxViews \in [Region -> Nat]
    /\ None \notin Thread \cup Region

VARIABLES
    gil,                \* the thread that holds the interpreter lock
    lock,               \* the thread that holds the library's locks
    pc, resume,         \* per thread: next step; what it does once it has the GIL
    target,             \* the region it is working on
    held,               \* did it hold the GIL at PyGILState_Ensure()?
    pool_open, closing, todo,   \* Pool._handle is set; who is in Pool.close(), with what left
    created, open, tracked,     \* Regions made; with an _addr; in Pool._regions
    view_count,         \* Region._view_count
    pool_live,          \* has the library the pool?
    mapped, populated,  \* regions the library has; the ones that can be read
    raced,              \* history: regions that were closed in the middle of a view(),
                        \* or whose pool was in the middle of their creation
    gc_enabled, g_gc_was_enabled, g_fill_depth,
    toggled             \* has the program set the collector during this fill?

control == <<gil, lock, pc, resume, target, held>>
objects == <<pool_open, closing, todo, created, open, tracked, view_count>>
memory == <<pool_live, mapped, populated>>
collector == <<gc_enabled, g_gc_was_enabled, g_fill_depth, toggled>>
vars == <<control, objects, memory, collector, raced>>

At(t, label) == pc[t] = label
Goto(t, label) == pc' = [pc EXCEPT ![t] = label]

\* What a thread is doing, waiting for the GIL or not.
Doing(t) == IF pc[t] = "gil" THEN resume[t] ELSE pc[t]

Creating(t) == Doing(t) \in {"fc_region_create", "created", "refused"}
Destroying(t) == Doing(t) \in {"fc_region_destroy", "destroyed"}

\* A Python statement of t that stays in Python.
Python(t) == At(t, "python") /\ gil = t
Stay(t) == UNCHANGED control

\* ctypes gives the GIL up around a call ...
Call(t, label, r) ==
    /\ gil' = None
    /\ Goto(t, label)
    /\ target' = [target EXCEPT ![t] = r]
    /\ UNCHANGED <<lock, resume, held>>

\* ... and takes it again after it.
Back(t, label) ==
    /\ Goto(t, "gil")
    /\ resume' = [resume EXCEPT ![t] = label]
    /\ UNCHANGED <<gil, lock, target, held>>

-----------------------------------------------------------------------------
(* The interpreter.                                                        *)

AcquireGil(t) ==
    /\ At(t, "gil") /\ gil = None
    /\ gil' = t
    /\ Goto(t, resume[t])
    /\ resume' = [resume EXCEPT ![t] = "python"]
    /\ UNCHANGED <<lock, target, held, objects, memory, collector, raced>>

\* Between two bytecodes the interpreter lets another thread run.
SwitchThread(t) ==
    /\ gil = t /\ pc[t] \in {"python", "fill", "view", "pool_close"}
    /\ gil' = None
    /\ Goto(t, "gil")
    /\ resume' = [resume EXCEPT ![t] = pc[t]]
    /\ UNCHANGED <<lock, target, held, objects, memory, collector, raced>>

\* gc.enable() or gc.disable(), from any Python code, a fill_chunk's included.
SetCollector(t, on) ==
    /\ gil = t /\ pc[t] \in {"python", "fill"}
    /\ gc_enabled' = on
    /\ toggled' = (g_fill_depth # 0)
    /\ UNCHANGED <<control, objects, memory, g_gc_was_enabled, g_fill_depth, raced>>

-----------------------------------------------------------------------------
(* Pool and Region objects.                                                *)

create_region(t, r) ==
    /\ Python(t)
    /\ pool_open
    /\ r \notin created
    /\ created' = created \cup {r}
    /\ raced' = IF closing = {} THEN raced ELSE raced \cup {r}
    /\ Call(t, "fc_region_create", r)
    /\ UNCHANGED <<pool_open, closing, todo, open, tracked, view_count, memory, collector>>

\* The C call refuses bad chunk sizes.
fc_region_create(t) ==
    /\ At(t, "fc_region_create") /\ lock = None
    /\ pool_live
    /\ \/ mapped' = mapped \cup {target[t]} /\ Back(t, "created")
       \/ UNCHANGED mapped /\ Back(t, "refused")
    /\ UNCHANGED <<pool_live, populated, objects, collector, raced>>

RegionCreated(t) ==
    /\ At(t, "created") /\ gil = t
    /\ open' = open \cup {target[t]}
    /\ tracked' = tracked \cup {target[t]}
    /\ Goto(t, "python")
    /\ target' = [target EXCEPT ![t] = None]
    /\ UNCHANGED <<gil, lock, resume, held, pool_open, closing, todo, created, view_count,
                   memory, collector, raced>>

\* OSError leaves Region.__init__().
RegionRefused(t) ==
    /\ At(t, "refused") /\ gil = t
    /\ Goto(t, "python")
    /\ target' = [target EXCEPT ![t] = None]
    /\ UNCHANGED <<gil, lock, resume, held, objects, memory, collector, raced>>

\* The check every use of a Region begins with.
Usable(r) == r \in open

\* view() looks at _addr first ...
view(t, r) ==
    /\ MayView /\ Python(t)
    /\ Usable(r) /\ r \in Reads[t]
    /\ view_count[r] < MaxViews[r]
    /\ raced' = IF \E u \in Thread : Destroying(u) /\ target[u] = r
                THEN raced \cup {r} ELSE raced
    /\ Goto(t, "view")
    /\ target' = [target EXCEPT ![t] = r]
    /\ UNCHANGED <<gil, lock, resume, held, objects, memory, collector>>

\* ... and counts the view last.
view_counted(t) ==
    /\ At(t, "view") /\ gil = t
    /\ view_count' = [view_count EXCEPT ![target[t]] = @ + 1]
    /\ Goto(t, "python")
    /\ target' = [target EXCEPT ![t] = None]
    /\ UNCHANGED <<gil, lock, resume, held, pool_open, closing, todo, created, open, tracked,
                   memory, collector, raced>>

\* The finalizer of a view nobody is reading.
view_released(t, r) ==
    /\ Python(t)
    /\ r \in Reads[t] /\ view_count[r] > 0
    /\ view_count' = [view_count EXCEPT ![r] = @ - 1]
    /\ Stay(t)
    /\ UNCHANGED <<pool_open, closing, todo, created, open, tracked, memory, collector, raced>>

\* Mutant: views are not counted.
Mutant_NoViews(r) == TRUE

NoViews(r) == view_count[r] = 0

\* Region.close() past its early return; with views alive it raises instead.
\* _addr stays set during the C call, which a closed pool needs no more.
close(t, r) ==
    /\ NoViews(r)
    /\ tracked' = tracked \ {r}
    /\ IF pool_open
       THEN Call(t, "fc_region_destroy", r)
       ELSE /\ Goto(t, "destroyed")
            /\ target' = [target EXCEPT ![t] = r]
            /\ UNCHANGED <<gil, lock, resume, held>>
    /\ raced' = IF \E u \in Thread : Doing(u) = "view" /\ target[u] = r
                THEN raced \cup {r} ELSE raced

CloseRegion(t, r) ==
    /\ Python(t)
    /\ Usable(r)
    /\ close(t, r)
    /\ UNCHANGED <<pool_open, closing, todo, created, open, view_count, memory, collector>>

fc_region_destroy(t) ==
    /\ At(t, "fc_region_destroy") /\ lock = None
    /\ target[t] \in mapped
    /\ mapped' = mapped \ {target[t]}
    /\ populated' = populated \ {target[t]}
    /\ Back(t, "destroyed")
    /\ UNCHANGED <<pool_live, objects, collector, raced>>

RegionClosed(t) ==
    /\ At(t, "destroyed") /\ gil = t
    /\ open' = open \ {target[t]}
    /\ Goto(t, IF t \in closing THEN "pool_close" ELSE "python")
    /\ target' = [target EXCEPT ![t] = None]
    /\ UNCHANGED <<gil, lock, resume, held, pool_open, closing, todo, created, tracked,
                   view_count, memory, collector, raced>>

\* Pool.close() takes a list of the regions it knows.
ClosePool(t) ==
    /\ Python(t)
    /\ pool_open
    /\ closing' = closing \cup {t}
    /\ todo' = [todo EXCEPT ![t] = tracked]
    /\ raced' = raced \cup {target[u] : u \in {v \in Thread : Creating(v)}}
    /\ Goto(t, "pool_close")
    /\ UNCHANGED <<gil, lock, resume, target, held, pool_open, created, open, tracked,
                   view_count, memory, collector>>

\* Mutant: the region is dropped from the pool before the check.
Mutant_CloseRaises(t, r) ==
    closing' = closing \ {t} /\ todo' = [todo EXCEPT ![t] = {}] /\ tracked' = tracked \ {r}

\* BufferError leaves Pool.close(), with the region where it was.
CloseRaises(t, r) ==
    closing' = closing \ {t} /\ todo' = [todo EXCEPT ![t] = {}] /\ UNCHANGED tracked

\* One turn of the loop in Pool.close(): a region with views ends it, one that
\* somebody has closed meanwhile is passed over.
CloseNext(t) ==
    /\ At(t, "pool_close") /\ gil = t
    /\ \E r \in todo[t] :
         \/ /\ Usable(r)
            /\ close(t, r)
            /\ todo' = [todo EXCEPT ![t] = @ \ {r}]
            /\ UNCHANGED closing
         \/ /\ ~Usable(r)
            /\ todo' = [todo EXCEPT ![t] = @ \ {r}]
            /\ UNCHANGED <<control, closing, tracked, raced>>
         \/ /\ Usable(r) /\ view_count[r] > 0
            /\ CloseRaises(t, r)
            /\ Goto(t, "python")
            /\ UNCHANGED <<gil, lock, resume, target, held, raced>>
    /\ UNCHANGED <<pool_open, created, open, view_count, memory, collector>>

AllClosed(t) ==
    /\ At(t, "pool_close") /\ gil = t
    /\ todo[t] = {}
    /\ Call(t, "fc_pool_destroy", None)
    /\ UNCHANGED <<objects, memory, collector, raced>>

\* Regions that are still there go with the pool.
fc_pool_destroy(t) ==
    /\ At(t, "fc_pool_destroy") /\ lock = None
    /\ pool_live
    /\ pool_live' = FALSE /\ mapped' = {} /\ populated' = {}
    /\ Back(t, "pool_closed")
    /\ UNCHANGED <<objects, collector, raced>>

PoolClosed(t) ==
    /\ At(t, "pool_closed") /\ gil = t
    /\ pool_open' = FALSE /\ closing' = closing \ {t}
    /\ Goto(t, "python")
    /\ UNCHANGED <<gil, lock, resume, target, held, todo, created, open, tracked, view_count,
                   memory, collector, raced>>

\* A use of a pool, a region or memory that is gone: the process ends.
Undefined(t) ==
    /\ \/ At(t, "fc_region_create") /\ ~pool_live
       \/ At(t, "fc_pool_destroy") /\ ~pool_live
       \/ pc[t] \in {"fc_region_destroy", "created", "access"} /\ target[t] \notin mapped
    /\ pc' = [u \in Thread |-> "dead"]
    /\ gil' = None /\ lock' = None
    /\ UNCHANGED <<resume, target, held, objects, memory, collector, raced>>

-----------------------------------------------------------------------------
(* Reading.                                                                *)

\* Indexing a view, or C code working on one, keeps the GIL.
Load(t, r) ==
    /\ Goto(t, "access")
    /\ target' = [target EXCEPT ![t] = r]
    /\ UNCHANGED <<gil, lock, resume, held>>

\* Mutant: the copy is made with the GIL held.
Mutant_read(t, r) == Load(t, r)

\* memcpy() through ctypes.
read(t, r) == Call(t, "access", r)

\* Region.__getitem__().
getitem(t, r) ==
    /\ Python(t)
    /\ Usable(r) /\ r \in Reads[t]
    /\ read(t, r)
    /\ UNCHANGED <<objects, memory, collector, raced>>

index_view(t, r) ==
    /\ Python(t)
    /\ r \in Reads[t] /\ view_count[r] > 0
    /\ Load(t, r)
    /\ UNCHANGED <<objects, memory, collector, raced>>

Retire(t) ==
    /\ At(t, "access") /\ target[t] \in populated
    /\ \/ /\ gil = t
          /\ Goto(t, "python")
          /\ UNCHANGED resume
       \/ /\ gil # t
          /\ Goto(t, "gil")
          /\ resume' = [resume EXCEPT ![t] = "python"]
    /\ target' = [target EXCEPT ![t] = None]
    /\ UNCHANGED <<gil, lock, held, objects, memory, collector, raced>>

\* The fault: the handler takes the library's locks, whoever holds the GIL.
Fault(t) ==
    /\ At(t, "access") /\ target[t] \in mapped \ populated
    /\ lock = None
    /\ lock' = t
    /\ Goto(t, "trampoline")
    /\ UNCHANGED <<gil, resume, target, held, objects, memory, collector, raced>>

\* Mutant: the GIL is not taken.
Mutant_PyGILState_Ensure(t) == UNCHANGED <<gil, held>>

PyGILState_Ensure(t) ==
    /\ gil \in {t, None}
    /\ gil' = t
    /\ held' = [held EXCEPT ![t] = gil = t]

\* The outermost fill notes what the collector was; every one switches it off.
fill_trampoline(t) ==
    /\ At(t, "trampoline")
    /\ PyGILState_Ensure(t)
    /\ g_fill_depth' = g_fill_depth + 1
    /\ g_gc_was_enabled' = IF g_fill_depth = 0 THEN gc_enabled ELSE g_gc_was_enabled
    /\ gc_enabled' = FALSE
    /\ Goto(t, "fill")
    /\ UNCHANGED <<toggled, lock, resume, target, objects, memory, raced>>

\* Mutant: the collector stays off.
Mutant_PyGC_Enable == UNCHANGED gc_enabled

\* The innermost fill left to return switches the collector on again.
PyGC_Enable ==
    gc_enabled' = IF g_fill_depth = 1 /\ g_gc_was_enabled THEN TRUE ELSE gc_enabled

\* The callable is done; the library shows the page, hides others and unlocks.
fill_returns(t) ==
    /\ At(t, "fill") /\ gil = t
    /\ g_fill_depth' = g_fill_depth - 1
    /\ PyGC_Enable
    /\ toggled' = FALSE
    /\ gil' = IF held[t] THEN t ELSE None
    /\ held' = [held EXCEPT ![t] = FALSE]
    /\ \E hidden \in SUBSET populated :
         populated' = (populated \ hidden) \cup {target[t]}
    /\ lock' = None
    /\ Goto(t, "access")
    /\ UNCHANGED <<g_gc_was_enabled, resume, target, objects, pool_live, mapped, raced>>

-----------------------------------------------------------------------------
Init ==
    /\ gil = None /\ lock = None
    /\ pc = [t \in Thread |-> "gil"]
    /\ resume = [t \in Thread |-> "python"]
    /\ target = [t \in Thread |-> None]
    /\ held = [t \in Thread |-> FALSE]
    /\ pool_open = TRUE /\ closing = {} /\ todo = [t \in Thread |-> {}]
    /\ created = {} /\ open = {} /\ tracked = {}
    /\ view_count = [r \in Region |-> 0]
    /\ pool_live = TRUE /\ mapped = {} /\ populated = {} /\ raced = {}
    /\ gc_enabled \in BOOLEAN /\ g_gc_was_enabled = FALSE /\ g_fill_depth = 0
    /\ toggled = FALSE

\* What a thread does once it is inside a call.
Step(t) ==
    \/ fc_region_create(t) \/ RegionCreated(t) \/ RegionRefused(t) \/ view_counted(t)
    \/ fc_region_destroy(t) \/ RegionClosed(t) \/ Undefined(t) \/ CloseNext(t) \/ AllClosed(t) \/ fc_pool_destroy(t) \/ PoolClosed(t)
    \/ Retire(t) \/ Fault(t) \/ fill_trampoline(t) \/ fill_returns(t)

Choose(t) ==
    \/ SwitchThread(t) \/ ClosePool(t) \/ \E on \in BOOLEAN : SetCollector(t, on)
    \/ \E r \in Region :
         \/ create_region(t, r) \/ CloseRegion(t, r)
         \/ view(t, r) \/ view_released(t, r) \/ getitem(t, r) \/ index_view(t, r)

Next == \E t \in Thread : Step(t) \/ AcquireGil(t) \/ Choose(t)

Spec == Init /\ [][Next]_vars

\* Threads run, the interpreter makes a thread that keeps the GIL let others
\* have it in turn, and a fill_chunk returns.
FairSpec ==
    /\ Spec
    /\ \A t \in Thread :
         /\ WF_vars(Step(t)) /\ WF_vars(SwitchThread(t))
         /\ SF_vars(AcquireGil(t)) /\ SF_vars(fill_trampoline(t)) /\ SF_vars(fill_returns(t))

-----------------------------------------------------------------------------
(* Properties.                                                             *)

(* The values the variables take; a thread in Python code has the GIL.     *)
TypeOK ==
    /\ gil \in Thread \cup {None} /\ lock \in Thread \cup {None}
    /\ \A t \in Thread :
         /\ pc[t] \in {"python", "fill", "view", "pool_close", "created", "refused",
                       "destroyed", "pool_closed"} => gil = t
         /\ lock = t <=> \/ pc[t] \in {"trampoline", "fill"}
                         \/ pc[t] = "gil" /\ resume[t] = "fill"
    /\ tracked \subseteq created /\ open \subseteq created /\ mapped \subseteq created
    /\ \A r \in Region : view_count[r] \in 0 .. MaxViews[r]

(* close() does not release memory under a view, however Region.close()    *)
(* and a Pool.close() that stops half way are interleaved with each other, *)
(* with copies and with views coming and going; the one exception is a     *)
(* view() that overlaps the close() or a region created during             *)
(* Pool.close().  And memory is never released while it is being filled,   *)
(* whoever closes it meanwhile.                                            *)
ReadersBacked ==
    /\ \A r \in Region : view_count[r] > 0 => r \in mapped \cup raced
    /\ \A t \in Thread : lock = t => target[t] \in mapped

(* Outside a call in progress the library has exactly the regions that are *)
(* open, and the pool knows them all: a Pool.close() that raised neither   *)
(* loses a region nor leaves one half closed, so it can be called again.   *)
(* Only a region created during Pool.close() can be left without memory.   *)
OpenIsMapped ==
    \A r \in Region :
        (\A t \in Thread : target[t] # r) =>
            /\ r \in mapped => r \in open
            /\ r \in open => r \in mapped \cup raced
            /\ r \in open <=> r \in tracked

(* fill_chunk's Python code runs with the collector on only if the program *)
(* switched it on meanwhile, and when the last fill in progress returns a  *)
(* program that did not touch the switch finds it as it had left it,       *)
(* whenever gc.enable() and gc.disable() are called around it.             *)
CollectorQuiet ==
    [][ /\ \A t \in Thread : pc[t] = "fill" /\ gc_enabled => toggled
        /\ g_fill_depth' = 0 /\ g_fill_depth # 0 /\ ~toggled =>
               gc_enabled' = g_gc_was_enabled ]_vars

(* Whoever holds the library's locks gives them back: a fill_chunk that    *)
(* waits for the GIL gets it.                                              *)
FillsFinish == lock # None ~> lock = None

(* Nothing but a fault on a view, taken with the GIL held, can keep a fill *)
(* from finishing: copies, creations and closings never do.                *)
OnlyViewsBlockFills ==
    lock # None ~> \/ lock = None
                   \/ \E t \in Thread : /\ pc[t] = "access" /\ gil = t
                                        /\ view_count[target[t]] > 0
=============================================================================
