--------------------------- MODULE BindingsProofs ---------------------------
(***************************************************************************)
(* Proofs about Bindings for every set of threads and regions, whatever    *)
(* the threads read and however many views a region may have.              *)
(***************************************************************************)
EXTENDS Bindings, TLAPS

\* What runs under the GIL, and so what a thread does once it has it.
InPython == {"python", "fill", "view", "pool_close", "created", "refused", "destroyed",
             "pool_closed"}
Labels == InPython \cup {"gil", "access", "trampoline", "fc_region_create",
                         "fc_region_destroy", "fc_pool_destroy", "dead"}

ClosingPool(t) == Doing(t) \in {"pool_close", "fc_pool_destroy", "pool_closed"}

-----------------------------------------------------------------------------
(* The inductive invariant, while the process lives.                       *)

Types ==
    /\ gil \in Thread \cup {None} /\ lock \in Thread \cup {None}
    /\ pc \in [Thread -> Labels] /\ resume \in [Thread -> InPython]
    /\ target \in [Thread -> Region \cup {None}] /\ held \in [Thread -> BOOLEAN]
    /\ pool_open \in BOOLEAN /\ closing \in SUBSET Thread
    /\ todo \in [Thread -> SUBSET Region] /\ created \in SUBSET Region
    /\ open \in SUBSET Region /\ tracked \in SUBSET Region
    /\ view_count \in [Region -> Nat] /\ raced \in SUBSET Region
    /\ pool_live \in BOOLEAN /\ mapped \in SUBSET Region /\ populated \in SUBSET Region
    /\ gc_enabled \in BOOLEAN /\ g_gc_was_enabled \in BOOLEAN
    /\ g_fill_depth \in {0, 1} /\ toggled \in BOOLEAN

\* Who holds which lock is determined by what everyone is doing.
LockHolders ==
    \A t \in Thread :
        /\ pc[t] # "dead"
        /\ pc[t] \in InPython => gil = t
        /\ lock = t <=> Doing(t) \in {"trampoline", "fill"}

\* Only calls about a region have one, and only Pool.close() closes the pool.
Targets ==
    \A t \in Thread :
        /\ target[t] = None <=> Doing(t) = "python" \/ ClosingPool(t)
        /\ target[t] # None => target[t] \in created
        /\ ClosingPool(t) => t \in closing
        /\ Doing(t) = "fc_pool_destroy" => todo[t] = {}
        /\ Doing(t) = "pool_closed" => ~pool_live

\* The pool is gone when its object says so, and takes the regions with it.
PoolGone ==
    /\ pool_live => pool_open
    /\ ~pool_live => mapped = {}

\* A region that is being made is nobody else's, nor is its pool being closed.
NewRegions ==
    \A t \in Thread :
        Creating(t) =>
            /\ target[t] \notin open /\ view_count[target[t]] = 0
            /\ \A u \in Thread \ {t} : target[u] # target[t]
            /\ Doing(t) # "created" => target[t] \notin mapped
            /\ target[t] \notin raced =>
                   closing = {} /\ (Doing(t) = "created" => target[t] \in mapped)

\* A region being closed is no more in the pool, and then not in memory either.
ClosedRegions ==
    \A t \in Thread :
        /\ Destroying(t) => target[t] \notin tracked
        /\ Doing(t) = "destroyed" => target[t] \notin mapped

\* An open region that nobody is closing is in memory and in the pool, and
\* every Pool.close() in progress has it still to close.
OpenRegions ==
    /\ tracked \subseteq open /\ open \subseteq created /\ mapped \subseteq created
    /\ \A r \in mapped \ open : \E t \in Thread : Doing(t) = "created" /\ target[t] = r
    /\ \A r \in open :
         (\A t \in Thread : Destroying(t) => target[t] # r) =>
             /\ r \in tracked
             /\ r \notin raced => r \in mapped /\ \A t \in closing : r \in todo[t]

\* A view, counted or about to be, keeps its region open and from being closed.
Viewed(r) == view_count[r] > 0 \/ \E t \in Thread : Doing(t) = "view" /\ target[t] = r

Views ==
    /\ \A r \in Region :
         /\ view_count[r] <= MaxViews[r]
         /\ view_count[r] > 0 => r \in created
         /\ Viewed(r) /\ r \notin raced =>
                r \in open /\ \A t \in Thread : Destroying(t) => target[t] # r
    /\ \A t \in Thread :
         Doing(t) = "view" =>
             target[t] \in Reads[t] /\ view_count[target[t]] < MaxViews[target[t]]

\* One fill at a time, of memory that is there, with the collector off unless
\* the program set it.
Fills ==
    /\ \A t \in Thread : Doing(t) \in {"trampoline", "fill"} => target[t] \in mapped
    /\ \A t \in Thread : Doing(t) = "fill" => g_fill_depth = 1
    /\ g_fill_depth = 1 => \E t \in Thread : Doing(t) = "fill"
    /\ g_fill_depth = 1 /\ gc_enabled => toggled
    /\ toggled => g_fill_depth = 1

Living ==
    /\ Types /\ LockHolders /\ Targets /\ PoolGone
    /\ NewRegions /\ ClosedRegions /\ OpenRegions /\ Views /\ Fills

\* A process that has ended takes no step and is left as it was.
Ended ==
    /\ \A t \in Thread : pc[t] = "dead"
    /\ TypeOK /\ ReadersBacked /\ OpenIsMapped

IInv == Living \/ Ended

(* Initially nothing is going on and nothing is open.                      *)
LEMMA InitIInv == Init => IInv
<1> SUFFICES ASSUME Init PROVE Living
  BY DEF IInv
<1>1. Types
  <2>1. /\ held \in [Thread -> BOOLEAN] /\ pool_open \in BOOLEAN /\ gc_enabled \in BOOLEAN
        /\ g_gc_was_enabled \in BOOLEAN /\ toggled \in BOOLEAN /\ pool_live \in BOOLEAN
    BY Zenon DEF Init
  <2> QED
    BY <2>1 DEF Init, Types, InPython, Labels
<1>2. LockHolders /\ Targets /\ PoolGone /\ NewRegions /\ ClosedRegions /\ OpenRegions
      /\ Views
  BY BindingsAssumption
     DEF Init, InPython, Doing, Creating, Destroying, ClosingPool, Viewed, LockHolders,
         Targets, PoolGone, NewRegions, ClosedRegions, OpenRegions, Views
<1>3. Fills
  BY DEF Init, Doing, Fills
<1> QED
  BY <1>1, <1>2, <1>3 DEF Living

(* While the process lives, every step but the last keeps the invariant.   *)
LEMMA StepKeepsLiving ==
    ASSUME Living, Next, \A t \in Thread : ~Undefined(t)
    PROVE  Living'
<1> USE BindingsAssumption
        DEF Living, Types, InPython, Labels, Doing, Creating, Destroying, ClosingPool,
            Viewed, control, objects, memory, collector
<1>1. ASSUME NEW t \in Thread, AcquireGil(t)
      PROVE  Living'
  BY <1>1 DEF AcquireGil, At, Goto, LockHolders, Targets, PoolGone,
     NewRegions, ClosedRegions, OpenRegions, Views, Fills
<1>2. ASSUME NEW t \in Thread, SwitchThread(t)
      PROVE  Living'
  BY <1>2 DEF SwitchThread, Goto, LockHolders, Targets, PoolGone, NewRegions,
     ClosedRegions, OpenRegions, Views, Fills
<1>3. ASSUME NEW t \in Thread, NEW on \in BOOLEAN, SetCollector(t, on)
      PROVE  Living'
  BY <1>3 DEF SetCollector, LockHolders, Targets, PoolGone, NewRegions,
     ClosedRegions, OpenRegions, Views, Fills
<1>4. ASSUME NEW t \in Thread, NEW r \in Region, create_region(t, r)
      PROVE  Living'
  <2>1. Types' /\ LockHolders' /\ Targets' /\ PoolGone' /\ ClosedRegions' /\
       OpenRegions' /\ Views' /\ Fills'
    BY <1>4 DEF create_region, Python, At, Call, Goto, LockHolders, Targets,
       PoolGone, ClosedRegions, OpenRegions, Views, Fills
  <2>2. NewRegions'
    BY <1>4 DEF create_region, Python, At, Call, Goto, Targets, NewRegions,
       OpenRegions, Views
  <2> QED
    BY <2>1, <2>2
<1>5. ASSUME NEW t \in Thread, fc_region_create(t)
      PROVE  Living'
  <2>1. LockHolders' /\ Targets' /\ PoolGone' /\ NewRegions' /\ Views' /\
       Fills'
    BY <1>5 DEF fc_region_create, At, Back, Goto, LockHolders, Targets,
       PoolGone, NewRegions, Views, Fills
  <2>2. Types'
    BY <1>5 DEF fc_region_create, At, Back, Goto, Targets
  <2>3. ClosedRegions'
    BY <1>5 DEF fc_region_create, At, Back, Goto, NewRegions, ClosedRegions
  <2>4. OpenRegions'
    BY <1>5 DEF fc_region_create, At, Back, Goto, Targets, OpenRegions
  <2> QED
    BY <2>1, <2>2, <2>3, <2>4
<1>6. ASSUME NEW t \in Thread, RegionCreated(t)
      PROVE  Living'
  <2>1. LockHolders' /\ Targets' /\ PoolGone' /\ Views' /\ Fills'
    BY <1>6 DEF RegionCreated, At, Goto, LockHolders, Targets, PoolGone,
       Views, Fills
  <2>2. Types'
    BY <1>6 DEF RegionCreated, At, Goto, NewRegions
  <2>3. NewRegions'
    BY <1>6 DEF RegionCreated, At, Goto, Targets, NewRegions
  <2>4. ClosedRegions'
    BY <1>6 DEF RegionCreated, At, Goto, NewRegions, ClosedRegions
  <2>5. OpenRegions'
    BY <1>6 DEF RegionCreated, At, Goto, Targets, NewRegions, OpenRegions
  <2> QED
    BY <2>1, <2>2, <2>3, <2>4, <2>5
<1>7. ASSUME NEW t \in Thread, RegionRefused(t)
      PROVE  Living'
  <2>1. Types' /\ LockHolders' /\ Targets' /\ PoolGone' /\ ClosedRegions' /\
       OpenRegions' /\ Views' /\ Fills'
    BY <1>7 DEF RegionRefused, At, Goto, LockHolders, Targets, PoolGone,
       ClosedRegions, OpenRegions, Views, Fills
  <2>2. NewRegions'
    BY <1>7 DEF RegionRefused, At, Goto, Targets, NewRegions
  <2> QED
    BY <2>1, <2>2
<1>8. ASSUME NEW t \in Thread, NEW r \in Region, view(t, r)
      PROVE  Living'
  <2>1. Types' /\ LockHolders' /\ PoolGone' /\ NewRegions' /\ ClosedRegions'
       /\ OpenRegions' /\ Views' /\ Fills'
    BY <1>8 DEF view, Python, At, Usable, Goto, LockHolders, PoolGone,
       NewRegions, ClosedRegions, OpenRegions, Views, Fills
  <2>2. Targets'
    BY <1>8 DEF view, Python, At, Usable, Goto, Targets, OpenRegions
  <2> QED
    BY <2>1, <2>2
<1>9. ASSUME NEW t \in Thread, view_counted(t)
      PROVE  Living'
  <2>1. LockHolders' /\ Targets' /\ PoolGone' /\ ClosedRegions' /\
       OpenRegions' /\ Fills'
    BY <1>9 DEF view_counted, At, Goto, LockHolders, Targets, PoolGone,
       ClosedRegions, OpenRegions, Fills
  <2>2. Types'
    BY <1>9 DEF view_counted, At, Goto, Views
  <2>3. NewRegions'
    BY <1>9 DEF view_counted, At, Goto, Targets, NewRegions
  <2>4. Views'
    BY <1>9 DEF view_counted, At, Goto, Targets, Views
  <2> QED
    BY <2>1, <2>2, <2>3, <2>4
<1>10. ASSUME NEW t \in Thread, NEW r \in Region, view_released(t, r)
      PROVE  Living'
  BY <1>10 DEF view_released, Python, At, Stay, LockHolders, Targets,
     PoolGone, NewRegions, ClosedRegions, OpenRegions, Views, Fills
<1>11. ASSUME NEW t \in Thread, NEW r \in Region, CloseRegion(t, r)
      PROVE  Living'
  <2>1. Types' /\ LockHolders' /\ PoolGone' /\ NewRegions' /\ OpenRegions' /\
       Views' /\ Fills'
    BY <1>11 DEF CloseRegion, Python, At, Usable, close, NoViews, Call, Goto,
       LockHolders, PoolGone, NewRegions, OpenRegions, Views, Fills
  <2>2. Targets'
    BY <1>11 DEF CloseRegion, Python, At, Usable, close, NoViews, Call, Goto,
       Targets, OpenRegions
  <2>3. ClosedRegions'
    BY <1>11 DEF CloseRegion, Python, At, Usable, close, NoViews, Call, Goto,
       PoolGone, ClosedRegions
  <2> QED
    BY <2>1, <2>2, <2>3
<1>12. ASSUME NEW t \in Thread, fc_region_destroy(t)
      PROVE  Living'
  <2>1. Types' /\ LockHolders' /\ Targets' /\ PoolGone' /\ NewRegions' /\
       ClosedRegions' /\ OpenRegions' /\ Views'
    BY <1>12 DEF fc_region_destroy, At, Back, Goto, LockHolders, Targets,
       PoolGone, NewRegions, ClosedRegions, OpenRegions, Views
  <2>2. Fills'
    BY <1>12 DEF fc_region_destroy, At, Back, Goto, LockHolders, Fills
  <2> QED
    BY <2>1, <2>2
<1>13. ASSUME NEW t \in Thread, RegionClosed(t)
      PROVE  Living'
  <2>1. Types' /\ LockHolders' /\ Targets' /\ PoolGone' /\ ClosedRegions' /\
       Views' /\ Fills'
    BY <1>13 DEF RegionClosed, At, Goto, LockHolders, Targets, PoolGone,
       ClosedRegions, Views, Fills
  <2>2. NewRegions'
    BY <1>13 DEF RegionClosed, At, Goto, Targets, NewRegions
  <2>3. OpenRegions'
    BY <1>13 DEF RegionClosed, At, Goto, ClosedRegions, OpenRegions
  <2> QED
    BY <2>1, <2>2, <2>3
<1>14. ASSUME NEW t \in Thread, ClosePool(t)
      PROVE  Living'
  <2>1. LockHolders' /\ Targets' /\ PoolGone' /\ NewRegions' /\ ClosedRegions'
       /\ OpenRegions' /\ Views' /\ Fills'
    BY <1>14 DEF ClosePool, Python, At, Goto, LockHolders, Targets, PoolGone,
       NewRegions, ClosedRegions, OpenRegions, Views, Fills
  <2>2. Types'
    BY <1>14 DEF ClosePool, Python, At, Goto, Targets
  <2> QED
    BY <2>1, <2>2
<1>15. ASSUME NEW t \in Thread, CloseNext(t)
      PROVE  Living'
  <2>1. Types' /\ LockHolders' /\ PoolGone' /\ NewRegions' /\ OpenRegions' /\
       Views' /\ Fills'
    BY <1>15 DEF CloseNext, At, Usable, close, NoViews, CloseRaises, Call,
       Goto, LockHolders, PoolGone, NewRegions, OpenRegions, Views, Fills
  <2>2. Targets'
    BY <1>15 DEF CloseNext, At, Usable, close, NoViews, CloseRaises, Call,
       Goto, Targets, OpenRegions
  <2>3. ClosedRegions'
    BY <1>15 DEF CloseNext, At, Usable, close, NoViews, CloseRaises, Call,
       Goto, PoolGone, ClosedRegions
  <2> QED
    BY <2>1, <2>2, <2>3
<1>16. ASSUME NEW t \in Thread, AllClosed(t)
      PROVE  Living'
  <2>1. Types' /\ LockHolders' /\ Targets' /\ PoolGone' /\ ClosedRegions' /\
       OpenRegions' /\ Views' /\ Fills'
    BY <1>16 DEF AllClosed, At, Call, Goto, LockHolders, Targets, PoolGone,
       ClosedRegions, OpenRegions, Views, Fills
  <2>2. NewRegions'
    BY <1>16 DEF AllClosed, At, Call, Goto, Targets, NewRegions
  <2> QED
    BY <2>1, <2>2
<1>17. ASSUME NEW t \in Thread, fc_pool_destroy(t)
      PROVE  Living'
  <2>1. LockHolders' /\ Targets' /\ PoolGone' /\ ClosedRegions' /\ Views'
    BY <1>17 DEF fc_pool_destroy, At, Back, Goto, LockHolders, Targets,
       PoolGone, ClosedRegions, Views
  <2>2. Types'
    <3>1. pool_live' \in BOOLEAN /\ mapped' \in SUBSET Region /\ populated' \in SUBSET Region
      BY <1>17 DEF fc_pool_destroy
    <3>2. /\ pc' = [pc EXCEPT ![t] = "gil"] /\ resume' = [resume EXCEPT ![t] = "pool_closed"]
          /\ UNCHANGED <<gil, lock, target, held, objects, collector, raced>>
      BY <1>17 DEF fc_pool_destroy, Back, Goto
    <3> QED
      BY <3>1, <3>2
  <2>3. NewRegions'
    BY <1>17 DEF fc_pool_destroy, At, Back, Goto, Targets, NewRegions
  <2>4. OpenRegions'
    BY <1>17 DEF fc_pool_destroy, At, Back, Goto, Targets, OpenRegions
  <2>5. Fills'
    BY <1>17 DEF fc_pool_destroy, At, Back, Goto, LockHolders, Fills
  <2> QED
    BY <2>1, <2>2, <2>3, <2>4, <2>5
<1>18. ASSUME NEW t \in Thread, PoolClosed(t)
      PROVE  Living'
  <2>1. LockHolders' /\ Targets' /\ NewRegions' /\ ClosedRegions' /\
       OpenRegions' /\ Views' /\ Fills'
    BY <1>18 DEF PoolClosed, At, Goto, LockHolders, Targets, NewRegions,
       ClosedRegions, OpenRegions, Views, Fills
  <2>2. Types'
    <3>1. pool_open' \in BOOLEAN
      BY <1>18 DEF PoolClosed
    <3>2. /\ closing' = closing \ {t} /\ pc' = [pc EXCEPT ![t] = "python"]
          /\ UNCHANGED <<gil, lock, resume, target, held, todo, created, open, tracked,
                         view_count, memory, collector, raced>>
      BY <1>18 DEF PoolClosed, Goto
    <3> QED
      BY <3>1, <3>2
  <2>3. PoolGone'
    BY <1>18 DEF PoolClosed, At, Goto, Targets, PoolGone
  <2> QED
    BY <2>1, <2>2, <2>3
<1>19. ASSUME NEW t \in Thread, NEW r \in Region, getitem(t, r)
      PROVE  Living'
  <2>1. Types' /\ LockHolders' /\ PoolGone' /\ NewRegions' /\ ClosedRegions'
       /\ OpenRegions' /\ Views' /\ Fills'
    BY <1>19 DEF getitem, Python, At, Usable, read, Call, Goto, LockHolders,
       PoolGone, NewRegions, ClosedRegions, OpenRegions, Views, Fills
  <2>2. Targets'
    BY <1>19 DEF getitem, Python, At, Usable, read, Call, Goto, Targets,
       OpenRegions
  <2> QED
    BY <2>1, <2>2
<1>20. ASSUME NEW t \in Thread, NEW r \in Region, index_view(t, r)
      PROVE  Living'
  <2>1. Types' /\ LockHolders' /\ PoolGone' /\ NewRegions' /\ ClosedRegions'
       /\ OpenRegions' /\ Views' /\ Fills'
    BY <1>20 DEF index_view, Python, At, Load, Goto, LockHolders, PoolGone,
       NewRegions, ClosedRegions, OpenRegions, Views, Fills
  <2>2. Targets'
    BY <1>20 DEF index_view, Python, At, Load, Goto, Targets, Views
  <2> QED
    BY <2>1, <2>2
<1>21. ASSUME NEW t \in Thread, Retire(t)
      PROVE  Living'
  <2>1. Types' /\ LockHolders' /\ Targets' /\ PoolGone' /\ ClosedRegions' /\
       Views' /\ Fills'
    BY <1>21 DEF Retire, At, Goto, LockHolders, Targets, PoolGone,
       ClosedRegions, Views, Fills
  <2>2. NewRegions'
    BY <1>21 DEF Retire, At, Goto, Targets, NewRegions
  <2>3. OpenRegions'
    BY <1>21 DEF Retire, At, Goto, LockHolders, OpenRegions
  <2> QED
    BY <2>1, <2>2, <2>3
<1>22. ASSUME NEW t \in Thread, Fault(t)
      PROVE  Living'
  BY <1>22 DEF Fault, At, Goto, LockHolders, Targets, PoolGone, NewRegions,
     ClosedRegions, OpenRegions, Views, Fills
<1>23. ASSUME NEW t \in Thread, fill_trampoline(t)
      PROVE  Living'
  <2>1. LockHolders' /\ Targets' /\ PoolGone' /\ NewRegions' /\ ClosedRegions'
       /\ OpenRegions' /\ Views'
    BY <1>23 DEF fill_trampoline, At, PyGILState_Ensure, Goto, LockHolders,
       Targets, PoolGone, NewRegions, ClosedRegions, OpenRegions, Views
  <2>2. Types'
    <3>1. g_fill_depth = 0
      BY <1>23 DEF fill_trampoline, At, LockHolders, Fills
    <3>2. held' \in [Thread -> BOOLEAN]
      <4>1. (gil = t) \in BOOLEAN
        OBVIOUS
      <4> QED
        BY <1>23, <4>1, Zenon DEF fill_trampoline, PyGILState_Ensure
    <3>3. g_gc_was_enabled' \in BOOLEAN
      BY <1>23 DEF fill_trampoline
    <3>4. gc_enabled' \in BOOLEAN
      BY <1>23 DEF fill_trampoline
    <3>5. /\ gil' = t /\ g_fill_depth' = g_fill_depth + 1 /\ pc' = [pc EXCEPT ![t] = "fill"]
          /\ UNCHANGED <<toggled, lock, resume, target, objects, memory, raced>>
      BY <1>23 DEF fill_trampoline, PyGILState_Ensure, Goto
    <3> QED
      BY <3>1, <3>2, <3>3, <3>4, <3>5
  <2>3. Fills'
    BY <1>23 DEF fill_trampoline, At, PyGILState_Ensure, Goto, LockHolders,
       Fills
  <2> QED
    BY <2>1, <2>2, <2>3
<1>24. ASSUME NEW t \in Thread, fill_returns(t)
      PROVE  Living'
  <2>1. LockHolders' /\ Targets' /\ PoolGone' /\ NewRegions' /\ ClosedRegions'
       /\ OpenRegions' /\ Views'
    BY <1>24 DEF fill_returns, At, PyGC_Enable, Goto, LockHolders, Targets,
       PoolGone, NewRegions, ClosedRegions, OpenRegions, Views
  <2>2. Types'
    <3>1. gc_enabled' \in BOOLEAN
      BY <1>24 DEF fill_returns, PyGC_Enable
    <3>2. populated' \in SUBSET Region
      BY <1>24 DEF fill_returns, At, Targets
    <3>3. g_fill_depth = 1
      BY <1>24 DEF fill_returns, At, Fills
    <3>4. gil' \in Thread \cup {None} /\ toggled' \in BOOLEAN
      BY <1>24 DEF fill_returns
    <3>5. held' \in [Thread -> BOOLEAN]
      BY <1>24, Zenon DEF fill_returns
    <3>6. /\ g_fill_depth' = g_fill_depth - 1 /\ lock' = None
          /\ pc' = [pc EXCEPT ![t] = "access"]
          /\ UNCHANGED <<g_gc_was_enabled, resume, target, objects, pool_live, mapped, raced>>
      BY <1>24 DEF fill_returns, Goto
    <3> QED
      BY <3>1, <3>2, <3>3, <3>4, <3>5, <3>6
  <2>3. Fills'
    BY <1>24 DEF fill_returns, At, PyGC_Enable, Goto, LockHolders, Fills
  <2> QED
    BY <2>1, <2>2, <2>3
<1> QED
  BY <1>1, <1>2, <1>3, <1>4, <1>5, <1>6, <1>7, <1>8, <1>9, <1>10, <1>11,
     <1>12, <1>13, <1>14, <1>15, <1>16, <1>17, <1>18, <1>19, <1>20, <1>21,
     <1>22, <1>23, <1>24 DEF Next, Step, Choose

(* What the living process promises.                                       *)
LEMMA LivingKeepsPromises == Living => TypeOK /\ ReadersBacked /\ OpenIsMapped
<1> SUFFICES ASSUME Living PROVE TypeOK /\ ReadersBacked /\ OpenIsMapped
  OBVIOUS
<1> USE BindingsAssumption DEF Living, Types, Doing
<1>1. TypeOK
  BY DEF InPython, Labels, LockHolders, OpenRegions, Views, TypeOK
<1>2. ReadersBacked
  <2>1. ASSUME NEW r \in Region, view_count[r] > 0, r \notin raced
        PROVE  r \in mapped
    BY <2>1 DEF OpenRegions, Views, Viewed
  <2>2. ASSUME NEW t \in Thread, lock = t
        PROVE  target[t] \in mapped
    BY <2>2 DEF LockHolders, Fills
  <2> QED
    BY <2>1, <2>2 DEF ReadersBacked
<1>3. OpenIsMapped
  BY DEF OpenRegions, Destroying, OpenIsMapped
<1> QED
  BY <1>1, <1>2, <1>3

(* A process that has ended takes no step.                                 *)
LEMMA EndedStays == ~(Ended /\ Next)
BY DEF Ended, Next, Step, Choose, AcquireGil, SwitchThread, SetCollector, create_region,
       fc_region_create, RegionCreated, RegionRefused, view, view_counted, view_released,
       CloseRegion, fc_region_destroy, RegionClosed, ClosePool, CloseNext, AllClosed,
       fc_pool_destroy, PoolClosed, Undefined, getitem, index_view, Retire, Fault,
       fill_trampoline, fill_returns, Python, At

(* Every step keeps IInv: the process goes on living, ends by the use of   *)
(* something it has released, or has ended and takes no step.              *)
LEMMA StepKeepsIInv == IInv /\ [Next]_vars => IInv'
<1> SUFFICES ASSUME IInv, [Next]_vars PROVE IInv'
  OBVIOUS
<1>1. CASE Living /\ Next /\ \A t \in Thread : ~Undefined(t)
  BY <1>1, StepKeepsLiving DEF IInv
<1>2. ASSUME Living, NEW t \in Thread, Undefined(t)
      PROVE  IInv'
  <2>1. TypeOK /\ ReadersBacked /\ OpenIsMapped
    BY <1>2, LivingKeepsPromises
  <2>2. /\ pc' = [u \in Thread |-> "dead"] /\ gil' = None /\ lock' = None
        /\ UNCHANGED <<resume, target, held, objects, memory, collector, raced>>
    BY <1>2 DEF Undefined
  <2> QED
    BY <2>1, <2>2, BindingsAssumption
       DEF IInv, Ended, TypeOK, ReadersBacked, OpenIsMapped, objects, memory
<1>3. CASE UNCHANGED vars
  BY <1>3
     DEF vars, control, objects, memory, collector, IInv, Living, Ended, Types, LockHolders,
         Targets, PoolGone, NewRegions, ClosedRegions, OpenRegions, Views, Viewed, Fills, Doing,
         Creating, Destroying, ClosingPool, TypeOK, ReadersBacked, OpenIsMapped
<1> QED
  BY <1>1, <1>2, <1>3, EndedStays DEF IInv

(* IInv is an invariant of the bindings.                                   *)
THEOREM Invariance == Spec => []IInv
BY InitIInv, StepKeepsIInv, PTL DEF Spec

-----------------------------------------------------------------------------
(* What follows from it.                                                   *)

(* The lock holders follow from what the threads do: Python code runs only *)
(* with the GIL, and the library's locks are held from the fault until the *)
(* fill has returned, across every wait for the GIL in between.            *)
THEOREM TypeCorrect == Spec => []TypeOK
<1>1. IInv => TypeOK
  BY LivingKeepsPromises DEF IInv, Ended
<1> QED
  BY <1>1, Invariance, PTL

(* No close() releases memory under a view, although it gives up the GIL   *)
(* with _addr still set and any thread may close anything: a view keeps    *)
(* its region open and out of every close(), and an open region is one     *)
(* every Pool.close() has still to close.  Only a view() that overlaps the *)
(* close(), or a region created during Pool.close(), escapes the count.    *)
(* And no memory is released while it is being filled.                     *)
THEOREM NeverReleasedUnderReader == Spec => []ReadersBacked
<1>1. IInv => ReadersBacked
  BY LivingKeepsPromises DEF IInv, Ended
<1> QED
  BY <1>1, Invariance, PTL

(* A region no call is working on is open, mapped and tracked, or none of  *)
(* these, also after a Pool.close() that raised half way; the exception is *)
(* a region created during Pool.close().                                   *)
THEOREM ClosedOrWhole == Spec => []OpenIsMapped
<1>1. IInv => OpenIsMapped
  BY LivingKeepsPromises DEF IInv, Ended
<1> QED
  BY <1>1, Invariance, PTL

(* fill_chunk runs with the collector off unless the program switched it   *)
(* on meanwhile, and the last fill to return restores what it found.       *)
THEOREM CollectorRestored == Spec => CollectorQuiet
<1> DEFINE Quiet == /\ \A t \in Thread : pc[t] = "fill" /\ gc_enabled => toggled
                    /\ g_fill_depth' = 0 /\ g_fill_depth # 0 /\ ~toggled =>
                           gc_enabled' = g_gc_was_enabled
<1>1. IInv /\ [Next]_vars => [Quiet]_vars
  <2> SUFFICES ASSUME IInv, Next
               PROVE  Quiet
    OBVIOUS
  <2>1. \A t \in Thread : pc[t] = "fill" /\ gc_enabled => toggled
    BY DEF IInv, Living, Ended, Fills, Doing
  <2>2. ASSUME g_fill_depth' = 0, g_fill_depth # 0, ~toggled
        PROVE  gc_enabled' = g_gc_was_enabled
    <3>1. g_fill_depth = 1 /\ gc_enabled = FALSE /\ g_gc_was_enabled \in BOOLEAN
      BY <2>2, EndedStays DEF IInv, Living, Types, Fills
    <3>2. PICK t \in Thread : fill_returns(t)
      BY <2>2, <3>1
         DEF Next, Step, Choose, AcquireGil, SwitchThread, SetCollector, create_region,
             fc_region_create, RegionCreated, RegionRefused, view, view_counted,
             view_released, CloseRegion, fc_region_destroy, RegionClosed, ClosePool,
             CloseNext, AllClosed, fc_pool_destroy, PoolClosed, Undefined, getitem,
             index_view, Retire, Fault, fill_trampoline, collector
    <3> QED
      BY <3>1, <3>2 DEF fill_returns, PyGC_Enable
  <2> QED
    BY <2>1, <2>2
<1> QED
  BY <1>1, Invariance, PTL DEF Spec, CollectorQuiet
=============================================================================
