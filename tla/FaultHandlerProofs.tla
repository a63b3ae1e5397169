------------------------- MODULE FaultHandlerProofs -------------------------
(***************************************************************************)
(* Proofs about FaultHandler for every number of threads, pools and        *)
(* regions and for every program, whatever its threads read and whoever    *)
(* else handles faults in the process.                                     *)
(***************************************************************************)
EXTENDS FaultHandler, ListLemmas, TLAPS

\* Where a thread is that is not handling a fault, and where it is in ours.
Outside == {"run", "exec", "region_free", "pool_free"}
Walking == {"walk", "find_region"}
Ours == Walking \cup {"segv_handler", "chain"}
Labels == Outside \cup Ours \cup {"resolve", "foreign"}

\* The lists of vectored handlers there can be.
HandlerLists ==
    { << >>, <<"faultcache">>, <<"foreign">>,
      <<"faultcache", "foreign">>, <<"foreign", "faultcache">> }

-----------------------------------------------------------------------------
(* The inductive invariant.                                                *)

Types ==
    /\ scene \in Scene
    /\ process \in {"running", "killed", "misuse"}
    /\ disposition \in {"default", "faultcache", "foreign"}
    /\ g_handler_installed \in BOOLEAN
    /\ g_old_action \in {"default", "foreign"}
    /\ foreign_saved \in {None, "default", "faultcache"}
    /\ veh \in HandlerLists
    /\ g_pools_lock \in Thread \cup {None}
    /\ g_pools \in Seq(Pool) /\ Distinct(g_pools)
    /\ pool_lock \in [Pool -> Thread \cup {None}]
    /\ regions \in [Pool -> SUBSET Region] /\ readable \in SUBSET Region
    /\ pc \in [Thread -> Labels] /\ addr \in [Thread -> Region \cup {Stray, None}]
    /\ cursor \in [Thread -> Pool \cup {None}] /\ depth \in [Thread -> Nat]
    /\ g_resolving_fault \in SUBSET Thread /\ g_chaining \in SUBSET Thread
    /\ \A t \in Thread \ Active : pc[t] = "run"

\* The other party installs once, so ours never displaces it twice over.
Handlers ==
    /\ foreign_saved = None =>
         /\ disposition # "foreign" /\ g_old_action # "foreign"
         /\ veh \in {<< >>, <<"faultcache">>}
         /\ \A t \in Thread : pc[t] # "foreign"
    /\ g_old_action = "foreign" => disposition # "foreign"
    /\ g_chaining # {} => disposition # "foreign" /\ foreign_saved # None
    /\ g_handler_installed \/ veh \in {<< >>, <<"foreign">>}
    /\ scene.windows =>
         /\ disposition = "default" /\ g_old_action = "default" /\ g_chaining = {}
         /\ \A t \in Thread :
              /\ pc[t] # "chain"
              /\ pc[t] \in Ours \cup {"resolve"} => veh \notin {<< >>, <<"foreign">>}
              /\ pc[t] = "foreign" => veh \notin {<< >>, <<"faultcache">>}

\* Every lock is accounted for by what its owner is doing.
LockOwners ==
    process = "running" => \A t \in Thread :
        /\ g_pools_lock = t <=> pc[t] \in Walking \/ t \in g_resolving_fault
        /\ \A p \in Pool : pool_lock[p] = t <=>
             cursor[t] = p /\ (pc[t] = "find_region" \/ t \in g_resolving_fault)

Resolving ==
    /\ \A t \in Thread : pc[t] = "resolve" => t \in g_resolving_fault
    /\ \A t \in g_resolving_fault : pc[t] \notin Walking \cup {"chain", "pool_free"}

\* A pool somebody is looking at is in the registry, one that is being freed
\* is not.
Cursors ==
    \A t \in Thread :
        /\ pc[t] = "walk" => cursor[t] \in ToSet(g_pools) \cup {None}
        /\ pc[t] = "find_region" \/ t \in g_resolving_fault => cursor[t] \in ToSet(g_pools)
        /\ pc[t] = "pool_free" => cursor[t] \in Pool \ ToSet(g_pools)
        /\ pc[t] = "resolve" => addr[t] \in regions[cursor[t]]

\* How deep the handlers are stacked, by whose turn it is and whether the
\* fault has been passed down before.
Depths ==
    \A t \in Thread :
        /\ pc[t] \in Outside => depth[t] = 0
        /\ pc[t] \in Ours /\ t \notin g_resolving_fault =>
               depth[t] <= IF t \in g_chaining THEN 4 ELSE 2
        /\ pc[t] = "foreign" /\ t \notin g_resolving_fault /\ ~scene.windows =>
               depth[t] <= IF t \in g_chaining THEN 3 ELSE 1
        /\ pc[t] = "resolve" => depth[t] <= IF t \in g_chaining THEN 4 ELSE 2
        /\ pc[t] = "foreign" /\ t \in g_resolving_fault => depth[t] <= 4
        /\ pc[t] = "segv_handler" /\ t \in g_resolving_fault => depth[t] <= 5

\* On Windows the list is gone down once.
VectoredDepths ==
    scene.windows => \A t \in Thread \ g_resolving_fault :
        /\ pc[t] \in Ours => depth[t] <= 1 \/ veh = <<"foreign", "faultcache">>
        /\ pc[t] = "foreign" =>
               \/ depth[t] <= 1
               \/ depth[t] = 2 /\ veh = <<"faultcache", "foreign">>

IInv ==
    /\ Types /\ Handlers /\ LockOwners /\ Resolving /\ Cursors
    /\ NoSelfWait /\ Depths /\ VectoredDepths

-----------------------------------------------------------------------------
(* The lists.                                                              *)

(* fc_init() and fc_rearm_handler() put our handler first on Windows, and  *)
(* leave the other one in the list if it is there.                         *)
LEMMA Rearmed ==
    ASSUME NEW v \in HandlerLists
    PROVE  Cons("faultcache", RemoveFirst(v, "faultcache")) =
               IF v \in {<< >>, <<"faultcache">>} THEN <<"faultcache">>
               ELSE <<"faultcache", "foreign">>
<1> DEFINE rest == IF v \in {<< >>, <<"faultcache">>} THEN << >> ELSE <<"foreign">>
           S == {"faultcache", "foreign"}
<1>1. RemoveFirst(v, "faultcache") = rest
  <2>1. CASE v = << >> \/ v = <<"foreign">>
    BY <2>1 DEF RemoveFirst
  <2>2. ASSUME v \in Seq(S), Distinct(v), NEW i \in 1 .. Len(v), v[i] = "faultcache",
               Len(rest) = Len(v) - 1, rest \in Seq(S),
               \A j \in 1 .. Len(v) - 1 : rest[j] = IF j < i THEN v[j] ELSE v[j + 1]
        PROVE  RemoveFirst(v, "faultcache") = rest
    <3>1. RemoveFirst(v, "faultcache") = RemoveAt(v, i)
      BY <2>2, RemoveFirstPosition
    <3>2. /\ RemoveAt(v, i) \in Seq(S) /\ Len(RemoveAt(v, i)) = Len(v) - 1
          /\ \A j \in 1 .. Len(v) - 1 :
                RemoveAt(v, i)[j] = IF j < i THEN v[j] ELSE v[j + 1]
      BY <2>2, RemoveAtProperties
    <3> HIDE DEF rest
    <3>3. RemoveAt(v, i) = rest
      BY <2>2, <3>2, SeqEqual
    <3> QED
      BY <3>1, <3>3
  <2>3. CASE v = <<"faultcache">>
    <3>1. v \in Seq(S) /\ Len(v) = 1 /\ v[1] = "faultcache" /\ rest = << >>
      BY <2>3
    <3> QED
      BY <3>1, <2>2 DEF Distinct
  <2>4. CASE v = <<"faultcache", "foreign">>
    <3>1. /\ v \in Seq(S) /\ Len(v) = 2 /\ v[1] = "faultcache" /\ v[2] = "foreign"
          /\ rest = <<"foreign">>
      BY <2>4
    <3>2. \A j \in 1 .. Len(v) - 1 : rest[j] = IF j < 1 THEN v[j] ELSE v[j + 1]
      BY <3>1
    <3>3. Distinct(v) /\ rest \in Seq(S) /\ Len(rest) = Len(v) - 1 /\ 1 \in 1 .. Len(v)
      BY <3>1 DEF Distinct
    <3> HIDE DEF rest, S
    <3> QED
      BY <3>1, <3>2, <3>3, <2>2
  <2>5. CASE v = <<"foreign", "faultcache">>
    <3>1. /\ v \in Seq(S) /\ Len(v) = 2 /\ v[1] = "foreign" /\ v[2] = "faultcache"
          /\ rest = <<"foreign">>
      BY <2>5
    <3> QED
      BY <3>1, <2>2 DEF Distinct
  <2> QED
    BY <2>1, <2>3, <2>4, <2>5 DEF HandlerLists
<1>2. <<"faultcache">> \o << >> = <<"faultcache">>
  OBVIOUS
<1>3. Cons("faultcache", <<"foreign">>) = <<"faultcache", "foreign">>
  BY ConsOnto
<1> QED
  BY <1>1, <1>2, <1>3 DEF Cons

(* The other party joins the list at either end.                           *)
LEMMA Joined ==
    ASSUME NEW v \in {<< >>, <<"faultcache">>}
    PROVE  {Cons("foreign", v), Append(v, "foreign")} =
               IF v = << >> THEN {<<"foreign">>}
               ELSE {<<"foreign", "faultcache">>, <<"faultcache", "foreign">>}
<1>1. CASE v = << >>
  <2>1. Cons("foreign", v) = <<"foreign">>
    BY <1>1 DEF Cons
  <2>2. Append(v, "foreign") = <<"foreign">>
    BY <1>1
  <2> QED
    BY <1>1, <2>1, <2>2
<1>2. CASE v = <<"faultcache">>
  <2>1. Cons("foreign", v) = <<"foreign", "faultcache">>
    BY <1>2, ConsOnto
  <2>2. Append(v, "foreign") = <<"faultcache", "foreign">>
    BY <1>2, AppendOnto
  <2>3. v # << >>
    BY <1>2
  <2> QED
    BY <2>1, <2>2, <2>3
<1> QED
  BY <1>1, <1>2

(* The lists there can be are different lists.                             *)
LEMMA ListsDiffer ==
    /\ \A h \in {"faultcache", "foreign"} : << >> # <<h>>
    /\ <<"faultcache">> # <<"foreign">>
    /\ \A h, k, l \in {"faultcache", "foreign"} : <<h>> # <<k, l>> /\ << >> # <<k, l>>
    /\ <<"faultcache", "foreign">> # <<"foreign", "faultcache">>
OBVIOUS

(* The handler below each one in the list.                                 *)
LEMMA BelowProperties ==
    /\ veh = <<"faultcache">> => Below("faultcache") = "default"
    /\ veh = <<"foreign">> => Below("foreign") = "default"
    /\ veh = <<"faultcache", "foreign">> =>
           Below("faultcache") = "foreign" /\ Below("foreign") = "default"
    /\ veh = <<"foreign", "faultcache">> =>
           Below("foreign") = "faultcache" /\ Below("faultcache") = "default"
BY DEF Below

(* pool->next_pool of the pool at a position.                              *)
LEMMA NextPoolProperties ==
    ASSUME g_pools \in Seq(Pool), Distinct(g_pools), NEW i \in 1 .. Len(g_pools)
    PROVE  NextPool(g_pools[i]) = IF i = Len(g_pools) THEN None ELSE g_pools[i + 1]
<1> DEFINE k == CHOOSE j \in DOMAIN g_pools : g_pools[j] = g_pools[i]
<1>1. k = i
  BY DEF Distinct
<1>2. NextPool(g_pools[i]) = IF k = Len(g_pools) THEN None ELSE g_pools[k + 1]
  BY DEF NextPool
<1> HIDE DEF k
<1> QED
  BY <1>1, <1>2

(* It is in the registry, like the pool itself.                            *)
LEMMA NextPoolListed ==
    ASSUME g_pools \in Seq(Pool), Distinct(g_pools), NEW p \in ToSet(g_pools)
    PROVE  /\ NextPool(p) \in ToSet(g_pools) \cup {None}
           /\ NextPool(p) \in Pool \cup {None} /\ p \in Pool
<1>1. PICK i \in 1 .. Len(g_pools) : g_pools[i] = p
  BY InList
<1>2. NextPool(p) = IF i = Len(g_pools) THEN None ELSE g_pools[i + 1]
  BY <1>1, NextPoolProperties
<1> QED
  BY <1>1, <1>2 DEF ToSet

(* What installing our handler does.                                       *)
LEMMA ArmProperties ==
    ASSUME IInv, NEW t \in Active, Arm(t)
    PROVE  /\ scene.windows => /\ UNCHANGED <<disposition, g_old_action>>
                               /\ veh' = IF veh \in {<< >>, <<"faultcache">>}
                                         THEN <<"faultcache">>
                                         ELSE <<"faultcache", "foreign">>
           /\ ~scene.windows => /\ disposition' = "faultcache" /\ UNCHANGED veh
                                /\ g_old_action' = IF disposition = "faultcache"
                                                   THEN g_old_action ELSE disposition
BY Rearmed DEF IInv, Types, Arm, install_handler, AddVectoredExceptionHandler

(* What another party's installing a handler does.                         *)
LEMMA ForeignProperties ==
    ASSUME IInv, ForeignInstall
    PROVE  /\ foreign_saved = None /\ foreign_saved' = disposition
           /\ scene.windows =>
                /\ UNCHANGED disposition
                /\ veh' \in IF veh = << >> THEN {<<"foreign">>}
                            ELSE {<<"foreign", "faultcache">>, <<"faultcache", "foreign">>}
           /\ ~scene.windows => disposition' = "foreign" /\ UNCHANGED veh
<1>1. veh \in {<< >>, <<"faultcache">>}
  BY DEF IInv, Handlers, ForeignInstall
<1> QED
  BY <1>1, Joined DEF ForeignInstall

\* What calling a handler does.
Entered(t, h) ==
    /\ process' \in {"running", "killed", "misuse"}
    /\ pc' \in [Thread -> Labels] /\ depth' \in [Thread -> Nat]
    /\ \A u \in Thread \ {t} : pc'[u] = pc[u] /\ depth'[u] = depth[u]
    /\ IF h = "default" THEN process' = "killed" /\ pc'[t] = pc[t] /\ depth'[t] = depth[t]
       ELSE /\ process' = process /\ depth'[t] = depth[t] + 1
            /\ pc'[t] = IF h = "faultcache" THEN "segv_handler" ELSE "foreign"

(* Enter(), seen from the thread it is called on and from the others.      *)
LEMMA EnterProperties ==
    ASSUME IInv, NEW t \in Thread, NEW h, Enter(t, h)
    PROVE  Entered(t, h)
<1> USE DEF IInv, Types
<1>1. CASE h = "default"
  BY <1>1 DEF Enter, Entered
<1>2. CASE h # "default"
  <2> DEFINE l == IF h = "faultcache" THEN "segv_handler" ELSE "foreign"
  <2>1. l \in Labels
    BY DEF Labels, Ours
  <2>2. /\ pc' = [pc EXCEPT ![t] = l] /\ depth' = [depth EXCEPT ![t] = depth[t] + 1]
        /\ process' = process
    BY <1>2 DEF Enter, Goto
  <2>3. depth' \in [Thread -> Nat] /\ pc' \in [Thread -> Labels]
    BY <2>1, <2>2
  <2> QED
    BY <1>2, <2>2, <2>3 DEF Entered
<1> QED
  BY <1>1, <1>2

\* The handler a fault is delivered to first.
FirstHandler ==
    IF ~scene.windows THEN disposition ELSE IF veh = << >> THEN "default" ELSE veh[1]

(* The kernel enters that handler.                                         *)
LEMMA DeliverProperties ==
    ASSUME IInv, NEW t \in Thread, Deliver(t)
    PROVE  /\ Entered(t, FirstHandler)
           /\ FirstHandler \in {"default", "faultcache", "foreign"}
<1>1. veh # << >> => Head(veh) = veh[1]
  BY DEF IInv, Types, HandlerLists
<1>2. FirstHandler \in {"default", "faultcache", "foreign"}
  BY DEF IInv, Types, HandlerLists, FirstHandler
<1> QED
  BY <1>1, <1>2, EnterProperties DEF Deliver, FirstHandler

(* Initially no handler is installed and there is no pool.                 *)
LEMMA InitIInv == Init => IInv
<1> SUFFICES ASSUME Init PROVE IInv
  OBVIOUS
<1> USE FaultHandlerAssumption DEF Init
<1>1. Types
  <2>1. << >> \in Seq(Pool) /\ Distinct(<< >>)
    BY DEF Distinct
  <2>2. g_handler_installed \in BOOLEAN
    BY Zenon
  <2> QED
    BY <2>1, <2>2 DEF Types, HandlerLists, Labels, Outside, Active
<1>2. Handlers /\ LockOwners /\ Resolving /\ Cursors /\ NoSelfWait
  BY DEF Handlers, LockOwners, Resolving, Cursors, NoSelfWait, Walking, Ours
<1>3. Depths /\ VectoredDepths
  BY DEF Depths, VectoredDepths, Outside, Ours, Walking
<1> QED
  BY <1>1, <1>2, <1>3 DEF IInv

-----------------------------------------------------------------------------
(* The steps.                                                              *)

(* Every step of every thread, and the other party's, keeps the invariant. *)
LEMMA StepKeepsIInv == IInv /\ [Next]_vars => IInv'
<1> SUFFICES ASSUME IInv, [Next]_vars PROVE IInv'
  OBVIOUS
<1>a. Active \subseteq Thread /\ None \notin Thread \cup Pool \cup {"default", "faultcache"}
  BY FaultHandlerAssumption DEF IInv, Types, Active
<1> USE <1>a
        DEF IInv, Types, Active, HandlerLists, Labels, Outside, Walking, Ours,
            signals, locks, lists, flags, threads
<1>1. ASSUME NEW t \in Active, UNCHANGED scene, fc_init(t)
      PROVE  IInv'
  <2>e. /\ scene.windows => /\ UNCHANGED <<disposition, g_old_action>>
                           /\ veh' = IF veh \in {<< >>, <<"faultcache">>}
                                     THEN <<"faultcache">> ELSE <<"faultcache", "foreign">>
        /\ ~scene.windows => /\ disposition' = "faultcache" /\ UNCHANGED veh
                            /\ g_old_action' = IF disposition = "faultcache"
                                               THEN g_old_action ELSE disposition
    BY <1>1, ArmProperties DEF fc_init
  <2>1. Types' /\ LockOwners' /\ Resolving' /\ Cursors' /\ NoSelfWait' /\
     Depths'
    BY <1>1, <2>e DEF fc_init, Arm, Running, LockOwners, Resolving, Cursors,
       NoSelfWait, Depths
  <2>2. Handlers'
    <3>1. CASE scene.windows
      <4>1. /\ UNCHANGED <<scene, foreign_saved, pc, g_chaining, disposition, g_old_action>>
            /\ g_handler_installed'
        BY <1>1, <2>e, <3>1 DEF fc_init, Arm
      <4>2. CASE veh = << >>
        BY <2>e, <3>1, <4>1, <4>2 DEF Handlers
      <4>3. CASE veh = <<"foreign">>
        <5>1. veh' = <<"faultcache", "foreign">>
          BY <2>e, <3>1, <4>3
        <5>2. foreign_saved # None
          BY <4>3 DEF Handlers
        <5> QED
          BY <3>1, <4>1, <5>1, <5>2 DEF Handlers
      <4> QED
        BY <1>1, <4>2, <4>3 DEF Handlers, fc_init
    <3>2. CASE ~scene.windows
      BY <1>1, <2>e, <3>2 DEF fc_init, Arm, Running, Handlers
    <3> QED
      BY <3>1, <3>2
  <2>3. VectoredDepths'
    BY <1>1, <2>e DEF fc_init, Arm, Running, Handlers, VectoredDepths
  <2> QED
    BY <2>1, <2>2, <2>3
<1>2. ASSUME NEW t \in Active, UNCHANGED scene, fc_rearm_handler(t)
      PROVE  IInv'
  <2>e. /\ scene.windows => /\ UNCHANGED <<disposition, g_old_action>>
                           /\ veh' = IF veh \in {<< >>, <<"faultcache">>}
                                     THEN <<"faultcache">> ELSE <<"faultcache", "foreign">>
        /\ ~scene.windows => /\ disposition' = "faultcache" /\ UNCHANGED veh
                            /\ g_old_action' = IF disposition = "faultcache"
                                               THEN g_old_action ELSE disposition
    BY <1>2, ArmProperties DEF fc_rearm_handler
  <2>1. Types' /\ LockOwners' /\ Resolving' /\ Cursors' /\ NoSelfWait' /\
     Depths'
    BY <1>2, <2>e DEF fc_rearm_handler, Arm, Running, LockOwners, Resolving,
       Cursors, NoSelfWait, Depths
  <2>3. VectoredDepths'
    BY <1>2, <2>e DEF fc_rearm_handler, Arm, Running, VectoredDepths
  <2>2. Handlers'
    <3>1. CASE scene.windows
      BY <1>2, <2>e, <3>1 DEF fc_rearm_handler, Arm, Running, Handlers
    <3>2. CASE ~scene.windows
      BY <1>2, <2>e, <3>2 DEF fc_rearm_handler, Arm, Running, Handlers
    <3> QED
      BY <3>1, <3>2
  <2> QED
    BY <2>1, <2>2, <2>3
<1>3. ASSUME ForeignInstall
      PROVE  IInv'
  <2>e. /\ foreign_saved = None /\ foreign_saved' = disposition
        /\ scene.windows =>
             /\ UNCHANGED disposition
             /\ veh' \in IF veh = << >> THEN {<<"foreign">>}
                         ELSE {<<"foreign", "faultcache">>, <<"faultcache", "foreign">>}
        /\ ~scene.windows => disposition' = "foreign" /\ UNCHANGED veh
    BY <1>3, ForeignProperties
  <2>1. LockOwners' /\ Resolving' /\ Cursors' /\ NoSelfWait' /\ Depths'
    BY <1>3, <2>e DEF ForeignInstall, LockOwners, Resolving, Cursors,
       NoSelfWait, Depths
  <2>2. Types'
    BY <1>3, <2>e DEF ForeignInstall, Handlers
  <2>3. Handlers'
    <3>1. CASE scene.windows
      <4>1. UNCHANGED <<g_handler_installed, g_old_action, pc, g_chaining, scene>>
        BY <1>3 DEF ForeignInstall
      <4>2. veh \in {<< >>, <<"faultcache">>} /\ \A u \in Thread : pc[u] # "foreign"
        BY <2>e DEF Handlers
      <4>3. veh' \notin {<< >>, <<"faultcache">>} /\ (veh' = <<"foreign">> => veh = << >>)
        BY <2>e, <3>1, ListsDiffer
      <4> QED
        BY <2>e, <3>1, <4>1, <4>2, <4>3 DEF Handlers
    <3>2. CASE ~scene.windows
      BY <1>3, <2>e, <3>2 DEF ForeignInstall, Handlers
    <3> QED
      BY <3>1, <3>2
  <2>4. VectoredDepths'
    BY <1>3, <2>e DEF ForeignInstall, Handlers, VectoredDepths
  <2> QED
    BY <2>1, <2>2, <2>3, <2>4
<1>4. ASSUME NEW t \in Active, UNCHANGED scene, NEW p \in Pool,
   fc_pool_create(t, p)
      PROVE  IInv'
  <2>1. /\ Distinct(g_pools') /\ g_pools' \in Seq(Pool)
        /\ ToSet(g_pools') = ToSet(g_pools) \cup {p} /\ \A u \in Thread : cursor[u] # p
        /\ UNCHANGED <<scene, process, signals, locks, regions, readable, threads, flags>>
    BY <1>4, ConsList DEF fc_pool_create
  <2> QED
    BY <2>1 DEF Handlers, LockOwners, Resolving, Cursors, NoSelfWait, Depths,
       VectoredDepths
<1>5. ASSUME NEW t \in Active, UNCHANGED scene, NEW r \in Region,
   fc_region_create(t, r)
      PROVE  IInv'
  BY <1>5, FaultHandlerAssumption DEF fc_region_create, Running, Unused, Handlers, LockOwners,
     Resolving, Cursors, NoSelfWait, Depths, VectoredDepths
<1>6. ASSUME NEW t \in Active, UNCHANGED scene, NEW r \in Region,
   fc_region_destroy(t, r)
      PROVE  IInv'
  BY <1>6, FaultHandlerAssumption DEF fc_region_destroy, Running, Unused, Goto, Handlers, LockOwners,
     Resolving, Cursors, NoSelfWait, Depths, VectoredDepths
<1>7. ASSUME NEW t \in Active, UNCHANGED scene, region_free(t)
      PROVE  IInv'
  BY <1>7 DEF region_free, At, Goto, Handlers, LockOwners, Resolving, Cursors,
     NoSelfWait, Depths, VectoredDepths
<1>8. ASSUME NEW t \in Active, UNCHANGED scene, NEW p \in Pool,
   fc_pool_destroy(t, p)
      PROVE  IInv'
  <2>1. Types' /\ Handlers' /\ LockOwners' /\ NoSelfWait' /\ Depths' /\
     VectoredDepths'
    BY <1>8, RemoveFirstList DEF fc_pool_destroy, Running, RegistryFree, Goto,
       Handlers, LockOwners, NoSelfWait, Depths, VectoredDepths
  <2>2. Resolving'
    BY <1>8, RemoveFirstList DEF fc_pool_destroy, Running, RegistryFree, Goto,
       LockOwners, Resolving
  <2>3. Cursors'
    BY <1>8, RemoveFirstList DEF fc_pool_destroy, Running, RegistryFree, Goto,
       LockOwners, Cursors
  <2> QED
    BY <2>1, <2>2, <2>3
<1>9. ASSUME NEW t \in Active, UNCHANGED scene, pool_free(t)
      PROVE  IInv'
  <2>1. Handlers' /\ Resolving' /\ NoSelfWait' /\ Depths' /\ VectoredDepths'
    BY <1>9 DEF pool_free, At, Goto, Handlers, Resolving, NoSelfWait, Depths,
       VectoredDepths
  <2>2. Types'
    BY <1>9 DEF pool_free, At, Goto, Cursors
  <2>3. LockOwners'
    BY <1>9 DEF pool_free, At, Goto, LockOwners, Cursors
  <2>4. Cursors'
    BY <1>9 DEF pool_free, At, Goto, Resolving, Cursors
  <2> QED
    BY <2>1, <2>2, <2>3, <2>4
<1>10. ASSUME NEW t \in Active, UNCHANGED scene, NEW a \in scene.touches[t],
   Read(t, a)
      PROVE  IInv'
  BY <1>10, FaultHandlerAssumption DEF Read, Running, Goto, Handlers, LockOwners, Resolving, Cursors,
     NoSelfWait, Depths, VectoredDepths
<1>11. ASSUME NEW t \in Active, UNCHANGED scene, Retire(t)
      PROVE  IInv'
  BY <1>11 DEF Retire, At, Goto, Handlers, LockOwners, Resolving, Cursors,
     NoSelfWait, Depths, VectoredDepths
<1>12. ASSUME NEW t \in Active, UNCHANGED scene, Trap(t)
      PROVE  IInv'
  <2>e. Entered(t, FirstHandler) /\ FirstHandler \in {"default", "faultcache", "foreign"}
    BY <1>12, DeliverProperties DEF Trap
  <2>1. Types' /\ Handlers' /\ LockOwners' /\ Resolving' /\ Cursors'
    BY <1>12, <2>e DEF Trap, At, FirstHandler, Entered, Handlers, LockOwners,
       Resolving, Cursors
  <2>2. NoSelfWait'
    <3>1. process = "running" /\ pc[t] \notin Walking
      BY <1>12 DEF Trap, At
    <3>2. g_pools_lock = t => t \in g_resolving_fault
      BY <3>1 DEF LockOwners
    <3>3. \A u \in Thread \ {t} : pc'[u] = pc[u]
      BY <1>12, <2>e DEF Entered
    <3>4. UNCHANGED <<g_pools_lock, g_resolving_fault>>
      BY <1>12 DEF Trap
    <3> QED
      BY <3>2, <3>3, <3>4 DEF NoSelfWait
  <2>3. Depths'
    <3>1. /\ depth[t] = 0 /\ UNCHANGED <<scene, flags>>
          /\ \A u \in Thread \ {t} : pc'[u] = pc[u] /\ depth'[u] = depth[u]
      BY <1>12, <2>e DEF Trap, At, Entered, Depths
    <3>2. \/ pc'[t] = "exec" /\ depth'[t] = 0
          \/ pc'[t] \in {"segv_handler", "foreign"} /\ depth'[t] = 1
      BY <1>12, <2>e, <3>1 DEF Trap, At, Entered
    <3> QED
      BY <3>1, <3>2 DEF Depths
  <2>4. VectoredDepths'
    BY <1>12, <2>e DEF Trap, At, FirstHandler, Entered, Handlers, Depths,
       VectoredDepths
  <2> QED
    BY <2>1, <2>2, <2>3, <2>4
<1>13. ASSUME NEW t \in Active, UNCHANGED scene, fault_try_resolve(t)
      PROVE  IInv'
  <2> DEFINE first == IF g_pools = << >> THEN None ELSE g_pools[1]
  <2>e. first \in ToSet(g_pools) \cup {None} /\ first \in Pool \cup {None}
    BY DEF ToSet
  <2>1. Handlers' /\ Resolving' /\ NoSelfWait' /\ Depths' /\ VectoredDepths'
    BY <1>13 DEF fault_try_resolve, At, nested_fault, Goto, Handlers,
       Resolving, NoSelfWait, Depths, VectoredDepths
  <2>3. LockOwners'
    BY <1>13, <2>e DEF fault_try_resolve, At, nested_fault, Goto, LockOwners
  <2>4. Cursors'
    BY <1>13, <2>e DEF fault_try_resolve, At, nested_fault, Goto, Cursors
  <2>2. Types'
    <3>1. cursor' \in [Thread -> Pool \cup {None}]
      BY <1>13, <2>e DEF fault_try_resolve, nested_fault
    <3> HIDE DEF first
    <3> QED
      BY <1>13, <3>1 DEF fault_try_resolve, At, nested_fault, Goto
  <2> QED
    BY <2>1, <2>2, <2>3, <2>4
<1>14. ASSUME NEW t \in Active, UNCHANGED scene, LockPool(t)
      PROVE  IInv'
  BY <1>14 DEF LockPool, At, Goto, Handlers, LockOwners, Resolving, Cursors,
     NoSelfWait, Depths, VectoredDepths
<1>15. ASSUME NEW t \in Active, UNCHANGED scene, SkipPool(t)
      PROVE  IInv'
  <2>e. /\ NextPool(cursor[t]) \in ToSet(g_pools) \cup {None}
        /\ NextPool(cursor[t]) \in Pool \cup {None} /\ cursor[t] \in Pool
    <3>1. cursor[t] \in ToSet(g_pools)
      BY <1>15 DEF SkipPool, At, Cursors
    <3> QED
      BY <3>1, NextPoolListed
  <2>1. Types' /\ Handlers' /\ Resolving' /\ NoSelfWait' /\ Depths' /\
     VectoredDepths'
    BY <1>15, <2>e DEF SkipPool, At, Unlock, Goto, Handlers, Resolving,
       NoSelfWait, Depths, VectoredDepths
  <2>2. LockOwners'
    BY <1>15, <2>e DEF SkipPool, At, Unlock, Goto, LockOwners, Resolving
  <2>3. Cursors'
    BY <1>15, <2>e DEF SkipPool, At, Unlock, Goto, Resolving, Cursors
  <2> QED
    BY <2>1, <2>2, <2>3
<1>16. ASSUME NEW t \in Active, UNCHANGED scene, find_region_locked(t)
      PROVE  IInv'
  <2>1. Types' /\ Handlers' /\ LockOwners' /\ Resolving' /\ Cursors' /\
     NoSelfWait' /\ VectoredDepths'
    BY <1>16 DEF find_region_locked, At, OursToResolve, StartResolving, Goto,
       Handlers, LockOwners, Resolving, Cursors, NoSelfWait, VectoredDepths
  <2>2. Depths'
    BY <1>16 DEF find_region_locked, At, OursToResolve, StartResolving, Goto,
       Resolving, Depths
  <2> QED
    BY <2>1, <2>2
<1>17. ASSUME NEW t \in Active, UNCHANGED scene, resolve_fault_locked(t)
      PROVE  IInv'
  <2>e. cursor[t] \in Pool /\ addr[t] \in Region
    BY <1>17 DEF resolve_fault_locked, At, Resolving, Cursors, ToSet
  <2>1. Types' /\ Handlers' /\ Resolving' /\ Cursors' /\ NoSelfWait' /\ Depths'
     /\ VectoredDepths'
    BY <1>17, <2>e DEF resolve_fault_locked, At, Unlock, ReturnFromHandlers,
       Goto, Handlers, Resolving, Cursors, NoSelfWait, Depths, VectoredDepths
  <2>2. LockOwners'
    BY <1>17, <2>e DEF resolve_fault_locked, At, Unlock, ReturnFromHandlers,
       Goto, LockOwners, Resolving
  <2> QED
    BY <2>1, <2>2
<1>18. ASSUME NEW t \in Active, UNCHANGED scene, fill_chunk_faults(t)
      PROVE  IInv'
  <2>e. Entered(t, FirstHandler) /\ FirstHandler \in {"default", "faultcache", "foreign"}
    BY <1>18, DeliverProperties DEF fill_chunk_faults
  <2>1. Types' /\ Handlers' /\ LockOwners' /\ Resolving' /\ Cursors'
    BY <1>18, <2>e DEF fill_chunk_faults, At, FirstHandler, Entered, Handlers,
       LockOwners, Resolving, Cursors
  <2>2. NoSelfWait'
    BY <1>18, <2>e DEF fill_chunk_faults, At, FirstHandler, Entered, Resolving,
       NoSelfWait
  <2>3. Depths'
    BY <1>18, <2>e DEF fill_chunk_faults, At, FirstHandler, Entered, Handlers,
       Resolving, Depths
  <2>4. VectoredDepths'
    BY <1>18, <2>e DEF fill_chunk_faults, At, FirstHandler, Entered, Handlers,
       Resolving, VectoredDepths
  <2> QED
    BY <2>1, <2>2, <2>3, <2>4
<1>19. ASSUME NEW t \in Active, UNCHANGED scene, NotOurs(t)
      PROVE  IInv'
  <2>e. IF scene.windows THEN Entered(t, Below("faultcache"))
        ELSE pc' = [pc EXCEPT ![t] = "chain"] /\ UNCHANGED <<process, depth>>
    BY <1>19, EnterProperties DEF NotOurs, Goto
  <2>1. Types'
    BY <1>19, <2>e DEF NotOurs, At, Entered
  <2>6. Handlers'
    <3>1. /\ UNCHANGED <<scene, signals, g_chaining>>
          /\ \A u \in Thread \ {t} : pc'[u] = pc[u]
      BY <1>19, <2>e DEF NotOurs, Entered
    <3>2. CASE ~scene.windows
      BY <1>19, <2>e, <3>1, <3>2 DEF Handlers
    <3>3. CASE scene.windows
      <4>1. veh \in {<<"faultcache">>, <<"faultcache", "foreign">>, <<"foreign", "faultcache">>}
        BY <1>19, <3>3 DEF NotOurs, At, Handlers
      <4>2. /\ pc'[t] \in {"walk", "foreign"}
            /\ pc'[t] = "foreign" => veh = <<"faultcache", "foreign">>
        BY <1>19, <2>e, <3>3, <4>1, BelowProperties DEF NotOurs, At, Entered
      <4>3. veh = <<"faultcache", "foreign">> => foreign_saved # None
        BY DEF Handlers
      <4>4. veh \notin {<< >>, <<"foreign">>}
        BY <4>1, ListsDiffer
      <4>5. pc'[t] = "foreign" => veh \notin {<< >>, <<"faultcache">>}
        BY <4>2, ListsDiffer
      <4> QED
        BY <3>1, <3>3, <4>2, <4>3, <4>4, <4>5 DEF Handlers
    <3> QED
      BY <3>2, <3>3
  <2>5. Resolving' /\ Cursors' /\ NoSelfWait'
    BY <1>19, BelowProperties, <2>e DEF NotOurs, At, Goto, Entered, Handlers,
       Resolving, Cursors, NoSelfWait
  <2>2. LockOwners'
    <3>1. UNCHANGED <<pool_lock, cursor, g_resolving_fault>> /\ g_pools_lock' = None
      BY <1>19 DEF NotOurs
    <3>2. /\ process = "running" /\ pc[t] = "walk" /\ t \notin g_resolving_fault
          /\ g_pools_lock = t
      BY <1>19 DEF NotOurs, At, Resolving, LockOwners
    <3>3. process' = "running" => pc'[t] \in {"segv_handler", "foreign", "chain"}
      BY <1>19, <2>e DEF NotOurs, Entered
    <3>4. \A u \in Thread \ {t} : pc'[u] = pc[u]
      BY <1>19, <2>e DEF NotOurs, Entered
    <3>5. ASSUME process' = "running", NEW u \in Thread
          PROVE  /\ g_pools_lock' # u /\ pc'[u] \notin Walking /\ u \notin g_resolving_fault'
                 /\ \A p \in Pool : pool_lock'[p] # u
      BY <3>1, <3>2, <3>3, <3>4, <3>5 DEF LockOwners
    <3> QED
      BY <3>5 DEF LockOwners
  <2>3. Depths'
    BY <1>19, BelowProperties, <2>e DEF NotOurs, At, Goto, Entered, Handlers,
       Resolving, Depths, VectoredDepths
  <2>4. VectoredDepths'
    BY <1>19, BelowProperties, <2>e DEF NotOurs, At, Goto, Entered, Handlers,
       VectoredDepths
  <2> QED
    BY <2>1, <2>2, <2>3, <2>4, <2>5, <2>6
<1>20. ASSUME NEW t \in Active, UNCHANGED scene, EndChain(t)
      PROVE  IInv'
  BY <1>20 DEF EndChain, At, SetDefault, ReturnFromHandlers, Goto, Handlers,
     LockOwners, Resolving, Cursors, NoSelfWait, Depths, VectoredDepths
<1>21. ASSUME NEW t \in Active, UNCHANGED scene, CallOldAction(t)
      PROVE  IInv'
  <2>e. Entered(t, "foreign")
    BY <1>21, EnterProperties DEF CallOldAction
  <2>1. Types' /\ Handlers' /\ Resolving' /\ Cursors' /\ NoSelfWait'
    BY <1>21, <2>e DEF CallOldAction, At, StartChaining, Entered, Handlers,
       Resolving, Cursors, NoSelfWait
  <2>2. LockOwners'
    <3>1. UNCHANGED <<process, locks, cursor, g_resolving_fault>>
      BY <1>21, <2>e DEF CallOldAction, Entered
    <3>2. pc[t] = "chain" /\ pc'[t] = "foreign" /\ \A u \in Thread \ {t} : pc'[u] = pc[u]
      BY <1>21, <2>e DEF CallOldAction, At, Entered
    <3> QED
      BY <3>1, <3>2 DEF LockOwners
  <2>3. Depths'
    BY <1>21, <2>e DEF CallOldAction, At, StartChaining, Entered, Resolving,
       Depths
  <2>4. VectoredDepths'
    BY <1>21, <2>e DEF CallOldAction, At, StartChaining, Entered, Handlers,
       VectoredDepths
  <2> QED
    BY <2>1, <2>2, <2>3, <2>4
<1>22. ASSUME NEW t \in Active, UNCHANGED scene, ForeignDies(t)
      PROVE  IInv'
  BY <1>22 DEF ForeignDies, At, Handlers, LockOwners, Resolving, Cursors,
     NoSelfWait, Depths, VectoredDepths
<1>23. ASSUME NEW t \in Active, UNCHANGED scene, ForeignFixes(t)
      PROVE  IInv'
  BY <1>23 DEF ForeignFixes, At, Goto, Handlers, LockOwners, Resolving, Cursors,
     NoSelfWait, Depths, VectoredDepths
<1>24. ASSUME NEW t \in Active, UNCHANGED scene, ForeignLeaves(t)
      PROVE  IInv'
  BY <1>24 DEF ForeignLeaves, At, Goto, Handlers, LockOwners, Resolving,
     Cursors, NoSelfWait, Depths, VectoredDepths
<1>25. ASSUME NEW t \in Active, UNCHANGED scene, ForeignPassesOn(t)
      PROVE  IInv'
  <2>e. /\ scene.windows => Entered(t, Below("foreign"))
        /\ ~scene.windows /\ foreign_saved # "default" => Entered(t, foreign_saved)
    BY <1>25, EnterProperties DEF ForeignPassesOn
  <2>1. Handlers' /\ LockOwners' /\ Resolving' /\ Cursors'
    BY <1>25, BelowProperties, <2>e DEF ForeignPassesOn, At, Entered,
       SetDefault, ReturnFromHandlers, Goto, Handlers, LockOwners, Resolving,
       Cursors
  <2>2. Types'
    <3>1. /\ process' \in {"running", "killed", "misuse"}
          /\ pc' \in [Thread -> Labels] /\ depth' \in [Thread -> Nat]
      <4>1. CASE scene.windows \/ foreign_saved # "default"
        BY <2>e, <4>1 DEF Entered
      <4>2. CASE ~scene.windows /\ foreign_saved = "default"
        <5>1. /\ UNCHANGED process /\ pc' = [pc EXCEPT ![t] = "exec"]
              /\ depth' = [depth EXCEPT ![t] = 0]
          BY <1>25, <4>2 DEF ForeignPassesOn, ReturnFromHandlers, Goto
        <5> QED
          BY <5>1
      <4> QED
        BY <4>1, <4>2
    <3>2. \A u \in Thread \ Active : pc'[u] = "run"
      BY <1>25, <2>e DEF ForeignPassesOn, Entered, ReturnFromHandlers, Goto
    <3>3. /\ disposition' \in {"default", "faultcache", "foreign"}
          /\ g_chaining' \in SUBSET Thread
          /\ UNCHANGED <<g_handler_installed, g_old_action, foreign_saved, veh>>
      BY <1>25 DEF ForeignPassesOn, SetDefault, ReturnFromHandlers
    <3>4. UNCHANGED <<scene, locks, lists, readable, addr, cursor, g_resolving_fault>>
      BY <1>25 DEF ForeignPassesOn
    <3> QED
      BY <3>1, <3>2, <3>3, <3>4
  <2>3. NoSelfWait'
    <3>1. process = "running" /\ pc[t] \notin Walking
      BY <1>25 DEF ForeignPassesOn, At
    <3>2. g_pools_lock = t => t \in g_resolving_fault
      BY <3>1 DEF LockOwners
    <3>3. \A u \in Thread \ {t} : pc'[u] = pc[u]
      BY <1>25, <2>e DEF Entered, ForeignPassesOn, ReturnFromHandlers, Goto
    <3>4. UNCHANGED <<g_pools_lock, g_resolving_fault>>
      BY <1>25 DEF ForeignPassesOn
    <3> QED
      BY <3>2, <3>3, <3>4 DEF NoSelfWait
  <2>4. Depths'
    BY <1>25, BelowProperties, <2>e DEF ForeignPassesOn, At, Entered,
       SetDefault, ReturnFromHandlers, Goto, Handlers, Depths, VectoredDepths
  <2>5. VectoredDepths'
    BY <1>25, BelowProperties, <2>e DEF ForeignPassesOn, At, Entered,
       SetDefault, ReturnFromHandlers, Goto, Handlers, VectoredDepths
  <2> QED
    BY <2>1, <2>2, <2>3, <2>4, <2>5
<1>26. CASE UNCHANGED vars
  BY <1>26 DEF vars, Handlers, LockOwners, Resolving, Cursors, NoSelfWait, Depths,
     VectoredDepths
<1> QED
  BY <1>1, <1>2, <1>3, <1>4, <1>5, <1>6, <1>7, <1>8, <1>9, <1>10, <1>11, <1>12,
     <1>13, <1>14, <1>15, <1>16, <1>17, <1>18, <1>19, <1>20, <1>21, <1>22,
     <1>23, <1>24, <1>25, <1>26 DEF Next, Step, Choose, ForeignHandler, Ended

(* IInv is an invariant of the specification.                              *)
THEOREM Invariance == Spec => []IInv
BY InitIInv, StepKeepsIInv, PTL DEF Spec

-----------------------------------------------------------------------------
(* What follows from it.                                                   *)

(* g_pools_lock is held exactly from the start of fault_try_resolve()'s    *)
(* walk to its end, whoever faults meanwhile, and a pool's lock only with  *)
(* it, by the same thread, on the pool it is looking at.                   *)
THEOREM TypeCorrect == Spec => []TypeOK
<1>1. IInv => TypeOK
  <2> SUFFICES ASSUME IInv PROVE TypeOK
    OBVIOUS
  <2>1. ToSet(g_pools) \subseteq Pool
    BY DEF IInv, Types, ToSet
  <2>2. ASSUME process = "running", NEW t \in Thread
        PROVE  /\ g_pools_lock = t <=> \/ pc[t] \in {"walk", "find_region", "resolve"}
                                       \/ t \in g_resolving_fault
               /\ \A p \in Pool : pool_lock[p] = t => g_pools_lock = t /\ cursor[t] = p
    BY <2>2 DEF IInv, LockOwners, Resolving, Walking
  <2> QED
    BY <2>1, <2>2 DEF IInv, Types, TypeOK
<1> QED
  BY <1>1, Invariance, PTL

(* The handler walks pools that are in the registry and resolves regions   *)
(* that are in their pool's list: what fc_pool_destroy() and               *)
(* fc_region_destroy() free is never under it.                             *)
THEOREM NothingFreedUnderWalk == Spec => []WalkedPoolListed
<1>1. IInv => WalkedPoolListed
  BY DEF IInv, Resolving, Cursors, WalkedPoolListed
<1> QED
  BY <1>1, Invariance, PTL

(* A thread that enters our handler with g_pools_lock held is marked as    *)
(* resolving, so it reports misuse instead of waiting for itself.          *)
THEOREM NeverWaitsForItself == Spec => []NoSelfWait
<1>1. IInv => NoSelfWait
  BY DEF IInv
<1> QED
  BY <1>1, Invariance, PTL

(* However handlers are installed, armed again and chained to each other   *)
(* while faults are in flight, at most four of them are stacked for one    *)
(* fault, and five when fill_chunk() faults below them.                    *)
THEOREM ChainsAreBounded == Spec => []ChainBounded
<1>1. IInv => ChainBounded
  <2> SUFFICES ASSUME IInv, NEW t \in Thread
               PROVE  depth[t] <= IF t \in g_resolving_fault THEN 5 ELSE 4
    BY DEF ChainBounded
  <2>1. pc[t] \in Labels /\ depth[t] \in Nat
    BY DEF IInv, Types
  <2>2. CASE pc[t] = "foreign" /\ t \notin g_resolving_fault /\ scene.windows
    BY <2>1, <2>2 DEF IInv, VectoredDepths
  <2> QED
    BY <2>1, <2>2 DEF IInv, Resolving, Depths, Labels, Ours, Walking, Outside
<1> QED
  BY <1>1, Invariance, PTL

-----------------------------------------------------------------------------
(***************************************************************************)
(* Threads that read live regions, each its own, are never harmed by the   *)
(* fault handler, whatever pools and regions come and go meanwhile and     *)
(* whoever chains in front of it or behind it.  (Two threads that fault on *)
(* one region may be: run HandlerSharedRegion.)                            *)
(***************************************************************************)
\* No region is read by two threads.
ReadersApart ==
    \A t, u \in Active : t # u => scene.touches[t] \cap scene.touches[u] = {}

-----------------------------------------------------------------------------
(* What keeps such readers safe.                                           *)

\* There is something to fault on only once a handler is installed.
RegionsServed ==
    \A p \in Pool : regions[p] # {} => g_handler_installed

\* Whoever displaced our handler will call it.
HandlerKept ==
    /\ process = "running"
    /\ g_handler_installed => Installed
    /\ g_handler_installed /\ disposition = "foreign" => foreign_saved = "faultcache"

\* The thread reads a live region of its own; since nobody else makes its
\* page readable, it is unreadable for as long as the fault is handled.
Reader(t) ==
    /\ addr[t] \in Region /\ addr[t] \in scene.touches[t]
    /\ PoolOf[addr[t]] \in ToSet(g_pools)
    /\ addr[t] \in regions[PoolOf[addr[t]]]
    /\ pc[t] # "exec" => addr[t] \notin readable

Faulting ==
    \A t \in Active :
        /\ pc[t] # "chain"
        /\ t \in g_resolving_fault => pc[t] = "resolve"
        /\ pc[t] \in Ours \cup {"exec", "foreign", "resolve"} => Reader(t)

\* The walk has yet to come to the pool of the region.
PoolAhead(t) ==
    \E i, j \in 1 .. Len(g_pools) :
        i <= j /\ g_pools[i] = cursor[t] /\ g_pools[j] = PoolOf[addr[t]]

PoolsAhead == \A t \in Active : pc[t] \in Walking => PoolAhead(t)

\* The other party's handler is only called ahead of ours.
ForeignAhead ==
    \A t \in Active :
        pc[t] = "foreign" => IF scene.windows THEN veh = <<"foreign", "faultcache">>
                             ELSE foreign_saved = "faultcache"

\* What holds of a program that reads legally.
Safe == HandlerKept /\ Faulting /\ PoolsAhead /\ ForeignAhead

LegalInv == RegionsServed /\ (Legal /\ ReadersApart => Safe)

-----------------------------------------------------------------------------
(* Helpers.                                                                *)

(* The lists of vectored handlers that ours is in.                         *)
LEMMA OursListed ==
    ASSUME NEW v \in HandlerLists
    PROVE  "faultcache" \in ToSet(v) <=> v \notin {<< >>, <<"foreign">>}
<1>1. CASE v = << >> \/ v = <<"foreign">>
  BY <1>1 DEF ToSet
<1>2. CASE v = <<"faultcache">> \/ v = <<"faultcache", "foreign">>
  BY <1>2 DEF ToSet
<1>3. CASE v = <<"foreign", "faultcache">>
  BY <1>3 DEF ToSet
<1> QED
  BY <1>1, <1>2, <1>3 DEF HandlerLists

(* A walk is undisturbed by what leaves the registry and its thread alone. *)
LEMMA StaysAhead ==
    ASSUME PoolsAhead, UNCHANGED <<scene, g_pools>>,
           \A t \in Active : pc'[t] \in Walking =>
               pc[t] \in Walking /\ cursor'[t] = cursor[t] /\ addr'[t] = addr[t]
    PROVE  PoolsAhead'
BY DEF PoolsAhead, PoolAhead, Active

(* What a legal program never comes to: no fault is found not to be ours,  *)
(* so none is passed down, and none happens below us.                      *)
LEMMA NeverHappens ==
    ASSUME IInv, Legal, Safe, NEW t \in Active
    PROVE  /\ ~NotOurs(t) /\ ~EndChain(t) /\ ~CallOldAction(t) /\ ~fill_chunk_faults(t)
           /\ ~ForeignDies(t) /\ ~ForeignFixes(t) /\ ~ForeignLeaves(t)
<1>1. ~NotOurs(t)
  BY FaultHandlerAssumption
     DEF IInv, Types, Safe, PoolsAhead, PoolAhead, NotOurs, At, Walking
<1>2. ~EndChain(t) /\ ~CallOldAction(t)
  BY DEF Safe, Faulting, EndChain, CallOldAction, At
<1>3. ~fill_chunk_faults(t)
  BY DEF Legal, fill_chunk_faults
<1>4. ~ForeignDies(t) /\ ~ForeignFixes(t) /\ ~ForeignLeaves(t)
  BY FaultHandlerAssumption DEF Legal, ForeignDies, ForeignFixes, ForeignLeaves
<1> QED
  BY <1>1, <1>2, <1>3, <1>4

(* A reader's region is there, so the handler is installed and reached.    *)
LEMMA ReaderServed ==
    ASSUME IInv, RegionsServed, Safe, NEW t \in Active, Reader(t)
    PROVE  /\ g_handler_installed
           /\ ~scene.windows => /\ disposition \in {"faultcache", "foreign"}
                                /\ disposition = "foreign" => foreign_saved = "faultcache"
           /\ scene.windows => veh \in {<<"faultcache">>, <<"faultcache", "foreign">>,
                                        <<"foreign", "faultcache">>}
<1>1. g_handler_installed
  BY FaultHandlerAssumption DEF RegionsServed, Reader
<1> QED
  BY <1>1, OursListed DEF IInv, Types, HandlerLists, Safe, HandlerKept, Installed

(* A fault is offered to our handler, or first to one that passes it on.   *)
LEMMA FaultDelivered ==
    ASSUME IInv, RegionsServed, Safe, NEW t \in Active, Reader(t), Deliver(t)
    PROVE  /\ Entered(t, "faultcache") \/ Entered(t, "foreign")
           /\ pc'[t] = "foreign" => IF scene.windows THEN veh = <<"foreign", "faultcache">>
                                    ELSE foreign_saved = "faultcache"
<1>1. Active \subseteq Thread
  BY FaultHandlerAssumption DEF IInv, Types, Active
<1>2. Entered(t, FirstHandler)
  BY <1>1, DeliverProperties
<1>3. CASE ~scene.windows
  BY <1>2, <1>3, ReaderServed DEF FirstHandler, Entered
<1>4. CASE scene.windows
  <2>1. CASE veh \in {<<"faultcache">>, <<"faultcache", "foreign">>}
    <3>1. veh # << >> /\ veh[1] = "faultcache"
      BY <2>1
    <3> QED
      BY <1>2, <1>4, <3>1 DEF FirstHandler, Entered
  <2>2. CASE veh = <<"foreign", "faultcache">>
    <3>1. veh # << >> /\ veh[1] = "foreign"
      BY <2>2
    <3> QED
      BY <1>2, <1>4, <2>2, <3>1 DEF FirstHandler, Entered
  <2> QED
    BY <1>4, <2>1, <2>2, ReaderServed
<1> QED
  BY <1>3, <1>4

(* The other party's handler hands the fault to ours.                      *)
LEMMA FaultPassedOn ==
    ASSUME IInv, Safe, NEW t \in Active, ForeignPassesOn(t)
    PROVE  Entered(t, "faultcache") /\ UNCHANGED <<signals, g_chaining>>
<1>1. Active \subseteq Thread
  BY FaultHandlerAssumption DEF IInv, Types, Active
<1>2. IF scene.windows THEN veh = <<"foreign", "faultcache">>
      ELSE foreign_saved = "faultcache"
  BY DEF Safe, ForeignAhead, ForeignPassesOn, At
<1>3. Enter(t, "faultcache") /\ UNCHANGED <<signals, g_chaining>>
  BY <1>2, BelowProperties DEF ForeignPassesOn
<1> QED
  BY <1>1, <1>3, EnterProperties

-----------------------------------------------------------------------------
(* The steps.                                                              *)

(* Every step keeps a legal program safe.                                  *)
LEMMA StepKeepsSafe ==
    ASSUME IInv, RegionsServed, Legal, ReadersApart, Safe, [Next]_vars
    PROVE  Safe'
<1>a. /\ Active \subseteq Thread /\ None \notin Thread \cup Pool \cup {"default", "faultcache"}
      /\ PoolOf \in [Region -> Pool]
  BY FaultHandlerAssumption DEF IInv, Types, Active
<1> USE <1>a DEF IInv, Types, Active, Labels, Outside, Walking, Ours,
        signals, locks, lists, flags, threads, Safe
<1>1. ASSUME NEW t \in Active, UNCHANGED scene, fc_init(t)
      PROVE  Safe'
  <2>e. /\ UNCHANGED <<process, foreign_saved, lists, readable, threads, flags>>
        /\ scene.windows => UNCHANGED disposition /\
              veh' \in {<<"faultcache">>, <<"faultcache", "foreign">>}
        /\ ~scene.windows => disposition' = "faultcache" /\ UNCHANGED veh
    BY <1>1, ArmProperties DEF fc_init, Arm
  <2>1. HandlerKept'
    <3>1. scene.windows => "faultcache" \in ToSet(veh') /\ disposition = "default"
      BY <2>e, OursListed, ListsDiffer DEF HandlerLists, Handlers
    <3> QED
      BY <1>1, <2>e, <3>1 DEF HandlerKept, Installed
  <2>2. Faulting'
    BY <1>1, <2>e DEF Faulting, Reader
  <2>3. PoolsAhead'
    BY <1>1, <2>e, StaysAhead
  <2>4. ForeignAhead'
    <3>1. \A u \in Active : pc[u] # "foreign"
      BY <1>1, ReaderServed DEF fc_init, Faulting
    <3> QED
      BY <1>1, <2>e, <3>1 DEF ForeignAhead
  <2> QED
    BY <2>1, <2>2, <2>3, <2>4
<1>2. ASSUME NEW t \in Active, UNCHANGED scene, fc_rearm_handler(t)
      PROVE  Safe'
  <2>e. /\ UNCHANGED <<process, foreign_saved, lists, readable, threads, flags>>
        /\ scene.windows => UNCHANGED disposition /\
              veh' \in {<<"faultcache">>, <<"faultcache", "foreign">>}
        /\ ~scene.windows => disposition' = "faultcache" /\ UNCHANGED veh
    BY <1>2, ArmProperties DEF fc_rearm_handler, Arm
  <2>1. HandlerKept'
    <3>1. scene.windows => "faultcache" \in ToSet(veh') /\ disposition = "default"
      BY <2>e, OursListed, ListsDiffer DEF HandlerLists, Handlers
    <3> QED
      BY <1>2, <2>e, <3>1 DEF HandlerKept, Installed
  <2>2. Faulting'
    BY <1>2, <2>e DEF Faulting, Reader
  <2>3. PoolsAhead'
    BY <1>2, <2>e, StaysAhead
  <2>4. ForeignAhead'
    BY <1>2, <2>e DEF fc_rearm_handler, ForeignAhead
  <2> QED
    BY <2>1, <2>2, <2>3, <2>4
<1>3. ASSUME ForeignInstall
      PROVE  Safe'
  <2>e. /\ foreign_saved = None /\ foreign_saved' = disposition
        /\ scene.windows =>
             /\ UNCHANGED disposition
             /\ veh' \in IF veh = << >> THEN {<<"foreign">>}
                         ELSE {<<"foreign", "faultcache">>, <<"faultcache", "foreign">>}
        /\ ~scene.windows => disposition' = "foreign" /\ UNCHANGED veh
        /\ UNCHANGED <<scene, process, g_handler_installed, lists, readable, threads, flags>>
    BY <1>3, ForeignProperties DEF ForeignInstall
  <2>1. HandlerKept'
    <3>1. CASE scene.windows
      <4>1. g_handler_installed => "faultcache" \in ToSet(veh')
        BY <2>e, <3>1, OursListed, ListsDiffer DEF HandlerKept, Installed, HandlerLists
      <4>2. disposition = "default"
        BY <3>1 DEF Handlers
      <4> QED
        BY <2>e, <3>1, <4>1, <4>2 DEF HandlerKept, Installed
    <3>2. CASE ~scene.windows
      BY <2>e, <3>2 DEF HandlerKept, Installed, Handlers
    <3> QED
      BY <3>1, <3>2
  <2>2. Faulting'
    BY <2>e DEF Faulting, Reader
  <2>3. PoolsAhead'
    BY <2>e, StaysAhead
  <2>4. ForeignAhead'
    BY <2>e DEF ForeignAhead, Handlers
  <2> QED
    BY <2>1, <2>2, <2>3, <2>4
<1>4. ASSUME NEW t \in Active, UNCHANGED scene, NEW p \in Pool, fc_pool_create(t, p)
      PROVE  Safe'
  <2>1. HandlerKept' /\ ForeignAhead'
    BY <1>4 DEF fc_pool_create, HandlerKept, Installed, ForeignAhead
  <2>2. Faulting'
    <3>1. ToSet(g_pools') = ToSet(g_pools) \cup {p}
      BY <1>4, ConsList DEF fc_pool_create
    <3> QED
      BY <1>4, <3>1 DEF fc_pool_create, Faulting, Reader
  <2>3. PoolsAhead'
    <3>1. \A u \in Active : pc[u] \notin Walking
      BY <1>4 DEF fc_pool_create, RegistryFree, HandlerKept, LockOwners
    <3> QED
      BY <1>4, <3>1 DEF fc_pool_create, PoolsAhead
  <2> QED
    BY <2>1, <2>2, <2>3
<1>5. ASSUME NEW t \in Active, UNCHANGED scene, NEW r \in Region, fc_region_create(t, r)
      PROVE  Safe'
  <2>1. HandlerKept' /\ ForeignAhead'
    BY <1>5 DEF fc_region_create, HandlerKept, Installed, ForeignAhead
  <2>2. Faulting'
    BY <1>5 DEF fc_region_create, Faulting, Reader
  <2>3. PoolsAhead'
    BY <1>5, StaysAhead DEF fc_region_create
  <2> QED
    BY <2>1, <2>2, <2>3
<1>6. ASSUME NEW t \in Active, UNCHANGED scene, NEW r \in Region, fc_region_destroy(t, r)
      PROVE  Safe'
  <2>1. HandlerKept' /\ ForeignAhead'
    BY <1>6 DEF fc_region_destroy, Running, Unused, Goto, HandlerKept, Installed, ForeignAhead
  <2>2. Faulting'
    BY <1>6 DEF fc_region_destroy, Running, Unused, Goto, Faulting, Reader
  <2>3. PoolsAhead'
    BY <1>6, StaysAhead DEF fc_region_destroy, Running, Unused, Goto
  <2> QED
    BY <2>1, <2>2, <2>3
<1>7. ASSUME NEW t \in Active, UNCHANGED scene, region_free(t)
      PROVE  Safe'
  <2>1. HandlerKept' /\ ForeignAhead'
    BY <1>7 DEF region_free, At, Goto, HandlerKept, Installed, ForeignAhead
  <2>2. Faulting'
    BY <1>7 DEF region_free, At, Goto, Faulting, Reader
  <2>3. PoolsAhead'
    BY <1>7, StaysAhead DEF region_free, At, Goto
  <2> QED
    BY <2>1, <2>2, <2>3
<1>8. ASSUME NEW t \in Active, UNCHANGED scene, NEW p \in Pool, fc_pool_destroy(t, p)
      PROVE  Safe'
  <2>1. HandlerKept' /\ ForeignAhead'
    BY <1>8 DEF fc_pool_destroy, Goto, HandlerKept, Installed, ForeignAhead
  <2>2. Faulting'
    <3>1. ToSet(g_pools') = ToSet(g_pools) \ {p}
      BY <1>8, RemoveFirstList DEF fc_pool_destroy
    <3>2. \A u \in Active : Reader(u) => PoolOf[addr[u]] # p
      BY <1>8 DEF fc_pool_destroy, Unused, Reader
    <3> QED
      BY <1>8, <3>1, <3>2 DEF fc_pool_destroy, Running, Goto, Faulting, Reader
  <2>3. PoolsAhead'
    <3>1. \A u \in Active : pc[u] \notin Walking
      BY <1>8 DEF fc_pool_destroy, RegistryFree, HandlerKept, LockOwners
    <3> QED
      BY <1>8, <3>1 DEF fc_pool_destroy, Goto, PoolsAhead
  <2> QED
    BY <2>1, <2>2, <2>3
<1>9. ASSUME NEW t \in Active, UNCHANGED scene, pool_free(t)
      PROVE  Safe'
  <2>1. HandlerKept' /\ ForeignAhead'
    BY <1>9 DEF pool_free, At, Goto, HandlerKept, Installed, ForeignAhead
  <2>2. Faulting'
    <3>1. cursor[t] \in Pool \ ToSet(g_pools)
      BY <1>9 DEF pool_free, At, Cursors
    <3> QED
      BY <1>9, <3>1 DEF pool_free, At, Goto, Faulting, Reader
  <2>3. PoolsAhead'
    BY <1>9, StaysAhead DEF pool_free, At, Goto
  <2> QED
    BY <2>1, <2>2, <2>3
<1>10. ASSUME NEW t \in Active, UNCHANGED scene, NEW a \in scene.touches[t], Read(t, a)
      PROVE  Safe'
  <2>1. HandlerKept' /\ ForeignAhead'
    BY <1>10 DEF Read, Goto, HandlerKept, Installed, ForeignAhead
  <2>2. Faulting'
    <3>1. a \in Region
      BY <1>10, FaultHandlerAssumption DEF Legal
    <3>2. /\ PoolOf[a] \in ToSet(g_pools) /\ a \in regions[PoolOf[a]]
          /\ t \notin g_resolving_fault
      BY <1>10, <3>1, FaultHandlerAssumption DEF Read, Running, Faulting
    <3>3. Reader(t)'
      BY <1>10, <3>1, <3>2 DEF Read, Goto, Reader
    <3>4. \A u \in Active \ {t} : pc'[u] = pc[u] /\ addr'[u] = addr[u]
      BY <1>10 DEF Read, Goto
    <3> QED
      BY <1>10, <3>2, <3>3, <3>4 DEF Read, Goto, Faulting, Reader
  <2>3. PoolsAhead'
    BY <1>10, StaysAhead DEF Read, Goto
  <2> QED
    BY <2>1, <2>2, <2>3
<1>11. ASSUME NEW t \in Active, UNCHANGED scene, Retire(t)
      PROVE  Safe'
  <2>1. HandlerKept' /\ ForeignAhead'
    BY <1>11 DEF Retire, At, Goto, HandlerKept, Installed, ForeignAhead
  <2>2. Faulting'
    BY <1>11 DEF Retire, At, Goto, Faulting, Reader
  <2>3. PoolsAhead'
    BY <1>11, StaysAhead DEF Retire, At, Goto
  <2> QED
    BY <2>1, <2>2, <2>3
<1>12. ASSUME NEW t \in Active, UNCHANGED scene, Trap(t)
      PROVE  Safe'
  <2>e. /\ pc[t] = "exec" /\ addr[t] \notin readable /\ t \notin g_resolving_fault
        /\ UNCHANGED <<signals, lists, readable, addr, cursor, flags>>
        /\ Reader(t) /\ Deliver(t)
    BY <1>12 DEF Trap, At, Faulting
  <2>1. /\ UNCHANGED process /\ \A u \in Active \ {t} : pc'[u] = pc[u]
        /\ pc'[t] \in {"segv_handler", "foreign"}
    BY <2>e, FaultDelivered DEF Entered
  <2>2. HandlerKept'
    BY <1>12, <2>e, <2>1 DEF HandlerKept, Installed
  <2>3. Faulting'
    BY <1>12, <2>e, <2>1 DEF Faulting, Reader
  <2>4. PoolsAhead'
    BY <1>12, <2>e, <2>1, StaysAhead
  <2>5. ForeignAhead'
    BY <1>12, <2>e, <2>1, FaultDelivered DEF ForeignAhead
  <2> QED
    BY <2>2, <2>3, <2>4, <2>5
<1>13. ASSUME NEW t \in Active, UNCHANGED scene, fault_try_resolve(t)
      PROVE  Safe'
  <2>1. HandlerKept' /\ ForeignAhead'
    BY <1>13 DEF fault_try_resolve, At, nested_fault, Goto, HandlerKept, Installed, Faulting, ForeignAhead
  <2>2. Faulting'
    BY <1>13 DEF fault_try_resolve, At, nested_fault, Goto, Faulting, Reader
  <2>3. PoolsAhead'
    <3>1. /\ pc[t] = "segv_handler" /\ t \notin g_resolving_fault /\ Reader(t)
      BY <1>13 DEF fault_try_resolve, At, Faulting
    <3>2. PICK j \in 1 .. Len(g_pools) : g_pools[j] = PoolOf[addr[t]]
      BY <3>1, InList DEF Reader
    <3>3. g_pools # << >> /\ 1 \in 1 .. Len(g_pools) /\ 1 <= j
      BY <3>2
    <3>4. cursor'[t] = g_pools[1] /\ UNCHANGED <<g_pools, addr>>
      BY <1>13, <3>1, <3>3 DEF fault_try_resolve
    <3>5. PoolAhead(t)'
      BY <3>2, <3>3, <3>4 DEF PoolAhead
    <3>6. \A u \in Active \ {t} : PoolAhead(u) => PoolAhead(u)'
      BY <1>13, <3>1 DEF fault_try_resolve, PoolAhead
    <3> QED
      BY <1>13, <3>1, <3>5, <3>6 DEF fault_try_resolve, Goto, PoolsAhead
  <2> QED
    BY <2>1, <2>2, <2>3
<1>14. ASSUME NEW t \in Active, UNCHANGED scene, LockPool(t)
      PROVE  Safe'
  <2>1. HandlerKept' /\ ForeignAhead'
    BY <1>14 DEF LockPool, At, Goto, HandlerKept, Installed, ForeignAhead
  <2>2. Faulting'
    BY <1>14 DEF LockPool, At, Goto, Faulting, Reader
  <2>3. PoolsAhead'
    BY <1>14, StaysAhead DEF LockPool, At, Goto
  <2> QED
    BY <2>1, <2>2, <2>3
<1>15. ASSUME NEW t \in Active, UNCHANGED scene, SkipPool(t)
      PROVE  Safe'
  <2>1. HandlerKept' /\ ForeignAhead'
    BY <1>15 DEF SkipPool, At, Goto, HandlerKept, Installed, ForeignAhead
  <2>2. Faulting'
    BY <1>15 DEF SkipPool, At, Goto, Faulting, Reader
  <2>3. PoolsAhead'
    <3>1. pc[t] = "find_region" /\ Reader(t) /\ PoolAhead(t) /\ ~OursToResolve(t)
      BY <1>15 DEF SkipPool, At, Faulting, PoolsAhead
    <3>2. PICK i, j \in 1 .. Len(g_pools) :
              i <= j /\ g_pools[i] = cursor[t] /\ g_pools[j] = PoolOf[addr[t]]
      BY <3>1 DEF PoolAhead
    <3>3. i # j
      BY <3>1, <3>2 DEF OursToResolve, Reader
    <3>4. i + 1 \in 1 .. Len(g_pools) /\ i + 1 <= j /\ NextPool(cursor[t]) = g_pools[i + 1]
      BY <3>2, <3>3, NextPoolProperties
    <3>5. cursor'[t] = g_pools[i + 1] /\ UNCHANGED <<g_pools, addr>>
      BY <1>15, <3>4 DEF SkipPool
    <3>6. PoolAhead(t)'
      BY <3>2, <3>4, <3>5 DEF PoolAhead
    <3>7. \A u \in Active \ {t} : PoolAhead(u) => PoolAhead(u)'
      BY <1>15 DEF SkipPool, PoolAhead
    <3> QED
      BY <1>15, <3>6, <3>7 DEF SkipPool, Goto, PoolsAhead
  <2> QED
    BY <2>1, <2>2, <2>3
<1>16. ASSUME NEW t \in Active, UNCHANGED scene, find_region_locked(t)
      PROVE  Safe'
  <2>1. HandlerKept' /\ ForeignAhead'
    BY <1>16 DEF find_region_locked, At, StartResolving, Goto, HandlerKept, Installed, ForeignAhead
  <2>2. Faulting'
    BY <1>16 DEF find_region_locked, At, StartResolving, Goto, Faulting, Reader
  <2>3. PoolsAhead'
    BY <1>16, StaysAhead DEF find_region_locked, At, StartResolving, Goto
  <2> QED
    BY <2>1, <2>2, <2>3
<1>17. ASSUME NEW t \in Active, UNCHANGED scene, resolve_fault_locked(t)
      PROVE  Safe'
  <2>1. HandlerKept' /\ ForeignAhead'
    BY <1>17 DEF resolve_fault_locked, At, ReturnFromHandlers, Goto, HandlerKept, Installed, ForeignAhead
  <2>2. Faulting'
    <3>1. \A u \in Active \ {t} : Reader(t) /\ Reader(u) => addr[u] # addr[t]
      BY DEF Reader, ReadersApart
    <3> QED
      BY <1>17, <3>1 DEF resolve_fault_locked, At, ReturnFromHandlers, Goto, Faulting, Reader
  <2>3. PoolsAhead'
    BY <1>17, StaysAhead DEF resolve_fault_locked, At, ReturnFromHandlers, Goto
  <2> QED
    BY <2>1, <2>2, <2>3
<1>18. ASSUME NEW t \in Active, UNCHANGED scene, ForeignPassesOn(t)
      PROVE  Safe'
  <2>e. /\ pc[t] = "foreign" /\ pc'[t] = "segv_handler"
        /\ UNCHANGED <<process, signals, lists, readable, addr, cursor, flags>>
        /\ \A u \in Active \ {t} : pc'[u] = pc[u]
    BY <1>18, FaultPassedOn DEF ForeignPassesOn, At, Entered
  <2>1. HandlerKept' /\ ForeignAhead'
    BY <1>18, <2>e DEF HandlerKept, Installed, ForeignAhead
  <2>2. Faulting'
    BY <1>18, <2>e DEF Faulting, Reader
  <2>3. PoolsAhead'
    BY <1>18, <2>e, StaysAhead
  <2> QED
    BY <2>1, <2>2, <2>3
<1>19. CASE UNCHANGED vars
  BY <1>19 DEF vars, HandlerKept, Installed, Faulting, Reader, PoolsAhead, PoolAhead,
     ForeignAhead
<1> QED
  BY <1>1, <1>2, <1>3, <1>4, <1>5, <1>6, <1>7, <1>8, <1>9, <1>10, <1>11, <1>12,
     <1>13, <1>14, <1>15, <1>16, <1>17, <1>18, <1>19, NeverHappens DEF Next,
     Step, Choose, ForeignHandler, Ended

(* Regions are created only after fc_init(), which is never undone.        *)
LEMMA StepKeepsRegionsServed ==
    ASSUME IInv, RegionsServed, [Next]_vars
    PROVE  RegionsServed'
<1>1. g_handler_installed => g_handler_installed'
  BY DEF Next, Step, Choose, ForeignHandler, Ended, vars, signals, fc_init, fc_rearm_handler,
     Arm, ForeignInstall, fc_pool_create, fc_region_create, fc_region_destroy, region_free,
     fc_pool_destroy, pool_free, Read, Retire, Trap, fault_try_resolve, LockPool, SkipPool,
     find_region_locked, resolve_fault_locked, fill_chunk_faults, NotOurs, EndChain,
     SetDefault, CallOldAction, ForeignDies, ForeignFixes, ForeignLeaves, ForeignPassesOn
<1>2. ASSUME NEW p \in Pool, regions'[p] # {}
      PROVE  regions[p] # {} \/ g_handler_installed
  BY <1>2
     DEF Next, Step, Choose, ForeignHandler, Ended, vars, lists, fc_init, fc_rearm_handler,
     Arm, ForeignInstall, fc_pool_create, fc_region_create, fc_region_destroy, region_free,
     fc_pool_destroy, pool_free, Read, Retire, Trap, fault_try_resolve, LockPool, SkipPool,
     find_region_locked, resolve_fault_locked, fill_chunk_faults, NotOurs, EndChain,
     SetDefault, CallOldAction, ForeignDies, ForeignFixes, ForeignLeaves, ForeignPassesOn,
     IInv, Types
<1> QED
  BY <1>1, <1>2 DEF RegionsServed

(* LegalInv is an invariant of the specification.                          *)
LEMMA LegalInvariance == Spec => []LegalInv
<1>1. Init => LegalInv
  <2> SUFFICES ASSUME Init PROVE LegalInv
    OBVIOUS
  <2> QED
    BY FaultHandlerAssumption
       DEF Init, LegalInv, RegionsServed, Safe, HandlerKept, Faulting, PoolsAhead,
           ForeignAhead, Ours, Walking, Active
<1>2. IInv /\ LegalInv /\ [Next]_vars => LegalInv'
  <2> SUFFICES ASSUME IInv, LegalInv, [Next]_vars PROVE LegalInv'
    OBVIOUS
  <2>1. UNCHANGED scene
    BY DEF Next, ForeignInstall, Ended, vars
  <2>2. Legal' /\ ReadersApart' => Legal /\ ReadersApart
    BY <2>1 DEF Legal, ReadersApart, Active
  <2> QED
    BY <2>2, StepKeepsSafe, StepKeepsRegionsServed DEF LegalInv
<1> QED
  BY <1>1, <1>2, Invariance, PTL DEF Spec

-----------------------------------------------------------------------------
(* When no two threads read one region, threads that read live regions     *)
(* only are never harmed: segv_handler() resolves each of their faults,    *)
(* whatever pools and regions are created and destroyed meanwhile and      *)
(* whoever chains to it, and the handler is never lost.                    *)
THEOREM LegalReadersUnharmed == Spec => [](ReadersApart => LegalReadsSurvive)
<1>1. LegalInv => (ReadersApart => LegalReadsSurvive)
  BY DEF LegalInv, Safe, HandlerKept, LegalReadsSurvive
<1> QED
  BY <1>1, LegalInvariance, PTL
=============================================================================
