# faultcache in TLA+

A verification project for faultcache: memory regions whose chunks are filled
on first touch, either inside the process (a SIGSEGV handler over `PROT_NONE`
mappings) or by a server process (userfaultfd). The modules model the control
flow of the library; TLC checks them on small instances and TLAPS proves the
central results for every instance. `PROJECT.json` maps each definition to the
lines it models and lists runs, mutants, findings, hazards and theorems.

## The system

| Part | Source | State | Operations | What makes it correct |
|---|---|---|---|---|
| Geometry | `src/inproc.c`, `src/server.c` | chunk offsets, table of shared pages | region creation, `find_chunk`, `find_shared_page`, `chunk_exclusive_pages`, span of a fill, the server's group | exact for every list of sizes, zero and wrapping ones refused |
| Pool | `src/inproc.c` | per chunk `initialized`, `cold`, `resident`, `chunk_staged`; LRU queue and midpoint; byte counters; staging pages; page protections | create, destroy, fault (fill or promote), evict, demote | readers see whole pages only; flags agree with protections; budget; asserts |
| Windows address space | `src/vm-win32.c` | placeholders, section views, staging sections | reserve, publish, protect, decommit, release | no call fails, same pages readable as on POSIX, nothing leaks |
| Debug statistics | `src/inproc.c`, `include/faultcache/debug.h` | per-region and per-chunk counters | the four reports | reports agree with each other and with the queue |
| Registry and fault seam | `src/inproc.c`, `src/fault-posix.c`, `src/fault-win32.c` | `g_pools`, two levels of locks, SIGSEGV disposition and saved action or the list of vectored handlers, thread-local flags | `fc_init`, `fc_rearm_handler`, pool and region lifecycle, `segv_handler` and its chain | no deadlock, no use of freed pools, legal reads never fatal, every fault answered |
| Client and server | `src/client.c`, `src/server.c`, `src/wire.h` | socket queues, per-connection epoll loop, server regions with cache and mappings, client mappings | create in two round trips, fault, destroy, run, stop, server destroy, exit | one region per descriptor, chunks derived once, copies whole, no blocked caller |
| Python bindings | `python/faultcache/__init__.py`, `python/_faultcache_shim.c` | GIL, objects and their views, collector switch | create, view, copy, close, fill | close() does not take memory from counted views or fills, closing can be repeated, fills finish |
| Examples, scripts | | | | not modelled, see below |

A touch of an unreadable page traps on the touching thread. `segv_handler`
calls `fault_try_resolve`, which walks all pools with `g_pools_lock` held,
takes each pool's lock in turn and resolves the fault in place if the address
is in a region and `page_readable()` says no; otherwise the fault is passed to
the action displaced by `fc_init`. Resolving fills the chunks with bytes on the
page (calling the user's `fill_chunk` with both locks held), publishes complete
pages, evicts from the cold end down to the target and demotes from the
midpoint. In the remote variant the kernel queues the fault on a userfaultfd
the server polls; the server fills its own cache under `server->lock` and
copies it into the client outside that lock. In Python every call into the
library gives up the GIL, `fill_chunk` takes it inside the library's locks, and
indexing a zero-copy view faults with the GIL held.

What is hard here: readers take no lock; two independent records (flags and
protections) must agree; chunks share pages, and a chunk can be evicted and
refilled before a page it shares is complete; signals arrive inside handlers;
several parties save each other's handlers; server threads share a cache that
is read after unlocking; processes disappear between messages; two locks (the
GIL and `g_pools_lock`) are taken in both orders. On Windows a reservation
breaks into pieces that never grow together again, and each kernel call depends
on which pieces earlier fills and evictions have left.

## Modules

- `Layout` holds the pure algorithms, with `size_t` arithmetic modulo
  `SizeRange`; `RegionCreate` is the creation of a region, with byte-by-byte
  reference definitions for each algorithm.
- `Pool` is one pool. Its variables are the fields of `fc_pool_t` and
  `fc_region_t` as sets and functions over chunks and pages, plus `readable`
  and `content`, what the memory shows. A job under `pool->lock` is spread over
  the values of `pc` (`resolve`, `evict`, `rebalance`, `forget`), one loop turn
  per step, because readers see the states in between. The geometry is a
  parameter; `MCPool` computes it with `Layout` and asserts that the code's own
  lookups agree with it. All ranges one `fill_chunk_locked()` publishes appear
  in one step: each is one `mremap()` of finished pages, and nothing inside the
  lock is read by others between them.
- `LazyMemory` is the abstract promise to readers: pages are shown and hidden,
  a touch is answered by showing the page, shared pages are never taken back.
  `Pool` implements it (`ImplementsLazyMemory`).
- `Reader` adds one thread whose load instruction needs a set of pages readable
  at once and is executed again after each fault.
- `PoolWin32` is `vm-win32.c` below the pool: one record `win` of placeholders,
  views (both sets of pages), readable pages, staging sections and whether a
  kernel call has failed, and one operator per `vm_*` call. Preconditions of
  the kernel calls (a view replaces exactly one placeholder, a split is a
  proper part of one, protection stays within a view) set `failed`.
- `PoolStats` holds the counters and the four debug reports.
- `PoolWindows` composes `Pool`, `PoolWin32` and `PoolStats`: each action of
  `Pool` together with the seam calls it makes and the counters it updates.
- `FaultHandler` is the process-wide side: threads, locks, registry, and who is
  offered a fault. A `Scene` fixes the port (signal disposition and displaced
  action, or the list of vectored handlers), the threads and what they read,
  the kind of a second party's handler (kills, repairs, chains, or leaves by
  `siglongjmp`) and whether `fill_chunk` itself faults. Resolution is the
  contract of `LazyMemory`: the page becomes readable, any others of the pool
  may be hidden. A region is one page.
- `Remote` is client and server. A message is its kind and descriptor; a
  descriptor's `Kind` says what becomes of it (accepted, rejected, too long for
  either request, or with a layout too long for the reply). `UFFDIO_COPY` and
  `Touch` follow the kernel's rules as the code relies on them; with `MayFail`
  a copy may fail on a mapping that is there, which the server ignores.
- `SharedContent` is the abstract promise of client and server together:
  handles are opened for a descriptor and closed, content is derived chunk by
  chunk, and a touched group is shown whole once all of it is derived, and only
  if it was touched. `Remote` implements it (`ImplementsSharedContent`).
- `Bindings` is the Python layer over the library's contract, with the GIL and
  the collector's switch, which any Python code may set too. Any thread may
  close any Region or the Pool at any time, also in the windows where another
  call has given up the GIL; the guards are the code's own (`_addr`, `_handle`,
  `_view_count`). A use of something the library has released is the action
  `Undefined`, which ends the process. The history variable `raced` collects
  the regions that were closed in the middle of a `view()` or created while
  their pool was being closed.
- Proofs: `LayoutProofs` (of `Layout` and `RegionCreate`), `PoolProofs`,
  `PoolWindowsProofs`, `FaultHandlerProofs`, `RemoteProofs` and `BindingsProofs`
  hold the theorems about the modules they are named after. `ListLemmas` (removing from and adding to
  lists without duplicates) and `SumLemmas` (sums over finite sets) are shared.
- `MC*` modules give constants their values.

`Mutant_*` operators are deliberately wrong variants of the definition that
follows them; each property is known to fail when its mutant is put in place.

## Runs

| Run | Module | States | Question |
|---|---|---|---|
| RegionCreate | RegionCreate | 16105 | Are acceptance, lookups, page tables, fill spans, staged slices and server groups exact? |
| PoolMixed | MCPool | 15660 | Do queue, protection, staging, counters, asserts, budget and eviction order hold at every step, does every job give the lock back, and is LazyMemory implemented? |
| PoolWindows | MCPoolWindows | 162421 | Does every placeholder and view call succeed, is the Windows address space what the pool believes, and do the debug reports agree? |
| ReaderStraddling (violation) | MCReader | | Does a load over two pages complete? |
| Handler | MCFaultHandler | 86550 | Are threads that read their own regions safe from everything else going on, and is each fault answered, with bounded nesting and no self-deadlock, on both ports and below every kind of second handler? |
| HandlerSharedRegion (violation) | MCFaultHandler | | Are two threads that read the same region safe? |
| HandlerLeaves (violation) | MCFaultHandler | | Is a handler that recovers by `siglongjmp` asked about each fault? |
| RemoteShared | MCRemote | 194454 | Is a region shared by two connections single and derived once, is SharedContent implemented, are faults served though copies fail, and does one stop end both runs? |
| RemoteServed | MCRemote | 88444 | Are regions watched and creations answered for descriptors of every kind, with stops and exits? |
| RemoteOversized (violation) | MCRemote | | Is an acceptable descriptor ever refused on a served connection? |
| BindingsLifetime | MCBindings | 91776 | Do counted views and fills keep their memory whoever closes, do closings stay repeatable, is the collector off during fills, and what can block a fill? |
| BindingsViews (violation) | MCBindings | | Do fills always finish when views are used? |

What the properties say beyond their names:

- `LockReleased` (PoolMixed) is termination of the loops under `pool->lock`.
  With the theorem `FaultsAreServed` it gives that a load within one page
  completes: every fault ends with that page readable.
- `WindowsKeepsContract` is the correspondence of the two ports: the view and
  placeholder bookkeeping implements the `readable` and `content` that `Pool`
  takes from the POSIX calls, with no memory kept for an evicted chunk.
- `ReportsAgree` relates four independent records of residency and faults.
- `FaultServed` says that a blocked thread goes on unless the copy it waits for
  has failed, its connection has ended or its client is gone; a failure on one
  mapping or group takes nothing from the others.
- `ReadersBacked` says that memory is released under a counted view only if the
  `view()` overlapped the `close()` or the region was created during
  `Pool.close()`, and never under a fill. It says nothing of a copy in
  progress, which the code does not count: `fc_region_destroy()` unmaps under
  it, and the process ends in `Undefined`.
- `CollectorQuiet` says that a fill runs with the collector off, unless the
  program has set it during that fill, and that it is left as it was.

### Bounds

- RegionCreate: pages of 4 bytes and sizes modulo 32 put every boundary within
  reach: chunks below, at and above a page, three chunks in a page, totals that
  wrap at the sum and totals whose `page_ceil` wraps to 0. Four chunks suffice
  for a first, a middle, a neighbour and a last one.
- PoolMixed: region `r1` has chunks of 6, 1, 2 and 6 bytes (a page of one's
  own, one shared by three chunks of which one lies wholly inside, a padded
  last page), `r2` chunks of 4 and 12; the target 11 makes eviction and
  demotion happen on most faults and is exceeded by the last chunk alone.
  Regions are destroyed and created again at any time. ReaderStraddling has
  two chunks that meet in a page and two that do not.
- PoolWindows: region `r1` has chunks of 10, 6 and 4 bytes on pages of 4 (two
  own pages and a shared one, an own page behind it, an aligned chunk), `r2`
  one chunk of two pages; the target 17 leaves room for two or three chunks, so
  that pieces beside published, evicted and never touched ones are split and
  mapped again. `MaxEvents` 4 fault events per region are enough for each chunk
  to be filled, evicted or promoted, and filled again.
- FaultHandler: two pools in either order of the registry, three regions, two
  threads (one where strays and faulting fills are allowed). The second
  handler is installed once, before or after `fc_init` and re-arming, on
  Windows at either end of the list. `CrossedScenes` lets `fill_chunk` fault
  below two handlers that have saved each other, the deepest nesting there is.
- Remote: two clients with a region each, or one with two; two groups, one of
  two chunks; one failed copy per group and mapping. Sequence counters do not
  occur; the queues are bounded by the ping-pong itself.
- Bindings: two threads, two regions; at most two views of the one and none of
  the other in BindingsLifetime, one of each in BindingsViews. Two threads are
  enough for each pair of overlapping calls, closing twice included.

Deadlock checking is on for the pool on both ports, for readers and for the
fault handler, which can always go on (a process that has ended stays so). It
is off where the system may stop: a region creation that ends the run, clients
and server gone, a closed Python pool.

### Fairness

- Pool: weak fairness of the thread that holds `pool->lock`; nobody has to
  fault, create or destroy.
- Reader: the thread keeps executing, inside and outside the handler, and
  `fill_chunk` returns.
- FaultHandler: weak fairness of each thread's own steps; nothing is assumed
  about who gets a contended lock, and nobody has to call anything.
- Remote: server and client threads run, the host starts a run for each
  connection and closes it after the run. Nobody has to touch, stop or exit.
- Bindings: weak fairness of threads and of the interpreter's forced switch;
  strong fairness for taking the GIL and finishing a fill, since CPython makes
  a holder hand it to a waiter after its switch interval.

## Proofs

Each proof module finds an inductive invariant `IInv` for its component, proves
that every action keeps each part of it, and derives the checked properties.
The constants are arbitrary, subject to the named assumptions of the modules;
the runs evaluate those on their instances. TLC checked every new invariant on
the component's run before it was proved.

**Geometry** (`LayoutProofs`), for every page size, every width of `size_t` that
is a multiple of it (`LayoutAssumption`) and every list of sizes. `RegionCreate`
has few states and much arithmetic, so its invariant (`Answered`) only says that
a region is the one the code computes for its request; the work is in what that
computation means:

- The loops of the code are recursive functions, which the provers do not
  unfold. `UpRecursion` gives a function that climbs from 0 its recursion
  equation and a bound on its values; `SearchExists` and `SearchEnds` do the
  same for a search that narrows a window, with the window's size as measure.
  With these the running total, both binary searches, the scan of
  `shared_pages_init()` and the two walks of `resolve_fault()` get one lemma
  each (`RunningTotal`, `FindChunk`, `FindSharedPage`, `SharedPages`,
  `WalksBack`, `WalksForth`) that says what they return.
- `PageDivision`, `AlignedApart`, `Floor` and `Ceil` say what `page_floor()` and
  `page_ceil()` compute, the latter where its addition does not wrap.
  `RefusedExactly` shows that the comparison of each total with the one before
  catches every wrap, and `GeometryHolds` that an accepted request has the
  shape `Geometry`: strictly growing starts, and a total that a page can be
  added to.
- Everything else follows from the shape: `GeometryLooksUp`, `GeometryFills`
  and `GeometryGroups`, by way of who contributes to a page (`ContributorRange`,
  `Shared`, `Alone`). The theorems are `AcceptedExactly`, `LookupsExact`,
  `FillsAccounted` and `GroupsPartition`.
- `AssumptionsMet`: the geometry of every such region satisfies what
  `PageAssumption`, `OffsetAssumption` and `RemoteAssumption` ask of pages,
  contributors and groups. It discharges, for each region, the assumptions the
  theorems below start from.

The two searches take their window as a pair because tlapm has no SMT
translation for functions of several arguments.

**Pool** (`PoolProofs`), for all regions, chunks, pages, geometries and targets
satisfying `ChunkAssumption`, `PageAssumption` and `TargetAssumption` (a page
has finitely many contributors, at least one, all of one region; sizes are
positive):

- `Invariant`: `IInv` is inductive. Its parts need each other. That eviction
  and demotion never take the page being served away needs the most recent
  node to be a hot chunk on that page (`MruIsServed`), which needs the shape of
  the queue (`QueueHoldsInitialized`, `HotPrefix`); that `page_readable()`
  stays true to the protections (`ShadowMatchesVM`) needs the cold flags to be
  exactly the nodes past the midpoint; that a refill is harmless needs the
  staging counts (`StagingExact`, `PageComplete`); and all of it needs regions
  to leave in order (`RegionsTakenApartLast`).
- From it `TypeCorrect`, `QueueCorrect`, `ShadowCorrect`,
  `ReadersSeeWholePages`, `StagingCorrect`, `ResolutionCorrect` and
  `AssertionsNeverFail`.
- `CountersExact`: the two byte counters are the sums of the sizes of the queue
  and of its hot part (`BytesExact`). One lemma for each of unlink, insert and
  demote says which element joins or leaves the summed set.
- The action properties `SharedPagesStay`, `UnboundedPoolsKeepPages`,
  `FaultsAreServed`, `ColdGoesFirst`, and `BudgetIsKept` with the additional
  invariant that nothing is evictable once the eviction loop is over.
- `Refinement`: the pool implements `LazyMemory`, with `shown` as the readable
  pages and `serving` as the page being resolved.

**Windows and the statistics** (`PoolWindowsProofs`), with finitely many chunks
(`EventsAssumption`) and pages that lie in the address space as
`OffsetAssumption` says (a chunk's own pages are contiguous, it shares finitely
many):

- `WindowsIsPool`: each step of the composition is a step of `Pool`, so that
  all of the above holds of it. `WindowsInvariant` adds two parts.
- `TilesInv` is about the pieces of the reservation. A `Unit` is what the code
  publishes in one call, a shared page or the own pages of one chunk. Views
  and placeholders are disjoint, cover exactly the reserved pages, and never
  have an edge inside a unit; what is backed is in a view, what is not in a
  placeholder. Hence the unit a fill publishes lies in one placeholder and is
  either all of it or a proper part, which is the precondition the split and the
  mapping need: `KernelCallsNeverFail`, `WindowsContractKept`. The fold of
  `PublishChunk` over shared pages is handled by `PickedInduction`.
- `StatsInv` says per region that its counters are what its resident chunks
  amount to and that its fault history adds up; from it `ReportsCorrect`.

**Fault path** (`FaultHandlerProofs`), for any pools, regions and threads, both
ports and every kind of second handler. `IInv` says who holds which lock at
which step (`LockOwners`), that the flag `g_resolving_fault` belongs to the
holder of `g_pools_lock` inside a fill (`Resolving`), where the cursor of a walk
is (`Cursors`), what the list of handlers can look like (`Handlers`), and how
deep a thread can be in handlers at each step (`Depths`, `VectoredDepths`).
`NothingFreedUnderWalk` follows from the cursors, because removal from the
registry needs the lock the walk holds. `NeverWaitsForItself` needs the flag.
`ChainsAreBounded` needs the depth of each step; the bound is 4, and 5 on a
thread whose fill faults.

Its last part proves that a read of a live region never ends the process if
no two threads read the same region (`ReadersApart`, in `LegalReadersUnharmed`).
Without that hypothesis it is false, as the run HandlerSharedRegion shows. The
argument follows one fault: at each step either a pool that still lies ahead in
the walk holds the region, or the handler that will repair it is still to be
called (`Safe`), and no other thread can change either.

**Client and server** (`RemoteProofs`), for any clients, regions, descriptors
and groups. `IInv` has fourteen parts. `Locks`, `Works` and `Derivations` tie
each connection's work to the lock and give `EachChunkDerivedOnce` and, with the
search and the creation under one lock, `OneRegion`. `CopiesWhole` holds though
the copy is made outside the lock because cached chunks never leave the cache.
`Channels`, `Exchange`, `Creations`, `Requested`, `Answered`, `Mappings` and
`Refusals` describe what is in flight at every stage of the two round trips;
they give `LiveRegionsServed` and `RefusalsExplained`, that the two ends get out
of step only by a layout that does not fit.

`Refinement` shows that clients and server implement `SharedContent`. A handle
is open while its region is in use and its client is there; what it shows and
who waits are the kernel's `present` and `blocked`; the content of a descriptor
is what its regions have resolved. Most steps are invisible (`Quiet`), a return
of `fill_chunk()` is `Derive`, a copy that takes is `Answer`. That such a copy is
an answer at all needs one more invariant (`Waits`): a fault message that
lingers, or one a thread has read, is about a group that was touched, in a
mapping of the region whose cache is copied, and it stays so while other
threads copy the same group, the region is closed or the client dies.

**Python** (`BindingsProofs`), for any threads, regions and numbers of views.
`IInv` is `Living`, or `Ended` once a use of released memory has ended the
process; an ended process changes nothing any more (`EndedStays`). `Living` says
who holds the GIL and the library's locks at which step (`LockHolders`), which
region each thread works on (`Targets`), what is left when the pool is gone
(`PoolGone`), and in which stage of its life each region is (`NewRegions`,
`ClosedRegions`, `OpenRegions`): a region is out of the pool's set only while
some thread is in its `close()`, and it loses its memory only there or with the
pool. `Views` adds that a region with counted views is open, mapped and in
nobody's `close()` unless it is in `raced`, and `Fills` that the region being
filled is mapped, which needs both closing calls to take the library's lock.
`NeverReleasedUnderReader`, `ClosedOrWhole` and the action property
`CollectorRestored` follow.

Induction over data. The library's induction theorems cannot be instantiated by
the installed provers; `SumLemmas` states the needed instances over sets instead
of predicates (`NatSet`: a set of naturals with 0 and all successors is all of
them; `NatMinimum`: a nonempty set of naturals has a least element;
`PickedInduction`: a set of subsets that contains the empty one and is closed
under adding the chosen element contains every finite subset) and derives from
them that the fold the code's sums are modelled by is the sum, and how it
changes when one element joins or leaves. The recursion lemmas of `LayoutProofs`
rest on `NatSet` and `NatMinimum`.

The counters of `PoolStats` are updated by whole records (`Filled`,
`Forgotten`): tlapm's SMT translation of several updates of the form
`![x].f = @ + n` in one `EXCEPT` proves false statements, so no module uses them.

Only model-checked is liveness under fairness, which is out of the prover's
reach, like `ENABLED`: `LockReleased`, `FaultAnswered`, `GPoolsLockReleased`,
`FaultServed`, `CreateReturns`, `StopReachesAll`, `OnlyViewsBlockFills`. Every
safety property a passing run checks is a theorem.

No module here uses a `RECURSIVE` operator.

## Findings

Five runs end in a counterexample and stand for disagreements between the code
and its own documentation; `PROJECT.json` quotes the lines.

1. HandlerSharedRegion (POSIX scenes): of two threads that touch one unresolved
   page, the second finds the page readable under the lock and treats its fault
   as foreign; with a default previous action it reinstates `SIG_DFL`, where the
   trace ends. The process still runs and that load will be retried and succeed,
   but the next fault on any region kills it. On Windows the same mistake
   makes `veh_handler()` continue the search, which ends the process at once if
   nobody else handles the exception; the run leaves that port out.
2. ReaderStraddling: a load across two chunks can have each fault demote or
   evict the page it was given before, and never completes.
3. HandlerLeaves: a displaced handler that leaves by `siglongjmp` leaves
   `g_chaining` set; the thread's next stray fault is ended at the default
   action, as if the same fault had come round.
4. RemoteOversized: a layout longer than a message is cut off at the client,
   while the server goes on to expect an attach; the next region fails. On
   Linux a message above 1 MiB also takes a raised `SO_SNDBUF` at the server;
   without one its `send()` fails and the connection ends.
5. BindingsViews: GIL and `g_pools_lock` are taken in opposite orders by
   `fill_trampoline()` and by a fault on a view.

Smaller ones are visible in the definitions and have no run of their own:

- `lru_unlink()` leaves `cold` set on an evicted chunk, though the flag is
  described as "resident but past the midpoint", and the debug history reports
  it as it is; `chunks_resolved` is described as chunks initialized so far and
  counts refills too (`CountFill`).
- `Region.close()` looks at `_view_count`, then gives up the GIL in
  `fc_region_destroy()` with `_addr` still set. A `view()` or a copy that starts
  in that window is not refused, and a second `close()` destroys the region
  again; a copy that is already in progress is not counted at all. The
  docstring of `view()` says that "close() raises if any are still alive"; the
  bindings promise nothing about threads, so this is no run of its own but the
  exception in `ReadersBacked`. In the same way `Pool.close()` does not see a
  region that is created after it has taken its list, and `OpenIsMapped`
  excepts it.
- The stop event is never consumed, so an `fc_server_run()` started after a
  stop returns at once.
- The shim's depth counter never exceeds 1 (`fill_trampoline`): `g_pools_lock`
  is held over every fill, so no other thread can be in a fill of its own,
  which the comment above the counter gives as the reason for it.
- `_debug_lru_queue()` calls the library twice and may see more entries the
  second time than it has room for.

## Assumptions

- Allocation and mapping succeed (the code aborts otherwise).
- Callers keep the API's rules: a region is not used while it is destroyed,
  `fc_server_destroy()` is not called during a run, each connection has one
  run and one creation at a time, and on Windows `fc_rearm_handler()` is called
  while no thread is in an access (the handler is out of the list for a
  moment). In `Bindings` the threads read different regions, and memory that
  was released is not mapped again for something else.
- The host ignores SIGPIPE and accepts and closes connections.
- The kernel: `mprotect`, `mremap` and `UFFDIO_COPY` are atomic for a reader;
  userfaultfd keeps a message until it is read, or may drop it once its range
  is there.
- `epoll_wait` returns all that is ready; the code asks for at most 16 events
  and gets the others on the next turn.

## Not modelled

The misuse hook and argument checks beyond the guards; slicing, debug wrappers,
library loading and conversions of the Python bindings; examples, build files
and scripts. `nchunks + 1` in 32 bits is not reached by the bounds. Two threads
of one client that create regions on one connection at once, and a SIGPIPE that
the host has not ignored, are outside the assumptions above.

## Plan

Done, in the order of importance: geometry and pool with its proofs, the
process-wide fault path on both ports, client and server with failing copies,
bindings, the Windows address space and the debug statistics; then the proofs
of every invariant and action property of these, the geometry included, and the
refinement of both abstract contracts. Worth adding as the code grows: two
threads of one client creating regions on one connection, once the client gives
that a meaning, and the argument checks of the misuse hook.
