----------------------------- MODULE PoolWin32 ------------------------------
(***************************************************************************)
(* The virtual-memory seam on Windows (src/src/vm-win32.c) under the pool: *)
(* what each call inproc.c makes through it does to the address space.     *)
(*                                                                         *)
(* A reservation starts as one placeholder.  Publishing a range splits it  *)
(* off and replaces it by a view of the scratch section; decommitting      *)
(* unmaps the view and leaves a placeholder of its size.  Pieces never     *)
(* grow together again, and every kernel call here fails on a range that   *)
(* is not the piece it expects -- which aborts the process (FC_ASSERT).    *)
(***************************************************************************)
EXTENDS Pool

CONSTANT Offset   \* the position of each page in its region

ASSUME OffsetAssumption ==
    /\ Offset \in [Page -> Nat]
    /\ \A p, q \in Page : RegionOfPage(p) = RegionOfPage(q) /\ Offset[p] = Offset[q] => p = q
    /\ \A c \in Chunk : IsFiniteSet(SharedPagesOf(c))
    /\ \A p, q, s \in Page :   \* a chunk's own pages are contiguous
         /\ RegionOfPage(s) = RegionOfPage(p) /\ Contributors[p] = Contributors[q]
         /\ p \notin SharedPage /\ Offset[p] <= Offset[s] /\ Offset[s] <= Offset[q]
         => Contributors[s] = Contributors[p]

\* placeholders and views: the pieces, each a set of pages; readable: the pages
\* that are PAGE_READONLY; sections: the shared pages with a staging section;
\* failed: has a kernel call failed?
VARIABLE win

FirstPage(S) == CHOOSE p \in S : \A q \in S : Offset[p] <= Offset[q]

\* The piece VirtualQuery(p) reports on, {} for MEM_FREE.
PieceAt(w, p) == UNION {v \in w.placeholders \cup w.views : p \in v}

vm_reserve(w, S) == [w EXCEPT !.placeholders = @ \cup {S}]

\* Piece by piece, each released for what it is, from the address met first;
\* staging sections of pages never completed are discarded by region_free().
vm_release(w, S) ==
    LET gone == {v \in w.placeholders \cup w.views : v \cap S # {}}
    IN  [w EXCEPT !.placeholders = @ \ gone, !.views = @ \ gone,
                  !.readable = @ \ S, !.sections = @ \ S,
                  !.failed = @ \/ \E v \in gone : FirstPage(v) \notin S]

\* VirtualProtect() stays within one view.  No call is made for no pages.
vm_set_readable(w, S, on) ==
    IF S = {} THEN w
    ELSE [w EXCEPT !.readable = IF on THEN @ \cup S ELSE @ \ S,
                   !.failed = @ \/ \A v \in w.views : ~ S \subseteq v]

\* Mutant: the range is hidden and its view kept.
Mutant_vm_decommit(w, S) == vm_set_readable(w, S, FALSE)

\* Every view met in the range is unmapped whole, from the address met first.
vm_decommit(w, S) ==
    LET met == {v \in w.views : v \cap S # {}}
    IN  [w EXCEPT !.placeholders = @ \cup met, !.views = @ \ met,
                  !.readable = @ \ UNION met,
                  !.failed = @ \/ \E v \in met : FirstPage(v) \notin S]

\* Mutant: AllocationBase is not looked at.
Mutant_IsWhole(w, S) ==
    S = {p \in PieceAt(w, FirstPage(S)) : Offset[p] >= Offset[FirstPage(S)]}

\* VirtualQuery(target) reports on the pages from target on: BaseAddress and
\* RegionSize say that they end with S, AllocationBase that they begin with it.
IsWhole(w, S) ==
    /\ S = {p \in PieceAt(w, FirstPage(S)) : Offset[p] >= Offset[FirstPage(S)]}
    /\ FirstPage(S) = FirstPage(PieceAt(w, FirstPage(S)))

\* VirtualFree(MEM_RELEASE | MEM_PRESERVE_PLACEHOLDER) cuts S out of a larger
\* placeholder.
SplitPlaceholder(w, S) ==
    LET piece  == PieceAt(w, FirstPage(S))
        before == {p \in piece \ S : Offset[p] < Offset[FirstPage(S)]}
    IN  [w EXCEPT !.placeholders =
                      (@ \ {piece}) \cup ({S, before, piece \ (S \cup before)} \ {{}}),
                  !.failed = @ \/ piece \notin w.placeholders \/ S = piece \/ ~ S \subseteq piece]

\* MapViewOfFile3(MEM_REPLACE_PLACEHOLDER) replaces a placeholder whole.
MapView(w, S) ==
    [w EXCEPT !.placeholders = @ \ {S}, !.views = @ \cup {S}, !.readable = @ \cup S,
              !.failed = @ \/ S \notin w.placeholders]

vm_scratch_publish(w, S) ==
    IF S = {} THEN w ELSE MapView(IF IsWhole(w, S) THEN w ELSE SplitPlaceholder(w, S), S)

\* A shared page's staging section is made for its first contributor, and is
\* consumed, and so closed, when the page is published.
StageSections(w, c) ==
    [w EXCEPT !.sections = (@ \cup StagesInto(c)) \ Completes(c)]

\* fill_chunk_locked(): the completed shared pages, then the chunk's own.
PublishChunk(w, c) ==
    vm_scratch_publish(FoldSet(LAMBDA p, v : vm_scratch_publish(v, {p}),
                               StageSections(w, c), Completes(c)),
                       exclusive_pages(c))

NoMemory == [placeholders |-> {}, views |-> {}, readable |-> {}, sections |-> {},
             failed |-> FALSE]

-----------------------------------------------------------------------------
(* Properties.                                                             *)

(* No kernel call ever fails: whatever the order in which chunks are       *)
(* filled, hidden, evicted and filled again, the range the pool publishes  *)
(* is part of one placeholder, split off exactly when it is not all of it, *)
(* the range it protects or decommits is one view, and no piece it         *)
(* releases begins before the region's reservation.                        *)
KernelCallsSucceed == ~win.failed

(* The address space is what the pool believes, and what a POSIX kernel    *)
(* would have made of the same calls: the same pages can be read, a view   *)
(* backs exactly the pages that hold bytes -- an evicted chunk keeps no    *)
(* memory --, the pieces tile the reservations, and a staging section      *)
(* lives exactly as long as contributions wait in it.                      *)
WindowsKeepsContract ==
    /\ win.readable = readable
    /\ UNION win.views = {p \in Page : content[p] # {}}
    /\ \A v, w \in win.placeholders \cup win.views : v = w \/ v \cap w = {}
    /\ UNION (win.placeholders \cup win.views)
         = {p \in Page : RegionOfPage(p) \in live \cup dying}
    /\ win.sections = {p \in Page : staging[p] # {}}
=============================================================================
