------------------------------- MODULE Layout -------------------------------
(***************************************************************************)
(* The geometry of a region (src/src/inproc.c): where chunks start, which  *)
(* pages a chunk owns alone, which pages hold bytes of several chunks, and *)
(* what filling a chunk does with the pages of its scratch mapping.        *)
(*                                                                         *)
(* Chunks are numbered from 0 as in the code; a request is the sequence of *)
(* chunk sizes the caller passes, so sizes[i + 1] is chunk_sizes[i].       *)
(* size_t has SizeRange values: additions that can leave it are taken      *)
(* modulo SizeRange.                                                       *)
(***************************************************************************)
EXTENDS Integers, Sequences, FiniteSets

CONSTANTS PageSize,   \* bytes in a page
          SizeRange   \* number of values of size_t

ASSUME LayoutAssumption ==
    /\ PageSize \in Nat \ {0}
    /\ SizeRange \in Nat
    /\ SizeRange > PageSize
    /\ SizeRange % PageSize = 0

SIZE_MAX == SizeRange - 1

page_floor(x) == x - (x % PageSize)

\* The addition wraps, so page_ceil of a size in the last page is 0.
page_ceil(x) == page_floor((x + PageSize - 1) % SizeRange)

(***************************************************************************)
(* fc_region_create: the running total and the sizes it refuses.           *)
(***************************************************************************)
running_total(sizes) ==
    LET total[i \in 0 .. Len(sizes)] ==
            IF i = 0 THEN 0 ELSE (total[i - 1] + sizes[i]) % SizeRange
    IN  total

\* Mutant: the running total is not compared with its previous value.
Mutant_refused(sizes) == \E i \in 1 .. Len(sizes) : sizes[i] = 0

refused(sizes) ==
    \E i \in 1 .. Len(sizes) :
        \/ sizes[i] = 0
        \/ running_total(sizes)[i] < running_total(sizes)[i - 1]

(***************************************************************************)
(* The part of struct fc_region that never changes once it is created.     *)
(***************************************************************************)
region_of(sizes) ==
    LET total == running_total(sizes)
    IN  [ nchunks     |-> Len(sizes),
          chunk_start |-> total,
          total_size  |-> total[Len(sizes)],
          mapped_size |-> page_ceil(total[Len(sizes)]) ]

ChunkIds(r) == 0 .. r.nchunks - 1

\* Binary search for the chunk covering byte offset off.
find_chunk(r, off) ==
    LET search[w \in ChunkIds(r) \X ChunkIds(r)] ==
            LET lo == w[1]  hi == w[2]  mid == lo + (hi - lo + 1) \div 2
            IN  IF lo >= hi THEN lo
                ELSE IF r.chunk_start[mid] <= off THEN search[<<mid, hi>>]
                ELSE search[<<lo, mid - 1>>]
    IN  search[<<0, r.nchunks - 1>>]

\* The byte range [lo, hi) of the pages chunk c owns alone.
chunk_exclusive_pages(r, c) ==
    LET lo == page_ceil(r.chunk_start[c])
        hi == IF c + 1 = r.nchunks THEN r.mapped_size
              ELSE page_floor(r.chunk_start[c + 1])
    IN  [lo |-> lo, hi |-> IF hi < lo THEN lo ELSE hi]

\* The pages of a page-aligned byte range, each by its offset.
PagesOf(range) == {off \in range.lo .. range.hi - 1 : off % PageSize = 0}

(***************************************************************************)
(* shared_pages_init: one entry per page holding an unaligned boundary, in *)
(* the order the boundaries are met, a repeated page skipped.              *)
(***************************************************************************)
shared_pages(r) ==
    LET entry(p) ==
            LET end  == p + PageSize - 1
                last == IF end >= r.total_size THEN r.total_size - 1 ELSE end
            IN  [page_off    |-> p,
                 first_chunk |-> find_chunk(r, p),
                 last_chunk  |-> find_chunk(r, last)]
        scan[i \in 0 .. r.nchunks - 1] ==
            IF i = 0 THEN [prev |-> SIZE_MAX, found |-> << >>]
            ELSE LET p == page_floor(r.chunk_start[i])
                 IN  IF r.chunk_start[i] = p \/ p = scan[i - 1].prev
                     THEN scan[i - 1]
                     ELSE [prev  |-> p,
                           found |-> Append(scan[i - 1].found, entry(p))]
    IN  scan[r.nchunks - 1].found

\* Mutant: the entry found is not compared.
Mutant_Matches(pages, at, page_off) == at <= Len(pages)

Matches(pages, at, page_off) == at <= Len(pages) /\ pages[at].page_off = page_off

\* Lower-bound search; the result is an index into pages, 0 for nullptr.
find_shared_page(pages, page_off) ==
    LET search[w \in (1 .. Len(pages) + 1) \X (1 .. Len(pages) + 1)] ==
            LET lo == w[1]  hi == w[2]  mid == lo + (hi - lo) \div 2
            IN  IF lo >= hi THEN lo
                ELSE IF pages[mid].page_off < page_off THEN search[<<mid + 1, hi>>]
                ELSE search[<<lo, mid>>]
        at == search[<<1, Len(pages) + 1>>]
    IN  IF Matches(pages, at, page_off) THEN at ELSE 0

(***************************************************************************)
(* fill_chunk_locked: the scratch span of chunk c, the shared pages it     *)
(* stages into (head first) and the pieces the scratch is split into: the  *)
(* middle is published, the rest discarded.                                *)
(***************************************************************************)
fill_span(r, c) == [lo |-> page_floor(r.chunk_start[c]),
                    hi |-> page_ceil(r.chunk_start[c + 1])]

has_head(r, c) == r.chunk_start[c] % PageSize # 0

\* Mutant: a chunk inside one page is staged twice.
Mutant_has_tail(r, c) == r.chunk_start[c + 1] % PageSize # 0 /\ c + 1 < r.nchunks

\* Not when the whole chunk lives inside one shared page.
has_tail(r, c) ==
    /\ r.chunk_start[c + 1] % PageSize # 0 /\ c + 1 < r.nchunks
    /\ ~(has_head(r, c) /\ page_floor(r.chunk_start[c + 1]) = page_floor(r.chunk_start[c]))

staged_pages(r, c) ==
    (IF has_head(r, c) THEN <<page_floor(r.chunk_start[c])>> ELSE << >>)
    \o (IF has_tail(r, c) THEN <<page_floor(r.chunk_start[c + 1])>> ELSE << >>)

\* stage_into_shared_page: the bytes [lo, hi) copied into the page at page_off.
staged_slice(r, page_off, c) ==
    [lo |-> IF r.chunk_start[c] > page_off THEN r.chunk_start[c] ELSE page_off,
     hi |-> IF r.chunk_start[c + 1] < page_off + PageSize
            THEN r.chunk_start[c + 1] ELSE page_off + PageSize]

scratch_pieces(r, c) ==
    LET span == fill_span(r, c)
        excl == chunk_exclusive_pages(r, c)
    IN  IF excl.hi > excl.lo
        THEN {excl} \cup {d \in {[lo |-> span.lo, hi |-> excl.lo],
                                 [lo |-> excl.hi, hi |-> span.hi]} : d.hi > d.lo}
        ELSE {span}

(***************************************************************************)
(* resolve_fault() of the server (src/src/server.c): the chunks lo..hi a   *)
(* fault resolves together and the byte range [page_lo, page_hi) it copies *)
(* -- from the chunk at the fault outwards, to page-aligned boundaries.    *)
(***************************************************************************)
\* Mutant: the group only grows forth.
Mutant_GrowsBack(r, c) == FALSE

GrowsBack(r, c) == c > 0 /\ r.chunk_start[c] > page_floor(r.chunk_start[c])

GrowsForth(r, c) ==
    c + 1 < r.nchunks /\ r.chunk_start[c + 1] < page_ceil(r.chunk_start[c + 1])

resolve_group(r, off) ==
    LET back[c \in ChunkIds(r)] == IF GrowsBack(r, c) THEN back[c - 1] ELSE c
        forth[c \in ChunkIds(r)] == IF GrowsForth(r, c) THEN forth[c + 1] ELSE c
        lo == back[find_chunk(r, off)]
        hi == forth[find_chunk(r, off)]
    IN  [lo |-> lo, hi |-> hi,
         page_lo |-> page_floor(r.chunk_start[lo]),
         page_hi |-> page_ceil(r.chunk_start[hi + 1])]

=============================================================================
