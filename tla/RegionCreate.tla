---------------------------- MODULE RegionCreate ----------------------------
(***************************************************************************)
(* Requests for a region over every small sequence of chunk sizes, and the *)
(* geometry fc_region_create() computes for the ones it accepts, compared  *)
(* with a reference that counts bytes one by one.                          *)
(***************************************************************************)
EXTENDS Layout

CONSTANTS ChunkSize,   \* chunk sizes a caller may pass
          MaxChunks    \* bound on nchunks

ASSUME RequestAssumption ==
    /\ ChunkSize \subseteq 0 .. SizeRange - 1
    /\ MaxChunks \in Nat \ {0}

VARIABLES outcome,   \* "none", "region", "EINVAL" or "abort"
          sizes,     \* the request
          region     \* what the code computed for it

vars == <<outcome, sizes, region>>

NoRegion == [nchunks |-> 0]

Request == UNION {[1 .. n -> ChunkSize] : n \in 1 .. MaxChunks}

Init == outcome = "none" /\ sizes = << >> /\ region = NoRegion

\* vm_reserve() asserts that mmap() succeeded; mmap() refuses a length of 0.
fc_region_create(req) ==
    /\ outcome = "none"
    /\ sizes' = req
    /\ \/ /\ refused(req)
          /\ outcome' = "EINVAL"
          /\ region' = NoRegion
       \/ /\ ~refused(req)
          /\ region_of(req).mapped_size = 0
          /\ outcome' = "abort"
          /\ region' = NoRegion
       \/ /\ ~refused(req)
          /\ region_of(req).mapped_size # 0
          /\ outcome' = "region"
          /\ region' = region_of(req)

fc_region_destroy ==
    /\ outcome = "region"
    /\ outcome' = "none" /\ sizes' = << >> /\ region' = NoRegion

\* EINVAL leaves nothing behind; the caller may try another request.
Retry ==
    /\ outcome = "EINVAL"
    /\ outcome' = "none" /\ sizes' = << >> /\ region' = NoRegion

Next == \/ \E req \in Request : fc_region_create(req)
        \/ fc_region_destroy
        \/ Retry

Spec == Init /\ [][Next]_vars

-----------------------------------------------------------------------------
(* Reference: what each notion means, byte by byte.                        *)

Created == outcome = "region"

TrueSum(s) == LET sum[i \in 0 .. Len(s)] == IF i = 0 THEN 0 ELSE sum[i - 1] + s[i]
              IN  sum[Len(s)]

Byte == 0 .. region.total_size - 1

\* Chunk c covers byte b.
Covers(c, b) == region.chunk_start[c] <= b /\ b < region.chunk_start[c + 1]

Page == PagesOf([lo |-> 0, hi |-> region.mapped_size])

Contributors(p) ==
    {c \in ChunkIds(region) :
        \E b \in p .. p + PageSize - 1 : b \in Byte /\ Covers(c, b)}

RangeOf(d) == d.lo .. d.hi - 1

-----------------------------------------------------------------------------
(* fc_region_create() returns EINVAL exactly for a zero size or a sum that *)
(* does not fit size_t, and a region it returns maps every byte of the sum *)
(* in whole pages with less than one page of padding: a total whose        *)
(* page_ceil() wraps to 0 never becomes a region.                          *)
AcceptsExactly ==
    /\ outcome # "none" =>
         (outcome = "EINVAL" <=>
            (\E i \in DOMAIN sizes : sizes[i] = 0) \/ TrueSum(sizes) >= SizeRange)
    /\ Created =>
         /\ region.nchunks = Len(sizes)
         /\ region.total_size = TrueSum(sizes)
         /\ region.mapped_size \in region.total_size .. region.total_size + PageSize - 1
         /\ region.mapped_size % PageSize = 0

(* find_chunk()'s binary search returns the one chunk that covers a byte, *)
(* and the last chunk for one in the padding.  Every page is some chunk's  *)
(* alone or shared, and the code knows which: shared_pages_init() lists    *)
(* exactly the pages with bytes of several chunks, once each and sorted,   *)
(* with first_chunk..last_chunk their contributors, find_shared_page()     *)
(* finds those and no other, and chunk_exclusive_pages() gives the pages   *)
(* no other chunk has bytes in, for the last chunk the padded page too.    *)
LookupExact ==
    Created =>
        LET pages == shared_pages(region)
        IN  /\ \A b \in Byte : Covers(find_chunk(region, b), b)
            /\ \A b \in region.total_size .. region.mapped_size - 1 :
                 find_chunk(region, b) = region.nchunks - 1
            /\ \A i, j \in DOMAIN pages : i < j => pages[i].page_off < pages[j].page_off
            /\ \A p \in Page :
                 LET at == find_shared_page(pages, p)
                 IN  IF Cardinality(Contributors(p)) > 1
                     THEN /\ at # 0
                          /\ pages[at].page_off = p
                          /\ pages[at].first_chunk .. pages[at].last_chunk
                               = Contributors(p)
                     ELSE at = 0
            /\ \A c \in ChunkIds(region) :
                 PagesOf(chunk_exclusive_pages(region, c))
                     = {p \in Page : Contributors(p) = {c}}

(* fill_chunk_locked() accounts for every page of its scratch mapping      *)
(* exactly once: the published and the discarded pieces tile the span, the *)
(* chunk stages into each shared page it has bytes in, once, and the       *)
(* slices staged into a shared page together cover each of its bytes, each *)
(* with bytes of the chunk that stages it.                                 *)
FillAccountsForSpan ==
    Created =>
        /\ \A c \in ChunkIds(region) :
            LET span   == fill_span(region, c)
                pieces == scratch_pieces(region, c)
                staged == staged_pages(region, c)
            IN  /\ UNION {RangeOf(d) : d \in pieces} = RangeOf(span)
                /\ \A d, e \in pieces : d # e => RangeOf(d) \cap RangeOf(e) = {}
                /\ {staged[i] : i \in DOMAIN staged}
                     = {p \in Page : c \in Contributors(p) /\ Contributors(p) # {c}}
                /\ \A i, j \in DOMAIN staged : i # j => staged[i] # staged[j]
        /\ \A i \in DOMAIN shared_pages(region) :
            LET p        == shared_pages(region)[i].page_off
                slice(c) == RangeOf(staged_slice(region, p, c))
            IN  /\ UNION {slice(c) : c \in Contributors(p)}
                     = Byte \cap (p .. p + PageSize - 1)
                /\ \A c \in Contributors(p) : \A b \in slice(c) : Covers(c, b)

(* The group the server resolves for a fault contains the faulting page    *)
(* and, with any page, all the chunks that have bytes in it; every page of *)
(* the group leads to the same group.  So a copy never hands a client a    *)
(* page some of whose bytes are missing, and copies never overlap in part. *)
GroupsPartitionPages ==
    Created =>
        \A p \in Page :
            LET g == resolve_group(region, p)
            IN  /\ p \in g.page_lo .. g.page_hi - 1
                /\ \A q \in PagesOf([lo |-> g.page_lo, hi |-> g.page_hi]) :
                     /\ q \in Page
                     /\ Contributors(q) \subseteq g.lo .. g.hi
                     /\ resolve_group(region, q) = g

=============================================================================
