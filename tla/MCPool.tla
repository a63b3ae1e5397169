------------------------------- MODULE MCPool -------------------------------
(***************************************************************************)
(* Pool on small regions given by their chunk sizes: the geometry is what  *)
(* Layout computes for them with 4-byte pages.                             *)
(***************************************************************************)
EXTENDS Pool, Layout

CONSTANT ChunkSizes   \* region -> sequence of chunk sizes

MCRegion == DOMAIN ChunkSizes

layout == [r \in MCRegion |-> region_of(ChunkSizes[r])]

MCChunk == UNION {{<<r, i>> : i \in ChunkIds(layout[r])} : r \in MCRegion}

MCPage == UNION {{<<r, off>> : off \in PagesOf([lo |-> 0, hi |-> layout[r].mapped_size])}
                 : r \in MCRegion}

MCRegionOf == [c \in MCChunk |-> c[1]]
MCIndex == [c \in MCChunk |-> c[2]]
MCSize == [c \in MCChunk |-> ChunkSizes[c[1]][c[2] + 1]]

MCContributors ==
    [p \in MCPage |->
        {c \in MCChunk :
            /\ c[1] = p[1]
            /\ layout[c[1]].chunk_start[c[2]] < p[2] + PageSize
            /\ p[2] < layout[c[1]].chunk_start[c[2] + 1]}]

\* The code's own lookups give the same sets: a page in shared_pages has the
\* contributors first_chunk .. last_chunk, any other the one find_chunk() finds.
ASSUME GeometryAgrees ==
    \A p \in MCPage :
        LET r     == layout[p[1]]
            pages == shared_pages(r)
            at    == find_shared_page(pages, p[2])
        IN  {c[2] : c \in MCContributors[p]} =
                IF at = 0 THEN {find_chunk(r, p[2])}
                ELSE pages[at].first_chunk .. pages[at].last_chunk

\* Beside a region of aligned chunks, one whose chunks share pages: chunk 0
\* has a page of its own and a part of the next, chunk 1 lies inside that
\* page, chunk 2 ends with it and chunk 3 has the padded last page.  One of
\* the aligned chunks is larger than the target by itself.
MixedSizes == [r1 |-> <<6, 1, 2, 6>>, r2 |-> <<4, 12>>]

\* Two chunks that meet in a page, and two that do not.
SmallSizes == [r1 |-> <<6, 6>>, r2 |-> <<4, 4>>]
=============================================================================
