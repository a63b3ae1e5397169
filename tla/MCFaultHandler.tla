--------------------------- MODULE MCFaultHandler ---------------------------
(* Two pools, three regions and at most two threads. *)
EXTENDS FaultHandler, TLC

CONSTANTS t1, t2, A, B, r1, r2, r3

MCPoolOf == r1 :> A @@ r2 :> A @@ r3 :> B

\* Each region is read by one thread only.
Disjoint == t1 :> {r1, r3} @@ t2 :> {r2}

\* Both threads read the same region.
Same == t1 :> {r1} @@ t2 :> {r1}

\* One thread reads a region and addresses outside every region.
WithStray == t1 :> {r1, Stray}

LegalScenes ==
    [windows : BOOLEAN, touches : {Disjoint}, foreign : {None, "chains"}, fill_faults : {FALSE}]

ChainScenes ==
    {s \in [windows : BOOLEAN, touches : {WithStray}, fill_faults : {TRUE},
            foreign : {None, "fatal", "fixes", "chains", "leaves"}] :
        s.windows => s.foreign # "leaves"}

\* Two threads read one region, and fill_chunk() faults below handlers that
\* pass faults on: the deepest stacks.
CrossedScenes ==
    [windows : {FALSE}, touches : {t1 :> {r1} @@ t2 :> {r1, r2}}, foreign : {"chains"},
     fill_faults : {TRUE}]

AllScenes == LegalScenes \cup ChainScenes \cup CrossedScenes

SharedScenes ==
    [windows : {FALSE}, touches : {Same}, foreign : {None}, fill_faults : {FALSE}]

LeavesScenes ==
    [windows : {FALSE}, touches : {WithStray}, foreign : {"leaves"}, fill_faults : {FALSE}]
=============================================================================
