----------------------------- MODULE LazyMemory -----------------------------
(***************************************************************************)
(* What a pool promises to the threads reading its regions, with no queue, *)
(* no budget and no staging: pages of existing regions are shown or not;   *)
(* touching one that is not shown is answered, one touch at a time, by     *)
(* showing it; other pages may come and go while a touch is answered, but  *)
(* the answered page is there when the toucher resumes, and a page that    *)
(* several chunks share is never taken away again.                         *)
(***************************************************************************)
CONSTANTS Region, Page,
          PageRegion,   \* the region of each page
          Pinned,       \* pages holding bytes of several chunks
          None          \* no page

VARIABLES existing,     \* regions whose memory is reserved
          shown,        \* pages that can be read
          serving       \* the page whose touch is being answered

vars == <<existing, shown, serving>>

Init == existing = {} /\ shown = {} /\ serving = None

Create(r) ==
    /\ r \notin existing
    /\ existing' = existing \cup {r}
    /\ UNCHANGED <<shown, serving>>

Touch(p) ==
    /\ serving = None
    /\ PageRegion[p] \in existing
    /\ p \notin shown
    /\ serving' = p
    /\ UNCHANGED <<existing, shown>>

Show(S) ==
    /\ serving # None
    /\ \A p \in S : PageRegion[p] = PageRegion[serving]
    /\ shown' = shown \cup S
    /\ UNCHANGED <<existing, serving>>

\* Nothing is taken away before the answer is there.
Hide(S) ==
    /\ serving \in shown \ S
    /\ S \cap Pinned = {}
    /\ shown' = shown \ S
    /\ UNCHANGED <<existing, serving>>

Resume ==
    /\ serving \in shown
    /\ serving' = None
    /\ UNCHANGED <<existing, shown>>

\* A region is never released under the page being answered.
Release(r) ==
    /\ r \in existing
    /\ serving # None => PageRegion[serving] # r
    /\ existing' = existing \ {r}
    /\ shown' = {p \in shown : PageRegion[p] # r}
    /\ UNCHANGED serving

Next ==
    \/ \E r \in Region : Create(r) \/ Release(r)
    \/ \E p \in Page : Touch(p)
    \/ \E S \in SUBSET Page : Show(S) \/ Hide(S)
    \/ Resume

Spec == Init /\ [][Next]_vars
=============================================================================
