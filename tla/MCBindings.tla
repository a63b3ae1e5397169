----------------------------- MODULE MCBindings -----------------------------
(* Two threads with a region each; see the .cfg files.                     *)
EXTENDS Bindings, TLC

CONSTANTS t1, t2, r1, r2

MCReads == (t1 :> {r1}) @@ (t2 :> {r2})
TwoViews == (r1 :> 2) @@ (r2 :> 0)
OneEach == (r1 :> 1) @@ (r2 :> 1)
=============================================================================
