------------------------------ MODULE MCRemote ------------------------------
(* One or two clients with one or two regions each, over one server. *)
EXTENDS Remote

CONSTANTS c1, c2, h1, h2, d1, d2, d3, d4, d5

\* Two clients with a region each.
TwoClients == [x \in Handle |-> IF x = h1 THEN c1 ELSE c2]

\* Both regions are one client's.
OneClient == [x \in Handle |-> c1]

Good == [x \in Descriptor |-> "good"]
GoodAndOversized == [x \in Descriptor |-> IF x = d1 THEN "good" ELSE "oversized"]

AllKinds == [x \in Descriptor |-> CASE x = d1 -> "good"
                                    [] x = d2 -> "oversized"
                                    [] x = d3 -> "rejected"
                                    [] x = d4 -> "too_long"
                                    [] x = d5 -> "too_long_to_attach"]

\* Two chunks that share a page, and one that does not.
TwoGroups == {{0, 1}, {2}}
OneGroup == {{0, 1}}
=============================================================================
