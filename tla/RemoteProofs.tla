---------------------------- MODULE RemoteProofs ----------------------------
(***************************************************************************)
(* Proofs about Remote for every number of clients, client regions and     *)
(* descriptors and every layout, however the connections' threads          *)
(* interleave and whenever clients die or the server stops.                *)
(***************************************************************************)
EXTENDS Remote, WellFoundedInduction, TLAPS

Holding == {"factory", "fill", "filling"}
Serving == {"lock", "fill", "filling", "copy"}
Labels == {"new", "returned", "epoll", "batch"} \cup Holding \cup Serving

ServerRegion == [descriptor : Descriptor, resolved : SUBSET Chunk, mappings : SUBSET Handle]
Fault == [region : Nat, uffd : Handle, group : Group]
Request ==
    [type : {"resolve"}, descriptor : Descriptor]
    \cup [type : {"attach"}, descriptor : Descriptor, uffd : Handle]
Answer == {"layout", "truncated", "rejection", "ack", "nack"}

\* What a direction of a socket can hold.
AtMostOne(M) == {<< >>} \cup {<<m>> : m \in M}

-----------------------------------------------------------------------------
(* The inductive invariant.                                                *)

Types ==
    /\ server_lock \in Client \cup {None}
    /\ regions \in Seq(ServerRegion)
    /\ stop_fd \in BOOLEAN /\ destroyed \in BOOLEAN
    /\ run \in [Client -> Labels]
    /\ conn_state \in [Client -> {"resolve", "attach"}]
    /\ epoll \in [Client -> SUBSET Handle]
    /\ batch \in [Client -> SUBSET (Handle \cup {"conn", "stop"})]
    /\ ending \in [Client -> BOOLEAN]
    /\ work \in [Client -> Descriptor \cup Fault \cup {None}]
    /\ client_open \in [Client -> BOOLEAN] /\ server_open \in [Client -> BOOLEAN]
    /\ client \in [Client -> {"idle", "resolving", "attaching", "exited", "aborted"}]
    /\ creating \in [Client -> Handle \cup {None}]
    /\ handle \in [Handle -> {"unused", "creating", "failed", "live", "destroyed"}]
    /\ descriptor \in [Handle -> Descriptor \cup {None}]
    /\ present \in [Handle -> SUBSET Group] /\ pending \in [Handle -> SUBSET Group]
    /\ bytes \in [Handle -> SUBSET Chunk]
    /\ blocked \in [Handle -> SUBSET Group] /\ lost \in [Handle -> SUBSET Group]
    /\ derived \in [Descriptor -> [Chunk -> Nat]]

Channels ==
    /\ requests \in [Client -> AtMostOne(Request)]
    /\ replies \in [Client -> AtMostOne(Answer)]

Locks == \A c \in Client : server_lock = c <=> run[c] \in Holding

\* A run ends before the server does, and a connection after its run.
Endings ==
    /\ destroyed => \A c \in Client : ~Active(c)
    /\ \A c \in Client : server_open[c] \/ run[c] = "returned" \/ (run[c] = "new" /\ destroyed)

HasRegion(d) == \E i \in DOMAIN regions : regions[i].descriptor = d

\* What each thread works on is there for as long as it does.
Works ==
    \A c \in Client :
        /\ run[c] = "factory" => work[c] \in Descriptor /\ ~HasRegion(work[c])
        /\ run[c] \in Serving => work[c] \in Fault /\ work[c].region \in DOMAIN regions
        /\ run[c] = "filling" => Unresolved(c) # {}
        /\ run[c] = "copy" => Unresolved(c) = {}

\* fill_chunk() has run for chunk i of region k, or is running.
Deriving(k, i) ==
    \/ i \in regions[k].resolved
    \/ \E c \in Client : run[c] = "filling" /\ work[c].region = k /\ i = Min(Unresolved(c))

Derivations ==
    \A d \in Descriptor, i \in Chunk :
        /\ derived[d][i] \in {0, 1}
        /\ derived[d][i] = 1 /\ ~destroyed =>
               \E k \in DOMAIN regions : regions[k].descriptor = d /\ Deriving(k, i)

\* One request or answer at a time is under way, for the region the client is
\* creating.
Exchange ==
    \A c \in Client :
        /\ client[c] = "idle" => creating[c] = None
        /\ client[c] \in {"resolving", "attaching"} => creating[c] # None
        /\ creating[c] = None => replies[c] = << >> /\ run[c] # "factory"
        /\ creating[c] = None /\ server_open[c] => requests[c] = << >>
        /\ requests[c] # << >> /\ server_open[c] => replies[c] = << >> /\ run[c] # "factory"
        /\ replies[c] # << >> => run[c] \notin {"factory", "new"}
        /\ run[c] = "factory" => work[c] = descriptor[creating[c]] /\ client[c] # "attaching"

Creations ==
    \A c \in Client :
        creating[c] # None => /\ ClientOf[creating[c]] = c
                              /\ handle[creating[c]] = "creating"
                              /\ descriptor[creating[c]] \in Descriptor

\* The client has been sent a layout it could not read.
OutOfStep(c) ==
    \E o \in Handle :
        ClientOf[o] = c /\ handle[o] = "failed" /\ Kind[descriptor[o]] = "oversized"

\* Each end sends what the other expects, unless they are out of step.
RequestedAt(c) ==
    server_open[c] =>
    /\ requests[c] # << >> =>
         LET m == requests[c][1]
         IN  /\ m.descriptor = descriptor[creating[c]]
             /\ m.type = "attach" =>
                  /\ m.uffd = creating[c] /\ client[c] # "resolving"
                  /\ conn_state[c] = "attach"
                  /\ destroyed \/ HasRegion(m.descriptor)
             /\ m.type = "resolve" =>
                  client[c] # "attaching" /\ (conn_state[c] = "attach" => OutOfStep(c))
    /\ client[c] = "idle" /\ conn_state[c] = "attach" => OutOfStep(c)

Requested == \A c \in Client : RequestedAt(c)

\* The mapping is known to its region and watched by its connection's thread.
Listed(h) == \E i \in DOMAIN regions : h \in regions[i].mappings
Served(h) == Active(ClientOf[h]) => h \in epoll[ClientOf[h]] /\ Listed(h)

AnsweredAt(c) ==
    replies[c] # << >> =>
        LET m == replies[c][1]
            d == descriptor[creating[c]]
        IN  /\ client[c] = "attaching" => m = "ack"
            /\ client[c] = "resolving" => m # "ack"
            /\ m = "layout" => conn_state[c] = "attach" /\ (destroyed \/ HasRegion(d))
            /\ m = "truncated" => Kind[d] = "oversized"
            /\ m = "rejection" => Kind[d] = "rejected"
            /\ m = "nack" => OutOfStep(c)
            /\ m \in {"rejection", "ack", "nack"} => conn_state[c] = "resolve"
            /\ m = "ack" => Served(creating[c])

Answered == \A c \in Client : AnsweredAt(c)

\* A connection's run comes before its client's first region, and a mapping
\* is listed under the descriptor it was created for.
Mappings ==
    \A h \in Handle :
        /\ \A i \in DOMAIN regions : h \in regions[i].mappings =>
               handle[h] # "unused" /\ regions[i].descriptor = descriptor[h]
        /\ handle[h] = "live" => run[ClientOf[h]] # "new" /\ Served(h)

Refusals ==
    \A h \in Handle :
        handle[h] = "failed" /\ Kind[descriptor[h]] = "good" =>
            ~server_open[ClientOf[h]] \/ OutOfStep(ClientOf[h])

IInv ==
    /\ Types /\ Channels /\ Locks /\ Endings /\ Works /\ OneRegionPerDescriptor
    /\ Derivations /\ CopiesAreWhole /\ Exchange /\ Creations /\ Requested /\ Answered
    /\ Mappings /\ Refusals

-----------------------------------------------------------------------------
(* The operators of the model.                                             *)

(* A set of natural numbers has a least one.                               *)
LEMMA MinNat ==
    ASSUME NEW S \in SUBSET Nat, S # {}
    PROVE  Min(S) \in S /\ \A y \in S : Min(S) <= y
<1> DEFINE R == {ss \in Nat \X Nat : ss[1] < ss[2]}
<1>1. IsWellFoundedOn(R, Nat)
  BY NatLessThanWellFounded, Zenon DEF OpToRel
<1> HIDE DEF R
<1>2. PICK x \in S : \A y \in S : <<y, x>> \notin R
  BY <1>1, WFMin, Zenon
<1>3. ASSUME NEW y \in S PROVE x <= y
  <2>1. <<y, x>> \in Nat \X Nat /\ <<y, x>>[1] = y /\ <<y, x>>[2] = x
    OBVIOUS
  <2>2. ~(y < x)
    BY <1>2, <2>1 DEF R
  <2> QED
    BY <2>2
<1> QED
  BY <1>3, Zenon DEF Min

(* A channel that holds at most one message.                               *)
LEMMA OneMessage ==
    ASSUME NEW M, NEW s \in AtMostOne(M)
    PROVE  /\ s # << >> => Head(s) = s[1] /\ s[1] \in M /\ Tail(s) = << >>
           /\ \A m \in M : s = << >> => Append(s, m) = <<m>>
           /\ \A m \in M : /\ <<m>> \in AtMostOne(M) /\ <<m>> # << >> /\ <<m>>[1] = m
                           /\ << >> \in AtMostOne(M)
<1>1. ASSUME s # << >>
      PROVE  Head(s) = s[1] /\ s[1] \in M /\ Tail(s) = << >>
  <2>1. PICK m \in M : s = <<m>>
    BY <1>1 DEF AtMostOne
  <2>2. Tail(<<m>>) = << >> /\ Head(<<m>>) = m /\ <<m>>[1] = m
    OBVIOUS
  <2> QED
    BY <2>1, <2>2
<1>2. \A m \in M : s = << >> => Append(s, m) = <<m>>
  OBVIOUS
<1>3. \A m \in M : <<m>> \in AtMostOne(M) /\ << >> \in AtMostOne(M)
  BY DEF AtMostOne
<1>4. \A m \in M : <<m>> # << >> /\ <<m>>[1] = m
  OBVIOUS
<1> QED
  BY <1>1, <1>2, <1>3, <1>4

(* The next chunk to fill is one that is not resolved.                     *)
LEMMA NextChunk ==
    ASSUME NEW c \in Client, work[c] \in Fault, Unresolved(c) # {}
    PROVE  Min(Unresolved(c)) \in Unresolved(c) /\ Min(Unresolved(c)) \in Chunk
<1>1. Unresolved(c) \in SUBSET Nat /\ Unresolved(c) \subseteq Chunk
  BY RemoteAssumption DEF Fault, Unresolved, Chunk
<1> QED
  BY <1>1, MinNat

(* Adding a group to what a handle has, and taking one away.               *)
LEMMA GroupSets ==
    ASSUME NEW f \in [Handle -> SUBSET Group], NEW h \in Handle, NEW g \in Group
    PROVE  /\ [f EXCEPT ![h] = @ \cup {g}] \in [Handle -> SUBSET Group]
           /\ [f EXCEPT ![h] = @ \ {g}] \in [Handle -> SUBSET Group]
<1>1. f[h] \cup {g} \in SUBSET Group /\ f[h] \ {g} \in SUBSET Group
  OBVIOUS
<1> QED
  BY <1>1

(* The server finds the region of a descriptor if there is one.            *)
LEMMA FindRegion ==
    ASSUME regions \in Seq(ServerRegion), OneRegionPerDescriptor, NEW d
    PROVE  /\ Known(d) <=> HasRegion(d)
           /\ HasRegion(d) => /\ find_region(d) \in DOMAIN regions
                              /\ regions[find_region(d)].descriptor = d
<1> DEFINE same == {i \in DOMAIN regions : regions[i].descriptor = d}
<1>1. CASE same = {}
  BY <1>1 DEF find_region, Known, HasRegion
<1>2. ASSUME NEW i \in same
      PROVE  find_region(d) = i /\ HasRegion(d) /\ i # 0
  <2>1. same = {i}
    BY <1>2 DEF OneRegionPerDescriptor
  <2>2. i \in Nat /\ i # 0
    BY <1>2
  <2>3. Max(same) = i
    BY <2>1, <2>2 DEF Max
  <2> QED
    BY <1>2, <2>2, <2>3 DEF find_region, HasRegion
<1> QED
  BY <1>1, <1>2 DEF Known

\* The regions are the same ones, with the same chunks and mappings but for
\* what is added to region i.
Added(i, resolved, mappings) ==
    /\ regions' \in Seq(ServerRegion) /\ DOMAIN regions' = DOMAIN regions
    /\ \A k \in DOMAIN regions :
         /\ regions'[k].descriptor = regions[k].descriptor
         /\ regions'[k].resolved =
                regions[k].resolved \cup (IF k = i THEN resolved ELSE {})
         /\ regions'[k].mappings =
                regions[k].mappings \cup (IF k = i THEN mappings ELSE {})

(* Listing a mapping, and marking a chunk, in one region.                  *)
LEMMA RegionChanges ==
    ASSUME regions \in Seq(ServerRegion), NEW i \in DOMAIN regions
    PROVE  /\ \A h \in Handle : regions' = [regions EXCEPT ![i].mappings = @ \cup {h}] =>
                Added(i, {}, {h})
           /\ \A n \in Chunk : regions' = [regions EXCEPT ![i].resolved = @ \cup {n}] =>
                Added(i, {n}, {})
<1>a. \A k \in DOMAIN regions : regions[k] \in ServerRegion
  OBVIOUS
<1>1. ASSUME NEW h \in Handle, regions' = [regions EXCEPT ![i].mappings = @ \cup {h}]
      PROVE  Added(i, {}, {h})
  <2> DEFINE r == [regions[i] EXCEPT !.mappings = @ \cup {h}]
  <2>1. /\ r \in ServerRegion /\ r.descriptor = regions[i].descriptor
        /\ r.resolved = regions[i].resolved /\ r.mappings = regions[i].mappings \cup {h}
    BY <1>a DEF ServerRegion
  <2>2. regions' = [regions EXCEPT ![i] = r]
    BY <1>1
  <2> HIDE DEF r
  <2>3. /\ regions' \in Seq(ServerRegion) /\ DOMAIN regions' = DOMAIN regions
        /\ regions'[i] = r /\ \A k \in DOMAIN regions \ {i} : regions'[k] = regions[k]
    BY <2>1, <2>2
  <2> QED
    BY <2>1, <2>3 DEF Added
<1>2. ASSUME NEW n \in Chunk, regions' = [regions EXCEPT ![i].resolved = @ \cup {n}]
      PROVE  Added(i, {n}, {})
  <2> DEFINE r == [regions[i] EXCEPT !.resolved = @ \cup {n}]
  <2>1. /\ r \in ServerRegion /\ r.descriptor = regions[i].descriptor
        /\ r.mappings = regions[i].mappings /\ r.resolved = regions[i].resolved \cup {n}
    BY <1>a DEF ServerRegion
  <2>2. regions' = [regions EXCEPT ![i] = r]
    BY <1>2
  <2> HIDE DEF r
  <2>3. /\ regions' \in Seq(ServerRegion) /\ DOMAIN regions' = DOMAIN regions
        /\ regions'[i] = r /\ \A k \in DOMAIN regions \ {i} : regions'[k] = regions[k]
    BY <2>1, <2>2
  <2> QED
    BY <2>1, <2>3 DEF Added
<1> QED
  BY <1>1, <1>2

(* Making a region.                                                        *)
LEMMA RegionMade ==
    ASSUME regions \in Seq(ServerRegion), NEW d \in Descriptor,
           regions' = Append(regions, [descriptor |-> d, resolved |-> {}, mappings |-> {}])
    PROVE  /\ regions' \in Seq(ServerRegion)
           /\ DOMAIN regions' = DOMAIN regions \cup {Len(regions) + 1}
           /\ Len(regions) + 1 \notin DOMAIN regions
           /\ \A k \in DOMAIN regions : regions'[k] = regions[k]
           /\ LET new == regions'[Len(regions) + 1]
              IN  new.descriptor = d /\ new.resolved = {} /\ new.mappings = {}
<1> DEFINE r == [descriptor |-> d, resolved |-> {}, mappings |-> {}]
<1>1. r \in ServerRegion /\ r.descriptor = d /\ r.resolved = {} /\ r.mappings = {}
  BY DEF ServerRegion
<1> HIDE DEF r
<1>2. regions' = Append(regions, r)
  BY DEF r
<1> QED
  BY <1>1, <1>2

-----------------------------------------------------------------------------
(* The steps of the handshake, with the invariant worked in.               *)

\* The server's answer m is under way, or the run will end.
Replied(c, m, next_state) ==
    \/ /\ client_open[c]
       /\ replies' = [replies EXCEPT ![c] = <<m>>]
       /\ conn_state' = [conn_state EXCEPT ![c] = next_state]
       /\ UNCHANGED ending
    \/ /\ ending' = [ending EXCEPT ![c] = TRUE]
       /\ UNCHANGED <<replies, conn_state>>

LayoutOf(d) == IF Kind[d] = "oversized" THEN "truncated" ELSE "layout"

(* Reply(), on a connection with no answer under way.                      *)
LEMMA ReplyProperties ==
    ASSUME Channels, NEW c \in Client, NEW m \in Answer, NEW n, replies[c] = << >>,
           Reply(c, m, n)
    PROVE  Replied(c, m, n)
<1>1. Append(replies[c], m) = <<m>>
  OBVIOUS
<1> QED
  BY <1>1 DEF Reply, Replied, EndLoop

\* A client that is creating a region, and the descriptor it is for.
Wanted(c) == descriptor[creating[c]]
Creates(c) ==
    /\ creating[c] \in Handle /\ ClientOf[creating[c]] = c
    /\ handle[creating[c]] = "creating" /\ Wanted(c) \in Descriptor

TakesRequest(c) ==
    /\ run[c] = "batch" /\ Creates(c) /\ ~destroyed
    /\ server_open[c] /\ requests[c] # << >> /\ replies[c] = << >>
    /\ requests' = [requests EXCEPT ![c] = << >>]
    /\ batch' = [batch EXCEPT ![c] = @ \ {"conn"}]
    /\ UNCHANGED <<ender, client_open, server_open, caller, memory, derived>>

AnswersKnown(c) ==
    /\ TakesRequest(c) /\ client[c] # "attaching" /\ HasRegion(Wanted(c))
    /\ Replied(c, LayoutOf(Wanted(c)), "attach")
    /\ UNCHANGED <<shared, run, work, epoll>>

AsksFactory(c) ==
    /\ TakesRequest(c) /\ client[c] # "attaching" /\ ~HasRegion(Wanted(c))
    /\ server_lock = None /\ server_lock' = c
    /\ work' = [work EXCEPT ![c] = Wanted(c)]
    /\ run' = [run EXCEPT ![c] = "factory"]
    /\ UNCHANGED <<regions, epoll, replies, conn_state, ending>>

(* handle_resolve() serves the region its client is creating.              *)
LEMMA ResolveHandled ==
    ASSUME IInv, NEW c \in Client, handle_resolve(c)
    PROVE  AnswersKnown(c) \/ AsksFactory(c)
<1> DEFINE m == requests[c][1]
<1>1. /\ run[c] = "batch" /\ requests[c] # << >> /\ conn_state[c] = "resolve"
      /\ server_lock = None
  BY DEF handle_resolve, Event, At
<1>2. server_open[c] /\ ~destroyed
  BY <1>1 DEF IInv, Endings, Active
<1>3. m \in Request /\ Head(requests[c]) = m /\ Tail(requests[c]) = << >>
  BY <1>1, OneMessage DEF IInv, Channels
<1>4. Creates(c) /\ replies[c] = << >>
  BY <1>1, <1>2 DEF IInv, Types, Exchange, Creations, Creates, Wanted
<1>5. m.descriptor = Wanted(c) /\ client[c] # "attaching"
  BY <1>1, <1>2, <1>3 DEF IInv, Requested, RequestedAt, Request, Wanted
<1>6. requests' = [requests EXCEPT ![c] = << >>]
  BY <1>3 DEF handle_resolve, TakeRequest
<1>7. Known(Wanted(c)) <=> HasRegion(Wanted(c))
  BY FindRegion DEF IInv, Types
<1>8. SendLayout(c, Wanted(c)) => Replied(c, LayoutOf(Wanted(c)), "attach")
  BY <1>4, ReplyProperties DEF IInv, SendLayout, LayoutOf, Answer
<1> HIDE DEF m
<1> QED
  BY <1>1, <1>2, <1>3, <1>4, <1>5, <1>6, <1>7, <1>8
     DEF handle_resolve, AnswersKnown, AsksFactory, TakesRequest, Event, Goto, shared

LeavesFactory(c) ==
    /\ run[c] = "factory" /\ server_lock = c /\ Creates(c) /\ client[c] # "attaching"
    /\ replies[c] = << >> /\ server_open[c] /\ requests[c] = << >> /\ ~destroyed
    /\ server_lock' = None
    /\ work' = [work EXCEPT ![c] = None]
    /\ run' = [run EXCEPT ![c] = "batch"]
    /\ UNCHANGED <<ender, epoll, batch, requests, client_open, server_open, caller, memory,
                   derived>>

RejectsDescriptor(c) ==
    /\ LeavesFactory(c) /\ Kind[Wanted(c)] = "rejected"
    /\ Replied(c, "rejection", "resolve")
    /\ UNCHANGED regions

MakesRegion(c) ==
    /\ LeavesFactory(c) /\ ~HasRegion(Wanted(c))
    /\ regions' = Append(regions, [descriptor |-> Wanted(c), resolved |-> {}, mappings |-> {}])
    /\ Replied(c, LayoutOf(Wanted(c)), "attach")

(* create_region() answers the client that is still creating the region.   *)
LEMMA RegionCreated ==
    ASSUME IInv, NEW c \in Client, create_region(c)
    PROVE  RejectsDescriptor(c) \/ MakesRegion(c)
<1>1. run[c] = "factory"
  BY DEF create_region, At
<1>2. server_lock = c /\ server_open[c] /\ work[c] = Wanted(c) /\ ~HasRegion(work[c])
  BY <1>1 DEF IInv, Locks, Holding, Endings, Exchange, Works, Wanted
<1>3. Creates(c) /\ replies[c] = << >> /\ client[c] # "attaching"
  BY <1>1 DEF IInv, Types, Exchange, Creations, Creates, Wanted
<1>4. requests[c] = << >> /\ ~destroyed
  BY <1>1, <1>2 DEF IInv, Exchange, Endings, Active
<1>5. /\ SendLayout(c, Wanted(c)) => Replied(c, LayoutOf(Wanted(c)), "attach")
      /\ Reject(c) => Replied(c, "rejection", "resolve")
  BY <1>3, ReplyProperties DEF IInv, SendLayout, Reject, LayoutOf, Answer
<1> QED
  BY <1>1, <1>2, <1>3, <1>4, <1>5
     DEF create_region, RejectsDescriptor, MakesRegion, LeavesFactory, Goto, ReleaseServer

Attaches(c) ==
    /\ TakesRequest(c) /\ server_lock = None /\ client[c] # "resolving"
    /\ \E i \in DOMAIN regions :
         regions[i].descriptor = Wanted(c) /\ Added(i, {}, {creating[c]})
    /\ epoll' = [epoll EXCEPT ![c] = @ \cup {creating[c]}]
    /\ Replied(c, "ack", "resolve")
    /\ UNCHANGED <<run, work, server_lock>>

RefusesAttach(c) ==
    /\ TakesRequest(c) /\ OutOfStep(c) /\ client[c] # "attaching"
    /\ Replied(c, "nack", "resolve")
    /\ UNCHANGED <<shared, run, work, epoll>>

(* handle_attach() finds the region of the mapping it is handed.           *)
LEMMA AttachHandled ==
    ASSUME IInv, NEW c \in Client, handle_attach(c)
    PROVE  Attaches(c) \/ RefusesAttach(c)
<1> DEFINE m == requests[c][1]
<1>1. run[c] = "batch" /\ requests[c] # << >> /\ conn_state[c] = "attach"
  BY DEF handle_attach, Event, At
<1>2. server_open[c] /\ ~destroyed
  BY <1>1 DEF IInv, Endings, Active
<1>3. m \in Request /\ Head(requests[c]) = m /\ Tail(requests[c]) = << >>
  BY <1>1, OneMessage DEF IInv, Channels
<1>4. Creates(c) /\ replies[c] = << >>
  BY <1>1, <1>2 DEF IInv, Types, Exchange, Creations, Creates, Wanted
<1>5. m.descriptor = Wanted(c)
  BY <1>1, <1>2 DEF IInv, Requested, RequestedAt, Wanted
<1>6. requests' = [requests EXCEPT ![c] = << >>]
  BY <1>3 DEF handle_attach, TakeRequest
<1>7. /\ Reply(c, "ack", "resolve") => Replied(c, "ack", "resolve")
      /\ Reply(c, "nack", "resolve") => Replied(c, "nack", "resolve")
  BY <1>4, ReplyProperties DEF IInv, Answer
<1>8. ASSUME m.type = "attach"
      PROVE  /\ m.uffd = creating[c] /\ client[c] # "resolving"
             /\ find_region(Wanted(c)) \in DOMAIN regions
             /\ regions[find_region(Wanted(c))].descriptor = Wanted(c)
             /\ regions' = [regions EXCEPT ![find_region(Wanted(c))].mappings = @ \cup {m.uffd}]
                  => Added(find_region(Wanted(c)), {}, {creating[c]})
  <2>1. m.uffd = creating[c] /\ client[c] # "resolving" /\ HasRegion(Wanted(c))
    BY <1>1, <1>2, <1>5, <1>8 DEF IInv, Requested, RequestedAt
  <2>2. /\ find_region(Wanted(c)) \in DOMAIN regions
        /\ regions[find_region(Wanted(c))].descriptor = Wanted(c)
    BY <2>1, FindRegion DEF IInv, Types
  <2> QED
    BY <1>4, <2>1, <2>2, RegionChanges DEF IInv, Types, Creates
<1>9. m.type = "resolve" => OutOfStep(c) /\ client[c] # "attaching"
  BY <1>1, <1>2 DEF IInv, Requested, RequestedAt
<1> HIDE DEF m
<1>10. CASE m.type = "attach"
  <2>1. /\ server_lock = None /\ Reply(c, "ack", "resolve") /\ Watch(c, m.uffd)
        /\ regions' = [regions EXCEPT ![find_region(Wanted(c))].mappings = @ \cup {m.uffd}]
    BY <1>3, <1>5, <1>10 DEF handle_attach
  <2>2. \E i \in DOMAIN regions :
            regions[i].descriptor = Wanted(c) /\ Added(i, {}, {creating[c]})
    BY <1>8, <1>10, <2>1
  <2> QED
    BY <1>1, <1>2, <1>4, <1>6, <1>7, <1>8, <1>10, <2>1, <2>2
       DEF handle_attach, Attaches, TakesRequest, Event, Watch
<1>11. CASE m.type = "resolve"
  BY <1>1, <1>2, <1>3, <1>4, <1>6, <1>7, <1>9, <1>11
     DEF handle_attach, RefusesAttach, TakesRequest, Event, shared
<1> QED
  BY <1>3, <1>10, <1>11 DEF Request

StartsCreating(c, h, d) ==
    /\ client[c] = "idle" /\ creating[c] = None /\ handle[h] = "unused" /\ ClientOf[h] = c
    /\ replies[c] = << >> /\ run[c] # "factory"
    /\ server_open[c] => requests[c] = << >>
    /\ descriptor' = [descriptor EXCEPT ![h] = d]
    /\ UNCHANGED <<shared, ender, loop, replies, server_open, present, bytes, lost, derived>>

RefusesTooLong(c, h, d) ==
    /\ StartsCreating(c, h, d) /\ Kind[d] = "too_long" /\ Refused(c, h)
    /\ UNCHANGED <<requests, client_open, blocked, pending>>

SendsResolve(c, h, d) ==
    /\ StartsCreating(c, h, d) /\ server_open[c]
    /\ creating' = [creating EXCEPT ![c] = h]
    /\ handle' = [handle EXCEPT ![h] = "creating"]
    /\ requests' = [requests EXCEPT ![c] = <<[type |-> "resolve", descriptor |-> d]>>]
    /\ client' = [client EXCEPT ![c] = "resolving"]
    /\ UNCHANGED <<client_open, blocked, pending>>

AbortsResolve(c, h, d) ==
    /\ StartsCreating(c, h, d) /\ ~server_open[c]
    /\ creating' = [creating EXCEPT ![c] = h]
    /\ handle' = [handle EXCEPT ![h] = "creating"]
    /\ Dies(c, "aborted") /\ UNCHANGED requests

(* resolve_descriptor() starts an exchange on a quiet connection.          *)
LEMMA DescriptorSent ==
    ASSUME IInv, NEW c \in Client, NEW h \in Handle, NEW d \in Descriptor,
           resolve_descriptor(c, h, d)
    PROVE  RefusesTooLong(c, h, d) \/ SendsResolve(c, h, d) \/ AbortsResolve(c, h, d)
<1> DEFINE m == [type |-> "resolve", descriptor |-> d]
<1>1. client[c] = "idle" /\ handle[h] = "unused" /\ ClientOf[h] = c
  BY DEF resolve_descriptor
<1>2. creating[c] = None /\ replies[c] = << >> /\ run[c] # "factory"
  BY <1>1 DEF IInv, Exchange
<1>3. server_open[c] => requests[c] = << >>
  BY <1>2 DEF IInv, Exchange
<1>4. m \in Request
  BY DEF Request
<1> HIDE DEF m
<1>5. server_open[c] => Append(requests[c], m) = <<m>>
  BY <1>3, <1>4, OneMessage DEF IInv, Channels
<1>6. Send(c, m, "resolving") =>
          \/ /\ server_open[c]
             /\ requests' = [requests EXCEPT ![c] = <<m>>]
             /\ client' = [client EXCEPT ![c] = "resolving"]
             /\ UNCHANGED <<client_open, blocked, pending>>
          \/ ~server_open[c] /\ Dies(c, "aborted") /\ UNCHANGED requests
  BY <1>5 DEF Send
<1> QED
  BY <1>1, <1>2, <1>3, <1>6
     DEF resolve_descriptor, StartsCreating, RefusesTooLong, SendsResolve, AbortsResolve, m

TakesAnswer(c) ==
    /\ Creates(c)
    /\ server_open[c] => requests[c] = << >> /\ run[c] \notin {"new", "factory"}
    /\ replies' = [replies EXCEPT ![c] = << >>]
    /\ UNCHANGED <<shared, ender, loop, server_open, descriptor, present, bytes, lost, derived>>

LearnsRefusal(c) ==
    /\ TakesAnswer(c) /\ client[c] \in {"resolving", "attaching"} /\ Refused(c, creating[c])
    /\ \/ ~server_open[c] \/ Kind[Wanted(c)] = "oversized" \/ OutOfStep(c)
       \/ Kind[Wanted(c)] = "rejected" /\ conn_state[c] = "resolve"
    /\ UNCHANGED <<requests, client_open, blocked, pending>>

AbortsAttach(c) ==
    /\ TakesAnswer(c) /\ client[c] = "resolving" /\ Dies(c, "aborted")
    /\ UNCHANGED <<requests, creating, handle>>

SendsAttach(c) ==
    /\ TakesAnswer(c) /\ client[c] = "resolving" /\ server_open[c] /\ conn_state[c] = "attach"
    /\ destroyed \/ HasRegion(Wanted(c))
    /\ requests' = [requests EXCEPT ![c] =
           <<[type |-> "attach", descriptor |-> Wanted(c), uffd |-> creating[c]]>>]
    /\ client' = [client EXCEPT ![c] = "attaching"]
    /\ UNCHANGED <<client_open, blocked, pending, creating, handle>>

(* send_attach() takes the answer to its own descriptor.                   *)
LEMMA AttachSent ==
    ASSUME IInv, NEW c \in Client, send_attach(c)
    PROVE  LearnsRefusal(c) \/ AbortsAttach(c) \/ SendsAttach(c)
<1> DEFINE m == [type |-> "attach", descriptor |-> Wanted(c), uffd |-> creating[c]]
<1>1. client[c] = "resolving" /\ (replies[c] # << >> \/ ~server_open[c])
  BY DEF send_attach, CanReceive
<1>2. Creates(c)
  BY <1>1 DEF IInv, Types, Exchange, Creations, Creates, Wanted
<1>3. server_open[c] => requests[c] = << >> /\ run[c] \notin {"new", "factory"}
  BY <1>1 DEF IInv, Exchange
<1>4. /\ replies[c] # << >> => /\ Received(c) = replies[c][1] /\ replies[c][1] \in Answer
                               /\ Tail(replies[c]) = << >>
      /\ replies[c] = << >> => Received(c) = "eof"
  BY OneMessage DEF IInv, Channels, Received
<1>5. replies' = [replies EXCEPT ![c] = << >>]
  BY <1>4 DEF send_attach, Consume
<1>6. ASSUME Received(c) # "layout"
      PROVE  \/ ~server_open[c] \/ Kind[Wanted(c)] = "oversized" \/ OutOfStep(c)
             \/ Kind[Wanted(c)] = "rejected" /\ conn_state[c] = "resolve"
  BY <1>1, <1>4, <1>6 DEF IInv, Answered, AnsweredAt, Answer, Wanted
<1>7. ASSUME Received(c) = "layout"
      PROVE  conn_state[c] = "attach" /\ (destroyed \/ HasRegion(Wanted(c)))
  <2>1. replies[c] # << >> /\ replies[c][1] = "layout"
    BY <1>4, <1>7
  <2> QED
    BY <2>1 DEF IInv, Answered, AnsweredAt, Wanted
<1>8. m \in Request
  BY <1>2 DEF Request, Creates
<1> HIDE DEF m
<1>9. server_open[c] => Append(requests[c], m) = <<m>>
  BY <1>3, <1>8, OneMessage DEF IInv, Channels
<1>10. Send(c, m, "attaching") =>
          \/ /\ server_open[c]
             /\ requests' = [requests EXCEPT ![c] = <<m>>]
             /\ client' = [client EXCEPT ![c] = "attaching"]
             /\ UNCHANGED <<client_open, blocked, pending>>
          \/ Dies(c, "aborted") /\ UNCHANGED requests
  BY <1>9 DEF Send
<1>11. \/ Received(c) # "layout" /\ Refused(c, creating[c])
          /\ UNCHANGED <<requests, client_open, blocked, pending>>
       \/ Dies(c, "aborted") /\ UNCHANGED <<requests, creating, handle>>
       \/ Received(c) = "layout" /\ Send(c, m, "attaching") /\ UNCHANGED <<creating, handle>>
  BY DEF send_attach, Wanted, m
<1>12. UNCHANGED <<shared, ender, loop, server_open, descriptor, present, bytes, lost, derived>>
  BY DEF send_attach
<1> QED
  BY <1>1, <1>2, <1>3, <1>5, <1>6, <1>7, <1>10, <1>11, <1>12
     DEF TakesAnswer, LearnsRefusal, AbortsAttach, SendsAttach, m

AddsToPool(c) ==
    /\ TakesAnswer(c) /\ client[c] = "attaching" /\ run[c] # "new"
    /\ Served(creating[c]) /\ conn_state[c] = "resolve"
    /\ client' = [client EXCEPT ![c] = "idle"]
    /\ creating' = [creating EXCEPT ![c] = None]
    /\ handle' = [handle EXCEPT ![creating[c]] = "live"]
    /\ UNCHANGED <<requests, client_open, blocked, pending>>

(* pool_add() takes the answer to its own attach request.                  *)
LEMMA AttachAnswered ==
    ASSUME IInv, NEW c \in Client, pool_add(c)
    PROVE  AddsToPool(c) \/ LearnsRefusal(c)
<1>1. client[c] = "attaching" /\ (replies[c] # << >> \/ ~server_open[c])
  BY DEF pool_add, CanReceive
<1>2. Creates(c)
  BY <1>1 DEF IInv, Types, Exchange, Creations, Creates, Wanted
<1>3. server_open[c] => requests[c] = << >> /\ run[c] \notin {"factory", "new"}
  BY <1>1 DEF IInv, Exchange
<1>4. /\ replies[c] # << >> => /\ Received(c) = replies[c][1] /\ replies[c][1] \in Answer
                               /\ Tail(replies[c]) = << >>
      /\ replies[c] = << >> => Received(c) = "eof"
  BY OneMessage DEF IInv, Channels, Received
<1>5. replies' = [replies EXCEPT ![c] = << >>]
  BY <1>4 DEF pool_add, Consume
<1>6. replies[c] # << >> =>
          Received(c) = "ack" /\ Served(creating[c]) /\ conn_state[c] = "resolve" /\ run[c] # "new"
  BY <1>1, <1>4 DEF IInv, Answered, AnsweredAt, Exchange
<1> QED
  BY <1>1, <1>2, <1>3, <1>4, <1>5, <1>6
     DEF pool_add, TakesAnswer, AddsToPool, LearnsRefusal, memory

-----------------------------------------------------------------------------
(* The steps.                                                              *)

(* A chunk derived stays derived while regions only gain chunks, and       *)
(* fill_chunk() stays where it is.                                         *)
LEMMA StaysDerived ==
    ASSUME Works, Derivations, UNCHANGED derived, destroyed => destroyed',
           \A k \in DOMAIN regions :
               /\ k \in DOMAIN regions' /\ regions'[k].descriptor = regions[k].descriptor
               /\ regions'[k].resolved = regions[k].resolved,
           \A c \in Client : run[c] = "filling" => run'[c] = "filling" /\ work'[c] = work[c]
    PROVE  Derivations'
<1>1. \A c \in Client : run[c] = "filling" => Unresolved(c)' = Unresolved(c)
  BY DEF Works, Serving, Unresolved
<1>2. \A k \in DOMAIN regions, i \in Chunk : Deriving(k, i) => Deriving(k, i)'
  BY <1>1 DEF Deriving
<1>3. ASSUME NEW d \in Descriptor, NEW i \in Chunk, derived'[d][i] = 1, ~destroyed'
      PROVE  \E k \in DOMAIN regions' : regions'[k].descriptor = d /\ Deriving(k, i)'
  <2>1. PICK k \in DOMAIN regions : regions[k].descriptor = d /\ Deriving(k, i)
    BY <1>3 DEF Derivations
  <2> QED
    BY <1>2, <2>1
<1>4. \A d \in Descriptor, i \in Chunk : derived'[d][i] \in {0, 1}
  BY DEF Derivations
<1> QED
  BY <1>3, <1>4 DEF Derivations

(* A client out of step stays so: no refused region is used again.         *)
LEMMA StaysOutOfStep ==
    ASSUME \A o \in Handle : handle[o] = "failed" =>
               handle'[o] = "failed" /\ descriptor'[o] = descriptor[o]
    PROVE  \A c \in Client : OutOfStep(c) => OutOfStep(c)'
BY DEF OutOfStep

(* What is under way on a connection is not disturbed by what leaves its   *)
(* two ends alone and takes no region or mapping away.                     *)
LEMMA StaysUnderWay ==
    ASSUME IInv, NEW b \in Client, UNCHANGED <<destroyed, server_open>>,
           requests'[b] = requests[b], replies'[b] = replies[b],
           conn_state'[b] = conn_state[b], client'[b] = client[b], creating'[b] = creating[b],
           creating[b] # None => descriptor'[creating[b]] = descriptor[creating[b]],
           Active(b)' => Active(b) /\ epoll'[b] = epoll[b],
           \A d \in Descriptor : HasRegion(d) => HasRegion(d)',
           \A h \in Handle : Listed(h) => Listed(h)',
           OutOfStep(b) => OutOfStep(b)'
    PROVE  RequestedAt(b)' /\ AnsweredAt(b)'
<1>1. creating[b] # None =>
          /\ creating[b] \in Handle /\ ClientOf[creating[b]] = b
          /\ descriptor[creating[b]] \in Descriptor
  BY DEF IInv, Types, Creations
<1>2. creating[b] # None /\ Served(creating[b]) => Served(creating[b])'
  BY <1>1 DEF Served, Active
<1>3. RequestedAt(b)'
  <2>1. creating[b] = None /\ server_open[b] => requests[b] = << >>
    BY DEF IInv, Exchange
  <2>2. requests[b] # << >> => requests[b][1].descriptor \in Descriptor
    BY OneMessage DEF IInv, Channels, Request
  <2> QED
    BY <1>1, <2>1, <2>2 DEF IInv, Requested, RequestedAt
<1>4. AnsweredAt(b)'
  <2>1. replies[b] # << >> => creating[b] # None
    BY DEF IInv, Exchange
  <2> QED
    BY <1>1, <1>2, <2>1 DEF IInv, Answered, AnsweredAt
<1> QED
  BY <1>3, <1>4

(* A reply keeps its connection's types and leaves the others alone.       *)
LEMMA ReplyTypes ==
    ASSUME IInv, NEW c \in Client, NEW m \in Answer, NEW n \in {"resolve", "attach"},
           Replied(c, m, n)
    PROVE  /\ conn_state' \in [Client -> {"resolve", "attach"}]
           /\ ending' \in [Client -> BOOLEAN]
           /\ replies' \in [Client -> AtMostOne(Answer)]
           /\ \A b \in Client \ {c} :
                replies'[b] = replies[b] /\ conn_state'[b] = conn_state[b]
           /\ \/ replies'[c] = <<m>> /\ conn_state'[c] = n
              \/ replies'[c] = replies[c] /\ conn_state'[c] = conn_state[c]
<1>1. <<m>> \in AtMostOne(Answer)
  BY DEF AtMostOne
<1>2. /\ conn_state \in [Client -> {"resolve", "attach"}]
      /\ ending \in [Client -> BOOLEAN]
      /\ replies \in [Client -> AtMostOne(Answer)]
  BY DEF IInv, Types, Channels
<1>3. CASE /\ replies' = [replies EXCEPT ![c] = <<m>>]
           /\ conn_state' = [conn_state EXCEPT ![c] = n]
           /\ UNCHANGED ending
  BY <1>1, <1>2, <1>3
<1>4. CASE ending' = [ending EXCEPT ![c] = TRUE] /\ UNCHANGED <<replies, conn_state>>
  BY <1>2, <1>4
<1> QED
  BY <1>3, <1>4 DEF Replied
(* The sets of groups that UFFDIO_COPY changes.                            *)
LEMMA CopyTypes ==
    ASSUME Types, NEW c \in Client, UFFDIO_COPY(c), work[c] \in Fault
    PROVE  /\ present' \in [Handle -> SUBSET Group] /\ blocked' \in [Handle -> SUBSET Group]
           /\ pending' \in [Handle -> SUBSET Group] /\ lost' \in [Handle -> SUBSET Group]
<1>0. /\ present \in [Handle -> SUBSET Group] /\ blocked \in [Handle -> SUBSET Group]
      /\ pending \in [Handle -> SUBSET Group] /\ lost \in [Handle -> SUBSET Group]
  BY DEF Types
<1>1. PICK h \in Handle, g \in Group : h = work[c].uffd /\ g = work[c].group
  BY DEF Fault
<1>2. /\ present' = [present EXCEPT ![h] = @ \cup {g}] \/ UNCHANGED present
      /\ blocked' = [blocked EXCEPT ![h] = @ \ {g}] \/ UNCHANGED blocked
      /\ pending' = [pending EXCEPT ![h] = @ \ {g}] \/ UNCHANGED pending
      /\ lost' = [lost EXCEPT ![h] = @ \cup {g}] \/ UNCHANGED lost
  BY <1>1 DEF UFFDIO_COPY, memory
<1>3. present' \in [Handle -> SUBSET Group]
  BY <1>0, <1>2, GroupSets
<1>4. blocked' \in [Handle -> SUBSET Group]
  BY <1>0, <1>2, GroupSets
<1>5. pending' \in [Handle -> SUBSET Group]
  BY <1>0, <1>2, GroupSets
<1>6. lost' \in [Handle -> SUBSET Group]
  BY <1>0, <1>2, GroupSets
<1> QED
  BY <1>3, <1>4, <1>5, <1>6

(* Each step keeps the invariant.                                          *)
LEMMA StepKeepsIInv ==
    IInv /\ [Next]_vars => IInv'
<1> SUFFICES ASSUME IInv, [Next]_vars PROVE IInv'
  OBVIOUS
<1>a. ClientOf \in [Handle -> Client] /\ None \notin Client \cup Handle \cup Descriptor
  BY RemoteAssumption
<1> USE <1>a DEF IInv, Types, Labels, Holding, Serving, Active
<1> USE DEF shared, ender, loop, socket, caller, memory
<1>1. ASSUME NEW c \in Client, NEW h \in Handle, NEW d \in Descriptor,
   RefusesTooLong(c, h, d)
      PROVE  IInv'
  <2>u. ASSUME NEW b \in Client \ {c}
        PROVE  RequestedAt(b)' /\ AnsweredAt(b)'
    <3>1. /\ UNCHANGED <<destroyed, server_open>>
          /\ requests'[b] = requests[b] /\ replies'[b] = replies[b]
          /\ conn_state'[b] = conn_state[b] /\ client'[b] = client[b]
          /\ creating'[b] = creating[b] /\ epoll'[b] = epoll[b] /\ run'[b] = run[b]
      BY <1>1, <2>u DEF RefusesTooLong, StartsCreating, Refused
    <3>2. creating[b] # None => descriptor'[creating[b]] = descriptor[creating[b]]
      BY <1>1, <2>u DEF RefusesTooLong, StartsCreating, Refused, Creations
    <3>3. /\ \A x \in Descriptor : HasRegion(x) => HasRegion(x)'
          /\ \A x \in Handle : Listed(x) => Listed(x)'
      BY <1>1 DEF RefusesTooLong, StartsCreating, Refused, HasRegion, Listed
    <3>4. OutOfStep(b) => OutOfStep(b)'
      BY <1>1, StaysOutOfStep DEF RefusesTooLong, StartsCreating, Refused
    <3> QED
      BY <3>1, <3>2, <3>3, <3>4, StaysUnderWay
  <2>p. RequestedAt(c)'
    <3>1. /\ UNCHANGED <<server_open, requests, conn_state>> /\ client[c] = "idle"
          /\ server_open[c] => requests[c] = << >>
      BY <1>1 DEF RefusesTooLong, StartsCreating, Refused
    <3>2. OutOfStep(c) => OutOfStep(c)'
      BY <1>1, StaysOutOfStep DEF RefusesTooLong, StartsCreating, Refused
    <3> QED
      BY <3>1, <3>2 DEF Requested, RequestedAt
  <2>q. AnsweredAt(c)'
    BY <1>1 DEF RefusesTooLong, StartsCreating, Refused, AnsweredAt, Exchange
  <2>1. Types' /\ Channels' /\ Locks' /\ Endings' /\ OneRegionPerDescriptor' /\
     CopiesAreWhole' /\ Creations'
    BY <1>1 DEF RefusesTooLong, StartsCreating, Refused, Channels, Locks,
       Endings, OneRegionPerDescriptor, CopiesAreWhole, Creations
  <2>2. Works' /\ Exchange' /\ Mappings'
    BY <1>1 DEF RefusesTooLong, StartsCreating, Refused, Works, Unresolved,
       HasRegion, Exchange, Creations, Mappings, Served, Listed
  <2>3. Derivations'
    BY <1>1, StaysDerived DEF RefusesTooLong, StartsCreating, Refused
  <2>4. Requested'
    BY <2>u, <2>p DEF Requested
  <2>5. Answered'
    BY <2>u, <2>q DEF Answered
  <2>6. Refusals'
    <3>1. \A b \in Client : OutOfStep(b) => OutOfStep(b)'
      BY <1>1, StaysOutOfStep DEF RefusesTooLong, StartsCreating, Refused
    <3>2. \A x \in Handle : handle'[x] = "failed" /\ Kind[descriptor'[x]] = "good" =>
              handle[x] = "failed" /\ descriptor'[x] = descriptor[x]
      BY <1>1 DEF RefusesTooLong, StartsCreating, Refused
    <3>3. UNCHANGED server_open
      BY <1>1 DEF RefusesTooLong, StartsCreating
    <3> QED
      BY <3>1, <3>2, <3>3 DEF Refusals
  <2> QED
    BY <2>1, <2>2, <2>3, <2>4, <2>5, <2>6
<1>2. ASSUME NEW c \in Client, NEW h \in Handle, NEW d \in Descriptor,
   SendsResolve(c, h, d)
      PROVE  IInv'
  <2>u. ASSUME NEW b \in Client \ {c}
        PROVE  RequestedAt(b)' /\ AnsweredAt(b)'
    <3>1. /\ UNCHANGED <<destroyed, server_open>>
          /\ requests'[b] = requests[b] /\ replies'[b] = replies[b]
          /\ conn_state'[b] = conn_state[b] /\ client'[b] = client[b]
          /\ creating'[b] = creating[b] /\ epoll'[b] = epoll[b] /\ run'[b] = run[b]
      BY <1>2, <2>u DEF SendsResolve, StartsCreating
    <3>2. creating[b] # None => descriptor'[creating[b]] = descriptor[creating[b]]
      BY <1>2, <2>u DEF SendsResolve, StartsCreating, Creations
    <3>3. /\ \A x \in Descriptor : HasRegion(x) => HasRegion(x)'
          /\ \A x \in Handle : Listed(x) => Listed(x)'
      BY <1>2 DEF SendsResolve, StartsCreating, HasRegion, Listed
    <3>4. OutOfStep(b) => OutOfStep(b)'
      BY <1>2, StaysOutOfStep DEF SendsResolve, StartsCreating
    <3> QED
      BY <3>1, <3>2, <3>3, <3>4, StaysUnderWay
  <2>p. RequestedAt(c)'
    <3> DEFINE m == [type |-> "resolve", descriptor |-> d]
    <3>1. /\ requests'[c] = <<m>> /\ client'[c] = "resolving"
          /\ UNCHANGED <<server_open, conn_state>> /\ client[c] = "idle"
          /\ creating'[c] = h /\ descriptor'[h] = d
      BY <1>2 DEF SendsResolve, StartsCreating, Channels
    <3>2. m.type = "resolve" /\ m.descriptor = d
      OBVIOUS
    <3> HIDE DEF m
    <3>3. OutOfStep(c) => OutOfStep(c)'
      BY <1>2, StaysOutOfStep DEF SendsResolve, StartsCreating
    <3> QED
      BY <3>1, <3>2, <3>3 DEF Requested, RequestedAt
  <2>q. AnsweredAt(c)'
    BY <1>2 DEF SendsResolve, StartsCreating, AnsweredAt, Exchange
  <2>1. Types' /\ Locks' /\ Endings' /\ OneRegionPerDescriptor' /\
     CopiesAreWhole' /\ Creations'
    BY <1>2 DEF SendsResolve, StartsCreating, Locks, Endings,
       OneRegionPerDescriptor, CopiesAreWhole, Creations
  <2>2. Channels' /\ Works' /\ Mappings'
    BY <1>2 DEF SendsResolve, StartsCreating, Channels, Request, AtMostOne,
       Works, Unresolved, HasRegion, Mappings, Served, Listed
  <2>3. Exchange'
    BY <1>2 DEF SendsResolve, StartsCreating, Exchange, Creations
  <2>4. Derivations'
    BY <1>2, StaysDerived DEF SendsResolve, StartsCreating
  <2>5. Requested'
    BY <2>u, <2>p DEF Requested
  <2>6. Answered'
    BY <2>u, <2>q DEF Answered
  <2>7. Refusals'
    <3>1. \A b \in Client : OutOfStep(b) => OutOfStep(b)'
      BY <1>2, StaysOutOfStep DEF SendsResolve, StartsCreating
    <3>2. \A x \in Handle : handle'[x] = "failed" /\ Kind[descriptor'[x]] = "good" =>
              handle[x] = "failed" /\ descriptor'[x] = descriptor[x]
      BY <1>2 DEF SendsResolve, StartsCreating
    <3>3. UNCHANGED server_open
      BY <1>2 DEF SendsResolve, StartsCreating
    <3> QED
      BY <3>1, <3>2, <3>3 DEF Refusals
  <2> QED
    BY <2>1, <2>2, <2>3, <2>4, <2>5, <2>6, <2>7
<1>3. ASSUME NEW c \in Client, NEW h \in Handle, NEW d \in Descriptor,
   AbortsResolve(c, h, d)
      PROVE  IInv'
  <2>u. ASSUME NEW b \in Client \ {c}
        PROVE  RequestedAt(b)' /\ AnsweredAt(b)'
    <3>1. /\ UNCHANGED <<destroyed, server_open>>
          /\ requests'[b] = requests[b] /\ replies'[b] = replies[b]
          /\ conn_state'[b] = conn_state[b] /\ client'[b] = client[b]
          /\ creating'[b] = creating[b] /\ epoll'[b] = epoll[b] /\ run'[b] = run[b]
      BY <1>3, <2>u DEF AbortsResolve, StartsCreating, Dies
    <3>2. creating[b] # None => descriptor'[creating[b]] = descriptor[creating[b]]
      BY <1>3, <2>u DEF AbortsResolve, StartsCreating, Dies, Creations
    <3>3. /\ \A x \in Descriptor : HasRegion(x) => HasRegion(x)'
          /\ \A x \in Handle : Listed(x) => Listed(x)'
      BY <1>3 DEF AbortsResolve, StartsCreating, Dies, HasRegion, Listed
    <3>4. OutOfStep(b) => OutOfStep(b)'
      BY <1>3, StaysOutOfStep DEF AbortsResolve, StartsCreating, Dies
    <3> QED
      BY <3>1, <3>2, <3>3, <3>4, StaysUnderWay
  <2>p. RequestedAt(c)'
    BY <1>3 DEF AbortsResolve, StartsCreating, Dies, RequestedAt, Exchange, OutOfStep
  <2>q. AnsweredAt(c)'
    BY <1>3 DEF AbortsResolve, StartsCreating, Dies, AnsweredAt, Exchange
  <2>1. Types' /\ Channels' /\ Locks' /\ Endings' /\ OneRegionPerDescriptor' /\
     CopiesAreWhole' /\ Creations'
    BY <1>3 DEF AbortsResolve, StartsCreating, Dies, Channels, Locks, Endings,
       OneRegionPerDescriptor, CopiesAreWhole, Creations
  <2>2. Works' /\ Exchange' /\ Mappings'
    BY <1>3 DEF AbortsResolve, StartsCreating, Dies, Works, Unresolved,
       HasRegion, Exchange, Creations, Mappings, Served, Listed
  <2>3. Derivations'
    BY <1>3, StaysDerived DEF AbortsResolve, StartsCreating, Dies
  <2>4. Requested'
    BY <2>u, <2>p DEF Requested
  <2>5. Answered'
    BY <2>u, <2>q DEF Answered
  <2>6. Refusals'
    <3>1. \A b \in Client : OutOfStep(b) => OutOfStep(b)'
      BY <1>3, StaysOutOfStep DEF AbortsResolve, StartsCreating, Dies
    <3>2. \A x \in Handle : handle'[x] = "failed" /\ Kind[descriptor'[x]] = "good" =>
              handle[x] = "failed" /\ descriptor'[x] = descriptor[x]
      BY <1>3 DEF AbortsResolve, StartsCreating, Dies
    <3>3. UNCHANGED server_open
      BY <1>3 DEF AbortsResolve, StartsCreating
    <3> QED
      BY <3>1, <3>2, <3>3 DEF Refusals
  <2> QED
    BY <2>1, <2>2, <2>3, <2>4, <2>5, <2>6
<1>4. ASSUME NEW c \in Client, LearnsRefusal(c)
      PROVE  IInv'
  <2>u. ASSUME NEW b \in Client \ {c}
        PROVE  RequestedAt(b)' /\ AnsweredAt(b)'
    <3>1. /\ UNCHANGED <<destroyed, server_open>>
          /\ requests'[b] = requests[b] /\ replies'[b] = replies[b]
          /\ conn_state'[b] = conn_state[b] /\ client'[b] = client[b]
          /\ creating'[b] = creating[b] /\ epoll'[b] = epoll[b] /\ run'[b] = run[b]
      BY <1>4, <2>u DEF LearnsRefusal, TakesAnswer, Creates, Wanted, Refused
    <3>2. creating[b] # None => descriptor'[creating[b]] = descriptor[creating[b]]
      BY <1>4, <2>u DEF LearnsRefusal, TakesAnswer, Creates, Wanted, Refused, Creations
    <3>3. /\ \A x \in Descriptor : HasRegion(x) => HasRegion(x)'
          /\ \A x \in Handle : Listed(x) => Listed(x)'
      BY <1>4 DEF LearnsRefusal, TakesAnswer, Creates, Wanted, Refused, HasRegion, Listed
    <3>4. OutOfStep(b) => OutOfStep(b)'
      BY <1>4, StaysOutOfStep DEF LearnsRefusal, TakesAnswer, Creates, Wanted, Refused
    <3> QED
      BY <3>1, <3>2, <3>3, <3>4, StaysUnderWay
  <2>p. RequestedAt(c)'
    BY <1>4 DEF LearnsRefusal, TakesAnswer, Creates, Wanted, Refused, RequestedAt, Exchange, OutOfStep
  <2>q. AnsweredAt(c)'
    <3>1. replies'[c] = << >>
      BY <1>4 DEF LearnsRefusal, TakesAnswer, Creates, Wanted, Refused, Channels
    <3> QED
      BY <3>1 DEF AnsweredAt
  <2>1. Types' /\ Locks' /\ Endings' /\ OneRegionPerDescriptor' /\
     CopiesAreWhole' /\ Creations'
    BY <1>4 DEF LearnsRefusal, TakesAnswer, Creates, Wanted, Refused, Locks,
       Endings, OneRegionPerDescriptor, CopiesAreWhole, Creations
  <2>2. Channels' /\ Works' /\ Mappings' /\ Refusals'
    BY <1>4 DEF LearnsRefusal, TakesAnswer, Creates, Wanted, Refused, Channels,
       AtMostOne, Works, Unresolved, HasRegion, Mappings, Served, Listed,
       Refusals, OutOfStep
  <2>3. Exchange'
    BY <1>4 DEF LearnsRefusal, TakesAnswer, Creates, Wanted, Refused, Channels,
       Endings, Exchange
  <2>4. Derivations'
    BY <1>4, StaysDerived DEF LearnsRefusal, TakesAnswer, Creates, Wanted, Refused
  <2>5. Requested'
    BY <2>u, <2>p DEF Requested
  <2>6. Answered'
    BY <2>u, <2>q DEF Answered
  <2> QED
    BY <2>1, <2>2, <2>3, <2>4, <2>5, <2>6
<1>5. ASSUME NEW c \in Client, AbortsAttach(c)
      PROVE  IInv'
  <2>u. ASSUME NEW b \in Client \ {c}
        PROVE  RequestedAt(b)' /\ AnsweredAt(b)'
    <3>1. /\ UNCHANGED <<destroyed, server_open>>
          /\ requests'[b] = requests[b] /\ replies'[b] = replies[b]
          /\ conn_state'[b] = conn_state[b] /\ client'[b] = client[b]
          /\ creating'[b] = creating[b] /\ epoll'[b] = epoll[b] /\ run'[b] = run[b]
      BY <1>5, <2>u DEF AbortsAttach, TakesAnswer, Creates, Wanted, Dies
    <3>2. creating[b] # None => descriptor'[creating[b]] = descriptor[creating[b]]
      BY <1>5, <2>u DEF AbortsAttach, TakesAnswer, Creates, Wanted, Dies, Creations
    <3>3. /\ \A x \in Descriptor : HasRegion(x) => HasRegion(x)'
          /\ \A x \in Handle : Listed(x) => Listed(x)'
      BY <1>5 DEF AbortsAttach, TakesAnswer, Creates, Wanted, Dies, HasRegion, Listed
    <3>4. OutOfStep(b) => OutOfStep(b)'
      BY <1>5, StaysOutOfStep DEF AbortsAttach, TakesAnswer, Creates, Wanted, Dies
    <3> QED
      BY <3>1, <3>2, <3>3, <3>4, StaysUnderWay
  <2>p. RequestedAt(c)'
    BY <1>5 DEF AbortsAttach, TakesAnswer, Creates, Wanted, Dies, RequestedAt, Exchange, OutOfStep
  <2>q. AnsweredAt(c)'
    <3>1. replies'[c] = << >>
      BY <1>5 DEF AbortsAttach, TakesAnswer, Creates, Wanted, Dies, Channels
    <3> QED
      BY <3>1 DEF AnsweredAt
  <2>1. Types' /\ Locks' /\ Endings' /\ OneRegionPerDescriptor' /\
     CopiesAreWhole' /\ Exchange' /\ Creations'
    BY <1>5 DEF AbortsAttach, TakesAnswer, Creates, Wanted, Dies, Locks,
       Endings, OneRegionPerDescriptor, CopiesAreWhole, Exchange, Creations
  <2>2. Channels' /\ Works' /\ Mappings' /\ Refusals'
    BY <1>5 DEF AbortsAttach, TakesAnswer, Creates, Wanted, Dies, Channels,
       AtMostOne, Works, Unresolved, HasRegion, Mappings, Served, Listed,
       Refusals, OutOfStep
  <2>3. Derivations'
    BY <1>5, StaysDerived DEF AbortsAttach, TakesAnswer, Creates, Wanted, Dies
  <2>4. Requested'
    BY <2>u, <2>p DEF Requested
  <2>5. Answered'
    BY <2>u, <2>q DEF Answered
  <2> QED
    BY <2>1, <2>2, <2>3, <2>4, <2>5
<1>6. ASSUME NEW c \in Client, SendsAttach(c)
      PROVE  IInv'
  <2>u. ASSUME NEW b \in Client \ {c}
        PROVE  RequestedAt(b)' /\ AnsweredAt(b)'
    <3>1. /\ UNCHANGED <<destroyed, server_open>>
          /\ requests'[b] = requests[b] /\ replies'[b] = replies[b]
          /\ conn_state'[b] = conn_state[b] /\ client'[b] = client[b]
          /\ creating'[b] = creating[b] /\ epoll'[b] = epoll[b] /\ run'[b] = run[b]
      BY <1>6, <2>u DEF SendsAttach, TakesAnswer, Creates, Wanted
    <3>2. creating[b] # None => descriptor'[creating[b]] = descriptor[creating[b]]
      BY <1>6, <2>u DEF SendsAttach, TakesAnswer, Creates, Wanted, Creations
    <3>3. /\ \A x \in Descriptor : HasRegion(x) => HasRegion(x)'
          /\ \A x \in Handle : Listed(x) => Listed(x)'
      BY <1>6 DEF SendsAttach, TakesAnswer, Creates, Wanted, HasRegion, Listed
    <3>4. OutOfStep(b) => OutOfStep(b)'
      BY <1>6, StaysOutOfStep DEF SendsAttach, TakesAnswer, Creates, Wanted
    <3> QED
      BY <3>1, <3>2, <3>3, <3>4, StaysUnderWay
  <2>p. RequestedAt(c)'
    <3> DEFINE m == [type |-> "attach", descriptor |-> Wanted(c), uffd |-> creating[c]]
    <3>1. /\ requests'[c] = <<m>> /\ client'[c] = "attaching" /\ conn_state'[c] = "attach"
          /\ UNCHANGED <<destroyed, regions, creating, descriptor>>
          /\ destroyed \/ HasRegion(Wanted(c))
      BY <1>6 DEF SendsAttach, TakesAnswer, Creates, Wanted, Channels
    <3>2. m.type = "attach" /\ m.descriptor = Wanted(c) /\ m.uffd = creating[c]
      OBVIOUS
    <3> HIDE DEF m
    <3> QED
      BY <3>1, <3>2 DEF RequestedAt, HasRegion, Wanted
  <2>q. AnsweredAt(c)'
    <3>1. replies'[c] = << >>
      BY <1>6 DEF SendsAttach, TakesAnswer, Creates, Wanted, Channels
    <3> QED
      BY <3>1 DEF AnsweredAt
  <2>1. Types' /\ Locks' /\ Endings' /\ OneRegionPerDescriptor' /\
     CopiesAreWhole' /\ Creations'
    BY <1>6 DEF SendsAttach, TakesAnswer, Creates, Wanted, Locks, Endings,
       OneRegionPerDescriptor, CopiesAreWhole, Creations
  <2>2. Channels' /\ Works' /\ Mappings' /\ Refusals'
    BY <1>6 DEF SendsAttach, TakesAnswer, Creates, Wanted, Channels, Request,
       AtMostOne, Works, Unresolved, HasRegion, Mappings, Served, Listed,
       Refusals, OutOfStep
  <2>3. Exchange'
    BY <1>6 DEF SendsAttach, TakesAnswer, Creates, Wanted, Channels, Exchange
  <2>4. Derivations'
    BY <1>6, StaysDerived DEF SendsAttach, TakesAnswer, Creates, Wanted
  <2>5. Requested'
    BY <2>u, <2>p DEF Requested
  <2>6. Answered'
    BY <2>u, <2>q DEF Answered
  <2> QED
    BY <2>1, <2>2, <2>3, <2>4, <2>5, <2>6
<1>7. ASSUME NEW c \in Client, AddsToPool(c)
      PROVE  IInv'
  <2>u. ASSUME NEW b \in Client \ {c}
        PROVE  RequestedAt(b)' /\ AnsweredAt(b)'
    <3>1. /\ UNCHANGED <<destroyed, server_open>>
          /\ requests'[b] = requests[b] /\ replies'[b] = replies[b]
          /\ conn_state'[b] = conn_state[b] /\ client'[b] = client[b]
          /\ creating'[b] = creating[b] /\ epoll'[b] = epoll[b] /\ run'[b] = run[b]
      BY <1>7, <2>u DEF AddsToPool, TakesAnswer, Creates, Wanted
    <3>2. creating[b] # None => descriptor'[creating[b]] = descriptor[creating[b]]
      BY <1>7, <2>u DEF AddsToPool, TakesAnswer, Creates, Wanted, Creations
    <3>3. /\ \A x \in Descriptor : HasRegion(x) => HasRegion(x)'
          /\ \A x \in Handle : Listed(x) => Listed(x)'
      BY <1>7 DEF AddsToPool, TakesAnswer, Creates, Wanted, HasRegion, Listed
    <3>4. OutOfStep(b) => OutOfStep(b)'
      BY <1>7, StaysOutOfStep DEF AddsToPool, TakesAnswer, Creates, Wanted
    <3> QED
      BY <3>1, <3>2, <3>3, <3>4, StaysUnderWay
  <2>p. RequestedAt(c)'
    BY <1>7 DEF AddsToPool, TakesAnswer, Creates, Wanted, RequestedAt, Exchange, OutOfStep
  <2>q. AnsweredAt(c)'
    <3>1. replies'[c] = << >>
      BY <1>7 DEF AddsToPool, TakesAnswer, Creates, Wanted, Channels
    <3> QED
      BY <3>1 DEF AnsweredAt
  <2>1. Types' /\ Locks' /\ Endings' /\ OneRegionPerDescriptor' /\
     CopiesAreWhole' /\ Creations'
    BY <1>7 DEF AddsToPool, TakesAnswer, Creates, Wanted, Locks, Endings,
       OneRegionPerDescriptor, CopiesAreWhole, Creations
  <2>2. Channels' /\ Works' /\ Mappings' /\ Refusals'
    BY <1>7 DEF AddsToPool, TakesAnswer, Creates, Wanted, Channels, AtMostOne,
       Works, Unresolved, HasRegion, Mappings, Served, Listed, Refusals,
       OutOfStep
  <2>3. Exchange'
    BY <1>7 DEF AddsToPool, TakesAnswer, Creates, Wanted, Channels, Exchange
  <2>4. Derivations'
    BY <1>7, StaysDerived DEF AddsToPool, TakesAnswer, Creates, Wanted
  <2>5. Requested'
    BY <2>u, <2>p DEF Requested
  <2>6. Answered'
    BY <2>u, <2>q DEF Answered
  <2> QED
    BY <2>1, <2>2, <2>3, <2>4, <2>5, <2>6
<1>8. ASSUME NEW h \in Handle, NEW g \in Group, Touch(h, g)
      PROVE  IInv'
  <2>1. Types' /\ Channels' /\ Locks' /\ Endings' /\ OneRegionPerDescriptor' /\
     CopiesAreWhole' /\ Exchange' /\ Creations'
    BY <1>8 DEF Touch, Channels, Locks, Endings, OneRegionPerDescriptor,
       CopiesAreWhole, Exchange, Creations
  <2>2. Works' /\ Mappings' /\ Refusals'
    BY <1>8 DEF Touch, Works, Unresolved, HasRegion, Mappings, Served, Listed,
       Refusals, OutOfStep
  <2>3. Requested' /\ Answered'
    BY <1>8 DEF Touch, Requested, RequestedAt, HasRegion, OutOfStep, Answered,
       AnsweredAt, Served, Listed
  <2>4. Derivations'
    BY <1>8, StaysDerived DEF Touch
  <2> QED
    BY <2>1, <2>2, <2>3, <2>4
<1>9. ASSUME NEW h \in Handle, fc_client_region_destroy(h)
      PROVE  IInv'
  <2>1. Types' /\ Channels' /\ Locks' /\ Endings' /\ OneRegionPerDescriptor' /\
     CopiesAreWhole' /\ Exchange' /\ Creations'
    BY <1>9 DEF fc_client_region_destroy, Channels, Locks, Endings,
       OneRegionPerDescriptor, CopiesAreWhole, Exchange, Creations
  <2>2. Works' /\ Mappings' /\ Refusals'
    BY <1>9 DEF fc_client_region_destroy, Works, Unresolved, HasRegion,
       Mappings, Served, Listed, Refusals, OutOfStep
  <2>3. Requested' /\ Answered'
    BY <1>9 DEF fc_client_region_destroy, Requested, RequestedAt, HasRegion,
       OutOfStep, Answered, AnsweredAt, Served, Listed
  <2>4. Derivations'
    BY <1>9, StaysDerived DEF fc_client_region_destroy
  <2> QED
    BY <2>1, <2>2, <2>3, <2>4
<1>10. ASSUME NEW c \in Client, fc_client_pool_destroy(c)
      PROVE  IInv'
  <2>1. Types' /\ Channels' /\ Locks' /\ Endings' /\ OneRegionPerDescriptor' /\
     CopiesAreWhole' /\ Exchange' /\ Creations'
    BY <1>10 DEF fc_client_pool_destroy, Channels, Locks, Endings,
       OneRegionPerDescriptor, CopiesAreWhole, Exchange, Creations
  <2>2. Works' /\ Mappings' /\ Refusals'
    BY <1>10 DEF fc_client_pool_destroy, Works, Unresolved, HasRegion, Mappings,
       Served, Listed, Refusals, OutOfStep
  <2>3. Requested' /\ Answered'
    BY <1>10 DEF fc_client_pool_destroy, Requested, RequestedAt, HasRegion,
       OutOfStep, Answered, AnsweredAt, Served, Listed
  <2>4. Derivations'
    BY <1>10, StaysDerived DEF fc_client_pool_destroy
  <2> QED
    BY <2>1, <2>2, <2>3, <2>4
<1>11. ASSUME NEW c \in Client, Exit(c)
      PROVE  IInv'
  <2>1. Types' /\ Channels' /\ Locks' /\ Endings' /\ OneRegionPerDescriptor' /\
     CopiesAreWhole' /\ Exchange' /\ Creations'
    BY <1>11 DEF Exit, Dies, Channels, Locks, Endings, OneRegionPerDescriptor,
       CopiesAreWhole, Exchange, Creations
  <2>2. Works' /\ Mappings' /\ Refusals'
    BY <1>11 DEF Exit, Dies, Works, Unresolved, HasRegion, Mappings, Served,
       Listed, Refusals, OutOfStep
  <2>3. Requested' /\ Answered'
    BY <1>11 DEF Exit, Dies, Requested, RequestedAt, HasRegion, OutOfStep,
       Answered, AnsweredAt, Served, Listed
  <2>4. Derivations'
    BY <1>11, StaysDerived DEF Exit, Dies
  <2> QED
    BY <2>1, <2>2, <2>3, <2>4
<1>12. ASSUME NEW c \in Client, fc_server_run(c)
      PROVE  IInv'
  <2>1. Types' /\ Channels' /\ Locks' /\ Endings' /\ OneRegionPerDescriptor' /\
     CopiesAreWhole' /\ Exchange' /\ Creations'
    BY <1>12 DEF fc_server_run, At, Goto, Channels, Locks, Endings,
       OneRegionPerDescriptor, CopiesAreWhole, Exchange, Creations
  <2>2. Works' /\ Mappings' /\ Refusals'
    BY <1>12 DEF fc_server_run, At, Goto, Works, Unresolved, HasRegion,
       Mappings, Served, Listed, Refusals, OutOfStep
  <2>3. Requested' /\ Answered'
    BY <1>12 DEF fc_server_run, At, Goto, Requested, RequestedAt, HasRegion,
       OutOfStep, Exchange, Creations, Answered, Served, Listed, AnsweredAt
  <2>4. Derivations'
    BY <1>12, StaysDerived DEF fc_server_run, At, Goto
  <2> QED
    BY <2>1, <2>2, <2>3, <2>4
<1>13. ASSUME NEW c \in Client, epoll_wait(c)
      PROVE  IInv'
  <2>1. Types' /\ Channels' /\ Locks' /\ Endings' /\ OneRegionPerDescriptor' /\
     CopiesAreWhole' /\ Exchange' /\ Creations'
    BY <1>13 DEF epoll_wait, Ready, At, Goto, Channels, Locks, Endings,
       OneRegionPerDescriptor, CopiesAreWhole, Exchange, Creations
  <2>2. Works' /\ Mappings' /\ Refusals'
    BY <1>13 DEF epoll_wait, Ready, At, Goto, Works, Unresolved, HasRegion,
       Mappings, Served, Listed, Refusals, OutOfStep
  <2>3. Requested' /\ Answered'
    BY <1>13 DEF epoll_wait, Ready, At, Goto, Requested, RequestedAt, HasRegion,
       OutOfStep, Answered, AnsweredAt, Served, Listed
  <2>4. Derivations'
    BY <1>13, StaysDerived DEF epoll_wait, Ready, At, Goto
  <2> QED
    BY <2>1, <2>2, <2>3, <2>4
<1>14. ASSUME NEW c \in Client, SeesStop(c)
      PROVE  IInv'
  <2>1. Types' /\ Channels' /\ Locks' /\ Endings' /\ OneRegionPerDescriptor' /\
     CopiesAreWhole' /\ Exchange' /\ Creations'
    BY <1>14 DEF SeesStop, Event, EndLoop, At, Channels, Locks, Endings,
       OneRegionPerDescriptor, CopiesAreWhole, Exchange, Creations
  <2>2. Works' /\ Mappings' /\ Refusals'
    BY <1>14 DEF SeesStop, Event, EndLoop, At, Works, Unresolved, HasRegion,
       Mappings, Served, Listed, Refusals, OutOfStep
  <2>3. Requested' /\ Answered'
    BY <1>14 DEF SeesStop, Event, EndLoop, At, Requested, RequestedAt,
       HasRegion, OutOfStep, Answered, AnsweredAt, Served, Listed
  <2>4. Derivations'
    BY <1>14, StaysDerived DEF SeesStop, Event, EndLoop, At
  <2> QED
    BY <2>1, <2>2, <2>3, <2>4
<1>15. ASSUME NEW c \in Client, Disconnected(c)
      PROVE  IInv'
  <2>1. Types' /\ Channels' /\ Locks' /\ Endings' /\ OneRegionPerDescriptor' /\
     CopiesAreWhole' /\ Exchange' /\ Creations'
    BY <1>15 DEF Disconnected, Event, EndLoop, At, Channels, Locks, Endings,
       OneRegionPerDescriptor, CopiesAreWhole, Exchange, Creations
  <2>2. Works' /\ Mappings' /\ Refusals'
    BY <1>15 DEF Disconnected, Event, EndLoop, At, Works, Unresolved, HasRegion,
       Mappings, Served, Listed, Refusals, OutOfStep
  <2>3. Requested' /\ Answered'
    BY <1>15 DEF Disconnected, Event, EndLoop, At, Requested, RequestedAt,
       HasRegion, OutOfStep, Answered, AnsweredAt, Served, Listed
  <2>4. Derivations'
    BY <1>15, StaysDerived DEF Disconnected, Event, EndLoop, At
  <2> QED
    BY <2>1, <2>2, <2>3, <2>4
<1>16. ASSUME NEW c \in Client, AnswersKnown(c)
      PROVE  IInv'
  <2>r. /\ conn_state' \in [Client -> {"resolve", "attach"}]
        /\ ending' \in [Client -> BOOLEAN] /\ replies' \in [Client -> AtMostOne(Answer)]
        /\ \A b \in Client \ {c} :
             replies'[b] = replies[b] /\ conn_state'[b] = conn_state[b]
        /\ \/ replies'[c] = <<LayoutOf(Wanted(c))>> /\ conn_state'[c] = "attach"
           \/ replies'[c] = replies[c] /\ conn_state'[c] = conn_state[c]
    BY <1>16, ReplyTypes DEF AnswersKnown, LayoutOf, Answer
  <2>u. ASSUME NEW b \in Client \ {c}
        PROVE  RequestedAt(b)' /\ AnsweredAt(b)'
    <3>1. /\ UNCHANGED <<destroyed, server_open>>
          /\ requests'[b] = requests[b] /\ replies'[b] = replies[b]
          /\ conn_state'[b] = conn_state[b] /\ client'[b] = client[b]
          /\ creating'[b] = creating[b] /\ epoll'[b] = epoll[b] /\ run'[b] = run[b]
      BY <1>16, <2>r, <2>u DEF AnswersKnown, TakesRequest, Creates, Wanted
    <3>2. creating[b] # None => descriptor'[creating[b]] = descriptor[creating[b]]
      BY <1>16, <2>u DEF AnswersKnown, TakesRequest, Creates, Wanted, Creations
    <3>3. /\ \A x \in Descriptor : HasRegion(x) => HasRegion(x)'
          /\ \A x \in Handle : Listed(x) => Listed(x)'
      BY <1>16 DEF AnswersKnown, TakesRequest, Creates, Wanted, HasRegion, Listed
    <3>4. OutOfStep(b) => OutOfStep(b)'
      BY <1>16, StaysOutOfStep DEF AnswersKnown, TakesRequest, Creates, Wanted
    <3> QED
      BY <3>1, <3>2, <3>3, <3>4, StaysUnderWay
  <2>p. RequestedAt(c)'
    <3>1. requests'[c] = << >> /\ client'[c] # "idle"
      BY <1>16 DEF AnswersKnown, TakesRequest, Creates, Wanted, Exchange, Channels
    <3> QED
      BY <3>1 DEF RequestedAt
  <2>q. AnsweredAt(c)'
    <3>1. /\ replies[c] = << >> /\ UNCHANGED <<client, creating, descriptor>>
          /\ client[c] # "attaching"
      BY <1>16 DEF AnswersKnown, TakesRequest, Creates, Wanted
    <3>2. HasRegion(Wanted(c))'
      BY <1>16 DEF AnswersKnown, TakesRequest, Creates, Wanted, HasRegion
    <3> QED
      BY <2>r, <3>1, <3>2 DEF AnsweredAt, LayoutOf, Wanted
  <2>1. Locks' /\ Endings' /\ OneRegionPerDescriptor' /\ CopiesAreWhole' /\
     Creations'
    BY <1>16 DEF AnswersKnown, TakesRequest, Replied, LayoutOf, Answer, Creates,
       Wanted, Locks, Endings, OneRegionPerDescriptor, CopiesAreWhole, Creations
  <2>2. Works' /\ Mappings' /\ Refusals'
    BY <1>16 DEF AnswersKnown, TakesRequest, Replied, LayoutOf, Answer, Creates,
       Wanted, Works, Unresolved, HasRegion, Mappings, Served, Listed, Refusals,
       OutOfStep
  <2>3. Exchange'
    BY <1>16 DEF AnswersKnown, TakesRequest, Replied, LayoutOf, Answer, Creates,
       Wanted, Channels, Exchange
  <2>4. Types'
    BY <1>16, <2>r DEF AnswersKnown, TakesRequest, Creates, Wanted
  <2>5. Channels'
    BY <1>16, <2>r DEF AnswersKnown, TakesRequest, Creates, Wanted, Channels, AtMostOne
  <2>6. Derivations'
    BY <1>16, StaysDerived DEF AnswersKnown, TakesRequest, Creates, Wanted
  <2>7. Requested'
    BY <2>u, <2>p DEF Requested
  <2>8. Answered'
    BY <2>u, <2>q DEF Answered
  <2> QED
    BY <2>1, <2>2, <2>3, <2>4, <2>5, <2>6, <2>7, <2>8
<1>17. ASSUME NEW c \in Client, AsksFactory(c)
      PROVE  IInv'
  <2>u. ASSUME NEW b \in Client \ {c}
        PROVE  RequestedAt(b)' /\ AnsweredAt(b)'
    <3>1. /\ UNCHANGED <<destroyed, server_open>>
          /\ requests'[b] = requests[b] /\ replies'[b] = replies[b]
          /\ conn_state'[b] = conn_state[b] /\ client'[b] = client[b]
          /\ creating'[b] = creating[b] /\ epoll'[b] = epoll[b] /\ run'[b] = run[b]
      BY <1>17, <2>u DEF AsksFactory, TakesRequest, Creates, Wanted
    <3>2. creating[b] # None => descriptor'[creating[b]] = descriptor[creating[b]]
      BY <1>17, <2>u DEF AsksFactory, TakesRequest, Creates, Wanted, Creations
    <3>3. /\ \A x \in Descriptor : HasRegion(x) => HasRegion(x)'
          /\ \A x \in Handle : Listed(x) => Listed(x)'
      BY <1>17 DEF AsksFactory, TakesRequest, Creates, Wanted, HasRegion, Listed
    <3>4. OutOfStep(b) => OutOfStep(b)'
      BY <1>17, StaysOutOfStep DEF AsksFactory, TakesRequest, Creates, Wanted
    <3> QED
      BY <3>1, <3>2, <3>3, <3>4, StaysUnderWay
  <2>p. RequestedAt(c)'
    <3>1. requests'[c] = << >> /\ client'[c] # "idle"
      BY <1>17 DEF AsksFactory, TakesRequest, Creates, Wanted, Exchange, Channels
    <3> QED
      BY <3>1 DEF RequestedAt
  <2>q. AnsweredAt(c)'
    BY <1>17 DEF AsksFactory, TakesRequest, Creates, Wanted, AnsweredAt, Exchange
  <2>1. Types' /\ Locks' /\ Endings' /\ OneRegionPerDescriptor' /\
     CopiesAreWhole' /\ Creations'
    BY <1>17 DEF AsksFactory, TakesRequest, Creates, Wanted, Locks, Endings,
       OneRegionPerDescriptor, CopiesAreWhole, Creations
  <2>2. Channels' /\ Works' /\ Mappings' /\ Refusals'
    BY <1>17 DEF AsksFactory, TakesRequest, Creates, Wanted, Channels,
       AtMostOne, Works, Unresolved, HasRegion, Mappings, Served, Listed,
       Refusals, OutOfStep
  <2>3. Exchange'
    BY <1>17 DEF AsksFactory, TakesRequest, Creates, Wanted, Channels, Exchange
  <2>4. Derivations'
    BY <1>17, StaysDerived DEF AsksFactory, TakesRequest, Creates, Wanted
  <2>5. Requested'
    BY <2>u, <2>p DEF Requested
  <2>6. Answered'
    BY <2>u, <2>q DEF Answered
  <2> QED
    BY <2>1, <2>2, <2>3, <2>4, <2>5, <2>6
<1>18. ASSUME NEW c \in Client, RejectsDescriptor(c)
      PROVE  IInv'
  <2>r. /\ conn_state' \in [Client -> {"resolve", "attach"}]
        /\ ending' \in [Client -> BOOLEAN] /\ replies' \in [Client -> AtMostOne(Answer)]
        /\ \A b \in Client \ {c} :
             replies'[b] = replies[b] /\ conn_state'[b] = conn_state[b]
        /\ \/ replies'[c] = <<"rejection">> /\ conn_state'[c] = "resolve"
           \/ replies'[c] = replies[c] /\ conn_state'[c] = conn_state[c]
    BY <1>18, ReplyTypes DEF RejectsDescriptor, LayoutOf, Answer
  <2>u. ASSUME NEW b \in Client \ {c}
        PROVE  RequestedAt(b)' /\ AnsweredAt(b)'
    <3>1. /\ UNCHANGED <<destroyed, server_open>>
          /\ requests'[b] = requests[b] /\ replies'[b] = replies[b]
          /\ conn_state'[b] = conn_state[b] /\ client'[b] = client[b]
          /\ creating'[b] = creating[b] /\ epoll'[b] = epoll[b] /\ run'[b] = run[b]
      BY <1>18, <2>r, <2>u DEF RejectsDescriptor, LeavesFactory, Creates, Wanted
    <3>2. creating[b] # None => descriptor'[creating[b]] = descriptor[creating[b]]
      BY <1>18, <2>u DEF RejectsDescriptor, LeavesFactory, Creates, Wanted, Creations
    <3>3. /\ \A x \in Descriptor : HasRegion(x) => HasRegion(x)'
          /\ \A x \in Handle : Listed(x) => Listed(x)'
      BY <1>18 DEF RejectsDescriptor, LeavesFactory, Creates, Wanted, HasRegion, Listed
    <3>4. OutOfStep(b) => OutOfStep(b)'
      BY <1>18, StaysOutOfStep DEF RejectsDescriptor, LeavesFactory, Creates, Wanted
    <3> QED
      BY <3>1, <3>2, <3>3, <3>4, StaysUnderWay
  <2>p. RequestedAt(c)'
    <3>1. requests'[c] = << >> /\ client'[c] # "idle"
      BY <1>18 DEF RejectsDescriptor, LeavesFactory, Creates, Wanted, Exchange, Channels
    <3> QED
      BY <3>1 DEF RequestedAt
  <2>q. AnsweredAt(c)'
    <3>1. /\ replies[c] = << >> /\ UNCHANGED <<client, creating, descriptor>>
          /\ client[c] # "attaching"
      BY <1>18 DEF RejectsDescriptor, LeavesFactory, Creates, Wanted
    <3>2. Kind[Wanted(c)] = "rejected"
      BY <1>18 DEF RejectsDescriptor, LeavesFactory, Creates, Wanted
    <3> QED
      BY <2>r, <3>1, <3>2 DEF AnsweredAt, LayoutOf, Wanted
  <2>1. Locks' /\ Endings' /\ OneRegionPerDescriptor' /\ CopiesAreWhole' /\
     Creations'
    BY <1>18 DEF RejectsDescriptor, LeavesFactory, Replied, Answer, Creates,
       Wanted, Locks, Endings, OneRegionPerDescriptor, CopiesAreWhole, Creations
  <2>2. Works' /\ Mappings' /\ Refusals'
    BY <1>18 DEF RejectsDescriptor, LeavesFactory, Replied, Answer, Creates,
       Wanted, Works, Unresolved, HasRegion, Mappings, Served, Listed, Refusals,
       OutOfStep
  <2>3. Exchange'
    BY <1>18 DEF RejectsDescriptor, LeavesFactory, Replied, Answer, Creates,
       Wanted, Channels, Exchange
  <2>4. Types'
    BY <1>18, <2>r DEF RejectsDescriptor, LeavesFactory, Creates, Wanted
  <2>5. Channels'
    BY <1>18, <2>r DEF RejectsDescriptor, LeavesFactory, Creates, Wanted, Channels, AtMostOne
  <2>6. Derivations'
    BY <1>18, StaysDerived DEF RejectsDescriptor, LeavesFactory, Creates, Wanted
  <2>7. Requested'
    BY <2>u, <2>p DEF Requested
  <2>8. Answered'
    BY <2>u, <2>q DEF Answered
  <2> QED
    BY <2>1, <2>2, <2>3, <2>4, <2>5, <2>6, <2>7, <2>8
<1>19. ASSUME NEW c \in Client, MakesRegion(c)
      PROVE  IInv'
  <2> DEFINE made == Len(regions) + 1
  <2>f. /\ regions' \in Seq(ServerRegion) /\ DOMAIN regions' = DOMAIN regions \cup {made}
        /\ made \notin DOMAIN regions /\ \A k \in DOMAIN regions : regions'[k] = regions[k]
        /\ regions'[made].descriptor = Wanted(c) /\ regions'[made].resolved = {}
        /\ regions'[made].mappings = {}
    BY <1>19, RegionMade DEF MakesRegion, LeavesFactory, Creates
  <2>r. /\ conn_state' \in [Client -> {"resolve", "attach"}]
        /\ ending' \in [Client -> BOOLEAN] /\ replies' \in [Client -> AtMostOne(Answer)]
        /\ \A b \in Client \ {c} :
             replies'[b] = replies[b] /\ conn_state'[b] = conn_state[b]
        /\ \/ replies'[c] = <<LayoutOf(Wanted(c))>> /\ conn_state'[c] = "attach"
           \/ replies'[c] = replies[c] /\ conn_state'[c] = conn_state[c]
    BY <1>19, ReplyTypes DEF MakesRegion, LayoutOf, Answer
  <2>u. ASSUME NEW b \in Client \ {c}
        PROVE  RequestedAt(b)' /\ AnsweredAt(b)'
    <3>1. /\ UNCHANGED <<destroyed, server_open>>
          /\ requests'[b] = requests[b] /\ replies'[b] = replies[b]
          /\ conn_state'[b] = conn_state[b] /\ client'[b] = client[b]
          /\ creating'[b] = creating[b] /\ epoll'[b] = epoll[b] /\ run'[b] = run[b]
      BY <1>19, <2>r, <2>u DEF MakesRegion, LeavesFactory, Creates, Wanted
    <3>2. creating[b] # None => descriptor'[creating[b]] = descriptor[creating[b]]
      BY <1>19, <2>u DEF MakesRegion, LeavesFactory, Creates, Wanted, Creations
    <3>3. /\ \A x \in Descriptor : HasRegion(x) => HasRegion(x)'
          /\ \A x \in Handle : Listed(x) => Listed(x)'
      BY <1>19, <2>f DEF MakesRegion, LeavesFactory, Creates, Wanted, HasRegion, Listed
    <3>4. OutOfStep(b) => OutOfStep(b)'
      BY <1>19, StaysOutOfStep DEF MakesRegion, LeavesFactory, Creates, Wanted
    <3> QED
      BY <3>1, <3>2, <3>3, <3>4, StaysUnderWay
  <2>p. RequestedAt(c)'
    <3>1. requests'[c] = << >> /\ client'[c] # "idle"
      BY <1>19 DEF MakesRegion, LeavesFactory, Creates, Wanted, Exchange, Channels
    <3> QED
      BY <3>1 DEF RequestedAt
  <2>q. AnsweredAt(c)'
    <3>1. /\ replies[c] = << >> /\ UNCHANGED <<client, creating, descriptor>>
          /\ client[c] # "attaching"
      BY <1>19 DEF MakesRegion, LeavesFactory, Creates, Wanted
    <3>2. HasRegion(Wanted(c))'
      BY <1>19, <2>f DEF MakesRegion, LeavesFactory, Creates, Wanted, HasRegion
    <3> QED
      BY <2>r, <3>1, <3>2 DEF AnsweredAt, LayoutOf, Wanted
  <2>1. Locks' /\ Endings' /\ CopiesAreWhole' /\ Creations'
    BY <1>19, <2>f DEF MakesRegion, LeavesFactory, Replied, LayoutOf, Answer,
       Creates, Wanted, Locks, Endings, CopiesAreWhole, Creations
  <2>2. Works' /\ OneRegionPerDescriptor' /\ Mappings' /\ Refusals'
    BY <1>19, <2>f DEF MakesRegion, LeavesFactory, Replied, LayoutOf, Answer,
       Creates, Wanted, Locks, Works, Unresolved, OneRegionPerDescriptor,
       HasRegion, Mappings, Served, Listed, Refusals, OutOfStep
  <2>3. Exchange'
    BY <1>19, <2>f DEF MakesRegion, LeavesFactory, Replied, LayoutOf, Answer,
       Creates, Wanted, Channels, Exchange
  <2>4. Types'
    BY <1>19, <2>r, <2>f DEF MakesRegion, LeavesFactory, Creates, Wanted
  <2>5. Channels'
    BY <1>19, <2>r DEF MakesRegion, LeavesFactory, Creates, Wanted, Channels, AtMostOne
  <2>6. Derivations'
    BY <1>19, StaysDerived, <2>f DEF MakesRegion, LeavesFactory, Creates, Wanted
  <2>7. Requested'
    BY <2>u, <2>p DEF Requested
  <2>8. Answered'
    BY <2>u, <2>q DEF Answered
  <2> QED
    BY <2>1, <2>2, <2>3, <2>4, <2>5, <2>6, <2>7, <2>8
<1>20. ASSUME NEW c \in Client, Attaches(c)
      PROVE  IInv'
  <2>r. /\ conn_state' \in [Client -> {"resolve", "attach"}]
        /\ ending' \in [Client -> BOOLEAN] /\ replies' \in [Client -> AtMostOne(Answer)]
        /\ \A b \in Client \ {c} :
             replies'[b] = replies[b] /\ conn_state'[b] = conn_state[b]
        /\ \/ replies'[c] = <<"ack">> /\ conn_state'[c] = "resolve"
           \/ replies'[c] = replies[c] /\ conn_state'[c] = conn_state[c]
    BY <1>20, ReplyTypes DEF Attaches, LayoutOf, Answer
  <2>u. ASSUME NEW b \in Client \ {c}
        PROVE  RequestedAt(b)' /\ AnsweredAt(b)'
    <3>1. /\ UNCHANGED <<destroyed, server_open>>
          /\ requests'[b] = requests[b] /\ replies'[b] = replies[b]
          /\ conn_state'[b] = conn_state[b] /\ client'[b] = client[b]
          /\ creating'[b] = creating[b] /\ epoll'[b] = epoll[b] /\ run'[b] = run[b]
      BY <1>20, <2>r, <2>u DEF Attaches, TakesRequest, Added, Creates, Wanted
    <3>2. creating[b] # None => descriptor'[creating[b]] = descriptor[creating[b]]
      BY <1>20, <2>u DEF Attaches, TakesRequest, Added, Creates, Wanted, Creations
    <3>3. /\ \A x \in Descriptor : HasRegion(x) => HasRegion(x)'
          /\ \A x \in Handle : Listed(x) => Listed(x)'
      BY <1>20 DEF Attaches, TakesRequest, Added, Creates, Wanted, HasRegion, Listed
    <3>4. OutOfStep(b) => OutOfStep(b)'
      BY <1>20, StaysOutOfStep DEF Attaches, TakesRequest, Added, Creates, Wanted
    <3> QED
      BY <3>1, <3>2, <3>3, <3>4, StaysUnderWay
  <2>p. RequestedAt(c)'
    <3>1. requests'[c] = << >> /\ client'[c] # "idle"
      BY <1>20 DEF Attaches, TakesRequest, Added, Creates, Wanted, Exchange, Channels
    <3> QED
      BY <3>1 DEF RequestedAt
  <2>q. AnsweredAt(c)'
    <3>1. /\ replies[c] = << >> /\ UNCHANGED <<client, creating, descriptor>>
          /\ client[c] # "resolving"
      BY <1>20 DEF Attaches, TakesRequest, Added, Creates, Wanted
    <3>2. Served(creating[c])'
      BY <1>20 DEF Attaches, TakesRequest, Added, Creates, Wanted, Served, Listed
    <3> QED
      BY <2>r, <3>1, <3>2 DEF AnsweredAt, LayoutOf, Wanted
  <2>1. Locks' /\ Endings' /\ OneRegionPerDescriptor' /\ CopiesAreWhole' /\
     Creations'
    BY <1>20 DEF Attaches, TakesRequest, Replied, Added, Answer, Creates,
       Wanted, Locks, Endings, OneRegionPerDescriptor, CopiesAreWhole, Creations
  <2>2. Exchange' /\ Refusals'
    BY <1>20 DEF Attaches, TakesRequest, Replied, Added, Answer, Creates,
       Wanted, Channels, Exchange, Refusals, OutOfStep
  <2>3. Types'
    BY <1>20, <2>r DEF Attaches, TakesRequest, Added, Creates, Wanted
  <2>4. Channels'
    BY <1>20, <2>r DEF Attaches, TakesRequest, Added, Creates, Wanted, Channels, AtMostOne
  <2>5. Works'
    <3>1. /\ DOMAIN regions' = DOMAIN regions
          /\ \A k \in DOMAIN regions : regions'[k].resolved = regions[k].resolved
      BY <1>20 DEF Attaches, Added
    <3>2. UNCHANGED <<run, work>> /\ \A b \in Client : run[b] \notin Holding
      BY <1>20 DEF Attaches, Locks
    <3>3. \A b \in Client : run[b] \in Serving => Unresolved(b)' = Unresolved(b)
      BY <3>1, <3>2 DEF Works, Unresolved
    <3> QED
      BY <3>1, <3>2, <3>3 DEF Works
  <2>6. Derivations'
    BY <1>20, StaysDerived DEF Attaches, TakesRequest, Added, Creates, Wanted
  <2>7. Requested'
    BY <2>u, <2>p DEF Requested
  <2>8. Answered'
    BY <2>u, <2>q DEF Answered
  <2>9. Mappings'
    <3>1. PICK i \in DOMAIN regions :
              regions[i].descriptor = Wanted(c) /\ Added(i, {}, {creating[c]})
      BY <1>20 DEF Attaches
    <3>2. /\ UNCHANGED <<run, handle, descriptor>> /\ creating[c] \in Handle
          /\ handle[creating[c]] = "creating"
          /\ \A b \in Client : epoll[b] \subseteq epoll'[b]
      BY <1>20 DEF Attaches, TakesRequest, Creates
    <3>3. ASSUME NEW x \in Handle, NEW k \in DOMAIN regions, x \in regions'[k].mappings
          PROVE  handle[x] # "unused" /\ regions'[k].descriptor = descriptor[x]
      BY <3>1, <3>2, <3>3 DEF Added, Mappings, Wanted
    <3>4. \A x \in Handle : Served(x) => Served(x)'
      <4>1. \A x \in Handle : Listed(x) => Listed(x)'
        BY <3>1 DEF Listed, Added
      <4> QED
        BY <3>2, <4>1 DEF Served
    <3>5. DOMAIN regions' = DOMAIN regions
      BY <3>1 DEF Added
    <3> QED
      BY <3>2, <3>3, <3>4, <3>5 DEF Mappings
  <2> QED
    BY <2>1, <2>2, <2>3, <2>4, <2>5, <2>6, <2>7, <2>8, <2>9
<1>21. ASSUME NEW c \in Client, RefusesAttach(c)
      PROVE  IInv'
  <2>r. /\ conn_state' \in [Client -> {"resolve", "attach"}]
        /\ ending' \in [Client -> BOOLEAN] /\ replies' \in [Client -> AtMostOne(Answer)]
        /\ \A b \in Client \ {c} :
             replies'[b] = replies[b] /\ conn_state'[b] = conn_state[b]
        /\ \/ replies'[c] = <<"nack">> /\ conn_state'[c] = "resolve"
           \/ replies'[c] = replies[c] /\ conn_state'[c] = conn_state[c]
    BY <1>21, ReplyTypes DEF RefusesAttach, LayoutOf, Answer
  <2>u. ASSUME NEW b \in Client \ {c}
        PROVE  RequestedAt(b)' /\ AnsweredAt(b)'
    <3>1. /\ UNCHANGED <<destroyed, server_open>>
          /\ requests'[b] = requests[b] /\ replies'[b] = replies[b]
          /\ conn_state'[b] = conn_state[b] /\ client'[b] = client[b]
          /\ creating'[b] = creating[b] /\ epoll'[b] = epoll[b] /\ run'[b] = run[b]
      BY <1>21, <2>r, <2>u DEF RefusesAttach, TakesRequest, Creates, Wanted
    <3>2. creating[b] # None => descriptor'[creating[b]] = descriptor[creating[b]]
      BY <1>21, <2>u DEF RefusesAttach, TakesRequest, Creates, Wanted, Creations
    <3>3. /\ \A x \in Descriptor : HasRegion(x) => HasRegion(x)'
          /\ \A x \in Handle : Listed(x) => Listed(x)'
      BY <1>21 DEF RefusesAttach, TakesRequest, Creates, Wanted, HasRegion, Listed
    <3>4. OutOfStep(b) => OutOfStep(b)'
      BY <1>21, StaysOutOfStep DEF RefusesAttach, TakesRequest, Creates, Wanted
    <3> QED
      BY <3>1, <3>2, <3>3, <3>4, StaysUnderWay
  <2>p. RequestedAt(c)'
    <3>1. requests'[c] = << >> /\ client'[c] # "idle"
      BY <1>21 DEF RefusesAttach, TakesRequest, Creates, Wanted, Exchange, Channels
    <3> QED
      BY <3>1 DEF RequestedAt
  <2>q. AnsweredAt(c)'
    <3>1. /\ replies[c] = << >> /\ UNCHANGED <<client, creating, descriptor>>
          /\ client[c] # "attaching"
      BY <1>21 DEF RefusesAttach, TakesRequest, Creates, Wanted
    <3>2. OutOfStep(c)'
      BY <1>21 DEF RefusesAttach, TakesRequest, Creates, Wanted, OutOfStep
    <3> QED
      BY <2>r, <3>1, <3>2 DEF AnsweredAt, LayoutOf, Wanted
  <2>1. Locks' /\ Endings' /\ OneRegionPerDescriptor' /\ CopiesAreWhole' /\
     Creations'
    BY <1>21 DEF RefusesAttach, TakesRequest, Replied, Answer, Creates, Wanted,
       Locks, Endings, OneRegionPerDescriptor, CopiesAreWhole, Creations
  <2>2. Works' /\ Mappings' /\ Refusals'
    BY <1>21 DEF RefusesAttach, TakesRequest, Replied, Answer, Creates, Wanted,
       Works, Unresolved, HasRegion, Mappings, Served, Listed, Refusals,
       OutOfStep
  <2>3. Exchange'
    BY <1>21 DEF RefusesAttach, TakesRequest, Replied, Answer, Creates, Wanted,
       Channels, Exchange
  <2>4. Types'
    BY <1>21, <2>r DEF RefusesAttach, TakesRequest, Creates, Wanted
  <2>5. Channels'
    BY <1>21, <2>r DEF RefusesAttach, TakesRequest, Creates, Wanted, Channels, AtMostOne
  <2>6. Derivations'
    BY <1>21, StaysDerived DEF RefusesAttach, TakesRequest, Creates, Wanted
  <2>7. Requested'
    BY <2>u, <2>p DEF Requested
  <2>8. Answered'
    BY <2>u, <2>q DEF Answered
  <2> QED
    BY <2>1, <2>2, <2>3, <2>4, <2>5, <2>6, <2>7, <2>8
<1>22. ASSUME NEW c \in Client, NEW h \in Handle, ReadFault(c, h)
      PROVE  IInv'
  <2>u. ASSUME NEW b \in Client
        PROVE  RequestedAt(b)' /\ AnsweredAt(b)'
    <3>1. /\ UNCHANGED <<destroyed, server_open, requests, replies, conn_state>>
          /\ UNCHANGED <<client, creating, descriptor, handle, regions, epoll>>
          /\ Active(b)' => Active(b)
      BY <1>22 DEF ReadFault, Event, At, Goto
    <3>2. /\ \A x \in Descriptor : HasRegion(x) => HasRegion(x)'
          /\ \A x \in Handle : Listed(x) => Listed(x)'
      BY <3>1 DEF HasRegion, Listed
    <3>3. OutOfStep(b) => OutOfStep(b)'
      BY <3>1 DEF OutOfStep
    <3> QED
      BY <3>1, <3>2, <3>3, StaysUnderWay
  <2>1. Channels' /\ Locks' /\ Endings' /\ OneRegionPerDescriptor' /\
     CopiesAreWhole' /\ Exchange' /\ Creations'
    BY <1>22 DEF ReadFault, Event, At, Goto, Channels, Locks, Endings,
       OneRegionPerDescriptor, CopiesAreWhole, Exchange, Creations
  <2>2. Works' /\ Mappings' /\ Refusals'
    BY <1>22 DEF ReadFault, Event, At, Goto, Works, Unresolved, Fault,
       HasRegion, Mappings, Served, Listed, Refusals, OutOfStep
  <2>3. Types'
    <3>1. ASSUME NEW i \in DOMAIN regions, NEW g \in pending[h],
                 pending' = [pending EXCEPT ![h] = @ \ {g}],
                 work' = [work EXCEPT ![c] = [region |-> i, uffd |-> h, group |-> g]],
                 run' = [run EXCEPT ![c] = "lock"]
          PROVE  /\ work' \in [Client -> Descriptor \cup Fault \cup {None}]
                 /\ pending' \in [Handle -> SUBSET Group] /\ run' \in [Client -> Labels]
      <4>1. [region |-> i, uffd |-> h, group |-> g] \in Fault
        BY <3>1 DEF Fault
      <4> QED
        BY <3>1, <4>1
    <3>2. /\ work' \in [Client -> Descriptor \cup Fault \cup {None}]
          /\ pending' \in [Handle -> SUBSET Group] /\ run' \in [Client -> Labels]
      BY <1>22, <3>1 DEF ReadFault, Goto
    <3> QED
      BY <1>22, <3>2 DEF ReadFault, Event
  <2>4. Derivations'
    BY <1>22, StaysDerived DEF ReadFault, Event, At, Goto
  <2>5. Requested'
    BY <2>u DEF Requested
  <2>6. Answered'
    BY <2>u DEF Answered
  <2> QED
    BY <2>1, <2>2, <2>3, <2>4, <2>5, <2>6
<1>23. ASSUME NEW c \in Client, LockServer(c)
      PROVE  IInv'
  <2>1. Types' /\ Channels' /\ Locks' /\ Endings' /\ OneRegionPerDescriptor' /\
     CopiesAreWhole' /\ Exchange' /\ Creations'
    BY <1>23 DEF LockServer, At, Goto, Channels, Locks, Endings,
       OneRegionPerDescriptor, CopiesAreWhole, Exchange, Creations
  <2>2. Works' /\ Mappings' /\ Refusals'
    BY <1>23 DEF LockServer, At, Goto, Works, Unresolved, HasRegion, Mappings,
       Served, Listed, Refusals, OutOfStep
  <2>3. Requested' /\ Answered'
    BY <1>23 DEF LockServer, At, Goto, Requested, RequestedAt, HasRegion,
       OutOfStep, Answered, AnsweredAt, Served, Listed
  <2>4. Derivations'
    BY <1>23, StaysDerived DEF LockServer, At, Goto
  <2> QED
    BY <2>1, <2>2, <2>3, <2>4
<1>24. ASSUME NEW c \in Client, fill_chunk(c)
      PROVE  IInv'
  <2>e. /\ work[c] \in Fault /\ work[c].region \in DOMAIN regions
        /\ server_lock = c /\ Unresolved(c) # {}
        /\ Min(Unresolved(c)) \in Unresolved(c) /\ Min(Unresolved(c)) \in Chunk
        /\ regions[work[c].region] \in ServerRegion
    BY <1>24, NextChunk DEF fill_chunk, At, Works, Locks
  <2>1. Channels' /\ Locks' /\ Endings' /\ OneRegionPerDescriptor' /\
     CopiesAreWhole' /\ Exchange' /\ Creations'
    BY <1>24, <2>e DEF fill_chunk, At, Goto, Channels, Locks, Endings,
       OneRegionPerDescriptor, CopiesAreWhole, Exchange, Creations
  <2>2. Requested' /\ Answered'
    BY <1>24, <2>e DEF fill_chunk, At, Goto, Requested, RequestedAt, HasRegion,
       OutOfStep, Answered, AnsweredAt, Served, Listed
  <2>3. Mappings' /\ Refusals'
    BY <1>24, <2>e DEF fill_chunk, At, Goto, Mappings, Served, Listed, Refusals,
       OutOfStep
  <2>4. Types'
    BY <1>24, <2>e DEF fill_chunk, At, Goto, ServerRegion
  <2>5. Works'
    BY <1>24, <2>e DEF fill_chunk, At, Goto, Works, Unresolved, HasRegion
  <2>6. Derivations'
    <3>0. PICK k \in DOMAIN regions, n \in Chunk, d \in Descriptor :
              /\ k = work[c].region /\ n = Min(Unresolved(c)) /\ d = regions[k].descriptor
              /\ n \notin regions[k].resolved
      BY <2>e DEF ServerRegion, Unresolved
    <3>1. /\ \A b \in Client : run[b] # "filling"
          /\ ~destroyed /\ UNCHANGED <<regions, destroyed, work>>
          /\ run'[c] = "filling"
      BY <1>24, <2>e DEF fill_chunk, At, Goto, Locks, Endings
    <3>2. Unresolved(c)' = Unresolved(c)
      BY <3>1 DEF Unresolved
    <3>3. derived[d][n] = 0
      <4>1. SUFFICES ASSUME derived[d][n] = 1 PROVE FALSE
        BY DEF Derivations
      <4>2. PICK j \in DOMAIN regions : regions[j].descriptor = d /\ Deriving(j, n)
        BY <3>1, <4>1 DEF Derivations
      <4> QED
        BY <3>0, <3>1, <4>2 DEF Deriving, OneRegionPerDescriptor
    <3>4. /\ derived'[d][n] = 1
          /\ \A x \in Descriptor, i \in Chunk :
               x # d \/ i # n => derived'[x][i] = derived[x][i]
      BY <1>24, <3>0, <3>3 DEF fill_chunk
    <3>5. Deriving(k, n)'
      BY <3>0, <3>1, <3>2 DEF Deriving
    <3>6. \A j \in DOMAIN regions, i \in Chunk : Deriving(j, i) => Deriving(j, i)'
      BY <3>1 DEF Deriving
    <3>7. ASSUME NEW x \in Descriptor, NEW i \in Chunk
          PROVE  /\ derived'[x][i] \in {0, 1}
                 /\ derived'[x][i] = 1 =>
                      \E j \in DOMAIN regions : regions[j].descriptor = x /\ Deriving(j, i)'
      <4>1. CASE x = d /\ i = n
        BY <3>0, <3>4, <3>5, <4>1
      <4>2. CASE x # d \/ i # n
        BY <3>1, <3>4, <3>6, <4>2 DEF Derivations
      <4> QED
        BY <4>1, <4>2
    <3> QED
      BY <3>1, <3>7 DEF Derivations
  <2> QED
    BY <2>1, <2>2, <2>3, <2>4, <2>5, <2>6
<1>25. ASSUME NEW c \in Client, Filled(c)
      PROVE  IInv'
  <2>e. /\ work[c] \in Fault /\ work[c].region \in DOMAIN regions
        /\ server_lock = c /\ Unresolved(c) # {}
        /\ Min(Unresolved(c)) \in Unresolved(c) /\ Min(Unresolved(c)) \in Chunk
        /\ regions[work[c].region] \in ServerRegion
    BY <1>25, NextChunk DEF Filled, At, Works, Locks
  <2>f. Added(work[c].region, {Min(Unresolved(c))}, {})
    BY <1>25, <2>e, RegionChanges DEF Filled, MarkResolved
  <2>g. /\ DOMAIN regions' = DOMAIN regions
        /\ \A k \in DOMAIN regions : /\ regions'[k].descriptor = regions[k].descriptor
                                     /\ regions'[k].mappings = regions[k].mappings
    BY <2>f DEF Added
  <2>u. ASSUME NEW b \in Client
        PROVE  RequestedAt(b)' /\ AnsweredAt(b)'
    <3>1. /\ UNCHANGED <<destroyed, server_open, requests, replies, conn_state>>
          /\ UNCHANGED <<client, creating, descriptor, handle>>
          /\ Active(b)' => Active(b) /\ epoll'[b] = epoll[b]
      BY <1>25 DEF Filled, At, Goto
    <3>2. /\ \A x \in Descriptor : HasRegion(x) => HasRegion(x)'
          /\ \A x \in Handle : Listed(x) => Listed(x)'
      BY <2>g DEF HasRegion, Listed
    <3>3. OutOfStep(b) => OutOfStep(b)'
      BY <3>1 DEF OutOfStep
    <3> QED
      BY <3>1, <3>2, <3>3, StaysUnderWay
  <2>1. Types' /\ Channels' /\ Locks' /\ Endings' /\ OneRegionPerDescriptor' /\
     CopiesAreWhole' /\ Exchange' /\ Creations'
    BY <1>25, <2>e, <2>f DEF Filled, Added, At, Goto, Channels, Locks, Endings,
       OneRegionPerDescriptor, CopiesAreWhole, Exchange, Creations
  <2>2. Refusals'
    BY <1>25, <2>e, <2>f DEF Filled, Added, At, Goto, Refusals, OutOfStep
  <2>3. Works'
    <3>1. /\ \A b \in Client : b # c => run'[b] = run[b] /\ run[b] \notin Holding
          /\ run'[c] = "fill" /\ UNCHANGED work
      BY <1>25, <2>e DEF Filled, Goto, Locks
    <3>2. \A b \in Client : run[b] \in Serving => Unresolved(b)' \subseteq Unresolved(b)
      BY <2>f, <3>1 DEF Works, Unresolved, Added
    <3> QED
      BY <2>e, <2>g, <3>1, <3>2 DEF Works
  <2>4. Derivations'
    <3>1. /\ \A b \in Client : run[b] = "filling" => b = c
          /\ UNCHANGED <<destroyed, derived>>
      BY <1>25 DEF Filled, At, Locks
    <3>2. \A j \in DOMAIN regions, i \in Chunk : Deriving(j, i) => Deriving(j, i)'
      BY <2>e, <2>f, <3>1 DEF Deriving, Added
    <3>3. /\ DOMAIN regions' = DOMAIN regions
          /\ \A j \in DOMAIN regions : regions'[j].descriptor = regions[j].descriptor
      BY <2>f DEF Added
    <3>4. ASSUME NEW x \in Descriptor, NEW i \in Chunk, derived[x][i] = 1, ~destroyed
          PROVE  \E j \in DOMAIN regions : regions[j].descriptor = x /\ Deriving(j, i)'
      <4>1. PICK j \in DOMAIN regions : regions[j].descriptor = x /\ Deriving(j, i)
        BY <3>4 DEF Derivations
      <4> QED
        BY <3>2, <4>1
    <3>5. \A x \in Descriptor, i \in Chunk : derived[x][i] \in {0, 1}
      BY DEF Derivations
    <3> QED
      BY <3>1, <3>3, <3>4, <3>5 DEF Derivations
  <2>5. Requested'
    BY <2>u DEF Requested
  <2>6. Answered'
    BY <2>u DEF Answered
  <2>7. Mappings'
    <3>1. /\ UNCHANGED <<handle, descriptor, epoll>>
          /\ run' = [run EXCEPT ![c] = "fill"] /\ run[c] = "filling"
      BY <1>25 DEF Filled, At, Goto
    <3>2. \A b \in Client : (Active(b)' <=> Active(b)) /\ (run'[b] = "new" <=> run[b] = "new")
      BY <3>1
    <3>3. \A x \in Handle : Listed(x) => Listed(x)'
      BY <2>g DEF Listed
    <3>4. \A x \in Handle : Served(x) => Served(x)'
      BY <3>1, <3>2, <3>3 DEF Served
    <3> QED
      BY <2>g, <3>1, <3>2, <3>4 DEF Mappings
  <2> QED
    BY <2>1, <2>2, <2>3, <2>4, <2>5, <2>6, <2>7
<1>26. ASSUME NEW c \in Client, UnlockServer(c)
      PROVE  IInv'
  <2>1. Types' /\ Channels' /\ Locks' /\ Endings' /\ OneRegionPerDescriptor' /\
     CopiesAreWhole' /\ Exchange' /\ Creations'
    BY <1>26 DEF UnlockServer, ReleaseServer, At, Goto, Channels, Locks,
       Endings, OneRegionPerDescriptor, CopiesAreWhole, Exchange, Creations
  <2>2. Works' /\ Mappings' /\ Refusals'
    BY <1>26 DEF UnlockServer, ReleaseServer, At, Goto, Works, Unresolved,
       HasRegion, Mappings, Served, Listed, Refusals, OutOfStep
  <2>3. Requested' /\ Answered'
    BY <1>26 DEF UnlockServer, ReleaseServer, At, Goto, Requested, RequestedAt,
       HasRegion, OutOfStep, Answered, AnsweredAt, Served, Listed
  <2>4. Derivations'
    BY <1>26, StaysDerived DEF UnlockServer, ReleaseServer, At, Goto
  <2> QED
    BY <2>1, <2>2, <2>3, <2>4
<1>27. ASSUME NEW c \in Client, UFFDIO_COPY(c)
      PROVE  IInv'
  <2>e. /\ work[c] \in Fault /\ work[c].region \in DOMAIN regions
        /\ regions[work[c].region] \in ServerRegion
        /\ work[c].group \subseteq regions[work[c].region].resolved
    BY <1>27 DEF UFFDIO_COPY, At, Works, Unresolved
  <2>1. Channels' /\ Locks' /\ Endings' /\ OneRegionPerDescriptor' /\ Exchange'
     /\ Creations'
    BY <1>27, <2>e DEF UFFDIO_COPY, At, Goto, Channels, Locks, Endings,
       OneRegionPerDescriptor, Exchange, Creations
  <2>2. Works' /\ Mappings' /\ Refusals'
    BY <1>27, <2>e DEF UFFDIO_COPY, At, Goto, Works, Unresolved, HasRegion,
       Mappings, Served, Listed, Refusals, OutOfStep
  <2>3. Requested' /\ Answered'
    BY <1>27, <2>e DEF UFFDIO_COPY, At, Goto, Requested, RequestedAt, HasRegion,
       OutOfStep, Answered, AnsweredAt, Served, Listed
  <2>4. Types'
    <3>1. bytes' \in [Handle -> SUBSET Chunk]
      <4>1. /\ work[c].uffd \in Handle
            /\ work[c].group \cap regions[work[c].region].resolved \subseteq Chunk
        BY <2>e DEF Fault, ServerRegion
      <4> QED
        BY <1>27, <4>1 DEF UFFDIO_COPY
    <3>2. /\ present' \in [Handle -> SUBSET Group] /\ blocked' \in [Handle -> SUBSET Group]
          /\ pending' \in [Handle -> SUBSET Group] /\ lost' \in [Handle -> SUBSET Group]
      BY <1>27, <2>e, CopyTypes
    <3> QED
      BY <1>27, <3>1, <3>2 DEF UFFDIO_COPY, At, Goto
  <2>5. Derivations'
    BY <1>27, StaysDerived DEF UFFDIO_COPY, At, Goto
  <2>6. CopiesAreWhole'
    <3>1. work[c].uffd \in Handle
      BY <2>e DEF Fault
    <3>2. ASSUME NEW h \in Handle, NEW g \in present'[h]
          PROVE  g \subseteq bytes'[h]
      <4>1. CASE g \in present[h]
        <5>1. bytes[h] \subseteq bytes'[h]
          BY <1>27, <3>1 DEF UFFDIO_COPY
        <5> QED
          BY <4>1, <5>1 DEF CopiesAreWhole
      <4>2. CASE g \notin present[h]
        <5>1. h = work[c].uffd /\ g = work[c].group
          BY <1>27, <3>1, <4>2 DEF UFFDIO_COPY
        <5>2. bytes'[h] = bytes[h] \cup (g \cap regions[work[c].region].resolved)
          BY <1>27, <3>1, <4>2, <5>1 DEF UFFDIO_COPY
        <5> QED
          BY <2>e, <5>1, <5>2
      <4> QED
        BY <4>1, <4>2
    <3> QED
      BY <3>2 DEF CopiesAreWhole
  <2> QED
    BY <2>1, <2>2, <2>3, <2>4, <2>5, <2>6
<1>28. ASSUME NEW c \in Client, BatchDone(c)
      PROVE  IInv'
  <2>u. ASSUME NEW b \in Client
        PROVE  RequestedAt(b)' /\ AnsweredAt(b)'
    <3>1. /\ UNCHANGED <<destroyed, server_open, requests, replies, conn_state>>
          /\ UNCHANGED <<client, creating, descriptor, handle>>
          /\ Active(b)' => Active(b) /\ epoll'[b] = epoll[b]
      BY <1>28 DEF BatchDone, At, Goto
    <3>2. /\ \A x \in Descriptor : HasRegion(x) => HasRegion(x)'
          /\ \A x \in Handle : Listed(x) => Listed(x)'
      BY <1>28 DEF BatchDone, At, Goto, HasRegion, Listed
    <3>3. OutOfStep(b) => OutOfStep(b)'
      BY <3>1 DEF OutOfStep
    <3> QED
      BY <3>1, <3>2, <3>3, StaysUnderWay
  <2>1. Types' /\ Channels' /\ Locks' /\ Endings' /\ OneRegionPerDescriptor' /\
     CopiesAreWhole' /\ Exchange' /\ Creations'
    BY <1>28 DEF BatchDone, At, Goto, Channels, Locks, Endings,
       OneRegionPerDescriptor, CopiesAreWhole, Exchange, Creations
  <2>2. Works' /\ Mappings' /\ Refusals'
    BY <1>28 DEF BatchDone, At, Goto, Works, Unresolved, HasRegion, Mappings,
       Served, Listed, Refusals, OutOfStep
  <2>3. Derivations'
    BY <1>28, StaysDerived DEF BatchDone, At, Goto
  <2>4. Requested'
    BY <2>u DEF Requested
  <2>5. Answered'
    BY <2>u DEF Answered
  <2> QED
    BY <2>1, <2>2, <2>3, <2>4, <2>5
<1>29. ASSUME fc_server_stop
      PROVE  IInv'
  <2>1. Types' /\ Channels' /\ Locks' /\ Endings' /\ OneRegionPerDescriptor' /\
     CopiesAreWhole' /\ Exchange' /\ Creations'
    BY <1>29 DEF fc_server_stop, Channels, Locks, Endings,
       OneRegionPerDescriptor, CopiesAreWhole, Exchange, Creations
  <2>2. Works' /\ Mappings' /\ Refusals'
    BY <1>29 DEF fc_server_stop, Works, Unresolved, HasRegion, Mappings, Served,
       Listed, Refusals, OutOfStep
  <2>3. Requested' /\ Answered'
    BY <1>29 DEF fc_server_stop, Requested, RequestedAt, HasRegion, OutOfStep,
       Answered, AnsweredAt, Served, Listed
  <2>4. Derivations'
    BY <1>29, StaysDerived DEF fc_server_stop
  <2> QED
    BY <2>1, <2>2, <2>3, <2>4
<1>30. ASSUME fc_server_destroy
      PROVE  IInv'
  <2>1. Types' /\ Channels' /\ Locks' /\ Endings' /\ OneRegionPerDescriptor' /\
     Derivations' /\ CopiesAreWhole' /\ Exchange' /\ Creations'
    BY <1>30 DEF fc_server_destroy, Channels, Locks, Endings,
       OneRegionPerDescriptor, Derivations, CopiesAreWhole, Exchange, Creations
  <2>2. Works' /\ Mappings' /\ Refusals'
    BY <1>30 DEF fc_server_destroy, Works, Unresolved, HasRegion, Mappings,
       Served, Listed, Refusals, OutOfStep
  <2>3. Requested' /\ Answered'
    BY <1>30 DEF fc_server_destroy, Requested, RequestedAt, HasRegion,
       OutOfStep, Exchange, Answered, Served, AnsweredAt
  <2> QED
    BY <2>1, <2>2, <2>3
<1>31. ASSUME NEW c \in Client, CloseConnection(c)
      PROVE  IInv'
  <2>1. Types' /\ Channels' /\ Locks' /\ Endings' /\ OneRegionPerDescriptor' /\
     CopiesAreWhole' /\ Exchange' /\ Creations'
    BY <1>31 DEF CloseConnection, At, Channels, Locks, Endings,
       OneRegionPerDescriptor, CopiesAreWhole, Exchange, Creations
  <2>2. Works' /\ Mappings' /\ Refusals'
    BY <1>31 DEF CloseConnection, At, Works, Unresolved, HasRegion, Mappings,
       Served, Listed, Refusals, OutOfStep
  <2>3. Requested' /\ Answered'
    BY <1>31 DEF CloseConnection, At, Requested, RequestedAt, HasRegion,
       OutOfStep, Answered, AnsweredAt, Served, Listed
  <2>4. Derivations'
    BY <1>31, StaysDerived DEF CloseConnection, At
  <2> QED
    BY <2>1, <2>2, <2>3, <2>4
<1>32. CASE UNCHANGED vars
  <2> USE <1>32 DEF vars
  <2>1. Types' /\ Channels' /\ Locks' /\ Endings'
    BY DEF Channels, Locks, Endings
  <2>2. Works' /\ OneRegionPerDescriptor' /\ CopiesAreWhole'
    BY DEF Works, HasRegion, Unresolved, OneRegionPerDescriptor, CopiesAreWhole
  <2>6. Derivations'
    BY StaysDerived
  <2>3. Exchange' /\ Creations'
    BY DEF Exchange, Creations
  <2>4. Requested' /\ Answered'
    BY DEF Requested, RequestedAt, Answered, AnsweredAt, OutOfStep, HasRegion, Served, Listed
  <2>5. Mappings' /\ Refusals'
    BY DEF Mappings, Served, Listed, Refusals, OutOfStep
  <2> QED
    BY <2>1, <2>2, <2>3, <2>4, <2>5, <2>6
<1> QED
  BY <1>1, <1>2, <1>3, <1>4, <1>5, <1>6, <1>7, <1>8, <1>9, <1>10, <1>11, <1>12,
     <1>13, <1>14, <1>15, <1>16, <1>17, <1>18, <1>19, <1>20, <1>21, <1>22,
     <1>23, <1>24, <1>25, <1>26, <1>27, <1>28, <1>29, <1>30, <1>31, <1>32,
     ResolveHandled, RegionCreated, AttachHandled, DescriptorSent, AttachSent, AttachAnswered
     DEF Next, RunStep, ClientStep

(* The invariant holds when a server has been created and its clients have *)
(* connected.                                                              *)
LEMMA InitIInv == Init => IInv
<1> SUFFICES ASSUME Init PROVE IInv
  OBVIOUS
<1>1. Types
  <2>1. regions \in Seq(ServerRegion) /\ derived \in [Descriptor -> [Chunk -> Nat]]
    BY DEF Init
  <2>2. /\ ending \in [Client -> BOOLEAN] /\ client_open \in [Client -> BOOLEAN]
        /\ server_open \in [Client -> BOOLEAN]
        /\ stop_fd \in BOOLEAN /\ destroyed \in BOOLEAN
    BY Zenon DEF Init
  <2> QED
    BY <2>1, <2>2 DEF Init, Types, Labels, Holding, Serving
<1>2. Channels /\ Locks /\ Endings /\ Works
  BY RemoteAssumption
     DEF Init, Channels, AtMostOne, Locks, Holding, Endings, Active, Works, Serving
<1>3. OneRegionPerDescriptor /\ Derivations /\ CopiesAreWhole
  BY DEF Init, OneRegionPerDescriptor, Derivations, CopiesAreWhole
<1>4. Exchange /\ Creations /\ Requested /\ Answered
  BY DEF Init, Exchange, Creations, Requested, RequestedAt, Answered, AnsweredAt
<1>5. Mappings /\ Refusals
  BY DEF Init, Mappings, Refusals
<1> QED
  BY <1>1, <1>2, <1>3, <1>4, <1>5 DEF IInv

-----------------------------------------------------------------------------
(* The theorems.                                                           *)

(* The inductive invariant holds in every reachable state.                 *)
THEOREM Invariance == Spec => []IInv
BY InitIInv, StepKeepsIInv, PTL DEF Spec

(* Every variable keeps its type, and server->lock is held exactly by the  *)
(* thread in the factory or between filling and copying.                   *)
THEOREM TypeCorrect == Spec => []TypeOK
<1>1. IInv => TypeOK
  <2> SUFFICES ASSUME IInv PROVE TypeOK
    OBVIOUS
  <2>1. \A i \in DOMAIN regions : regions[i] \in ServerRegion
    BY DEF IInv, Types
  <2>2. \A i \in DOMAIN regions :
            regions[i].descriptor \in Descriptor /\ regions[i].resolved \subseteq Chunk
    BY <2>1 DEF ServerRegion
  <2> QED
    BY <2>2 DEF IInv, Types, Locks, Holding, TypeOK
<1> QED
  BY <1>1, Invariance, PTL

(* However many connections resolve a descriptor at the same time, the     *)
(* server makes one region for it: create_region() runs with server->lock  *)
(* held since find_region() found none.                                    *)
THEOREM OneRegion == Spec => []OneRegionPerDescriptor
<1>1. IInv => OneRegionPerDescriptor
  BY DEF IInv
<1> QED
  BY <1>1, Invariance, PTL

(* fill_chunk() runs at most once for each chunk of a descriptor, however  *)
(* many clients and groups need the chunk.                                 *)
THEOREM EachChunkDerivedOnce == Spec => []DerivedOnce
<1>1. IInv => DerivedOnce
  BY DEF IInv, Derivations, DerivedOnce
<1> QED
  BY <1>1, Invariance, PTL

(* UFFDIO_COPY only ever hands out groups whose chunks all have their      *)
(* bytes, although it runs after server->lock is released.                 *)
THEOREM CopiesWhole == Spec => []CopiesAreWhole
<1>1. IInv => CopiesAreWhole
  BY DEF IInv
<1> QED
  BY <1>1, Invariance, PTL

(* A client region in use is watched by its connection's thread and listed *)
(* under its own descriptor, for as long as that thread runs.              *)
THEOREM LiveRegionsServed == Spec => []LiveIsServed
<1>1. IInv => LiveIsServed
  <2> SUFFICES ASSUME IInv, NEW h \in Handle, handle[h] = "live", Active(ClientOf[h])
               PROVE  /\ h \in epoll[ClientOf[h]]
                      /\ \A i \in DOMAIN regions :
                           h \in regions[i].mappings <=> regions[i].descriptor = descriptor[h]
    BY DEF LiveIsServed
  <2>1. /\ h \in epoll[ClientOf[h]] /\ Listed(h)
        /\ \A i \in DOMAIN regions :
             h \in regions[i].mappings => regions[i].descriptor = descriptor[h]
    BY DEF IInv, Mappings, Served
  <2> QED
    BY <2>1 DEF IInv, Listed, OneRegionPerDescriptor
<1> QED
  BY <1>1, Invariance, PTL

(* A good descriptor is refused only on a connection that is not served    *)
(* any more, or after a layout that did not fit a message.                 *)
THEOREM RefusalsExplained == Spec => []RefusedOnlyAfterOversized
<1>1. IInv => RefusedOnlyAfterOversized
  BY DEF IInv, Refusals, OutOfStep, RefusedOnlyAfterOversized
<1> QED
  BY <1>1, Invariance, PTL

-----------------------------------------------------------------------------
(* Clients and server implement SharedContent.                             *)

\* A region in use has a descriptor, only such a region shows pages or is waited
\* for, and a fault message is about a group that was touched ...
Touched(h) ==
    /\ handle[h] = "live" => descriptor[h] \in Descriptor
    /\ handle[h] # "live" => present[h] = {} /\ blocked[h] = {}
    /\ pending[h] \subseteq blocked[h] \cup present[h]

\* ... as is what a thread serves, in a mapping of the region it has looked up.
ServesTouch(c) ==
    run[c] \in Serving =>
        /\ work[c].uffd \in regions[work[c].region].mappings
        /\ handle[work[c].uffd] \in {"live", "destroyed"}
        /\ handle[work[c].uffd] = "live" /\ client_open[ClientOf[work[c].uffd]] =>
               work[c].group \in blocked[work[c].uffd] \cup present[work[c].uffd]

Waits ==
    /\ \A c \in Client : client_open[c] <=> client[c] \notin {"exited", "aborted"}
    /\ \A h \in Handle : Touched(h)
    /\ \A c \in Client : ServesTouch(c)

\* The step neither touches the clients' regions nor derives anything.
Quiet ==
    /\ UNCHANGED <<client, client_open, handle, descriptor, present, blocked, destroyed>>
    /\ \A h \in Handle : pending'[h] \subseteq pending[h]
    /\ \A b \in Client : run'[b] \in Serving => run[b] \in Serving /\ work'[b] = work[b]
    /\ \A k \in DOMAIN regions :
         /\ k \in DOMAIN regions' /\ regions'[k].descriptor = regions[k].descriptor
         /\ regions'[k].resolved = regions[k].resolved
         /\ regions[k].mappings \subseteq regions'[k].mappings
    /\ \A k \in DOMAIN regions' : k \in DOMAIN regions \/ regions'[k].resolved = {}

(* A new server with its clients is an initial state of SharedContent.     *)
LEMMA ContractInit == Init => Contract!Init
<1> SUFFICES ASSUME Init PROVE Contract!Init
  OBVIOUS
<1>1. \A h \in Handle : ~Opened(h)
  BY DEF Init, Opened
<1>2. OpenedFor = [h \in Handle |-> None]
  BY <1>1 DEF OpenedFor
<1>3. Shown = [h \in Handle |-> {}] /\ Waiting = [h \in Handle |-> {}]
  BY <1>1 DEF Shown, Waiting
<1>4. Content = [d \in Descriptor |-> {}]
  BY DEF Init, Content
<1> QED
  BY <1>2, <1>3, <1>4 DEF Init, Contract!Init

(* Nobody waits and nothing is shown at first.                             *)
LEMMA InitWaits == Init => Waits
  BY DEF Init, Waits, Touched, ServesTouch, Serving

(* The content of a descriptor is what its regions have resolved.          *)
LEMMA ContentIs ==
    ASSUME NEW d \in Descriptor, NEW x
    PROVE  /\ x \in Content[d] <=>
                \E k \in DOMAIN regions : regions[k].descriptor = d /\ x \in regions[k].resolved
           /\ x \in Content'[d] <=>
                \E k \in DOMAIN regions' : regions'[k].descriptor = d /\ x \in regions'[k].resolved
  BY DEF Content

(* A thread that goes on serving a touch does so unless the region is      *)
(* closed, as long as nothing that is waited for or shown disappears.      *)
LEMMA StillServes ==
    ASSUME IInv, Waits,
           \A b \in Client : run'[b] \in Serving => run[b] \in Serving /\ work'[b] = work[b],
           \A k \in DOMAIN regions : regions[k].mappings \subseteq regions'[k].mappings,
           \A h \in Handle : handle[h] \in {"live", "destroyed"} =>
               /\ handle'[h] \in {"live", "destroyed"}
               /\ handle'[h] = "live" /\ client_open'[ClientOf[h]] =>
                    /\ handle[h] = "live" /\ client_open[ClientOf[h]]
                    /\ blocked[h] \cup present[h] \subseteq blocked'[h] \cup present'[h]
    PROVE  \A c \in Client : ServesTouch(c)'
<1> SUFFICES ASSUME NEW c \in Client, run'[c] \in Serving PROVE ServesTouch(c)'
  BY DEF ServesTouch
<1>1. PICK i \in DOMAIN regions, h \in Handle, g \in Group :
          /\ run[c] \in Serving /\ work'[c] = work[c]
          /\ work[c].region = i /\ work[c].uffd = h /\ work[c].group = g
  BY DEF IInv, Works, Fault
<1>2. ServesTouch(c)
  BY DEF Waits
<1> QED
  BY <1>1, <1>2 DEF ServesTouch

(* A quiet step keeps what is waited for, and SharedContent does not see   *)
(* it.                                                                     *)
LEMMA QuietStep ==
    ASSUME IInv, Waits, Quiet
    PROVE  Waits' /\ UNCHANGED Contract!vars
<1>1. Waits'
  <2>1. \A c \in Client : ServesTouch(c)'
    BY StillServes DEF Quiet
  <2>2. \A h \in Handle : Touched(h)'
    BY DEF Quiet, Waits, Touched
  <2> QED
    BY <2>1, <2>2 DEF Quiet, Waits
<1>2. OpenedFor' = OpenedFor /\ Shown' = Shown /\ Waiting' = Waiting
  BY DEF Quiet, OpenedFor, Shown, Waiting, Opened
<1>3. ASSUME NEW d \in Descriptor
      PROVE  Content'[d] = Content[d]
  <2>1. ASSUME NEW x PROVE x \in Content'[d] <=> x \in Content[d]
    <3>1. x \in Content[d] <=>
            \E k \in DOMAIN regions : regions[k].descriptor = d /\ x \in regions[k].resolved
      BY ContentIs
    <3>2. x \in Content'[d] <=>
            \E k \in DOMAIN regions' : regions'[k].descriptor = d /\ x \in regions'[k].resolved
      BY ContentIs
    <3> QED
      BY <3>1, <3>2 DEF Quiet
  <2> QED
    BY <2>1
<1>4. Content' = Content
  BY <1>3 DEF Content
<1> QED
  BY <1>1, <1>2, <1>4 DEF Quiet, Contract!vars

(* Closing regions, and steps of a client that change no open one.         *)
LEMMA Closes ==
    ASSUME NEW S \in SUBSET Handle, UNCHANGED <<regions, destroyed>>,
           \A h \in S : ~Opened(h)',
           \A h \in Handle \ S :
               /\ Opened(h)' <=> Opened(h)
               /\ Opened(h) => /\ descriptor'[h] = descriptor[h]
                               /\ present'[h] = present[h] /\ blocked'[h] = blocked[h]
    PROVE  Contract!Next
<1>1. OpenedFor' = [h \in Handle |-> IF h \in S THEN None ELSE OpenedFor[h]]
  BY DEF OpenedFor
<1>2. Shown' = [h \in Handle |-> IF h \in S THEN {} ELSE Shown[h]]
  BY DEF Shown
<1>3. Waiting' = [h \in Handle |-> IF h \in S THEN {} ELSE Waiting[h]]
  BY DEF Waiting
<1>4. Content' = Content
  BY DEF Content
<1>5. Contract!Close(S)
  BY <1>1, <1>2, <1>3, <1>4 DEF Contract!Close
<1> QED
  BY <1>5 DEF Contract!Next

(* The steps of the server's threads that do not fill or copy, and those   *)
(* of its host.                                                            *)
LEMMA QuietSteps ==
    ASSUME IInv, NEW c \in Client,
           \/ epoll_wait(c) \/ SeesStop(c) \/ Disconnected(c) \/ handle_resolve(c)
           \/ create_region(c) \/ handle_attach(c) \/ LockServer(c) \/ fill_chunk(c)
           \/ UnlockServer(c) \/ BatchDone(c) \/ fc_server_run(c) \/ CloseConnection(c)
    PROVE  Quiet
<1> USE DEF shared, ender, loop, socket, caller, memory, Goto, At, Event
<1>t. /\ run \in [Client -> Labels] /\ work \in [Client -> Descriptor \cup Fault \cup {None}]
      /\ regions \in Seq(ServerRegion)
  BY DEF IInv, Types
<1>1. CASE epoll_wait(c) \/ SeesStop(c) \/ Disconnected(c) \/ BatchDone(c)
  BY <1>1, <1>t DEF epoll_wait, SeesStop, Disconnected, BatchDone, Quiet, Serving
<1>2. CASE LockServer(c) \/ fill_chunk(c) \/ UnlockServer(c)
  BY <1>2, <1>t DEF LockServer, fill_chunk, UnlockServer, Quiet, Serving
<1>3. CASE fc_server_run(c) \/ CloseConnection(c)
  BY <1>3, <1>t DEF fc_server_run, CloseConnection, Quiet, Serving
<1>4. CASE AnswersKnown(c) \/ AsksFactory(c) \/ RefusesAttach(c) \/ RejectsDescriptor(c)
  BY <1>4, <1>t DEF AnswersKnown, AsksFactory, RefusesAttach, RejectsDescriptor, TakesRequest,
                    LeavesFactory, Quiet, Serving
<1>5. CASE MakesRegion(c)
  <2>1. /\ DOMAIN regions' = DOMAIN regions \cup {Len(regions) + 1}
        /\ \A k \in DOMAIN regions : regions'[k] = regions[k]
        /\ regions'[Len(regions) + 1].resolved = {}
    BY <1>5, <1>t, RegionMade DEF MakesRegion, LeavesFactory, Creates
  <2> QED
    BY <1>5, <1>t, <2>1 DEF MakesRegion, LeavesFactory, Quiet, Serving
<1>6. CASE Attaches(c)
  <2>1. PICK i \in DOMAIN regions : Added(i, {}, {creating[c]})
    BY <1>6 DEF Attaches
  <2> QED
    BY <1>6, <1>t, <2>1 DEF Attaches, TakesRequest, Added, Quiet, Serving
<1> QED
  BY <1>1, <1>2, <1>3, <1>4, <1>5, <1>6, ResolveHandled, RegionCreated, AttachHandled

\* What every step owes to SharedContent.
Implements == Waits' /\ (Contract!Next \/ UNCHANGED Contract!vars)

(* The client's side of a handshake, and the death of a client.            *)
LEMMA ClientCreates ==
    ASSUME IInv, Waits, NEW c \in Client,
           \/ send_attach(c) \/ pool_add(c) \/ Exit(c)
           \/ \E h \in Handle, d \in Descriptor : resolve_descriptor(c, h, d)
    PROVE  Implements
<1> USE DEF shared, ender, loop, memory
<1>t. /\ ClientOf \in [Handle -> Client] /\ None \notin Client \cup Handle \cup Descriptor
      /\ handle \in [Handle -> {"unused", "creating", "failed", "live", "destroyed"}]
      /\ client \in [Client -> {"idle", "resolving", "attaching", "exited", "aborted"}]
      /\ client_open \in [Client -> BOOLEAN]
      /\ descriptor \in [Handle -> Descriptor \cup {None}]
  BY RemoteAssumption DEF IInv, Types
<1>w. /\ \A b \in Client : client_open[b] <=> client[b] \notin {"exited", "aborted"}
      /\ \A h \in Handle : Touched(h)
  BY DEF Waits
<1>1. ASSUME NEW h \in Handle, handle[h] \in {"unused", "creating"},
             handle' = [handle EXCEPT ![h] = "creating"]
             \/ handle' = [handle EXCEPT ![h] = "failed"] \/ UNCHANGED handle,
             client' = [client EXCEPT ![c] = "idle"]
             \/ client' = [client EXCEPT ![c] = "resolving"]
             \/ client' = [client EXCEPT ![c] = "attaching"],
             client[c] \in {"idle", "resolving", "attaching"},
             \A x \in Handle \ {h} : descriptor'[x] = descriptor[x],
             UNCHANGED <<regions, run, work, destroyed, client_open, present, blocked, pending>>
      PROVE  Implements
  <2>1. \A b \in Client : client_open'[b] <=> client'[b] \notin {"exited", "aborted"}
    BY <1>1, <1>t, <1>w
  <2>2. \A x \in Handle : Touched(x)'
    BY <1>1, <1>t, <1>w DEF Touched
  <2>3. \A b \in Client : ServesTouch(b)'
    BY <1>1, <1>t, StillServes
  <2>4. \A x \in Handle : /\ Opened(x)' <=> Opened(x)
                          /\ Opened(x) => descriptor'[x] = descriptor[x]
    BY <1>1, <1>t DEF Opened
  <2>5. Contract!Next
    <3>1. {} \in SUBSET Handle /\ UNCHANGED <<regions, destroyed>>
      BY <1>1
    <3>2. /\ \A x \in {} : ~Opened(x)'
          /\ \A x \in Handle \ {} :
               /\ Opened(x)' <=> Opened(x)
               /\ Opened(x) => /\ descriptor'[x] = descriptor[x]
                               /\ present'[x] = present[x] /\ blocked'[x] = blocked[x]
      BY <1>1, <2>4
    <3> QED
      BY <3>1, <3>2, Closes
  <2> QED
    BY <2>1, <2>2, <2>3, <2>5 DEF Waits, Implements
<1>2. ASSUME NEW how \in {"exited", "aborted"}, Dies(c, how),
             UNCHANGED <<regions, run, work, destroyed, present>>,
             \A x \in Handle : handle[x] \notin {"unused", "creating"} =>
                 handle'[x] = handle[x] /\ descriptor'[x] = descriptor[x],
             \A x \in Handle : handle[x] \in {"unused", "creating"} =>
                 handle'[x] \in {"unused", "creating"}
      PROVE  Implements
  <2> DEFINE S == {x \in Handle : ClientOf[x] = c}
  <2>1. /\ client' = [client EXCEPT ![c] = how]
        /\ client_open' = [client_open EXCEPT ![c] = FALSE]
        /\ \A x \in Handle : /\ blocked'[x] = IF ClientOf[x] = c THEN {} ELSE blocked[x]
                             /\ pending'[x] = IF ClientOf[x] = c THEN {} ELSE pending[x]
    BY <1>2 DEF Dies
  <2>2. \A b \in Client : client_open'[b] <=> client'[b] \notin {"exited", "aborted"}
    BY <1>2, <1>t, <1>w, <2>1
  <2>3. \A x \in Handle : Touched(x)'
    BY <1>2, <1>t, <1>w, <2>1 DEF Touched
  <2>4. \A b \in Client : ServesTouch(b)'
    BY <1>2, <1>t, <2>1, StillServes
  <2>5. /\ \A x \in S : ~Opened(x)'
        /\ \A x \in Handle \ S :
             /\ Opened(x)' <=> Opened(x)
             /\ Opened(x) => /\ descriptor'[x] = descriptor[x]
                             /\ present'[x] = present[x] /\ blocked'[x] = blocked[x]
    BY <1>2, <1>t, <2>1 DEF Opened
  <2>6. Contract!Next
    BY <1>2, <2>5, Closes
  <2> QED
    BY <2>2, <2>3, <2>4, <2>6 DEF Waits, Implements
<1>3. ASSUME NEW h \in Handle, NEW d \in Descriptor, resolve_descriptor(c, h, d)
      PROVE  Implements
  <2>1. CASE RefusesTooLong(c, h, d) \/ SendsResolve(c, h, d)
    BY <1>1, <1>t, <2>1 DEF RefusesTooLong, SendsResolve, StartsCreating, Refused
  <2>2. CASE AbortsResolve(c, h, d)
    BY <1>2, <1>t, <2>2 DEF AbortsResolve, StartsCreating
  <2> QED
    BY <1>3, <2>1, <2>2, DescriptorSent
<1>4. CASE LearnsRefusal(c) \/ SendsAttach(c)
  BY <1>1, <1>t, <1>4 DEF LearnsRefusal, SendsAttach, TakesAnswer, Creates, Refused
<1>5. CASE AbortsAttach(c)
  BY <1>2, <1>t, <1>5 DEF AbortsAttach, TakesAnswer
<1>6. CASE Exit(c)
  BY <1>2, <1>t, <1>6 DEF Exit
<1>7. CASE AddsToPool(c)
  <2>1. PICK h \in Handle : h = creating[c]
    BY <1>7 DEF AddsToPool, TakesAnswer, Creates
  <2>2. /\ handle[h] = "creating" /\ ClientOf[h] = c /\ descriptor[h] \in Descriptor
        /\ handle' = [handle EXCEPT ![h] = "live"]
        /\ client[c] = "attaching" /\ client' = [client EXCEPT ![c] = "idle"]
        /\ UNCHANGED <<regions, run, work, destroyed, client_open, descriptor, present,
                       blocked, pending>>
    BY <1>7, <2>1 DEF AddsToPool, TakesAnswer, Creates, Wanted
  <2>3. \A b \in Client : client_open'[b] <=> client'[b] \notin {"exited", "aborted"}
    BY <1>t, <1>w, <2>2
  <2>4. \A x \in Handle : Touched(x)'
    BY <1>t, <1>w, <2>2 DEF Touched
  <2>5. \A b \in Client : ServesTouch(b)'
    BY <1>t, <2>2, StillServes
  <2>6. /\ ~Opened(h) /\ Opened(h)' /\ present[h] = {} /\ blocked[h] = {}
        /\ \A x \in Handle \ {h} : Opened(x)' <=> Opened(x)
    BY <1>t, <1>w, <2>2 DEF Opened, Touched
  <2>7. OpenedFor[h] = None /\ OpenedFor' = [OpenedFor EXCEPT ![h] = descriptor[h]]
    BY <2>2, <2>6 DEF OpenedFor
  <2>8. Shown' = Shown /\ Waiting' = Waiting /\ Content' = Content
    BY <2>2, <2>6 DEF Shown, Waiting, Content
  <2>9. Contract!Open(h, descriptor[h])
    BY <2>2, <2>7, <2>8 DEF Contract!Open
  <2> QED
    BY <2>2, <2>3, <2>4, <2>5, <2>9 DEF Waits, Implements, Contract!Next
<1> QED
  BY <1>3, <1>4, <1>5, <1>6, <1>7, AttachSent, AttachAnswered

(* Reading a client region, and destroying some.                           *)
LEMMA ClientReads ==
    ASSUME IInv, Waits,
           \/ \E h \in Handle, g \in Group : Touch(h, g)
           \/ \E h \in Handle : fc_client_region_destroy(h)
           \/ \E c \in Client : fc_client_pool_destroy(c)
    PROVE  Implements
<1> USE DEF shared, ender, loop, caller, socket
<1>t. /\ ClientOf \in [Handle -> Client] /\ None \notin Client \cup Handle \cup Descriptor
      /\ handle \in [Handle -> {"unused", "creating", "failed", "live", "destroyed"}]
      /\ present \in [Handle -> SUBSET Group] /\ blocked \in [Handle -> SUBSET Group]
      /\ pending \in [Handle -> SUBSET Group]
  BY RemoteAssumption DEF IInv, Types
<1>w. /\ \A b \in Client : client_open[b] <=> client[b] \notin {"exited", "aborted"}
      /\ \A h \in Handle : Touched(h)
  BY DEF Waits
<1>1. ASSUME NEW h \in Handle, NEW g \in Group, Touch(h, g)
      PROVE  Implements
  <2>1. /\ Opened(h) /\ g \notin present[h]
        /\ blocked' = [blocked EXCEPT ![h] = @ \cup {g}]
        /\ pending' = [pending EXCEPT ![h] = @ \cup {g}]
        /\ UNCHANGED <<regions, run, work, destroyed, client, client_open, handle, descriptor,
                       present>>
    BY <1>1 DEF Touch, Opened
  <2>2. \A x \in Handle : Touched(x)'
    BY <1>t, <1>w, <2>1 DEF Touched, Opened
  <2>3. \A b \in Client : ServesTouch(b)'
    BY <1>t, <2>1, StillServes
  <2>4. \A x \in Handle : Opened(x)' <=> Opened(x)
    BY <2>1 DEF Opened
  <2>5. OpenedFor[h] # None
    BY <1>t, <1>w, <2>1 DEF OpenedFor, Opened, Touched
  <2>6. OpenedFor' = OpenedFor /\ Shown' = Shown /\ Content' = Content /\ g \notin Shown[h]
    BY <2>1, <2>4 DEF OpenedFor, Shown, Content
  <2>7. Waiting' = [Waiting EXCEPT ![h] = @ \cup {g}]
    BY <1>t, <2>1, <2>4 DEF Waiting
  <2>8. Contract!Touch(h, g)
    BY <2>1, <2>5, <2>6, <2>7 DEF Contract!Touch
  <2> QED
    BY <1>w, <2>1, <2>2, <2>3, <2>8 DEF Waits, Implements, Contract!Next
<1>2. ASSUME NEW S \in SUBSET Handle, \A h \in S : handle[h] = "live" /\ blocked[h] = {},
             \A h \in Handle :
                 /\ handle'[h] = IF h \in S THEN "destroyed" ELSE handle[h]
                 /\ present'[h] = IF h \in S THEN {} ELSE present[h]
                 /\ pending'[h] = IF h \in S THEN {} ELSE pending[h],
             UNCHANGED <<regions, run, work, destroyed, client, client_open, descriptor, blocked>>
      PROVE  Implements
  <2>1. \A x \in Handle : Touched(x)'
    BY <1>2, <1>w DEF Touched
  <2>2. \A b \in Client : ServesTouch(b)'
    BY <1>2, <1>t, StillServes
  <2>3. /\ \A h \in S : ~Opened(h)'
        /\ \A h \in Handle \ S : Opened(h)' <=> Opened(h)
    BY <1>2 DEF Opened
  <2>4. Contract!Next
    BY <1>2, <2>3, Closes
  <2> QED
    BY <1>2, <1>w, <2>1, <2>2, <2>4 DEF Waits, Implements
<1>3. ASSUME NEW h \in Handle, fc_client_region_destroy(h)
      PROVE  Implements
  <2>1. {h} \in SUBSET Handle
    OBVIOUS
  <2> QED
    BY <1>2, <1>3, <1>t, <2>1 DEF fc_client_region_destroy
<1>4. ASSUME NEW c \in Client, fc_client_pool_destroy(c)
      PROVE  Implements
  <2> DEFINE S == {h \in Handle : ClientOf[h] = c /\ handle[h] = "live"}
  <2>1. S \in SUBSET Handle
    OBVIOUS
  <2> QED
    BY <1>2, <1>4, <1>t, <2>1 DEF fc_client_pool_destroy
<1> QED
  BY <1>1, <1>3, <1>4

(* Taking a fault message, filling a chunk and copying a group.            *)
LEMMA ServerServes ==
    ASSUME IInv, Waits, NEW c \in Client,
           (\E h \in Handle : ReadFault(c, h)) \/ Filled(c) \/ UFFDIO_COPY(c)
    PROVE  Implements
<1> USE DEF shared, ender, caller, socket, memory, At, Event, Goto
<1>t. /\ ClientOf \in [Handle -> Client] /\ None \notin Client \cup Handle \cup Descriptor
      /\ handle \in [Handle -> {"unused", "creating", "failed", "live", "destroyed"}]
      /\ present \in [Handle -> SUBSET Group] /\ blocked \in [Handle -> SUBSET Group]
      /\ pending \in [Handle -> SUBSET Group]
      /\ run \in [Client -> Labels] /\ work \in [Client -> Descriptor \cup Fault \cup {None}]
      /\ regions \in Seq(ServerRegion)
  BY RemoteAssumption DEF IInv, Types
<1>w. /\ \A b \in Client : client_open[b] <=> client[b] \notin {"exited", "aborted"}
      /\ \A h \in Handle : Touched(h)
      /\ \A b \in Client : ServesTouch(b)
  BY DEF Waits
<1>q. Quiet => Implements
  BY QuietStep DEF Implements
<1>1. ASSUME NEW h \in Handle, ReadFault(c, h)
      PROVE  Implements
  <2>1. CASE UNCHANGED <<pending, work, run>>
    BY <1>1, <1>q, <2>1 DEF ReadFault, Quiet
  <2>2. ASSUME NEW i \in DOMAIN regions, NEW g \in pending[h], h \in regions[i].mappings,
               pending' = [pending EXCEPT ![h] = @ \ {g}],
               work' = [work EXCEPT ![c] = [region |-> i, uffd |-> h, group |-> g]],
               run' = [run EXCEPT ![c] = "lock"]
        PROVE  Implements
    <3> DEFINE w == [region |-> i, uffd |-> h, group |-> g]
    <3>1. w.region = i /\ w.uffd = h /\ w.group = g
      OBVIOUS
    <3>2. work' = [work EXCEPT ![c] = w]
      BY <2>2
    <3> HIDE DEF w
    <3>3. UNCHANGED <<regions, destroyed, client, client_open, handle, descriptor, present, blocked>>
      BY <1>1 DEF ReadFault
    <3>4. g \in blocked[h] \cup present[h] /\ handle[h] = "live"
      BY <1>t, <1>w, <2>2 DEF Touched
    <3>5. ServesTouch(c)'
      BY <1>t, <2>2, <3>1, <3>2, <3>3, <3>4 DEF ServesTouch
    <3>6. ASSUME NEW b \in Client \ {c} PROVE ServesTouch(b)'
      <4>1. run'[b] = run[b] /\ work'[b] = work[b]
        BY <1>t, <2>2
      <4> QED
        BY <1>w, <3>3, <4>1 DEF ServesTouch
    <3>7. \A x \in Handle : Touched(x)'
      BY <1>t, <1>w, <2>2, <3>3 DEF Touched
    <3>8. Waits'
      BY <1>w, <3>3, <3>5, <3>6, <3>7 DEF Waits
    <3>9. UNCHANGED Contract!vars
      BY <3>3 DEF Contract!vars, OpenedFor, Shown, Waiting, Content, Opened
    <3> QED
      BY <3>8, <3>9 DEF Implements
  <2> QED
    BY <1>1, <2>1, <2>2 DEF ReadFault
<1>2. CASE Filled(c)
  <2>1. /\ work[c] \in Fault /\ work[c].region \in DOMAIN regions /\ Unresolved(c) # {}
        /\ run[c] = "filling"
    BY <1>2 DEF Filled, IInv, Works, Serving
  <2>2. PICK i \in DOMAIN regions, n \in Chunk :
            /\ i = work[c].region /\ n = Min(Unresolved(c)) /\ n \notin regions[i].resolved
    BY <2>1, NextChunk DEF Unresolved
  <2>3. PICK d \in Descriptor : d = regions[i].descriptor
    <3>1. regions[i] \in ServerRegion
      BY <1>t
    <3> QED
      BY <3>1 DEF ServerRegion
  <2>4. Added(i, {n}, {})
    BY <1>2, <1>t, <2>2, RegionChanges DEF Filled, MarkResolved
  <2>5. /\ run' = [run EXCEPT ![c] = "fill"]
        /\ UNCHANGED <<work, destroyed, client, client_open, handle, descriptor, present,
                       blocked, pending>>
    BY <1>2 DEF Filled
  <2>6. \A b \in Client : ServesTouch(b)'
    <3>1. \A b \in Client : run'[b] \in Serving => run[b] \in Serving /\ work'[b] = work[b]
      BY <1>t, <2>1, <2>5 DEF Serving
    <3>2. \A k \in DOMAIN regions : regions[k].mappings \subseteq regions'[k].mappings
      BY <2>4 DEF Added
    <3> QED
      BY <2>5, <3>1, <3>2, StillServes
  <2>7. \A x \in Handle : Touched(x)'
    BY <1>w, <2>5 DEF Touched
  <2>8. Waits'
    BY <1>w, <2>5, <2>6, <2>7 DEF Waits
  <2>9. OpenedFor' = OpenedFor /\ Shown' = Shown /\ Waiting' = Waiting
    BY <2>5 DEF OpenedFor, Shown, Waiting, Opened
  <2>10. ~destroyed
    BY <2>1 DEF IInv, Endings, Active
  <2>11. n \notin Content[d]
    <3>1. \A k \in DOMAIN regions : regions[k].descriptor = d => k = i
      BY <2>3 DEF IInv, OneRegionPerDescriptor
    <3> QED
      BY <2>2, <3>1, ContentIs
  <2>12. ASSUME NEW e \in Descriptor
         PROVE  Content'[e] = IF e = d THEN Content[e] \cup {n} ELSE Content[e]
    <3>1. ASSUME NEW x
          PROVE  x \in Content'[e] <=> x \in Content[e] \/ (e = d /\ x = n)
      <4>1. x \in Content[e] <=>
              \E k \in DOMAIN regions : regions[k].descriptor = e /\ x \in regions[k].resolved
        BY ContentIs
      <4>2. x \in Content'[e] <=>
              \E k \in DOMAIN regions' : regions'[k].descriptor = e /\ x \in regions'[k].resolved
        BY ContentIs
      <4> QED
        BY <2>3, <2>4, <4>1, <4>2 DEF Added
    <3> QED
      BY <3>1
  <2>13. Content' = [Content EXCEPT ![d] = @ \cup {n}]
    BY <2>12 DEF Content
  <2>14. Contract!Derive(d, n)
    BY <2>5, <2>9, <2>10, <2>11, <2>13 DEF Contract!Derive
  <2> QED
    BY <2>8, <2>14 DEF Implements, Contract!Next, Chunk
<1>3. CASE UFFDIO_COPY(c)
  <2>1. PICK i \in DOMAIN regions, h \in Handle, g \in Group :
            work[c].region = i /\ work[c].uffd = h /\ work[c].group = g
    BY <1>3 DEF UFFDIO_COPY, IInv, Works, Serving, Fault
  <2>2. /\ run[c] = "copy" /\ run' = [run EXCEPT ![c] = "batch"]
        /\ work' = [work EXCEPT ![c] = None]
        /\ UNCHANGED <<regions, destroyed, client, client_open, handle, descriptor>>
    BY <1>3 DEF UFFDIO_COPY
  <2>3. \A b \in Client : run'[b] \in Serving => run[b] \in Serving /\ work'[b] = work[b]
    BY <1>t, <2>2 DEF Serving
  <2>4. CASE UNCHANGED <<present, blocked, pending>>
    BY <1>q, <2>2, <2>3, <2>4 DEF Quiet
  <2>5. CASE ~UNCHANGED <<present, blocked, pending>>
    <3>1. /\ Opened(h) /\ g \notin present[h]
          /\ present' = [present EXCEPT ![h] = @ \cup {g}]
          /\ blocked' = [blocked EXCEPT ![h] = @ \ {g}]
          /\ pending' = [pending EXCEPT ![h] = @ \ {g}] \/ UNCHANGED pending
      BY <1>3, <2>1, <2>5 DEF UFFDIO_COPY, Opened
    <3>2. g \in blocked[h] /\ h \in regions[i].mappings
      BY <1>w, <2>1, <2>2, <3>1 DEF ServesTouch, Serving, Opened
    <3>3. g \subseteq regions[i].resolved /\ regions[i].descriptor = descriptor[h]
      BY <2>1, <2>2, <3>2 DEF IInv, Works, Unresolved, Mappings
    <3>4. \A x \in Handle : blocked[x] \cup present[x] = blocked'[x] \cup present'[x]
      BY <1>t, <3>1, <3>2
    <3>5. \A x \in Handle : Touched(x)'
      <4>1. \A x \in Handle : pending'[x] \subseteq pending[x]
        <5>1. CASE pending' = [pending EXCEPT ![h] = @ \ {g}]
          BY <1>t, <5>1
        <5>2. CASE UNCHANGED pending
          BY <5>2
        <5> QED
          BY <3>1, <5>1, <5>2
      <4>2. \A x \in Handle \ {h} : present'[x] = present[x] /\ blocked'[x] = blocked[x]
        BY <1>t, <3>1
      <4> QED
        BY <1>w, <2>2, <3>1, <3>4, <4>1, <4>2 DEF Touched, Opened
    <3>6. \A b \in Client : ServesTouch(b)'
      BY <2>2, <2>3, <3>4, StillServes
    <3>7. Waits'
      BY <1>w, <2>2, <3>5, <3>6 DEF Waits
    <3>8. /\ \A x \in Handle : Opened(x)' <=> Opened(x)
          /\ descriptor[h] \in Descriptor
      BY <1>w, <2>2, <3>1 DEF Opened, Touched
    <3>9. g \in Waiting[h] /\ OpenedFor[h] = descriptor[h]
      BY <3>1, <3>2 DEF Waiting, OpenedFor
    <3>10. g \subseteq Content[descriptor[h]]
      BY <3>3, <3>8, ContentIs
    <3>11. OpenedFor' = OpenedFor /\ Content' = Content
      BY <2>2, <3>8 DEF OpenedFor, Content
    <3>12. Shown' = [Shown EXCEPT ![h] = @ \cup {g}]
      BY <1>t, <3>1, <3>8 DEF Shown
    <3>13. Waiting' = [Waiting EXCEPT ![h] = @ \ {g}]
      BY <1>t, <3>1, <3>8 DEF Waiting
    <3>14. Contract!Answer(h, g)
      BY <2>2, <3>9, <3>10, <3>11, <3>12, <3>13 DEF Contract!Answer
    <3> QED
      BY <3>7, <3>14 DEF Implements, Contract!Next
  <2> QED
    BY <2>4, <2>5
<1> QED
  BY <1>1, <1>2, <1>3

(* The end of the server takes its content with it.                        *)
LEMMA ServerEnds ==
    ASSUME IInv, Waits, fc_server_destroy
    PROVE  Implements
<1>1. /\ ~destroyed /\ destroyed' = TRUE /\ regions' = << >>
      /\ \A c \in Client : run'[c] \notin Serving
      /\ UNCHANGED <<client, client_open, handle, descriptor, present, blocked, pending>>
  BY DEF fc_server_destroy, Active, Serving, loop, socket, caller, memory
<1>2. Waits'
  BY <1>1 DEF Waits, Touched, ServesTouch
<1>3. OpenedFor' = OpenedFor /\ Shown' = Shown /\ Waiting' = Waiting
  BY <1>1 DEF OpenedFor, Shown, Waiting, Opened
<1>4. Content' = [d \in Descriptor |-> {}]
  BY <1>1 DEF Content
<1>5. Contract!End
  BY <1>1, <1>3, <1>4 DEF Contract!End
<1> QED
  BY <1>2, <1>5 DEF Implements, Contract!Next

(* Each step keeps what is waited for, and is a step of SharedContent or   *)
(* one it does not see.                                                    *)
LEMMA ContractStep == IInv /\ Waits /\ [Next]_vars => Implements
<1> SUFFICES ASSUME IInv, Waits, [Next]_vars PROVE Implements
  OBVIOUS
<1>1. Quiet => Implements
  BY QuietStep DEF Implements
<1>2. CASE UNCHANGED vars
  BY <1>1, <1>2 DEF vars, shared, ender, loop, socket, caller, memory, Quiet
<1>3. ASSUME NEW c \in Client, RunStep(c) PROVE Implements
  BY <1>1, <1>3, QuietSteps, ServerServes DEF RunStep
<1>4. ASSUME NEW c \in Client,
             \/ ClientStep(c) \/ fc_server_run(c) \/ CloseConnection(c) \/ Exit(c)
             \/ fc_client_pool_destroy(c)
             \/ \E h \in Handle, d \in Descriptor : resolve_descriptor(c, h, d)
      PROVE  Implements
  BY <1>1, <1>4, QuietSteps, ClientCreates, ClientReads DEF ClientStep
<1>5. CASE fc_server_stop
  <2>1. Quiet
    BY <1>5 DEF fc_server_stop, shared, loop, socket, caller, memory, Quiet
  <2> QED
    BY <1>1, <2>1
<1>6. CASE fc_server_destroy
  BY <1>6, ServerEnds
<1>7. CASE \E h \in Handle : fc_client_region_destroy(h) \/ \E g \in Group : Touch(h, g)
  BY <1>7, ClientReads
<1> QED
  BY <1>2, <1>3, <1>4, <1>5, <1>6, <1>7 DEF Next

(* Any number of clients and connections, served by threads that share the *)
(* regions and a lock, give the readers of client regions what             *)
(* SharedContent promises: a touched group appears whole, only after all   *)
(* of it is derived for that descriptor, and untouched ones do not appear. *)
THEOREM Refinement == Spec => ImplementsSharedContent
<1>1. IInv /\ Waits /\ [Next]_vars => Waits'
  BY ContractStep DEF Implements
<1>2. IInv /\ Waits /\ [Next]_vars => [Contract!Next]_(Contract!vars)
  BY ContractStep DEF Implements
<1>3. Spec => []Waits
  BY <1>1, InitWaits, Invariance, PTL DEF Spec
<1> QED
  BY <1>2, <1>3, ContractInit, Invariance, PTL
     DEF Spec, ImplementsSharedContent, Contract!Spec
=============================================================================
