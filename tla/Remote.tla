------------------------------- MODULE Remote -------------------------------
(***************************************************************************)
(* Client/server resolution: client regions (src/src/client.c), one        *)
(* fc_server_run() thread per connection over one fc_server_t              *)
(* (src/src/server.c), and the two round trips of src/src/wire.h.          *)
(*                                                                         *)
(* A client is a process with one connection; a handle is a client region  *)
(* it may create, together with its userfaultfd, of which the server holds *)
(* a duplicate.  A group is a set of chunks that share pages: module       *)
(* Layout computes it, and a fault always resolves and copies all of it.   *)
(***************************************************************************)
EXTENDS Integers, SequencesExt

CONSTANTS Client, Handle, Descriptor, None,
          ClientOf,   \* the client each handle belongs to
          Kind,       \* what becomes of each descriptor, see below
          Group,      \* the chunk groups of every accepted layout
          MayStop,    \* is fc_server_stop() ever called?
          MayFail     \* can UFFDIO_COPY fail on a mapping that is there?

Chunk == UNION Group

\* "too_long" for resolve_descriptor(), "too_long_to_attach" for send_attach()
\* only, "rejected" by the factory, or accepted -- with a layout that fits a
\* message ("good") or does not ("oversized").
ASSUME RemoteAssumption ==
    /\ ClientOf \in [Handle -> Client]
    /\ Kind \in [Descriptor -> {"good", "rejected", "oversized", "too_long",
                                "too_long_to_attach"}]
    /\ \A g \in Group : g # {} /\ g \subseteq Nat
    /\ \A g, h \in Group : g = h \/ g \cap h = {}
    /\ MayStop \in BOOLEAN /\ MayFail \in BOOLEAN
    /\ None \notin Client \cup Handle \cup Descriptor

VARIABLES
    server_lock,      \* the connection whose thread holds server->lock
    regions,          \* descriptor, resolved chunks and mappings of each region
    stop_fd,          \* TRUE once written; nobody ever reads it back
    destroyed,        \* fc_server_destroy() has run
    run,              \* per connection: where its fc_server_run() is
    conn_state,       \* the message it expects next
    epoll,            \* the uffds in its epoll set
    batch,            \* the events of this epoll_wait() still to be handled
    ending,           \* stop || disconnected
    work,             \* the fault or descriptor being handled
    requests, replies,             \* the two directions of the socket
    client_open, server_open,      \* its two ends
    client,           \* where each client's thread is
    creating,         \* the handle it is creating
    handle,           \* the state of each client region
    descriptor,       \* the descriptor it was created for
    present,          \* the groups copied into its mapping
    bytes,            \* the chunks whose bytes those copies held
    blocked,          \* the groups some thread of the client waits for
    pending,          \* the fault messages waiting in its uffd
    lost,             \* the groups a copy of which into it has failed
    derived           \* how often fill_chunk() ran, per descriptor and chunk

shared == <<server_lock, regions>>
ender == <<stop_fd, destroyed>>
loop == <<run, conn_state, epoll, batch, ending, work>>
socket == <<requests, replies, client_open, server_open>>
caller == <<client, creating, handle, descriptor>>
memory == <<present, bytes, blocked, pending, lost>>
vars == <<shared, ender, loop, socket, caller, memory, derived>>

Active(c) == run[c] \notin {"new", "returned"}
At(c, label) == run[c] = label
Goto(c, label) == run' = [run EXCEPT ![c] = label]

\* The region a descriptor has, 0 for none: the newest comes first.
find_region(d) ==
    LET same == {i \in DOMAIN regions : regions[i].descriptor = d}
    IN  IF same = {} THEN 0 ELSE Max(same)

-----------------------------------------------------------------------------
(* The client.                                                             *)

\* Closing a process's ends of things; its own threads are gone with it.
Dies(c, how) ==
    /\ client' = [client EXCEPT ![c] = how]
    /\ client_open' = [client_open EXCEPT ![c] = FALSE]
    /\ blocked' = [h \in Handle |-> IF ClientOf[h] = c THEN {} ELSE blocked[h]]
    /\ pending' = [h \in Handle |-> IF ClientOf[h] = c THEN {} ELSE pending[h]]

\* fc_client_region_create() returns nullptr with errno set.
Refused(c, h) ==
    /\ client' = [client EXCEPT ![c] = "idle"]
    /\ creating' = [creating EXCEPT ![c] = None]
    /\ handle' = [handle EXCEPT ![h] = "failed"]

\* Sending on a connection whose other end is closed fails an assertion.
Send(c, m, next) ==
    \/ /\ server_open[c]
       /\ requests' = [requests EXCEPT ![c] = Append(@, m)]
       /\ client' = [client EXCEPT ![c] = next]
       /\ UNCHANGED <<client_open, blocked, pending>>
    \/ /\ ~server_open[c]
       /\ Dies(c, "aborted")
       /\ UNCHANGED requests

resolve_descriptor(c, h, d) ==
    /\ client[c] = "idle"
    /\ handle[h] = "unused" /\ ClientOf[h] = c
    /\ descriptor' = [descriptor EXCEPT ![h] = d]
    /\ \/ /\ Kind[d] = "too_long"
          /\ Refused(c, h)
          /\ UNCHANGED <<requests, client_open, blocked, pending>>
       \/ /\ Kind[d] # "too_long"
          /\ creating' = [creating EXCEPT ![c] = h]
          /\ handle' = [handle EXCEPT ![h] = "creating"]
          /\ Send(c, [type |-> "resolve", descriptor |-> d], "resolving")
    /\ UNCHANGED <<shared, ender, loop, replies, server_open, present, bytes, lost, derived>>

\* recv() returns a message, or 0 at the end of the connection.
Received(c) == IF replies[c] = << >> THEN "eof" ELSE Head(replies[c])
CanReceive(c) == replies[c] # << >> \/ ~server_open[c]
Consume(c) ==
    replies' = [replies EXCEPT ![c] = IF @ = << >> THEN @ ELSE Tail(@)]

\* The layout arrives; the mapping is made and handed over.
send_attach(c) ==
    LET h == creating[c]
    IN  /\ client[c] = "resolving"
        /\ CanReceive(c) /\ Consume(c)
        /\ \/ /\ Received(c) # "layout"
              /\ Refused(c, h)
              /\ UNCHANGED <<requests, client_open, blocked, pending>>
           \/ /\ Received(c) = "layout"
              /\ Kind[descriptor[h]] = "too_long_to_attach"
              /\ Dies(c, "aborted")
              /\ UNCHANGED <<requests, creating, handle>>
           \/ /\ Received(c) = "layout"
              /\ Kind[descriptor[h]] # "too_long_to_attach"
              /\ Send(c, [type |-> "attach", descriptor |-> descriptor[h], uffd |-> h],
                      "attaching")
              /\ UNCHANGED <<creating, handle>>
        /\ UNCHANGED <<shared, ender, loop, server_open, descriptor, present, bytes, lost, derived>>

\* The answer to the attach request: the region is the caller's, or torn down.
pool_add(c) ==
    /\ client[c] = "attaching"
    /\ CanReceive(c) /\ Consume(c)
    /\ \/ /\ Received(c) = "ack"
          /\ client' = [client EXCEPT ![c] = "idle"]
          /\ creating' = [creating EXCEPT ![c] = None]
          /\ handle' = [handle EXCEPT ![creating[c]] = "live"]
       \/ /\ Received(c) # "ack"
          /\ Refused(c, creating[c])
    /\ UNCHANGED <<shared, ender, loop, requests, client_open, server_open, descriptor,
                   memory, derived>>

\* A thread of the client reads the mapping.  (External: the kernel.)
Touch(h, g) ==
    /\ handle[h] = "live" /\ client_open[ClientOf[h]]
    /\ g \notin present[h]
    /\ blocked' = [blocked EXCEPT ![h] = @ \cup {g}]
    /\ pending' = [pending EXCEPT ![h] = @ \cup {g}]
    /\ UNCHANGED <<shared, ender, loop, socket, caller, present, bytes, lost, derived>>

\* No thread may be using the region.  The server is not told.
fc_client_region_destroy(h) ==
    /\ handle[h] = "live" /\ client[ClientOf[h]] = "idle"
    /\ blocked[h] = {}
    /\ handle' = [handle EXCEPT ![h] = "destroyed"]
    /\ present' = [present EXCEPT ![h] = {}]
    /\ bytes' = [bytes EXCEPT ![h] = {}]
    /\ pending' = [pending EXCEPT ![h] = {}]
    /\ UNCHANGED <<shared, ender, loop, socket, client, creating, descriptor, blocked, lost, derived>>

\* Every region still in the client's pool is torn down with it.
fc_client_pool_destroy(c) ==
    LET gone == {h \in Handle : ClientOf[h] = c /\ handle[h] = "live"}
    IN  /\ client[c] = "idle"
        /\ gone # {} /\ \A h \in gone : blocked[h] = {}
        /\ handle' = [h \in Handle |-> IF h \in gone THEN "destroyed" ELSE handle[h]]
        /\ present' = [h \in Handle |-> IF h \in gone THEN {} ELSE present[h]]
        /\ bytes' = [h \in Handle |-> IF h \in gone THEN {} ELSE bytes[h]]
        /\ pending' = [h \in Handle |-> IF h \in gone THEN {} ELSE pending[h]]
        /\ UNCHANGED <<shared, ender, loop, socket, client, creating, descriptor, blocked,
                       lost, derived>>

\* The client exits or is killed, wherever it is.
Exit(c) ==
    /\ client_open[c]
    /\ Dies(c, "exited")
    /\ UNCHANGED <<shared, ender, loop, requests, replies, server_open, creating, handle,
                   descriptor, present, bytes, lost, derived>>

-----------------------------------------------------------------------------
(* fc_server_run(): one thread per connection.                             *)

fc_server_run(c) ==
    /\ At(c, "new") /\ ~destroyed
    /\ Goto(c, "epoll")
    /\ UNCHANGED <<shared, ender, conn_state, epoll, batch, ending, work, socket, caller,
                   memory, derived>>

\* Level-triggered, and nothing drains stop_fd.
Ready(c) ==
    {h \in epoll[c] : pending[h] # {}}
    \cup (IF requests[c] # << >> \/ ~client_open[c] THEN {"conn"} ELSE {})
    \cup (IF stop_fd THEN {"stop"} ELSE {})

epoll_wait(c) ==
    /\ At(c, "epoll")
    /\ Ready(c) # {}
    /\ batch' = [batch EXCEPT ![c] = Ready(c)]
    /\ Goto(c, "batch")
    /\ UNCHANGED <<shared, ender, conn_state, epoll, ending, work, socket, caller, memory,
                   derived>>

\* The next event of the batch.
Event(c, e) ==
    /\ At(c, "batch")
    /\ e \in batch[c]
    /\ batch' = [batch EXCEPT ![c] = @ \ {e}]

\* Mutant: the event is taken and forgotten.
Mutant_EndLoop(c) == UNCHANGED ending

\* stop or disconnected is set; the rest of the batch is still handled.
EndLoop(c) == ending' = [ending EXCEPT ![c] = TRUE]

SeesStop(c) ==
    /\ Event(c, "stop")
    /\ EndLoop(c)
    /\ UNCHANGED <<run, shared, ender, conn_state, epoll, work, socket, caller, memory, derived>>

Disconnected(c) ==
    /\ Event(c, "conn")
    /\ requests[c] = << >>
    /\ EndLoop(c)
    /\ UNCHANGED <<run, shared, ender, conn_state, epoll, work, socket, caller, memory, derived>>

\* A reply that cannot be sent ends the loop; the host ignores SIGPIPE.
Reply(c, m, next_state) ==
    \/ /\ client_open[c]
       /\ replies' = [replies EXCEPT ![c] = Append(@, m)]
       /\ conn_state' = [conn_state EXCEPT ![c] = next_state]
       /\ UNCHANGED ending
    \/ /\ ~client_open[c] \/ m = "truncated"
       /\ EndLoop(c)
       /\ UNCHANGED <<replies, conn_state>>

\* A layout that exceeds FC_WIRE_MSG_MAX reaches the client cut off, or the
\* socket refuses to send it.
SendLayout(c, d) ==
    Reply(c, IF Kind[d] = "oversized" THEN "truncated" ELSE "layout", "attach")

\* Mutant: an attach is expected although the descriptor was rejected.
Mutant_Reject_attach(c) == Reply(c, "rejection", "attach")
\* Mutant: a rejection is not answered.
Mutant_Reject_silent(c) == UNCHANGED <<replies, conn_state, ending>>

\* The factory's message goes back; another descriptor may follow.
Reject(c) == Reply(c, "rejection", "resolve")

TakeRequest(c) == requests' = [requests EXCEPT ![c] = Tail(@)]

\* Mutant: every resolve makes a region of its own.
Mutant_Known(d) == FALSE

Known(d) == find_region(d) # 0

\* Mutant: the lock is kept.
Mutant_ReleaseServer == UNCHANGED server_lock

ReleaseServer == server_lock' = None

\* The region is known already, or the factory has to be asked.  (A client
\* attaches only after it has a layout, so no attach request comes here.)
handle_resolve(c) ==
    LET d == Head(requests[c]).descriptor
    IN  /\ Event(c, "conn")
        /\ requests[c] # << >> /\ conn_state[c] = "resolve"
        /\ server_lock = None
        /\ TakeRequest(c)
        /\ \/ /\ Known(d)
              /\ SendLayout(c, d)
              /\ UNCHANGED <<run, work, server_lock>>
           \/ /\ ~Known(d)
              /\ server_lock' = c
              /\ work' = [work EXCEPT ![c] = d]
              /\ Goto(c, "factory")
              /\ UNCHANGED <<replies, conn_state, ending>>
        /\ UNCHANGED <<regions, ender, epoll, client_open, server_open, caller, memory, derived>>

\* The factory is called with the lock held.
create_region(c) ==
    /\ At(c, "factory")
    /\ ReleaseServer
    /\ work' = [work EXCEPT ![c] = None]
    /\ Goto(c, "batch")
    /\ \/ /\ Kind[work[c]] = "rejected"
          /\ Reject(c)
          /\ UNCHANGED regions
       \/ /\ Kind[work[c]] # "rejected"
          /\ regions' = Append(regions, [descriptor |-> work[c], resolved |-> {},
                                         mappings |-> {}])
          /\ SendLayout(c, work[c])
    /\ UNCHANGED <<ender, epoll, batch, requests, client_open, server_open, caller, memory,
                   derived>>

\* Mutant: the mapping is listed and not watched.
Mutant_Watch(c, h) == UNCHANGED epoll

\* epoll_ctl(EPOLL_CTL_ADD) of a mapping's uffd.
Watch(c, h) == epoll' = [epoll EXCEPT ![c] = @ \cup {h}]

\* The region was found or made by the resolve before; anything but an attach
\* request carries no uffd and is refused.
handle_attach(c) ==
    /\ Event(c, "conn")
    /\ requests[c] # << >> /\ conn_state[c] = "attach"
    /\ TakeRequest(c)
    /\ LET m == Head(requests[c])
       IN  \/ /\ m.type = "attach"
              /\ server_lock = None
              /\ regions' = [regions EXCEPT ![find_region(m.descriptor)].mappings =
                                                @ \cup {m.uffd}]
              /\ Watch(c, m.uffd)
              /\ Reply(c, "ack", "resolve")
           \/ /\ m.type = "resolve"
              /\ Reply(c, "nack", "resolve")
              /\ UNCHANGED <<regions, epoll>>
    /\ UNCHANGED <<run, work, server_lock, ender, client_open, server_open, caller, memory,
                   derived>>

\* A fault message: look its mapping up, read it.
ReadFault(c, h) ==
    /\ Event(c, h)
    /\ server_lock = None
    /\ \/ \E i \in DOMAIN regions, g \in pending[h] :
            /\ h \in regions[i].mappings
            /\ pending' = [pending EXCEPT ![h] = @ \ {g}]
            /\ work' = [work EXCEPT ![c] = [region |-> i, uffd |-> h, group |-> g]]
            /\ Goto(c, "lock")
       \/ /\ pending[h] = {}
          /\ UNCHANGED <<pending, work, run>>
    /\ UNCHANGED <<shared, ender, conn_state, epoll, ending, socket, caller, present, bytes,
                   blocked, lost, derived>>

\* Mutant: only the first chunk of the group is looked at.
Mutant_Unresolved(c) == {Min(work[c].group)} \ regions[work[c].region].resolved

\* The chunks of the faulting group that r->resolved[] lacks.
Unresolved(c) == work[c].group \ regions[work[c].region].resolved

\* Mutant: a fault on chunks already cached is taken for served.
Mutant_LockServer(c) ==
    /\ At(c, "lock") /\ server_lock = None /\ Goto(c, IF Unresolved(c) = {} THEN "batch" ELSE "fill")
    /\ server_lock' = IF Unresolved(c) = {} THEN None ELSE c
    /\ UNCHANGED <<regions, ender, conn_state, epoll, batch, ending, work, socket, caller, memory, derived>>

LockServer(c) ==
    /\ At(c, "lock")
    /\ server_lock = None
    /\ server_lock' = c
    /\ Goto(c, "fill")
    /\ UNCHANGED <<regions, ender, conn_state, epoll, batch, ending, work, socket, caller,
                   memory, derived>>

\* fill_chunk() is called for the first chunk not resolved yet ...
fill_chunk(c) ==
    /\ At(c, "fill")
    /\ Unresolved(c) # {}
    /\ derived' = [derived EXCEPT ![regions[work[c].region].descriptor][Min(Unresolved(c))] = @ + 1]
    /\ Goto(c, "filling")
    /\ UNCHANGED <<shared, ender, conn_state, epoll, batch, ending, work, socket, caller, memory>>

\* Mutant: resolved[] is not set.
Mutant_MarkResolved(c) == UNCHANGED regions

MarkResolved(c) ==
    regions' = [regions EXCEPT ![work[c].region].resolved = @ \cup {Min(Unresolved(c))}]

\* ... and returns.
Filled(c) ==
    /\ At(c, "filling")
    /\ MarkResolved(c)
    /\ Goto(c, "fill")
    /\ UNCHANGED <<server_lock, ender, conn_state, epoll, batch, ending, work, socket, caller,
                   memory, derived>>

UnlockServer(c) ==
    /\ At(c, "fill")
    /\ Unresolved(c) = {}
    /\ ReleaseServer
    /\ Goto(c, "copy")
    /\ UNCHANGED <<regions, ender, conn_state, epoll, batch, ending, work, socket, caller,
                   memory, derived>>

\* UFFDIO_COPY of the whole group, and what the kernel makes of it: it fails
\* on a mapping that is gone, does nothing to pages that are there, and else
\* wakes every thread waiting in the range -- whose messages may linger.  Any
\* other failure (ENOMEM, say) is ignored: the threads sleep on, until another
\* thread's fault brings another copy.  Bound: one failure per group and mapping.
UFFDIO_COPY(c) ==
    LET w == work[c]
        There == /\ handle[w.uffd] = "live" /\ client_open[ClientOf[w.uffd]]
                 /\ w.group \notin present[w.uffd]
    IN  /\ At(c, "copy")
        /\ \/ /\ There
              /\ present' = [present EXCEPT ![w.uffd] = @ \cup {w.group}]
              /\ bytes' = [bytes EXCEPT ![w.uffd] =
                               @ \cup (w.group \cap regions[w.region].resolved)]
              /\ blocked' = [blocked EXCEPT ![w.uffd] = @ \ {w.group}]
              /\ UNCHANGED lost
              /\ \/ pending' = [pending EXCEPT ![w.uffd] = @ \ {w.group}]
                 \/ UNCHANGED pending
           \/ /\ There /\ MayFail /\ w.group \notin lost[w.uffd]
              /\ lost' = [lost EXCEPT ![w.uffd] = @ \cup {w.group}]
              /\ UNCHANGED <<present, bytes, blocked, pending>>
           \/ /\ ~There
              /\ UNCHANGED memory
        /\ work' = [work EXCEPT ![c] = None]
        /\ Goto(c, "batch")
        /\ UNCHANGED <<shared, ender, conn_state, epoll, batch, ending, socket, caller, derived>>

\* The batch is done: wait again, or return.
BatchDone(c) ==
    /\ At(c, "batch")
    /\ batch[c] = {}
    /\ Goto(c, IF ending[c] THEN "returned" ELSE "epoll")
    /\ epoll' = [epoll EXCEPT ![c] = IF ending[c] THEN {} ELSE @]
    /\ UNCHANGED <<shared, ender, conn_state, batch, ending, work, socket, caller, memory,
                   derived>>

-----------------------------------------------------------------------------
(* Ending.                                                                 *)

fc_server_stop ==
    /\ MayStop /\ ~stop_fd /\ ~destroyed
    /\ stop_fd' = TRUE
    /\ UNCHANGED <<destroyed, shared, loop, socket, caller, memory, derived>>

\* Not while a run is in progress.
fc_server_destroy ==
    /\ ~destroyed
    /\ \A c \in Client : ~Active(c)
    /\ destroyed' = TRUE
    /\ regions' = << >>
    /\ UNCHANGED <<server_lock, stop_fd, loop, socket, caller, memory, derived>>

\* The server's host closes a connection that is not served any more.
CloseConnection(c) ==
    /\ At(c, "returned") \/ (At(c, "new") /\ destroyed)
    /\ server_open[c]
    /\ server_open' = [server_open EXCEPT ![c] = FALSE]
    /\ UNCHANGED <<shared, ender, loop, requests, replies, client_open, caller, memory, derived>>

-----------------------------------------------------------------------------
Init ==
    /\ server_lock = None /\ regions = << >>
    /\ stop_fd = FALSE /\ destroyed = FALSE
    /\ run = [c \in Client |-> "new"]
    /\ conn_state = [c \in Client |-> "resolve"]
    /\ epoll = [c \in Client |-> {}]
    /\ batch = [c \in Client |-> {}]
    /\ ending = [c \in Client |-> FALSE]
    /\ work = [c \in Client |-> None]
    /\ requests = [c \in Client |-> << >>]
    /\ replies = [c \in Client |-> << >>]
    /\ client_open = [c \in Client |-> TRUE]
    /\ server_open = [c \in Client |-> TRUE]
    /\ client = [c \in Client |-> "idle"]
    /\ creating = [c \in Client |-> None]
    /\ handle = [h \in Handle |-> "unused"]
    /\ descriptor = [h \in Handle |-> None]
    /\ present = [h \in Handle |-> {}]
    /\ bytes = [h \in Handle |-> {}]
    /\ blocked = [h \in Handle |-> {}]
    /\ pending = [h \in Handle |-> {}]
    /\ lost = [h \in Handle |-> {}]
    /\ derived = [d \in Descriptor |-> [i \in Chunk |-> 0]]

RunStep(c) ==
    \/ epoll_wait(c) \/ SeesStop(c) \/ Disconnected(c)
    \/ handle_resolve(c) \/ create_region(c) \/ handle_attach(c)
    \/ \E h \in Handle : ReadFault(c, h)
    \/ LockServer(c) \/ fill_chunk(c) \/ Filled(c) \/ UnlockServer(c) \/ UFFDIO_COPY(c)
    \/ BatchDone(c)

ClientStep(c) == send_attach(c) \/ pool_add(c)

Next ==
    \/ \E c \in Client :
         \/ RunStep(c) \/ ClientStep(c)
         \/ fc_server_run(c) \/ CloseConnection(c) \/ Exit(c) \/ fc_client_pool_destroy(c)
         \/ \E h \in Handle, d \in Descriptor : resolve_descriptor(c, h, d)
    \/ \E h \in Handle :
         fc_client_region_destroy(h) \/ \E g \in Group : Touch(h, g)
    \/ fc_server_stop \/ fc_server_destroy

Spec == Init /\ [][Next]_vars

\* Server and client threads run, the host starts a run for every connection
\* it accepts and closes it afterwards.  Nobody has to touch, stop or exit.
FairSpec ==
    /\ Spec
    /\ \A c \in Client : /\ WF_vars(RunStep(c)) /\ WF_vars(ClientStep(c))
                         /\ WF_vars(fc_server_run(c)) /\ WF_vars(CloseConnection(c))

-----------------------------------------------------------------------------
(* Properties.                                                             *)

(* The values the variables take; server->lock is held exactly by the      *)
(* thread in the factory or between filling and copying.                   *)
TypeOK ==
    /\ \A c \in Client :
         /\ server_lock = c <=> run[c] \in {"factory", "fill", "filling"}
         /\ conn_state[c] \in {"resolve", "attach"}
         /\ batch[c] \subseteq Handle \cup {"conn", "stop"}
         /\ epoll[c] \subseteq Handle
         /\ client[c] \in {"idle", "resolving", "attaching", "exited", "aborted"}
         /\ creating[c] \in Handle \cup {None}
    /\ \A i \in DOMAIN regions :
         regions[i].descriptor \in Descriptor /\ regions[i].resolved \subseteq Chunk
    /\ \A h \in Handle : present[h] \subseteq Group /\ pending[h] \subseteq Group

(* A descriptor is a region's identity: however many connections hand it   *)
(* off at the same time, the server has one region for it.                 *)
OneRegionPerDescriptor ==
    \A i, j \in DOMAIN regions : regions[i].descriptor = regions[j].descriptor => i = j

(* A chunk is derived at most once, no matter how many mappings fault on   *)
(* it, in whatever order.                                                  *)
DerivedOnce == \A d \in Descriptor, i \in Chunk : derived[d][i] <= 1

(* A copy is made only of pages whose chunks all have their bytes, though  *)
(* it reads the cache after the lock is released.                          *)
CopiesAreWhole == \A h \in Handle : \A g \in present[h] : g \subseteq bytes[h]

\* What SharedContent sees: the regions a client can read, what they show and
\* who waits for more, and what the server has derived.
Opened(h) == handle[h] = "live" /\ client_open[ClientOf[h]]
OpenedFor == [h \in Handle |-> IF Opened(h) THEN descriptor[h] ELSE None]
Shown == [h \in Handle |-> IF Opened(h) THEN present[h] ELSE {}]
Waiting == [h \in Handle |-> IF Opened(h) THEN blocked[h] ELSE {}]
Content ==
    [d \in Descriptor |->
        UNION {regions[i].resolved : i \in {k \in DOMAIN regions : regions[k].descriptor = d}}]

Contract == INSTANCE SharedContent
                WITH opened <- OpenedFor, shown <- Shown, waiting <- Waiting,
                     content <- Content, over <- destroyed

(* Clients and server implement SharedContent: however the connections'    *)
(* threads, exits, lingering fault messages, failing copies and the end of *)
(* the server interleave, a thread is let go on only when its whole group  *)
(* has been derived for its region's own descriptor, nothing appears that  *)
(* nobody touched, and what is derived is kept as long as the server is.   *)
ImplementsSharedContent == Contract!Spec

(* While its connection is being served, a region the client holds is one  *)
(* the server will hear from: its uffd is in that loop's epoll set and in  *)
(* the mappings of the region with its descriptor, and of no other.        *)
LiveIsServed ==
    \A h \in Handle :
        handle[h] = "live" /\ Active(ClientOf[h]) =>
            /\ h \in epoll[ClientOf[h]]
            /\ \A i \in DOMAIN regions :
                 h \in regions[i].mappings <=> regions[i].descriptor = descriptor[h]

(* A descriptor the factory accepts is never refused on a connection that  *)
(* is being served: client and server agree on which message comes next.   *)
GoodNeverRefused ==
    \A h \in Handle :
        handle[h] = "failed" /\ Kind[descriptor[h]] = "good" =>
            stop_fd \/ ~server_open[ClientOf[h]]

(* The same, except after a layout that did not fit a message: only that   *)
(* can put the two ends of a connection out of step.                       *)
RefusedOnlyAfterOversized ==
    \A h \in Handle :
        handle[h] = "failed" /\ Kind[descriptor[h]] = "good" =>
            \/ stop_fd \/ ~server_open[ClientOf[h]]
            \/ \E o \in Handle : /\ ClientOf[o] = ClientOf[h] /\ handle[o] = "failed"
                                 /\ Kind[descriptor[o]] = "oversized"

(* A thread that faults on a client region is let go on, unless the server *)
(* has stopped serving its connection.  A copy that fails strands only the *)
(* threads of that mapping that wait for that group: no other group, and   *)
(* no other mapping of the region, is left waiting.                        *)
FaultServed ==
    \A h \in Handle, g \in Group :
        g \in blocked[h] ~>
            g \notin blocked[h] \/ g \in lost[h] \/ ~Active(ClientOf[h])

(* fc_client_region_create() does not block for ever: the two round trips  *)
(* are answered, or the connection ends.                                   *)
CreateReturns ==
    \A c \in Client : client[c] \in {"resolving", "attaching"} ~>
                          client[c] \notin {"resolving", "attaching"}

(* One stop reaches every run, also the ones in the middle of a fault.     *)
StopReachesAll == stop_fd ~> \A c \in Client : ~Active(c)
=============================================================================
