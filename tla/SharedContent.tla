--------------------------- MODULE SharedContent ----------------------------
(***************************************************************************)
(* What clients and server together promise to the threads reading client  *)
(* regions, with no connections, messages, locks or events.  A handle is   *)
(* opened for a descriptor and closed; the content of a descriptor is      *)
(* derived chunk by chunk, for all its handles.  A touch of a group is     *)
(* answered when every chunk of it is derived, by showing it whole through *)
(* the handle that was touched; nothing is shown that was not touched, or  *)
(* taken away before the handle is closed.                                 *)
(***************************************************************************)
CONSTANTS Handle, Descriptor,
          Group,     \* the sets of chunks that are shown together
          None       \* no descriptor

VARIABLES opened,    \* the descriptor each handle is open for
          shown,     \* the groups that can be read through it
          waiting,   \* the groups a thread waits for
          content,   \* the chunks of each descriptor that are derived
          over       \* has the server gone, and the content with it?

vars == <<opened, shown, waiting, content, over>>

Init ==
    /\ opened = [h \in Handle |-> None]
    /\ shown = [h \in Handle |-> {}]
    /\ waiting = [h \in Handle |-> {}]
    /\ content = [d \in Descriptor |-> {}]
    /\ over = FALSE

Open(h, d) ==
    /\ opened[h] = None
    /\ opened' = [opened EXCEPT ![h] = d]
    /\ UNCHANGED <<shown, waiting, content, over>>

Close(S) ==
    /\ opened' = [h \in Handle |-> IF h \in S THEN None ELSE opened[h]]
    /\ shown' = [h \in Handle |-> IF h \in S THEN {} ELSE shown[h]]
    /\ waiting' = [h \in Handle |-> IF h \in S THEN {} ELSE waiting[h]]
    /\ UNCHANGED <<content, over>>

Touch(h, g) ==
    /\ opened[h] # None /\ g \notin shown[h]
    /\ waiting' = [waiting EXCEPT ![h] = @ \cup {g}]
    /\ UNCHANGED <<opened, shown, content, over>>

Derive(d, i) ==
    /\ ~over /\ i \notin content[d]
    /\ content' = [content EXCEPT ![d] = @ \cup {i}]
    /\ UNCHANGED <<opened, shown, waiting, over>>

Answer(h, g) ==
    /\ g \in waiting[h] /\ g \subseteq content[opened[h]]
    /\ shown' = [shown EXCEPT ![h] = @ \cup {g}]
    /\ waiting' = [waiting EXCEPT ![h] = @ \ {g}]
    /\ UNCHANGED <<opened, content, over>>

End ==
    /\ ~over /\ over' = TRUE
    /\ content' = [d \in Descriptor |-> {}]
    /\ UNCHANGED <<opened, shown, waiting>>

Next ==
    \/ \E h \in Handle :
         \/ \E d \in Descriptor : Open(h, d)
         \/ \E g \in Group : Touch(h, g) \/ Answer(h, g)
    \/ \E S \in SUBSET Handle : Close(S)
    \/ \E d \in Descriptor, i \in UNION Group : Derive(d, i)
    \/ End

Spec == Init /\ [][Next]_vars
=============================================================================
