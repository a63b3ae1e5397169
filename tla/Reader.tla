------------------------------- MODULE Reader -------------------------------
(***************************************************************************)
(* A thread reading the regions of a pool.  One load instruction reads the *)
(* bytes of a set of pages: one page, or the two pages an unaligned load   *)
(* spans.  It completes only when all of them are readable at once;        *)
(* otherwise it faults on one, the fault is resolved inside the signal     *)
(* handler, and the whole instruction is executed again.                   *)
(***************************************************************************)
EXTENDS Pool

CONSTANT Loads   \* the sets of pages one instruction may read

VARIABLE load    \* the pages of the instruction being executed

readerVars == <<vars, load>>

\* The regions exist before the thread starts reading and outlive it.
ReaderInit == /\ Init /\ load = {}

Open(r) == load = {} /\ fc_region_create(r) /\ UNCHANGED load

Start(S) ==
    /\ load = {} /\ pc = "idle" /\ live = Region
    /\ load' = S
    /\ UNCHANGED vars

\* The instruction is executed: it traps on a page that cannot be read ...
Trap ==
    /\ \E p \in load \ readable : Fault(p)
    /\ UNCHANGED load

\* ... or retires.
Retire ==
    /\ load # {} /\ pc = "idle" /\ load \subseteq readable
    /\ load' = {}
    /\ UNCHANGED vars

Resolve == LockHolder /\ UNCHANGED load

ReaderNext ==
    \/ \E r \in Region : Open(r)
    \/ \E S \in Loads : Start(S)
    \/ Trap \/ Retire \/ Resolve

\* The thread keeps executing, in and out of the handler.
ReaderSpec ==
    /\ ReaderInit /\ [][ReaderNext]_readerVars
    /\ WF_readerVars(Resolve) /\ WF_readerVars(Trap \/ Retire)

(* A load that touches unresolved or demoted chunks completes: the faults  *)
(* it takes make progress and are not undone before it is retried.         *)
LoadCompletes == load # {} ~> load = {}
=============================================================================
