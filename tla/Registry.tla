------------------------------ MODULE Registry ------------------------------
(***************************************************************************)
(* What the table of running instances promises a process whose calls come *)
(* from one thread (rustypglite-sys/shim/pg_shim.c, "Instance tracking for *)
(* cleanup on exit"): every server it runs is known, up to MAX_INSTANCES   *)
(* of them, and an exit, wherever it interrupts the process, stops servers *)
(* that run, each once.  The promise is as weak as the code: the exit may  *)
(* miss the instance of the interrupted call, and forgets up to one for    *)
(* each that it stops.  InstanceTable implements it store by store.        *)
(***************************************************************************)
EXTENDS Integers, FiniteSets

CONSTANTS
    Insts,      \* instances
    Capacity    \* how many the registry can know

VARIABLES
    phase,      \* "run", "exit" or "dead"
    live,       \* running instances the process is responsible for
    untracked,  \* instances that came when the registry was full
    reach       \* running instances that the exit still knows

vars == <<phase, live, untracked, reach>>

Init == phase = "run" /\ live = {} /\ untracked = {} /\ reach = {}

\* A server has been booted.
Add(x) ==
    /\ phase = "run" /\ x \notin live \cup untracked
    /\ live' = live \cup {x}
    /\ UNCHANGED <<phase, untracked, reach>>

\* One too many: the others fill the registry.
Overflow(x) ==
    /\ phase = "run" /\ x \in live /\ Cardinality(live \ {x}) = Capacity
    /\ live' = live \ {x}
    /\ untracked' = untracked \cup {x}
    /\ UNCHANGED <<phase, reach>>

\* A server has been stopped by its caller, or by the start that gave it up.
Remove(x) ==
    /\ phase = "run" /\ x \in live
    /\ live' = live \ {x}
    /\ UNCHANGED <<phase, untracked, reach>>

\* The process is told to exit and knows all its servers but one at most.
Exit ==
    /\ phase = "run"
    /\ phase' = "exit"
    /\ reach' \subseteq live /\ Cardinality(live \ reach') <= 1
    /\ UNCHANGED <<live, untracked>>

\* It dies at once: it has never registered a server.
Die ==
    /\ phase = "run" /\ Cardinality(live) <= 1
    /\ phase' = "dead"
    /\ UNCHANGED <<live, untracked, reach>>

\* The exit stops one of the servers it knows, and may forget another.
StopNext(x) ==
    /\ phase = "exit" /\ x \in reach
    /\ live' = live \ {x}
    /\ reach' \subseteq reach \ {x}
    /\ Cardinality((reach \ {x}) \ reach') <= 1
    /\ UNCHANGED <<phase, untracked>>

\* It ends when it knows no more.
Finish ==
    /\ phase = "exit" /\ reach = {}
    /\ phase' = "dead"
    /\ UNCHANGED <<live, untracked, reach>>

Next ==
    \/ \E x \in Insts : Add(x) \/ Overflow(x) \/ Remove(x) \/ StopNext(x)
    \/ Exit \/ Die \/ Finish

Spec == Init /\ [][Next]_vars
=============================================================================
