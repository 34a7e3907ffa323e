--------------------------- MODULE InstanceTable ---------------------------
(***************************************************************************)
(* The table of running instances that a process keeps so that it can stop *)
(* them when it exits: g_instances and g_instance_count of                 *)
(* rustypglite-sys/shim/pg_shim.c, track_instance() at the end of          *)
(* rpgl_start(), untrack_instance() at the beginning of rpgl_stop(), and   *)
(* cleanup_all_instances(), which exit() and the handler of SIGTERM,       *)
(* SIGINT and SIGHUP run.                                                  *)
(*                                                                         *)
(* The table has no lock.  Every store to it is a step of its own: a       *)
(* signal can come between any two of them, and so can another thread.     *)
(***************************************************************************)
EXTENDS Integers, FiniteSets

CONSTANTS
    Threads,   \* threads that start and stop instances
    Insts,     \* rpgl_instance objects
    Max,       \* MAX_INSTANCES
    Null

ASSUME InstanceTableAssumption ==
    /\ Max \in Nat \ {0}
    /\ Null \notin Insts \cup Threads
    /\ IsFiniteSet(Insts)

VARIABLES
    slots,        \* g_instances, and at Max the word behind it
    count,        \* g_instance_count
    registered,   \* g_atexit_registered
    state,        \* of each object: "new", "up", "guest" or "freed"
    held,         \* handles the callers have and have not passed to rpgl_stop()
    pc, arg, idx, \* where each thread is, its inst and its index into the table
    phase,        \* "run", "loop" (cleanup_all_instances()) or "dead"
    handler,      \* the thread that runs the cleanup
    i,            \* the cleanup's loop variable
    dropped,      \* history: instances that found the table full
    seen          \* history: the entries of the table when the cleanup began

table == <<slots, count, registered>>
local == <<pc, arg, idx>>
exit == <<phase, handler, i, seen>>
vars == <<slots, count, registered, state, held, pc, arg, idx,
          phase, handler, i, dropped, seen>>

PCs == {"idle", "register", "check", "read", "bump", "store",
        "find", "dec", "move", "clear", "shutdown"}

Entries == {slots[k] : k \in 0..(count - 1)} \ {Null}

TypeOK ==
    /\ slots \in [0..Max -> Insts \cup {Null}]
    /\ count \in 0..Max
    /\ registered \in BOOLEAN
    /\ state \in [Insts -> {"new", "up", "guest", "freed"}]
    /\ held \subseteq Insts
    /\ pc \in [Threads -> PCs]
    /\ arg \in [Threads -> Insts \cup {Null}]
    /\ idx \in [Threads -> 0..(Max - 1)]
    /\ phase \in {"run", "loop", "dead"}
    /\ handler \in Threads \cup {Null}
    /\ i \in 0..Max
    /\ dropped \subseteq Insts
    /\ seen \subseteq Insts

Init ==
    /\ slots = [k \in 0..Max |-> Null]
    /\ count = 0 /\ registered = FALSE
    /\ state = [x \in Insts |-> "new"]
    /\ held = {}
    /\ pc = [t \in Threads |-> "idle"]
    /\ arg = [t \in Threads |-> Null]
    /\ idx = [t \in Threads |-> 0]
    /\ phase = "run" /\ handler = Null /\ i = 0
    /\ dropped = {} /\ seen = {}

\* Thread t runs unless the process is gone or the cleanup interrupted it.
At(t, point) == pc[t] = point /\ phase # "dead" /\ handler # t

Goto(t, point) == pc' = [pc EXCEPT ![t] = point]

\* The call returns to its caller.
Return(t) ==
    /\ Goto(t, "idle")
    /\ arg' = [arg EXCEPT ![t] = Null]
    /\ idx' = [idx EXCEPT ![t] = 0]

Enter(t, x, point) ==
    /\ Goto(t, point)
    /\ arg' = [arg EXCEPT ![t] = x]
    /\ UNCHANGED idx

----------------------------------------------------------------------------
\* rpgl_start() has booted a server: it registers the instance, or gives it up
\* because the server does not answer.
Boot(t, x) ==
    /\ At(t, "idle") /\ state[x] = "new"
    /\ state' = [state EXCEPT ![x] = "up"]
    /\ \E point \in {"register", "find"} : Enter(t, x, point)
    /\ UNCHANGED <<table, held, exit, dropped>>

\* rpgl_connect_existing() makes a handle that is never in the table.
ConnectExisting(t, x) ==
    /\ At(t, "idle") /\ state[x] = "new"
    /\ state' = [state EXCEPT ![x] = "guest"]
    /\ held' = held \cup {x}
    /\ UNCHANGED <<table, local, exit, dropped>>

\* The first instance installs atexit() and the signal handlers.
Register(t) ==
    /\ At(t, "register")
    /\ registered' = TRUE
    /\ Goto(t, "check")
    /\ UNCHANGED <<slots, count, state, held, arg, idx, exit, dropped>>

\* Mutant: the bound of the table is one too high for its index.
CheckRoom_OffByOne(t) ==
    /\ At(t, "check")
    /\ IF count <= Max
         THEN Goto(t, "read") /\ UNCHANGED <<arg, idx, held, dropped>>
         ELSE Return(t) /\ held' = held \cup {arg[t]} /\ dropped' = dropped \cup {arg[t]}
    /\ UNCHANGED <<table, state, exit>>

\* if (g_instance_count < MAX_INSTANCES): else the instance goes untracked.
CheckRoom(t) ==
    /\ At(t, "check")
    /\ IF count < Max
         THEN Goto(t, "read") /\ UNCHANGED <<arg, idx, held, dropped>>
         ELSE Return(t) /\ held' = held \cup {arg[t]} /\ dropped' = dropped \cup {arg[t]}
    /\ UNCHANGED <<table, state, exit>>

\* g_instances[g_instance_count++] = inst reads the count again, then come its
\* two stores; then *out = inst.
ReadCount(t) ==
    /\ At(t, "read")
    /\ idx' = [idx EXCEPT ![t] = count]
    /\ Goto(t, "bump")
    /\ UNCHANGED <<table, state, held, arg, exit, dropped>>

BumpCount(t) ==
    /\ At(t, "bump")
    /\ count' = idx[t] + 1
    /\ Goto(t, "store")
    /\ UNCHANGED <<slots, registered, state, held, arg, idx, exit, dropped>>

StoreSlot(t) ==
    /\ At(t, "store")
    /\ slots' = [slots EXCEPT ![idx[t]] = arg[t]]
    /\ held' = held \cup {arg[t]}
    /\ Return(t)
    /\ UNCHANGED <<count, registered, state, exit, dropped>>

----------------------------------------------------------------------------
\* The caller passes a handle to rpgl_stop() and gives it up.
Stop(t, x) ==
    /\ At(t, "idle") /\ x \in held
    /\ held' = held \ {x}
    /\ Enter(t, x, "find")
    /\ UNCHANGED <<table, state, exit, dropped>>

\* The first entry that is the instance; handles that are not in the table
\* pass through.
IndexesOf(x) == {k \in 0..(count - 1) : slots[k] = x}
First(S) == CHOOSE k \in S : \A l \in S : k <= l

Find(t) ==
    /\ At(t, "find")
    /\ IF IndexesOf(arg[t]) = {}
         THEN Goto(t, "shutdown") /\ UNCHANGED idx
         ELSE Goto(t, "dec") /\ idx' = [idx EXCEPT ![t] = First(IndexesOf(arg[t]))]
    /\ UNCHANGED <<table, state, held, arg, exit, dropped>>

\* Mutant: g_instance_count - 1 instead of --g_instance_count.
Decrement_Forgotten(t) ==
    /\ At(t, "dec")
    /\ Goto(t, "move")
    /\ UNCHANGED <<table, state, held, arg, idx, exit, dropped>>

\* g_instances[i] = g_instances[--g_instance_count], two stores ...
Decrement(t) ==
    /\ At(t, "dec")
    /\ count' = count - 1
    /\ Goto(t, "move")
    /\ UNCHANGED <<slots, registered, state, held, arg, idx, exit, dropped>>

\* Mutant: the last entry does not take the place of the one that leaves.
MoveLast_Forgotten(t) ==
    /\ At(t, "move")
    /\ Goto(t, "clear")
    /\ UNCHANGED <<table, state, held, arg, idx, exit, dropped>>

MoveLast(t) ==
    /\ At(t, "move") /\ count \in 0..Max
    /\ slots' = [slots EXCEPT ![idx[t]] = slots[count]]
    /\ Goto(t, "clear")
    /\ UNCHANGED <<count, registered, state, held, arg, idx, exit, dropped>>

\* ... and g_instances[g_instance_count] = NULL.
ClearLast(t) ==
    /\ At(t, "clear") /\ count \in 0..Max
    /\ slots' = [slots EXCEPT ![count] = Null]
    /\ Goto(t, "shutdown")
    /\ UNCHANGED <<count, registered, state, held, arg, idx, exit, dropped>>

\* The rest of rpgl_stop(): the server is shut down and the object freed.
Shutdown(t) ==
    /\ At(t, "shutdown")
    /\ state' = [state EXCEPT ![arg[t]] = "freed"]
    /\ Return(t)
    /\ UNCHANGED <<table, held, exit, dropped>>

----------------------------------------------------------------------------
\* A signal comes while thread t is anywhere, or t calls exit(); before the
\* first instance is registered that ends the process at once.
Terminate(t) ==
    /\ phase = "run"
    /\ IF registered
         THEN phase' = "loop" /\ handler' = t /\ seen' = Entries
         ELSE phase' = "dead" /\ UNCHANGED <<handler, seen>>
    /\ i' = 0
    /\ UNCHANGED <<table, state, held, local, dropped>>

\* Mutant: an empty slot stops the loop variable.
SkipSlot_Stuck ==
    /\ phase = "loop" /\ i < count /\ slots[i] = Null
    /\ UNCHANGED vars

\* if (g_instances[i]): a slot not yet stored when the signal came.
SkipSlot ==
    /\ phase = "loop" /\ i < count /\ slots[i] = Null
    /\ i' = i + 1
    /\ UNCHANGED <<table, state, held, local, phase, handler, seen, dropped>>

\* Mutant: after an entry is stopped the one behind its successor is next.
StopSlot_SkipsTwo ==
    /\ phase = "loop" /\ i < count /\ slots[i] # Null
    /\ LET x == slots[i]
           last == count - 1
       IN  /\ slots' = [slots EXCEPT ![First(IndexesOf(x))] = slots[last],
                                     ![last] = Null, ![i] = Null]
           /\ state' = [state EXCEPT ![x] = "freed"]
    /\ count' = count - 1
    /\ i' = i + 2
    /\ UNCHANGED <<registered, held, local, phase, handler, seen, dropped>>

\* rpgl_stop(g_instances[i]), whose untrack_instance() fills the slot with the
\* last entry, then g_instances[i] = NULL.
StopSlot ==
    /\ phase = "loop" /\ i < count /\ slots[i] # Null
    /\ LET x == slots[i]
           last == count - 1
       IN  /\ slots' = [slots EXCEPT ![First(IndexesOf(x))] = slots[last],
                                     ![last] = Null, ![i] = Null]
           /\ state' = [state EXCEPT ![x] = "freed"]
    /\ count' = count - 1
    /\ i' = i + 1
    /\ UNCHANGED <<registered, held, local, phase, handler, seen, dropped>>

\* g_instance_count = 0; the process ends.
EndLoop ==
    /\ phase = "loop" /\ i >= count
    /\ count' = 0
    /\ phase' = "dead"
    /\ UNCHANGED <<slots, registered, state, held, local, handler, i, seen, dropped>>

Cleanup == SkipSlot \/ StopSlot \/ EndLoop

Track(t) ==
    Register(t) \/ CheckRoom(t) \/ ReadCount(t) \/ BumpCount(t) \/ StoreSlot(t)
Untrack(t) == Find(t) \/ Decrement(t) \/ MoveLast(t) \/ ClearLast(t)

Next ==
    \/ \E t \in Threads :
         \/ \E x \in Insts : Boot(t, x) \/ ConnectExisting(t, x) \/ Stop(t, x)
         \/ Track(t) \/ Untrack(t) \/ Shutdown(t)
         \/ Terminate(t)
    \/ Cleanup

Spec == Init /\ [][Next]_vars

\* The thread that runs the cleanup is scheduled.
FairSpec == Spec /\ WF_vars(Cleanup)

----------------------------------------------------------------------------
\* Between two calls the table holds exactly the instances that the process
\* has started and not stopped, each once and with no gap: track_instance()
\* and untrack_instance() lose and duplicate nothing (pg_shim.c:217-238).
Quiet == phase = "run" /\ \A t \in Threads : pc[t] = "idle"
Tracked == {x \in held : state[x] = "up"} \ dropped

TableExact ==
    Quiet =>
        /\ Entries = Tracked
        /\ \A k \in 0..(count - 1) : slots[k] # Null
        /\ \A k, l \in 0..(count - 1) : slots[k] = slots[l] => k = l

\* Wherever the signal comes, the cleanup never passes a freed instance to
\* rpgl_stop(), nor one twice (pg_shim.c:51-59).
NoStaleEntry ==
    phase = "loop" =>
        /\ \A k \in i..(count - 1) : slots[k] # Null => state[slots[k]] = "up"
        /\ \A k, l \in i..(count - 1) : slots[k] = slots[l] /\ slots[k] # Null => k = l

\* The cleanup leaves at most every second entry of the table running: the
\* last entry moves into the slot just visited and is then erased there.
HalfStopped ==
    phase = "dead" =>
        2 * Cardinality({x \in seen : state[x] = "up"}) <= Cardinality(seen)

\* An exit between two calls stops the first half of the table, rounded up, and
\* nothing else: a process with one instance leaves nothing behind, one with n
\* leaves n \div 2 servers (pg_shim.c:51-59, 233-234).
ExitLeavesHalf ==
    phase = "dead" /\ handler # Null /\ (\A t \in Threads : pc[t] = "idle") =>
        Cardinality({x \in seen : state[x] = "up"}) = Cardinality(seen) \div 2

\* An instance goes untracked only when MAX_INSTANCES others are running and in
\* the table: starts and stops do not wear it out (pg_shim.c:225-226, 233).
DropOnlyWhenFull ==
    [][ dropped' # dropped => Cardinality(Tracked) = Max ]_vars

\* A signal anywhere inside rpgl_start() or rpgl_stop() hides at most one running
\* instance from the cleanup, beside those that found the table full: the one
\* being started or stopped, or the last entry while it is moved
\* (pg_shim.c:51-59, 608, 674, 682).
Missed == ({x \in Insts : state[x] = "up"} \ seen) \ dropped

ExitMissesOne == phase # "run" => Cardinality(Missed) <= 1

\* For one thread the stores are steps of Registry: each start adds its server,
\* each stop takes it away, an instance is left out only when the table is full,
\* and the cleanup stops known, running ones (pg_shim.c:44-67, 217-238).
Live == {x \in Insts : state[x] = "up"} \ dropped
Reach == {slots[k] : k \in i..(count - 1)} \ {Null}

RG == INSTANCE Registry WITH
    Capacity <- Max,
    phase <- IF phase = "loop" THEN "exit" ELSE phase,
    live <- Live, untracked <- dropped,
    reach <- IF phase = "loop" THEN Reach ELSE {}

KeepsRegistry == RG!Spec

\* Every exit comes to its end.
CleanupEnds == phase = "loop" ~> phase = "dead"

\* "Instance tracking for cleanup on exit" (pg_shim.c:44): every instance that
\* was handed out and fits is in the table, whichever threads started it.
HandlesTracked == Quiet => Tracked \subseteq Entries

\* "Instance tracking for cleanup on exit" (pg_shim.c:44): what is in the table
\* when the process exits is stopped.
ExitStopsAll == phase = "dead" => \A x \in seen : state[x] = "freed"
=============================================================================
