------------------------------ MODULE SqlExec ------------------------------
(***************************************************************************)
(* SQL execution of rustypglite-sys/shim/pg_shim.c: rpgl_exec_sql(),       *)
(* rpgl_create_database() and rpgl_exec_file() run a statement in process  *)
(* through libpq, which load_libpq() opens on first use, or through the    *)
(* programs psql and createdb.                                             *)
(*                                                                         *)
(* libpq_handle and the function pointers belong to the process and have   *)
(* no lock: every store to them is a step of its own.  The pointers are    *)
(* numbered in the order of the dlsym() calls: the first stands for those  *)
(* that connect, the last is pq_finish, the others execute.                *)
(***************************************************************************)
EXTENDS Integers

CONSTANTS
    Threads,   \* threads that call the shim, each with an instance of its own
    N,         \* number of function pointers
    MaxOpens   \* bound: loads that race may leak that many dlopen()s

ASSUME SqlExecAssumption ==
    /\ N \in Nat /\ N >= 2
    /\ MaxOpens \in Nat

VARIABLES
    symbols,   \* of the installed libpq: what dlsym() finds in it; {} if none
    tools,     \* which of psql and createdb the installation has
    handle,    \* libpq_handle # NULL
    ptr,       \* ptr[k]: pointer k is set
    opens,     \* dlopen()s not undone by dlclose(): 0 unmaps the library
    crashed,   \* the process died of a call through a bad pointer
    pc,        \* where each thread is
    kind,      \* of its call: "sql", "database" or "file"
    next,      \* the pointer it loads next
    ret,       \* what its last call returned
    effects,   \* history: how often the statement of the call took effect
    whole      \* history: the statement was executed to its end at least once

lib == <<handle, ptr, opens>>
call == <<kind, ret>>
history == <<effects, whole>>
vars == <<symbols, tools, handle, ptr, opens, crashed, pc, kind, next, ret,
          effects, whole>>

Pointers == 1..N
Loading == {"open", "symbol", "verify", "close", "clear"}
PCs == Loading \cup
    {"idle", "load", "connect", "discard", "execute", "fallback"}

TypeOK ==
    /\ symbols \subseteq Pointers
    /\ tools \subseteq {"psql", "createdb"}
    /\ handle \in BOOLEAN
    /\ ptr \in [Pointers -> BOOLEAN]
    /\ opens \in 0..MaxOpens
    /\ crashed \in BOOLEAN
    /\ pc \in [Threads -> PCs]
    /\ kind \in [Threads -> {"sql", "database", "file"}]
    /\ next \in [Threads -> Pointers]
    /\ ret \in [Threads -> {"none", "ok", "error"}]
    /\ effects \in [Threads -> 0..2]
    /\ whole \in [Threads -> BOOLEAN]

Init ==
    /\ symbols \in SUBSET Pointers
    /\ tools \in SUBSET {"psql", "createdb"}
    /\ handle = FALSE /\ opens = 0 /\ crashed = FALSE
    /\ ptr = [k \in Pointers |-> FALSE]
    /\ pc = [t \in Threads |-> "idle"]
    /\ kind = [t \in Threads |-> "sql"]
    /\ next = [t \in Threads |-> 1]
    /\ ret = [t \in Threads |-> "none"]
    /\ effects = [t \in Threads |-> 0]
    /\ whole = [t \in Threads |-> FALSE]

At(t, point) == pc[t] = point /\ ~ crashed
Goto(t, point) == pc' = [pc EXCEPT ![t] = point]

Return(t, rc) ==
    /\ Goto(t, "idle")
    /\ ret' = [ret EXCEPT ![t] = rc]

----------------------------------------------------------------------------
\* A call is entered.  rpgl_exec_file() prefers psql, the others libpq.
Call(t) ==
    /\ At(t, "idle")
    /\ \E k \in {"sql", "database", "file"} :
         /\ kind' = [kind EXCEPT ![t] = k]
         /\ Goto(t, IF k = "file" /\ "psql" \in tools THEN "fallback" ELSE "load")
    /\ ret' = [ret EXCEPT ![t] = "none"]
    /\ effects' = [effects EXCEPT ![t] = 0]
    /\ whole' = [whole EXCEPT ![t] = FALSE]
    /\ UNCHANGED <<symbols, tools, lib, crashed, next>>

\* if (libpq_handle) return 0
CheckHandle(t) ==
    /\ At(t, "load")
    /\ Goto(t, IF handle THEN "connect" ELSE "open")
    /\ UNCHANGED <<symbols, tools, lib, crashed, call, next, history>>

\* exec_via_libpq() fails.  rpgl_exec_file() returns its code; the others try
\* their program and return its code if it is not installed.
Program(t) == IF kind[t] = "database" THEN "createdb" ELSE "psql"

ViaLibpqFails(t) ==
    IF kind[t] # "file" /\ Program(t) \in tools
      THEN Goto(t, "fallback") /\ UNCHANGED ret
      ELSE Return(t, "error")

\* dlopen() of up to three names, straight into libpq_handle.
Open(t) ==
    /\ At(t, "open") /\ opens < MaxOpens
    /\ handle' = (symbols # {})
    /\ IF symbols = {}
         THEN ViaLibpqFails(t) /\ UNCHANGED <<opens, next>>
         ELSE /\ opens' = opens + 1
              /\ next' = [next EXCEPT ![t] = 1]
              /\ Goto(t, "symbol")
              /\ UNCHANGED ret
    /\ UNCHANGED <<symbols, tools, ptr, crashed, kind, history>>

\* Mutant: the last name is not recognised.
LoadSymbol_OffByOne(t) ==
    /\ At(t, "symbol")
    /\ ptr' = [ptr EXCEPT ![next[t]] = handle /\ next[t] \in symbols]
    /\ IF next[t] <= N
         THEN next' = [next EXCEPT ![t] = @ + 1] /\ UNCHANGED pc
         ELSE Goto(t, "verify") /\ UNCHANGED next
    /\ UNCHANGED <<symbols, tools, handle, opens, crashed, call, history>>

\* dlsym() of the next name.  Of a handle that another thread has cleared it
\* finds nothing: libpq is opened with RTLD_LOCAL.
LoadSymbol(t) ==
    /\ At(t, "symbol")
    /\ ptr' = [ptr EXCEPT ![next[t]] = handle /\ next[t] \in symbols]
    /\ IF next[t] < N
         THEN next' = [next EXCEPT ![t] = @ + 1] /\ UNCHANGED pc
         ELSE Goto(t, "verify") /\ UNCHANGED next
    /\ UNCHANGED <<symbols, tools, handle, opens, crashed, call, history>>

\* Mutant: one pointer is not tested.
Verify_ForgetsOne(t) ==
    /\ At(t, "verify")
    /\ Goto(t, IF \A k \in 1..(N - 1) : ptr[k] THEN "connect" ELSE "close")
    /\ UNCHANGED <<symbols, tools, lib, crashed, call, next, history>>

\* if (!pq_connectdb || ...)
Verify(t) ==
    /\ At(t, "verify")
    /\ Goto(t, IF \A k \in Pointers : ptr[k] THEN "connect" ELSE "close")
    /\ UNCHANGED <<symbols, tools, lib, crashed, call, next, history>>

\* dlclose(libpq_handle): of NULL, or of a handle closed before, it is an error.
Close(t) ==
    /\ At(t, "close")
    /\ opens' = IF handle /\ opens > 0 THEN opens - 1 ELSE opens
    /\ Goto(t, "clear")
    /\ UNCHANGED <<symbols, tools, handle, ptr, crashed, call, next, history>>

\* libpq_handle = NULL.  The pointers keep their values.
Clear(t) ==
    /\ At(t, "clear")
    /\ handle' = FALSE
    /\ ViaLibpqFails(t)
    /\ UNCHANGED <<symbols, tools, ptr, opens, crashed, kind, next, history>>

----------------------------------------------------------------------------
\* A call through the pointers S works only if they are set and the library is
\* still mapped.
Callable(S) == opens > 0 /\ \A k \in S : ptr[k]

Crash(t) ==
    /\ \/ At(t, "connect") /\ ~ Callable({1})
       \/ At(t, "discard") /\ ~ Callable({N})
       \/ At(t, "execute") /\ ~ Callable(2..N)
    /\ crashed' = TRUE
    /\ UNCHANGED <<symbols, tools, lib, pc, call, next, history>>

\* PQconnectdb(), PQstatus(): the server may be gone, full or without the
\* database, or there is no memory and no connection to finish.
Connect(t) ==
    /\ At(t, "connect") /\ Callable({1})
    /\ \/ \E point \in {"execute", "discard"} : Goto(t, point) /\ UNCHANGED ret
       \/ ViaLibpqFails(t)
    /\ UNCHANGED <<symbols, tools, lib, crashed, kind, next, history>>

\* Mutant: a connection that fails unloads the library and leaves libpq_handle.
Discard_Unloads(t) ==
    /\ At(t, "discard") /\ Callable({N})
    /\ ViaLibpqFails(t) /\ opens' = opens - 1
    /\ UNCHANGED <<symbols, tools, handle, ptr, crashed, kind, next, history>>

\* PQfinish() of a connection that is not CONNECTION_OK.
Discard(t) ==
    /\ At(t, "discard") /\ Callable({N})
    /\ ViaLibpqFails(t)
    /\ UNCHANGED <<symbols, tools, lib, crashed, kind, next, history>>

\* The statement takes effect.  A database is created once.
Effect(t) ==
    /\ kind[t] = "database" => effects[t] = 0
    /\ effects' = [effects EXCEPT ![t] = @ + 1]

\* What the server does with a statement: all of it, nothing, or, when a later
\* part of the text fails or the connection breaks on the way, something.
Done(t) == Effect(t) /\ whole' = [whole EXCEPT ![t] = TRUE]
Refused(t) == UNCHANGED history
Cut(t) == Effect(t) /\ UNCHANGED whole

\* PQexec() and the calls after it: PGRES_COMMAND_OK or PGRES_TUPLES_OK returns
\* RPGL_OK.  A statement may have been executed to its end, or in part, and its
\* answer be lost with the connection.
Execute(t) ==
    /\ At(t, "execute") /\ Callable(2..N)
    /\ \/ Done(t) /\ Return(t, "ok")
       \/ (Done(t) \/ Refused(t) \/ Cut(t)) /\ ViaLibpqFails(t)
    /\ UNCHANGED <<symbols, tools, lib, crashed, kind, next>>

\* Mutant: the exit code of the program is not looked at.
RunProgram_IgnoresExit(t) ==
    /\ At(t, "fallback")
    /\ (Done(t) \/ Refused(t) \/ Cut(t)) /\ Return(t, "ok")
    /\ UNCHANGED <<symbols, tools, lib, crashed, kind, next>>

\* run_cmd() of psql -c, createdb or psql -f, which may lose its connection too.
\* Without ON_ERROR_STOP psql -f exits with 0 although a statement of the file
\* failed.
RunProgram(t) ==
    /\ At(t, "fallback")
    /\ \/ Done(t) /\ Return(t, "ok")
       \/ (Done(t) \/ Refused(t) \/ Cut(t)) /\ Return(t, "error")
       \/ kind[t] = "file" /\ (Refused(t) \/ Cut(t)) /\ Return(t, "ok")
    /\ UNCHANGED <<symbols, tools, lib, crashed, kind, next>>

----------------------------------------------------------------------------
Load(t) ==
    \/ CheckHandle(t) \/ Open(t) \/ LoadSymbol(t)
    \/ Verify(t) \/ Close(t) \/ Clear(t)

ViaLibpq(t) ==
    Load(t) \/ Connect(t) \/ Discard(t) \/ Execute(t) \/ Crash(t)

Next == \E t \in Threads : Call(t) \/ ViaLibpq(t) \/ RunProgram(t)

Spec == Init /\ [][Next]_vars

----------------------------------------------------------------------------
\* The test of libpq_handle in load_libpq() is enough whenever no thread is
\* inside: an open handle means that every pointer can be called
\* (pg_shim.c:829, 869-874).
OpenMeansLoaded ==
    handle /\ (\A t \in Threads : pc[t] \notin Loading) => Callable(Pointers)

\* RPGL_OK means that the statement was executed to its end, whichever way it
\* took; of a file only where psql is missing (pg_shim.c:919, 935, 947, 966).
OkMeansDone ==
    \A t \in Threads :
        ret[t] = "ok" /\ (kind[t] = "file" => "psql" \notin tools) => whole[t]

\* A complete libpq kills the process only in a race: a call through a bad pointer
\* meets another thread that is still inside load_libpq() (pg_shim.c:829-875).
CrashIsRace ==
    [][ symbols = Pointers /\ crashed' /\ ~ crashed
        => \E t \in Threads : pc[t] \in Loading ]_vars

\* A statement takes effect at most once, since "fallback to psql" is for when
\* "libpq failed to load" (pg_shim.c:921, 949).
AtMostOnce == \A t \in Threads : effects[t] <= 1
=============================================================================
