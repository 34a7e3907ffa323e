--------------------------- MODULE EmbeddedServer ---------------------------
(***************************************************************************)
(* What an rpgl_instance promises to the program that uses it, without     *)
(* the processes, files and time limits that Lifecycle implements it with  *)
(* (rpgl_start(), rpgl_stop() and rpgl_connect_existing() of               *)
(* rustypglite-sys/shim/pg_shim.c).                                        *)
(*                                                                         *)
(* A handle is on one data directory from its first call to its last.      *)
(* Only handles on a directory change what is in it, only its owner        *)
(* deletes it, and a start hands a handle out when a server answers there. *)
(* A server is ended by the stop of the handle that started it, or by any  *)
(* stop on its directory that can use pg_ctl.                              *)
(***************************************************************************)
CONSTANTS
    Handles,  \* rpgl_instance objects, each used for one start and one stop
    Dirs,     \* data directories
    NoDir, NoServer

VARIABLES
    phase,    \* of each handle: "none", "starting", "up", "attached" (a guest),
              \* "stopping", "gone" or "lost" (its process has died)
    on,       \* its data_dir
    ctl,      \* the handles whose calls find a pg_ctl
    opened,   \* the handles that rpgl_start() has opened
    owner,    \* those whose stop deletes their directory
    data,     \* directories that hold a database cluster
    server,   \* of each directory: the handle that started the server there
    broken    \* directories whose last server ended by itself

vars == <<phase, on, ctl, opened, owner, data, server, broken>>

Turn(h, from, to) == phase[h] = from /\ phase' = [phase EXCEPT ![h] = to]

Init ==
    /\ phase = [h \in Handles |-> "none"]
    /\ on = [h \in Handles |-> NoDir]
    /\ ctl \in SUBSET Handles
    /\ opened = {} /\ owner = {} /\ data = {} /\ broken = {}
    /\ server = [d \in Dirs |-> NoServer]

\* rpgl_start() on a directory that it makes: nobody has used it before.
OpenFresh(h, d) ==
    /\ Turn(h, "none", "starting")
    /\ d \notin data /\ \A g \in Handles : on[g] # d
    /\ on' = [on EXCEPT ![h] = d]
    /\ opened' = opened \cup {h}
    /\ owner' \in {owner, owner \cup {h}}
    /\ UNCHANGED <<ctl, data, server, broken>>

\* rpgl_start() on a directory of the caller's.
OpenGiven(h, d) ==
    /\ Turn(h, "none", "starting")
    /\ on' = [on EXCEPT ![h] = d]
    /\ opened' = opened \cup {h}
    /\ UNCHANGED <<ctl, owner, data, server, broken>>

\* rpgl_connect_existing(): a handle that starts nothing.
Attach(h, d) ==
    /\ Turn(h, "none", "attached")
    /\ on' = [on EXCEPT ![h] = d]
    /\ UNCHANGED <<ctl, opened, owner, data, server, broken>>

Create(h) ==
    /\ phase[h] = "starting"
    /\ data' = data \cup {on[h]}
    /\ UNCHANGED <<phase, on, ctl, opened, owner, server, broken>>

\* The server that a handle started answers, perhaps after that handle's end.
Serve(h) ==
    /\ h \in opened
    /\ on[h] \in data /\ server[on[h]] = NoServer
    /\ server' = [server EXCEPT ![on[h]] = h]
    /\ broken' = broken \ {on[h]}
    /\ UNCHANGED <<phase, on, ctl, opened, owner, data>>

Ready(h) ==
    /\ Turn(h, "starting", "up")
    /\ server[on[h]] # NoServer
    /\ UNCHANGED <<on, ctl, opened, owner, data, server, broken>>

GiveUp(h) ==
    /\ Turn(h, "starting", "stopping")
    /\ UNCHANGED <<on, ctl, opened, owner, data, server, broken>>

Close(h) ==
    /\ Turn(h, "up", "stopping") \/ Turn(h, "attached", "stopping")
    /\ UNCHANGED <<on, ctl, opened, owner, data, server, broken>>

\* A stop ends the server of the handle's directory: with pg_ctl whoever
\* started it, without only the one that the handle itself has started.
MayEnd(h, d) == on[h] = d /\ (h \in ctl \/ server[d] = h)

EndServer(h) ==
    /\ phase[h] = "stopping" /\ MayEnd(h, on[h])
    /\ server' = [server EXCEPT ![on[h]] = NoServer]
    /\ UNCHANGED <<phase, on, ctl, opened, owner, data, broken>>

\* The last step of a stop deletes an owner's directory.
Finish(h) ==
    /\ Turn(h, "stopping", "gone")
    /\ \/ /\ h \in owner
          /\ data' = data \ {on[h]}
          /\ server' = [server EXCEPT ![on[h]] = NoServer]
       \/ h \notin owner /\ UNCHANGED <<data, server>>
    /\ UNCHANGED <<on, ctl, opened, owner, broken>>

Fail(d) ==
    /\ server[d] # NoServer
    /\ server' = [server EXCEPT ![d] = NoServer]
    /\ broken' = broken \cup {d}
    /\ UNCHANGED <<phase, on, ctl, opened, owner, data>>

\* The process that uses the handle dies; an initdb it has begun goes on.
Crash(h) ==
    /\ \E p \in {"starting", "up", "attached", "stopping"} : Turn(h, p, "lost")
    /\ \/ data' = data
       \/ phase[h] = "starting" /\ data' = data \cup {on[h]}
    /\ UNCHANGED <<on, ctl, opened, owner, server, broken>>

Next ==
    \/ \E h \in Handles :
        \/ \E d \in Dirs : OpenFresh(h, d) \/ OpenGiven(h, d) \/ Attach(h, d)
        \/ Create(h) \/ Serve(h) \/ Ready(h) \/ GiveUp(h) \/ Close(h)
        \/ EndServer(h) \/ Finish(h) \/ Crash(h)
    \/ \E d \in Dirs : Fail(d)

Spec == Init /\ [][Next]_vars

----------------------------------------------------------------------------
\* rpgl_start() hands out an instance that a server answers, and as long as the
\* instance is not stopped that server goes only if it ends by itself or while
\* a handle on the same directory is being stopped that started it, that owns
\* the directory or that has a pg_ctl (pg_shim.c:660-676, 684-719).  A guest
\* without pg_ctl never is the reason, nor is a handle whose stop is over.
KeepsServer ==
    \A h \in Handles : phase'[h] = "up" /\ server'[on'[h]] = NoServer =>
        /\ phase[h] = "up"
        /\ \/ server[on[h]] = NoServer
           \/ on[h] \in broken' \ broken
           \/ \E g \in Handles :
               /\ phase[g] = "stopping" /\ on[g] = on[h]
               /\ MayEnd(g, on[h]) \/ g \in owner

UpServed == [][KeepsServer]_vars
=============================================================================
