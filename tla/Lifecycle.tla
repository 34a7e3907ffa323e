----------------------------- MODULE Lifecycle -----------------------------
(***************************************************************************)
(* The life of instances: rpgl_start(), rpgl_stop() and                    *)
(* rpgl_connect_existing() of rustypglite-sys/shim/pg_shim.c, with and     *)
(* without pg_ctl, by several host processes that may use one data         *)
(* directory, and the servers they start.                                  *)
(*                                                                         *)
(* A handle forks at most one server, so a server is named by the handle   *)
(* that forked it; a process id is not used twice.  The startup lock and   *)
(* the reclaim of stale directories before all this are in StaleDirs.      *)
(***************************************************************************)
CONSTANTS
    Handles,   \* rpgl_instance objects, and the servers they fork
    Dirs,      \* data directories
    NoDir, NoServer

ASSUME LifecycleAssumption ==
    /\ NoDir \notin Dirs
    /\ NoServer \notin Handles

VARIABLES
    pgctl,     \* the handles whose calls find a pg_ctl
    pc,        \* where each handle's call is
    kind,      \* how the handle was opened
    dir,       \* its data_dir
    proc,      \* the server process the handle has forked
    cluster,   \* directories that initdb has filled
    pidfile,   \* postmaster.pid of each directory: whose server wrote it
    broken     \* history: directories whose last server ended by itself

host == <<pc, kind, dir>>
vars == <<pgctl, pc, kind, dir, proc, cluster, pidfile, broken>>

Starting == {"initdb", "make", "fork", "pgctl", "wait"}
Stopping == {"stop", "reap", "kill", "collect", "remove"}
Held == {"up", "attached"}
Calling == Starting \cup Stopping

\* Of a server process: "ending" has been told to stop, "killed" has a SIGKILL
\* to die of.  One that has ended is a "zombie", whose process id still exists,
\* until its host waits for it.
Alive == {"forked", "booting", "serving", "ending"}

TypeOK ==
    /\ pgctl \subseteq Handles
    /\ pc \in [Handles -> {"none", "gone", "lost"} \cup Held \cup Calling]
    /\ kind \in [Handles -> {"none", "auto", "keep", "given", "guest"}]
    /\ dir \in [Handles -> Dirs \cup {NoDir}]
    /\ \A h \in Handles : pc[h] # "none" => dir[h] \in Dirs
    /\ proc \in [Handles -> {"none", "killed", "zombie", "ended"} \cup Alive]
    /\ cluster \subseteq Dirs
    /\ pidfile \in [Dirs -> Handles \cup {NoServer}]
    /\ broken \subseteq Dirs

\* A host without a pg_ctl beside its initdb and postgres, or a guest whose host
\* has no programs at all, is not in pgctl.
Init ==
    /\ pgctl \in SUBSET Handles
    /\ pc = [h \in Handles |-> "none"]
    /\ kind = [h \in Handles |-> "none"]
    /\ dir = [h \in Handles |-> NoDir]
    /\ proc = [h \in Handles |-> "none"]
    /\ cluster = {}
    /\ pidfile = [d \in Dirs |-> NoServer]
    /\ broken = {}

Goto(h, from, to) == pc[h] = from /\ pc' = [pc EXCEPT ![h] = to]

\* kill(pid, 0) on the process that postmaster.pid names.
Exists(s) == s # NoServer /\ proc[s] \in Alive \cup {"killed", "zombie"}

Answers(d) == pidfile[d] # NoServer /\ proc[pidfile[d]] = "serving"

\* A server ends: a child stays until its host waits for it, a server that
\* pg_ctl has detached, or whose host is gone, does not.
AtEnd(s) == IF s \in pgctl \/ pc[s] = "lost" THEN "ended" ELSE "zombie"

Proc(s, state) == proc' = [proc EXCEPT ![s] = state]

\* A signal that asks a server to end.
Signal(s) == Proc(s, IF proc[s] \in Alive THEN "ending" ELSE proc[s])

----------------------------------------------------------------------------
(* rpgl_start() *)

\* The caller's data directory, or a new one that the stop deletes or keeps.
Begin(h, d, k) ==
    /\ Goto(h, "none", "initdb")
    /\ \/ k = "given"
       \/ d \notin cluster /\ \A g \in Handles : dir[g] # d
    /\ kind' = [kind EXCEPT ![h] = k]
    /\ dir' = [dir EXCEPT ![h] = d]
    /\ UNCHANGED <<pgctl, proc, cluster, pidfile, broken>>

\* Is there a PG_VERSION?
CheckVersion(h) ==
    /\ Goto(h, "initdb", IF dir[h] \in cluster THEN "fork" ELSE "make")
    /\ UNCHANGED <<pgctl, kind, dir, proc, cluster, pidfile, broken>>

\* initdb refuses a directory that is not empty any more.
Initdb(h) ==
    /\ dir[h] \notin cluster
    /\ Goto(h, "make", "fork")
    /\ cluster' = cluster \cup {dir[h]}
    /\ UNCHANGED <<pgctl, kind, dir, proc, pidfile, broken>>

InitdbFails(h) ==
    /\ Goto(h, "make", "stop")
    /\ UNCHANGED <<pgctl, kind, dir, proc, cluster, pidfile, broken>>

\* pg_ctl start -w, or fork() and execl() of postgres.
StartServer(h) ==
    /\ Goto(h, "fork", IF h \in pgctl THEN "pgctl" ELSE "wait")
    /\ Proc(h, "forked")
    /\ UNCHANGED <<pgctl, kind, dir, cluster, pidfile, broken>>

ForkFails(h) ==
    /\ Goto(h, "fork", "stop")
    /\ UNCHANGED <<pgctl, kind, dir, proc, cluster, pidfile, broken>>

\* pg_ctl start waits for the server it has started, for 10 seconds at most.
PgCtlStarted(h) ==
    /\ proc[h] = "serving"
    /\ Goto(h, "pgctl", "wait")
    /\ UNCHANGED <<pgctl, kind, dir, proc, cluster, pidfile, broken>>

\* The server may answer by the time that pg_ctl has given up.
PgCtlFails(h) ==
    /\ Goto(h, "pgctl", "stop")
    /\ UNCHANGED <<pgctl, kind, dir, proc, cluster, pidfile, broken>>

\* Mutant: the instance is handed out without waiting for an answer.
Ready_Unchecked(h) ==
    /\ Goto(h, "wait", "up")
    /\ UNCHANGED <<pgctl, kind, dir, proc, cluster, pidfile, broken>>

\* wait_for_ready(): whatever answers on the instance's port in its directory,
\* which is another handle's server if the caller gave both the same port.
Ready(h) ==
    /\ Goto(h, "wait", "up")
    /\ Answers(dir[h])
    /\ UNCHANGED <<pgctl, kind, dir, proc, cluster, pidfile, broken>>

\* Also when the server answers too late, or on another port.
ReadyTimesOut(h) ==
    /\ Goto(h, "wait", "stop")
    /\ UNCHANGED <<pgctl, kind, dir, proc, cluster, pidfile, broken>>

----------------------------------------------------------------------------
\* Mutant: the handle of a running server has no data_dir.
ConnectExisting_NoDir(h, d) ==
    /\ Goto(h, "none", "attached")
    /\ pidfile[d] # NoServer
    /\ kind' = [kind EXCEPT ![h] = "guest"]
    /\ UNCHANGED <<pgctl, dir, proc, cluster, pidfile, broken>>

\* rpgl_connect_existing() reads postmaster.pid, whether or not that server lives.
ConnectExisting(h, d) ==
    /\ Goto(h, "none", "attached")
    /\ pidfile[d] # NoServer
    /\ kind' = [kind EXCEPT ![h] = "guest"]
    /\ dir' = [dir EXCEPT ![h] = d]
    /\ UNCHANGED <<pgctl, proc, cluster, pidfile, broken>>

----------------------------------------------------------------------------
(* rpgl_stop() *)

Stop(h) ==
    /\ Goto(h, "up", "stop") \/ Goto(h, "attached", "stop")
    /\ UNCHANGED <<pgctl, kind, dir, proc, cluster, pidfile, broken>>

\* pg_ctl stop signals the process that postmaster.pid names, whoever started it.
PgCtlStop(h) ==
    LET s == pidfile[dir[h]] IN
    /\ h \in pgctl /\ pc[h] = "stop"
    /\ \/ Exists(s) /\ Signal(s) /\ Goto(h, "stop", "reap")
       \/ ~Exists(s) /\ UNCHANGED proc /\ Goto(h, "stop", "remove")
    /\ UNCHANGED <<pgctl, kind, dir, cluster, pidfile, broken>>

\* It returns when the server has ended or after 5 seconds: nobody asks which.
PgCtlReturns(h) ==
    /\ h \in pgctl
    /\ Goto(h, "reap", "remove")
    /\ UNCHANGED <<pgctl, kind, dir, proc, cluster, pidfile, broken>>

\* Without pg_ctl only the handle's own child is signalled, if there is one.
Terminate(h) ==
    /\ h \notin pgctl /\ proc[h] # "none"
    /\ Goto(h, "stop", "reap")
    /\ Signal(h)
    /\ UNCHANGED <<pgctl, kind, dir, cluster, pidfile, broken>>

\* Mutant: a guest keeps the process id that it has read from postmaster.pid.
NothingToSignal_Guest(h) ==
    LET s == pidfile[dir[h]] IN
    /\ h \notin pgctl /\ proc[h] = "none"
    /\ Goto(h, "stop", "remove")
    /\ IF kind[h] = "guest" /\ Exists(s) THEN Signal(s) ELSE UNCHANGED proc
    /\ UNCHANGED <<pgctl, kind, dir, cluster, pidfile, broken>>

\* A guest has pg_pid = 0, and so has a start that has not come to its fork().
NothingToSignal(h) ==
    /\ h \notin pgctl /\ proc[h] = "none"
    /\ Goto(h, "stop", "remove")
    /\ UNCHANGED <<pgctl, kind, dir, proc, cluster, pidfile, broken>>

\* waitpid() has found the child, so that kill(pid, 0) finds it no more.
Reap(h) ==
    /\ h \notin pgctl /\ proc[h] = "zombie"
    /\ Goto(h, "reap", "remove")
    /\ Proc(h, "ended")
    /\ UNCHANGED <<pgctl, kind, dir, cluster, pidfile, broken>>

ReapTimesOut(h) ==
    /\ h \notin pgctl
    /\ Goto(h, "reap", "kill")
    /\ UNCHANGED <<pgctl, kind, dir, proc, cluster, pidfile, broken>>

\* Mutant: SIGTERM once more instead of SIGKILL.
Kill_Gently(h) ==
    /\ Goto(h, "kill", "collect")
    /\ UNCHANGED <<pgctl, kind, dir, proc, cluster, pidfile, broken>>

\* Mutant: SIGKILL and no waitpid() after it.
Kill_NoWait(h) ==
    /\ Goto(h, "kill", "remove")
    /\ Proc(h, IF proc[h] \in Alive THEN "killed" ELSE proc[h])
    /\ UNCHANGED <<pgctl, kind, dir, cluster, pidfile, broken>>

\* SIGKILL, of which the server will die, unless it has ended since the last
\* look and is a zombie.
Kill(h) ==
    /\ Goto(h, "kill", "collect")
    /\ Proc(h, IF proc[h] \in Alive THEN "killed" ELSE proc[h])
    /\ UNCHANGED <<pgctl, kind, dir, cluster, pidfile, broken>>

\* The waitpid() that blocks until the child has died.
Collect(h) ==
    /\ proc[h] = "zombie"
    /\ Goto(h, "collect", "remove")
    /\ Proc(h, "ended")
    /\ UNCHANGED <<pgctl, kind, dir, cluster, pidfile, broken>>

\* Mutant: every data directory is deleted.
Remove_Given(h) ==
    /\ Goto(h, "remove", "gone")
    /\ cluster' = cluster \ {dir[h]}
    /\ pidfile' = [pidfile EXCEPT ![dir[h]] = NoServer]
    /\ UNCHANGED <<pgctl, kind, dir, proc, broken>>

\* rm -rf of a directory that the start made and was not asked to keep.
Remove(h) ==
    /\ Goto(h, "remove", "gone")
    /\ \/ /\ kind[h] = "auto"
          /\ cluster' = cluster \ {dir[h]}
          /\ pidfile' = [pidfile EXCEPT ![dir[h]] = NoServer]
       \/ kind[h] # "auto" /\ UNCHANGED <<cluster, pidfile>>
    /\ UNCHANGED <<pgctl, kind, dir, proc, broken>>

----------------------------------------------------------------------------
(* The host process and the servers *)

\* The host dies without its exit cleanup.  An initdb that it has begun goes on;
\* its children are nobody's any more.
Crash(h) ==
    /\ \E p \in Held \cup Calling : Goto(h, p, "lost")
    /\ proc' = [proc EXCEPT ![h] = IF @ = "zombie" THEN "ended" ELSE @]
    /\ \/ UNCHANGED cluster
       \/ pc[h] = "make" /\ cluster' = cluster \cup {dir[h]}
    /\ UNCHANGED <<pgctl, kind, dir, pidfile, broken>>

\* A server writes postmaster.pid, or ends because it finds one whose process
\* exists, or no cluster.
LockDir(s) ==
    LET d == dir[s] IN
    /\ proc[s] = "forked"
    /\ \/ /\ d \in cluster /\ ~Exists(pidfile[d])
          /\ Proc(s, "booting")
          /\ pidfile' = [pidfile EXCEPT ![d] = s]
       \/ /\ d \notin cluster \/ Exists(pidfile[d])
          /\ Proc(s, AtEnd(s))
          /\ UNCHANGED pidfile
    /\ UNCHANGED <<pgctl, host, cluster, broken>>

Listen(s) ==
    /\ proc[s] = "booting" /\ pidfile[dir[s]] = s
    /\ Proc(s, "serving")
    /\ broken' = broken \ {dir[s]}
    /\ UNCHANGED <<pgctl, host, cluster, pidfile>>

\* The end of a server: it removes its postmaster.pid unless it is killed.
Forget(s) ==
    pidfile' = [d \in Dirs |-> IF pidfile[d] = s THEN NoServer ELSE pidfile[d]]

ShutdownCompletes(s) ==
    /\ proc[s] = "ending"
    /\ Proc(s, AtEnd(s)) /\ Forget(s)
    /\ UNCHANGED <<pgctl, host, cluster, broken>>

\* A server ends by itself or is killed, and may leave its postmaster.pid.
ServerFails(s) ==
    /\ proc[s] \in Alive
    /\ Proc(s, AtEnd(s))
    /\ Forget(s) \/ UNCHANGED pidfile
    /\ broken' = IF proc[s] = "serving" /\ pidfile[dir[s]] = s
                   THEN broken \cup {dir[s]} ELSE broken
    /\ UNCHANGED <<pgctl, host, cluster>>

\* The kernel delivers SIGKILL: postmaster.pid stays.
Dies(s) ==
    /\ proc[s] = "killed"
    /\ Proc(s, AtEnd(s))
    /\ UNCHANGED <<pgctl, host, cluster, pidfile, broken>>

----------------------------------------------------------------------------
Start(h) ==
    \/ CheckVersion(h) \/ Initdb(h) \/ InitdbFails(h)
    \/ StartServer(h) \/ ForkFails(h) \/ PgCtlStarted(h) \/ PgCtlFails(h)
    \/ Ready(h) \/ ReadyTimesOut(h)

Shutdown(h) ==
    \/ PgCtlStop(h) \/ PgCtlReturns(h) \/ Terminate(h) \/ NothingToSignal(h)
    \/ Reap(h) \/ ReapTimesOut(h) \/ Kill(h) \/ Collect(h) \/ Remove(h)

Server(s) ==
    \/ LockDir(s) \/ Listen(s) \/ ShutdownCompletes(s) \/ ServerFails(s)
    \/ Dies(s)

Next == \E h \in Handles :
    \/ \E d \in Dirs :
        \/ \E k \in {"auto", "keep", "given"} : Begin(h, d, k)
        \/ ConnectExisting(h, d)
    \/ Start(h) \/ Stop(h) \/ Shutdown(h) \/ Crash(h) \/ Server(h)

Spec == Init /\ [][Next]_vars

\* The scheduler runs a call that has begun, and SIGKILL works; but for that a
\* server may hang for ever.
FairSpec ==
    /\ Spec
    /\ \A h \in Handles : WF_vars(Start(h) \/ Shutdown(h)) /\ WF_vars(Dies(h))

----------------------------------------------------------------------------
\* What the caller can see of the point its call has reached.
PhaseOf(point) ==
    IF point \in Starting THEN "starting"
    ELSE IF point \in Stopping THEN "stopping" ELSE point

Phase == [h \in Handles |-> PhaseOf(pc[h])]

ES == INSTANCE EmbeddedServer WITH
    phase <- Phase, on <- dir,
    ctl <- pgctl,
    opened <- {h \in Handles : kind[h] \in {"auto", "keep", "given"}},
    owner <- {h \in Handles : kind[h] = "auto"},
    data <- cluster,
    server <- [d \in Dirs |-> IF Answers(d) THEN pidfile[d] ELSE NoServer]

\* Every step of the processes is a step that EmbeddedServer allows: whatever
\* fails or times out, only handles on a directory touch its server and its
\* data, a directory has one server that answers, which without pg_ctl only the
\* handle that started it ends, and only an owner deletes its directory
\* (pg_shim.c:467-728).
Implements == ES!Spec

\* See EmbeddedServer: who may take the server of an instance that was handed
\* out and is not stopped (lines 660-676, 684-719).
UpServed == ES!UpServed

\* A guest takes no server away from an instance: rpgl_connect_existing() is for
\* "shared-server-across-workers patterns" (pg_shim.h:63) and leaves the server
\* alone, "don't manage - we didn't start it" (pg_shim.c:772).
GuestsManageNothing ==
    [][ \A h \in Handles :
          pc[h] = "up" /\ pc'[h] = "up" /\ Answers(dir[h]) /\ ~ Answers(dir[h])' =>
              \/ dir[h] \in broken' \ broken
              \/ \E g \in Handles :
                  pc[g] \in Stopping /\ dir[g] = dir[h] /\ kind[g] # "guest" ]_vars

\* Without pg_ctl rpgl_stop() returns when the server it has started is gone
\* and waited for, at whatever step the start or the stop went wrong
\* (lines 699-713).
NothingLeft ==
    \A h \in Handles :
        h \notin pgctl /\ pc[h] = "gone" => proc[h] \in {"none", "ended"}

\* Two servers run in one directory only when an instance that owned it has
\* been stopped and has deleted it under one of them: neither two starts on a
\* caller's directory nor a start after a failed, timed-out or killed one make
\* two (lines 535, 608-613, 674, 684-719).
Running(s) == proc[s] \in {"booting", "serving"}

OneServer ==
    \A s, t \in Handles :
        Running(s) /\ Running(t) /\ dir[s] = dir[t] /\ s # t
        => \E h \in Handles : kind[h] = "auto" /\ dir[h] = dir[s] /\ pc[h] = "gone"

\* rpgl_start() and rpgl_stop() return, also when the server neither answers
\* nor reacts to SIGTERM (lines 660, 684-713).
CallsReturn == \A h \in Handles : pc[h] \in Calling ~> pc[h] \notin Calling
=============================================================================
