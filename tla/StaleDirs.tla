----------------------------- MODULE StaleDirs -----------------------------
(***************************************************************************)
(* The start of an instance as seen by every process of the machine:       *)
(* rpgl_start() of rustypglite-sys/shim/pg_shim.c takes the lock file      *)
(* /tmp/rpgl_startup.lock, reclaims the stale directories /tmp/rpgl_*,     *)
(* creates (or is given) a data directory, lets the lock go and boots a    *)
(* PostgreSQL server in the directory.  rpgl_stop() shuts the server down  *)
(* and deletes the directory if the handle owns it.                        *)
(*                                                                         *)
(* Processes (hosts) run several threads, share nothing but the lock and   *)
(* /tmp, and may die at any step.  The servers and the commands they fork  *)
(* outlive them.  Time is a counter: the reclaiming scan compares a        *)
(* directory's mtime with the clock it read when the scan began.           *)
(***************************************************************************)
EXTENDS Integers

CONSTANTS
    Threads,       \* threads that may be inside rpgl_start() or rpgl_stop()
    Hosts,         \* processes that load the library
    HostOf,        \* the process each thread belongs to
    Dirs,          \* names of the form /tmp/rpgl_XXXXXX
    StaleAge,      \* STALE_AGE_SECONDS, in ticks
    BootBound,     \* ticks a boot takes at most, from mkdtemp() to a socket
    MaxClock,      \* bound: the clock stops there
    MaxCrashes,    \* bound: number of hosts that die
    Options,       \* kinds of start: a subset of AllOptions
    LockMayFail,   \* can open() of the lock file fail (another user's umask)?
    NoDir, Free, Inherited

\* "auto": a fresh directory, removed by stop; "keep": a fresh directory and
\* opts.keep_data; "reopen": opts.data_dir names a directory kept earlier.
AllOptions == {"auto", "keep", "reopen"}

ASSUME StaleDirsAssumption ==
    /\ HostOf \in [Threads -> Hosts]
    /\ StaleAge \in Nat /\ BootBound \in Nat
    /\ MaxClock \in Nat /\ MaxCrashes \in Nat
    /\ Options \subseteq AllOptions
    /\ LockMayFail \in BOOLEAN
    /\ NoDir \notin Dirs
    /\ {Free, Inherited} \cap Threads = {}
    /\ Free # Inherited

\* What makes the age guard a guard: no boot lasts STALE_AGE_SECONDS.
ASSUME BootAssumption == BootBound < StaleAge

VARIABLES
    clock,     \* time(NULL) and the clock of the file system
    lock,      \* holder of the flock: Free, a thread, or Inherited
    heirs,     \* directories whose process holds a copy of the lock's descriptor
    pc,        \* where each thread is
    lockFd,    \* lock_fd of each thread: "none", "held" or "failed" (-1)
    now,       \* cleanup_stale_tmpdirs()'s variable now
    todo,      \* entries readdir() has still to return
    victim,    \* entry under examination or removal
    dir,       \* data_dir of the thread's instance
    since,     \* when the instance got its directory
    keep,      \* ! owns_data_dir
    status,    \* of each name: "unused", "empty", "cluster" (PG_VERSION exists), "gone"
    mtime,     \* of each directory
    server,    \* directories on whose socket a server accepts connections
    kept,      \* history: databases a stop left on purpose
    crashes    \* history: number of hosts that died

locals == <<now, todo, victim>>
inst == <<dir, since, keep>>
disk == <<status, mtime>>
vars == <<clock, lock, heirs, pc, lockFd, now, todo, victim, dir, since, keep,
          status, mtime, server, kept, crashes>>

\* Program points inside the window the lock protects.
Scanning == {"scan", "probe", "removing"}
Window == Scanning \cup {"create", "release"}
\* Points at which a boot is under way: from mkdtemp() to a listening socket.
\* "orphan" is a pg_ctl whose host is dead.
Booting == {"release", "initdb", "fork", "boot", "orphan"}
\* Points at which the thread's instance has a data directory, and at which the
\* scan has an entry in hand.
HasDir == Booting \cup {"ready", "running", "stop", "rm"}
HasVictim == {"probe", "removing", "orphanRm"}
PCs == Window \cup Booting \cup
       {"idle", "waiting", "ready", "running", "stop", "rm", "dead", "orphanRm"}

TypeOK ==
    /\ clock \in 0..MaxClock
    /\ lock \in Threads \cup {Free, Inherited}
    /\ heirs \subseteq Dirs
    /\ pc \in [Threads -> PCs]
    /\ lockFd \in [Threads -> {"none", "held", "failed"}]
    /\ \A t \in Threads : lockFd[t] = "none" <=> pc[t] \notin Window
    /\ now \in [Threads -> 0..MaxClock]
    /\ todo \in [Threads -> SUBSET Dirs]
    /\ victim \in [Threads -> Dirs \cup {NoDir}]
    /\ dir \in [Threads -> Dirs \cup {NoDir}]
    /\ \A t \in Threads : pc[t] \in HasDir => dir[t] # NoDir
    /\ \A t \in Threads : pc[t] \in HasVictim => victim[t] # NoDir
    /\ since \in [Threads -> 0..MaxClock]
    /\ keep \in [Threads -> BOOLEAN]
    /\ status \in [Dirs -> {"unused", "empty", "cluster", "gone"}]
    /\ mtime \in [Dirs -> 0..MaxClock]
    /\ server \subseteq Dirs
    /\ kept \subseteq Dirs
    /\ crashes \in 0..MaxCrashes

\* Directories that exist.
There == {d \in Dirs : status[d] \in {"empty", "cluster"}}
\* Directories whose socket can be reached: a server and its file are there.
Serving == server \cap There

----------------------------------------------------------------------------
\* Directories may be left over from crashed runs, with a live server or not.
Init ==
    /\ clock = 0 /\ lock = Free /\ heirs = {}
    /\ pc = [t \in Threads |-> "idle"]
    /\ lockFd = [t \in Threads |-> "none"]
    /\ now = [t \in Threads |-> 0]
    /\ todo = [t \in Threads |-> {}]
    /\ victim = [t \in Threads |-> NoDir]
    /\ dir = [t \in Threads |-> NoDir]
    /\ since = [t \in Threads |-> 0]
    /\ keep = [t \in Threads |-> FALSE]
    /\ status \in [Dirs -> {"unused", "cluster"}]
    /\ mtime = [d \in Dirs |-> 0]
    /\ server \in SUBSET There
    /\ kept = {} /\ crashes = 0

Goto(t, point) == pc' = [pc EXCEPT ![t] = point]

\* A process with a copy of the lock's descriptor ends; the kernel frees an
\* inherited lock with the last copy.
DropHeir(d) ==
    /\ heirs' = heirs \ {d}
    /\ lock' = IF lock = Inherited /\ heirs \ {d} = {} THEN Free ELSE lock

\* release_startup_lock(): LOCK_UN frees the lock whoever else has a copy.
ReleaseLock(t) ==
    /\ IF lockFd[t] = "held"
         THEN lock' = Free /\ heirs' = {}
         ELSE UNCHANGED <<lock, heirs>>
    /\ lockFd' = [lockFd EXCEPT ![t] = "none"]

----------------------------------------------------------------------------
\* rpgl_start() is entered and opens the lock file.
Start(t) ==
    /\ pc[t] = "idle"
    /\ Goto(t, "waiting")
    /\ UNCHANGED <<clock, lock, heirs, lockFd, locals, inst, disk, server, kept, crashes>>

\* opendir("/tmp") and time(NULL) start the scan; if opendir() fails it finds
\* nothing.  readdir() may also return directories created later, but those are
\* younger than now and skipped.
BeginScan(t) ==
    /\ now' = [now EXCEPT ![t] = clock]
    /\ \E entries \in {There, {}} : todo' = [todo EXCEPT ![t] = entries]
    /\ Goto(t, "scan")

\* flock(LOCK_EX) is granted.
Acquire(t) ==
    /\ pc[t] = "waiting" /\ lock = Free
    /\ lock' = t
    /\ lockFd' = [lockFd EXCEPT ![t] = "held"]
    /\ BeginScan(t)
    /\ UNCHANGED <<clock, heirs, victim, inst, disk, server, kept, crashes>>

\* open() or flock() fails: the start goes on without the lock.
LockFails(t) ==
    /\ LockMayFail
    /\ pc[t] = "waiting"
    /\ lockFd' = [lockFd EXCEPT ![t] = "failed"]
    /\ BeginScan(t)
    /\ UNCHANGED <<clock, lock, heirs, victim, inst, disk, server, kept, crashes>>

Skip(t, d) == todo' = [todo EXCEPT ![t] = @ \ {d}]

\* Mutant: the age guard is missing.
CheckAge_NoGuard(t, d) ==
    /\ pc[t] = "scan" /\ d \in todo[t]
    /\ IF d \in There
         THEN Goto(t, "probe") /\ victim' = [victim EXCEPT ![t] = d]
         ELSE UNCHANGED <<pc, victim>>
    /\ Skip(t, d)
    /\ UNCHANGED <<clock, lock, heirs, lockFd, now, inst, disk, server, kept, crashes>>

\* Mutant: the age guard demands more than STALE_AGE_SECONDS.
CheckAge_Strict(t, d) ==
    /\ pc[t] = "scan" /\ d \in todo[t]
    /\ IF d \in There /\ now[t] - mtime[d] > StaleAge
         THEN Goto(t, "probe") /\ victim' = [victim EXCEPT ![t] = d]
         ELSE UNCHANGED <<pc, victim>>
    /\ Skip(t, d)
    /\ UNCHANGED <<clock, lock, heirs, lockFd, now, inst, disk, server, kept, crashes>>

\* The next entry: lstat() and the age guard.
CheckAge(t, d) ==
    /\ pc[t] = "scan" /\ d \in todo[t]
    /\ IF d \in There /\ now[t] - mtime[d] >= StaleAge
         THEN Goto(t, "probe") /\ victim' = [victim EXCEPT ![t] = d]
         ELSE UNCHANGED <<pc, victim>>
    /\ Skip(t, d)
    /\ UNCHANGED <<clock, lock, heirs, lockFd, now, inst, disk, server, kept, crashes>>

\* Mutant: the liveness guard is missing.
Probe_NoGuard(t) ==
    /\ pc[t] = "probe"
    /\ Goto(t, "removing")
    /\ UNCHANGED <<clock, lock, heirs, lockFd, locals, inst, disk, server, kept, crashes>>

\* dir_has_live_socket(): a server that accepts a connection keeps its directory.
Probe(t) ==
    /\ pc[t] = "probe"
    /\ IF victim[t] \in Serving
         THEN Goto(t, "scan") /\ victim' = [victim EXCEPT ![t] = NoDir]
         ELSE Goto(t, "removing") /\ UNCHANGED victim
    /\ UNCHANGED <<clock, lock, heirs, lockFd, now, todo, inst, disk, server, kept, crashes>>

\* The forked /bin/rm -rf has finished.
Remove(t) ==
    /\ pc[t] = "removing"
    /\ status' = [status EXCEPT ![victim[t]] = "gone"]
    /\ victim' = [victim EXCEPT ![t] = NoDir]
    /\ Goto(t, "scan")
    /\ UNCHANGED <<clock, lock, heirs, lockFd, now, todo, inst, mtime, server, kept, crashes>>

\* The rm of a host that died: it held a copy of the lock's descriptor.
OrphanRemove(t) ==
    /\ pc[t] = "orphanRm"
    /\ status' = [status EXCEPT ![victim[t]] = "gone"]
    /\ victim' = [victim EXCEPT ![t] = NoDir]
    /\ DropHeir(victim[t])
    /\ Goto(t, "dead")
    /\ UNCHANGED <<clock, lockFd, now, todo, inst, mtime, server, kept, crashes>>

\* Mutant: the lock is released as soon as the scan is over.
EndScan_Releases(t) ==
    /\ pc[t] = "scan" /\ todo[t] = {}
    /\ now' = [now EXCEPT ![t] = 0]
    /\ Goto(t, "create")
    /\ IF lockFd[t] = "held" THEN lock' = Free /\ heirs' = {} ELSE UNCHANGED <<lock, heirs>>
    /\ UNCHANGED <<clock, lockFd, todo, victim, inst, disk, server, kept, crashes>>

\* readdir() returned NULL.
EndScan(t) ==
    /\ pc[t] = "scan" /\ todo[t] = {}
    /\ now' = [now EXCEPT ![t] = 0]
    /\ Goto(t, "create")
    /\ UNCHANGED <<clock, lock, heirs, lockFd, todo, victim, inst, disk, server, kept, crashes>>

----------------------------------------------------------------------------
\* Mutant: the error returns forget release_startup_lock().
FailEarly_KeepsLock(t) ==
    /\ pc[t] = "create"
    /\ Goto(t, "idle")
    /\ UNCHANGED <<clock, lock, heirs, lockFd, locals, inst, disk, server, kept, crashes>>

\* No PostgreSQL binaries, no memory, or mkdtemp() fails.
FailEarly(t) ==
    /\ pc[t] = "create"
    /\ ReleaseLock(t)
    /\ Goto(t, "idle")
    /\ UNCHANGED <<clock, locals, inst, disk, server, kept, crashes>>

TakeDir(t, d, keeps) ==
    /\ dir' = [dir EXCEPT ![t] = d]
    /\ since' = [since EXCEPT ![t] = clock]
    /\ keep' = [keep EXCEPT ![t] = keeps]
    /\ Goto(t, "release")

\* mkdtemp("/tmp/rpgl_XXXXXX"): a name nobody used before.
Mkdtemp(t, d) ==
    /\ pc[t] = "create" /\ status[d] = "unused"
    /\ \E o \in Options \ {"reopen"} : TakeDir(t, d, o = "keep")
    /\ status' = [status EXCEPT ![d] = "empty"]
    /\ mtime' = [mtime EXCEPT ![d] = clock]
    /\ UNCHANGED <<clock, lock, heirs, lockFd, locals, server, kept, crashes>>

\* opts.data_dir names a directory that an earlier stop kept; the caller does
\* not give one directory to two handles.
OpenDataDir(t, d) ==
    /\ pc[t] = "create" /\ "reopen" \in Options
    /\ d \in kept /\ \A u \in Threads : dir[u] # d
    /\ TakeDir(t, d, TRUE)
    /\ UNCHANGED <<clock, lock, heirs, lockFd, locals, disk, server, kept, crashes>>

\* release_startup_lock() before the boot.
Release(t) ==
    /\ pc[t] = "release"
    /\ ReleaseLock(t)
    /\ Goto(t, "initdb")
    /\ UNCHANGED <<clock, locals, inst, disk, server, kept, crashes>>

\* initdb unless PG_VERSION is there: a reopened directory has it, unless the
\* directory is gone, in which case initdb makes it again.
Initdb(t) ==
    /\ pc[t] = "initdb"
    /\ IF status[dir[t]] = "cluster"
         THEN UNCHANGED disk
         ELSE /\ status' = [status EXCEPT ![dir[t]] = "cluster"]
              /\ mtime' = [mtime EXCEPT ![dir[t]] = clock]
    /\ Goto(t, "fork")
    /\ UNCHANGED <<clock, lock, heirs, lockFd, locals, inst, server, kept, crashes>>

\* pg_ctl start is forked and with it the server.  Both inherit every open
\* descriptor of the process, the lock file's included when another thread of
\* the process is in its window: the descriptor is not close-on-exec.
ForkServer(t) ==
    /\ pc[t] = "fork"
    /\ heirs' = IF lock \in Threads /\ HostOf[lock] = HostOf[t]
                  THEN heirs \cup {dir[t]} ELSE heirs
    /\ Goto(t, "boot")
    /\ UNCHANGED <<clock, lock, lockFd, locals, inst, disk, server, kept, crashes>>

\* The server has written postmaster.pid and listens on its socket.
ServerUp(t) ==
    /\ pc[t] \in {"boot", "orphan"}
    /\ status[dir[t]] = "cluster"
    /\ server' = server \cup {dir[t]}
    /\ mtime' = [mtime EXCEPT ![dir[t]] = clock]
    /\ Goto(t, IF pc[t] = "boot" THEN "ready" ELSE "dead")
    /\ UNCHANGED <<clock, lock, heirs, lockFd, locals, inst, status, kept, crashes>>

\* initdb or pg_ctl start fails: rpgl_start() calls rpgl_stop().
BootFails(t) ==
    /\ pc[t] \in {"initdb", "boot", "orphan"}
    /\ DropHeir(dir[t])
    /\ Goto(t, IF pc[t] = "orphan" THEN "dead" ELSE "stop")
    /\ UNCHANGED <<clock, lockFd, locals, inst, disk, server, kept, crashes>>

\* wait_for_ready() succeeds and the instance is handed to the caller ...
Ready(t) ==
    /\ pc[t] = "ready" /\ dir[t] \in server
    /\ Goto(t, "running")
    /\ UNCHANGED <<clock, lock, heirs, lockFd, locals, inst, disk, server, kept, crashes>>

\* ... or it gives up and rpgl_start() calls rpgl_stop().
ReadyTimesOut(t) ==
    /\ pc[t] = "ready"
    /\ Goto(t, "stop")
    /\ UNCHANGED <<clock, lock, heirs, lockFd, locals, inst, disk, server, kept, crashes>>

----------------------------------------------------------------------------
\* The caller stops the instance.
Stop(t) ==
    /\ pc[t] = "running"
    /\ Goto(t, "stop")
    /\ UNCHANGED <<clock, lock, heirs, lockFd, locals, inst, disk, server, kept, crashes>>

\* pg_ctl stop: the server removes its pid file and socket and ends ...
StopServer(t) ==
    /\ pc[t] = "stop"
    /\ server' = server \ {dir[t]}
    /\ mtime' = IF dir[t] \in Serving
                  THEN [mtime EXCEPT ![dir[t]] = clock] ELSE mtime
    /\ DropHeir(dir[t])
    /\ Goto(t, "rm")
    /\ UNCHANGED <<clock, lockFd, locals, inst, status, kept, crashes>>

\* ... or does not within 5 seconds: the exit code of pg_ctl is not looked at.
StopTimesOut(t) ==
    /\ pc[t] = "stop" /\ dir[t] \in server
    /\ Goto(t, "rm")
    /\ UNCHANGED <<clock, lock, heirs, lockFd, locals, inst, disk, server, kept, crashes>>

ForgetInstance(t) ==
    /\ dir' = [dir EXCEPT ![t] = NoDir]
    /\ since' = [since EXCEPT ![t] = 0]
    /\ keep' = [keep EXCEPT ![t] = FALSE]

\* rm -rf of the data directory if the handle owns it; the handle is freed.
RemoveOwn(t) ==
    /\ pc[t] = "rm"
    /\ IF keep[t]
         THEN /\ kept' = IF status[dir[t]] = "cluster" THEN kept \cup {dir[t]} ELSE kept
              /\ UNCHANGED status
         ELSE status' = [status EXCEPT ![dir[t]] = "gone"] /\ UNCHANGED kept
    /\ ForgetInstance(t)
    /\ Goto(t, "idle")
    /\ UNCHANGED <<clock, lock, heirs, lockFd, locals, mtime, server, crashes>>

----------------------------------------------------------------------------
\* What goes on of a thread whose process is dead: its rm or its pg_ctl.
AfterDeath(point) ==
    IF point \in {"removing", "orphanRm"} THEN "orphanRm"
    ELSE IF point \in {"boot", "orphan"} THEN "orphan" ELSE "dead"

\* A host dies.  Its rm and pg_ctl children go on; the kernel keeps the lock
\* for whoever inherited its descriptor.
Crash(h) ==
    LET mine == {t \in Threads : HostOf[t] = h}
        copies == heirs \cup {victim[t] : t \in {u \in mine : pc[u] = "removing" /\ lock = u}}
    IN  /\ crashes < MaxCrashes
        /\ crashes' = crashes + 1
        /\ \E t \in mine : pc[t] \notin {"dead", "orphan", "orphanRm"}
        /\ pc' = [t \in Threads |-> IF t \in mine THEN AfterDeath(pc[t]) ELSE pc[t]]
        /\ IF lock \in mine
             THEN /\ heirs' = copies
                  /\ lock' = IF copies = {} THEN Free ELSE Inherited
             ELSE UNCHANGED <<heirs, lock>>
        /\ lockFd' = [t \in Threads |-> IF t \in mine THEN "none" ELSE lockFd[t]]
        /\ UNCHANGED <<clock, locals, inst, disk, server, kept>>

\* A process of the host's kind is started again; the dead one's memory is gone.
Fresh(h, f, v) == [t \in Threads |-> IF HostOf[t] = h THEN v ELSE f[t]]
Restart(h) ==
    /\ \E t \in Threads : HostOf[t] = h
    /\ \A t \in Threads : HostOf[t] = h => pc[t] = "dead"
    /\ pc' = Fresh(h, pc, "idle")
    /\ now' = Fresh(h, now, 0)
    /\ todo' = Fresh(h, todo, {})
    /\ victim' = Fresh(h, victim, NoDir)
    /\ dir' = Fresh(h, dir, NoDir)
    /\ since' = Fresh(h, since, 0)
    /\ keep' = Fresh(h, keep, FALSE)
    /\ UNCHANGED <<clock, lock, heirs, lockFd, disk, server, kept, crashes>>

\* A server ends by itself: killed, its directory is untouched; at the end of a
\* shutdown that outlasted pg_ctl stop, it removes its pid file and socket.
ServerEnds(d) ==
    /\ d \in server
    /\ server' = server \ {d}
    /\ mtime' \in {mtime, IF d \in There THEN [mtime EXCEPT ![d] = clock] ELSE mtime}
    /\ DropHeir(d)
    /\ UNCHANGED <<clock, pc, lockFd, locals, inst, status, kept, crashes>>

\* Time passes; a boot under way has at most BootBound ticks.
Tick ==
    /\ clock < MaxClock
    /\ \A t \in Threads : pc[t] \in Booting => clock - since[t] < BootBound
    /\ clock' = clock + 1
    /\ UNCHANGED <<lock, heirs, pc, lockFd, locals, inst, disk, server, kept, crashes>>

----------------------------------------------------------------------------
\* The steps a call of rpgl_start() or rpgl_stop() takes once it is entered.
Scan(t) ==
    \/ \E d \in Dirs : CheckAge(t, d)
    \/ Probe(t) \/ Remove(t) \/ OrphanRemove(t) \/ EndScan(t)
Create(t) ==
    FailEarly(t) \/ (\E d \in Dirs : Mkdtemp(t, d) \/ OpenDataDir(t, d)) \/ Release(t)
Boot(t) ==
    \/ Initdb(t) \/ ForkServer(t) \/ ServerUp(t) \/ BootFails(t)
    \/ Ready(t) \/ ReadyTimesOut(t)
Shutdown(t) == StopServer(t) \/ StopTimesOut(t) \/ RemoveOwn(t)
Step(t) == Scan(t) \/ Create(t) \/ Boot(t) \/ Shutdown(t)

Next ==
    \/ \E t \in Threads :
          Start(t) \/ Acquire(t) \/ LockFails(t) \/ Step(t) \/ Stop(t)
    \/ \E h \in Hosts : Crash(h) \/ Restart(h)
    \/ \E d \in Dirs : ServerEnds(d)
    \/ Tick

Spec == Init /\ [][Next]_vars

\* The scheduler runs every thread that can take a step; a waiter of flock()
\* is woken each time the lock is freed and gets it in the end.
Fairness == \A t \in Threads : WF_vars(Step(t)) /\ SF_vars(Acquire(t))

FairSpec == Spec /\ Fairness

----------------------------------------------------------------------------
\* The cleaner condemns only what is abandoned: when rm runs on a directory, no
\* server listens there and no boot is under way there, whatever happened
\* since the two guards were evaluated (pg_shim.c:179-182).
VictimAbandoned ==
    \A t \in Threads : pc[t] \in {"removing", "orphanRm"} =>
        /\ victim[t] \notin Serving
        /\ \A u \in Threads : pc[u] \in Booting => dir[u] # victim[t]

\* A boot under way, and an instance handed out whose server is alive, have
\* their data directory: no other process's cleanup or stop takes it away
\* (pg_shim.c:473-476, 518-521).
InstanceIntact ==
    \A t \in Threads :
        \/ pc[t] \in Booting
        \/ pc[t] \in {"ready", "running"} /\ dir[t] \in server
        => dir[t] \in There

\* With reopened directories only those can be condemned in use: one that no
\* caller has kept is abandoned when rm runs on it (pg_shim.c:179-182).
FreshNotCondemned ==
    \A t \in Threads :
        pc[t] \in {"removing", "orphanRm"} /\ victim[t] \notin kept =>
            /\ victim[t] \notin Serving
            /\ \A u \in Threads : pc[u] \in Booting => dir[u] # victim[t]

\* Whatever others reopen, a boot and a live instance keep the directory that
\* their start has made (pg_shim.c:473-476, 518-521).
FreshIntact ==
    \A t \in Threads :
        \/ pc[t] \in Booting
        \/ pc[t] \in {"ready", "running"} /\ dir[t] \in server
        => dir[t] \in There \cup kept

\* Where every process has one thread, the startup lock is on its way to be let
\* go: its holder is inside the window at whose end it calls LOCK_UN or closes
\* the descriptor, and what outlives a dead holder with a copy of the
\* descriptor is an rm, which ends, and never a server
\* (pg_shim.c:77-96, 210-212, 483-524).
LockLetGo ==
    /\ \A t \in Threads : lock = t => pc[t] \in Window /\ lockFd[t] = "held"
    /\ lock = Inherited => heirs # {}
    /\ \A d \in heirs : \E t \in Threads : pc[t] = "orphanRm" /\ victim[t] = d

\* A directory appears while a scan runs under the lock only if its creator
\* failed to get the lock: the lock serialises cleanup and mkdtemp()
\* (pg_shim.c:471-474).
NoDirAppearsInScan ==
    [][ \A t, u \in Threads :
          /\ pc[t] = "create" /\ pc'[t] = "release" /\ t # u
          /\ lockFd[t] = "held" /\ lockFd[u] = "held"
          => pc[u] \notin Scanning ]_vars

\* A directory kept by keep_data stays (pg_shim.h: "keep data dir after stop").
KeptDirSurvives == kept \subseteq There

\* The directory of a boot under way is not deleted before the boot is over:
\* "our data dir now exists and is seconds old, so the age guard protects it
\* from any other process's cleanup" (pg_shim.c:519-520).
BootKeepsDir ==
    [][ \A t \in Threads :
          pc[t] \in Booting /\ pc'[t] \in Booting /\ dir[t] \in There
          => dir[t] \in There' ]_vars

\* The startup lock is never held by a booted server (pg_shim.c:77-78: "held
\* only around cleanup and directory creation, then released before the slow
\* postgres boot").
LockNotHeldByServer == lock = Inherited => heirs \cap server = {}

\* Every start that waits for the lock returns, or its process dies.
StartReturns ==
    \A t \in Threads : pc[t] = "waiting" ~> pc[t] \in {"running", "idle", "dead"}

\* A scan that meets an old directory without a server reclaims it, unless the
\* scanning process dies or the directory is opened again and gets a server.
StaleReclaimed ==
    \A t \in Threads, d \in Dirs :
        (/\ pc[t] = "scan" /\ d \in todo[t] /\ d \notin server
         /\ d \in There /\ now[t] - mtime[d] >= StaleAge)
        ~> (status[d] = "gone" \/ d \in server \/ pc[t] = "dead")
=============================================================================
