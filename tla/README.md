# Verification of RustyPGlite

RustyPGlite starts a real PostgreSQL server for a test suite: one C file,
`rustypglite-sys/shim/pg_shim.c` (the *shim*), makes a data directory, runs
`initdb` and `pg_ctl start` in it, hands out a connection string, and later stops
the server and deletes the directory.  A Rust crate wraps the shim, re-exports it
as a C ABI, and a Node.js and a .NET package call that ABI.  All state that can go
wrong is in the shim, in `/tmp`, and in the processes it forks: this directory
models those.

Paths below are relative to `src/`; `pg_shim.c:N` is
`rustypglite-sys/shim/pg_shim.c`, line N.

## 1. Inventory

| component | state | operations | what is hard | what makes it correct |
|---|---|---|---|---|
| startup lock (`pg_shim.c:68-96`) | `/tmp/rpgl_startup.lock`, one descriptor per call | acquire, release | shared by every process of the machine; `flock` belongs to the open file, so forked children keep it; `open` may fail and the start goes on | scan and `mkdtemp` of two holders never overlap; every path releases it; nobody waits for ever |
| stale-directory reclaim (`:98-215`) | the names, ages and sockets under `/tmp/rpgl_*` | scan, age guard, liveness probe, `rm -rf` | check-then-act against other processes' boots and stops; time; crashes; runs without the lock | only abandoned directories go; abandoned ones do go |
| instance table (`:44-66`, `:217-238`) | `g_instances`, `g_instance_count`, `g_atexit_registered` | track, untrack, exit cleanup, signal handler | no lock; signals between any two stores; modified while it is iterated; full at 256 | exactly the live handles between calls; cleanup touches no freed object, stops everything, ends |
| lifecycle (`:467-782`) | `rpgl_instance` (data_dir, owns_data_dir, pg_pid, port), the directory, the server | `rpgl_start`, `rpgl_stop`, `rpgl_connect_existing` | many failing steps; `pg_ctl` time limits; several handles on one directory; pids reused | an instance handed out has a server and a directory; stop ends what it started and nothing else |
| readiness and port (`:375-463`) | none | `find_free_port`, `wait_for_ready` | the port is free only when it was looked at; a late answer races the time limit | a ready instance accepts connections |
| SQL execution (`:805-1023`) | `libpq_handle` and seven function pointers (process-wide), `error_msg` | `load_libpq`, `exec_via_libpq`, create database, run SQL, run a file | published before it is complete; a fallback that cannot tell "not loaded" from "statement failed" | a statement runs at most once; a result belongs to its statement |
| binaries and share directory (`:249-342`) | environment, file system | find | none: a fixed list of paths | - |
| Rust crate, C ABI (`rustypglite/src/lib.rs`) | a raw handle, `Send` but not `Sync` | start, connect, exec, `Drop` | ownership across FFI; the error of a failed start has no handle | every handle is stopped once and not used after |
| Node.js binding (`rustypglite-node/src/index.ts`) | `handle`, `stopped` | the same | single-threaded; process exit | as above |
| .NET binding (`rustypglite-csharp`) | `_handle`, `_disposed` | the same | `Dispose` from two threads, use during `Dispose` | as above |
| build, bundling, CI | - | - | - | not part of the running system |

How they interact.  `rpgl_start` calls lock, reclaim, directory creation, unlock,
`initdb`, `pg_ctl start`, readiness, table, in that order; every failure after the
unlock calls `rpgl_stop`.  `rpgl_stop` calls the table, `pg_ctl stop`, `rm -rf`.
`exit()` and three signals call the exit cleanup, which calls `rpgl_stop` for table
entries.  Processes meet in `/tmp` only: through the lock and through each other's
directories.  Children (server, `rm`, `pg_ctl`) inherit every open descriptor and
outlive their parent.

The hazards of this code, each at its line, with the property that catches it
or the reason why none does, are listed in `PROJECT.json` under `hazards`.

## 2. What is modelled

### StaleDirs - the start of an instance, machine-wide

Several processes (`Hosts`), each with threads (`Threads`, `HostOf`), work on the
names `Dirs`.  `pc[t]` is where thread `t` is inside `rpgl_start` or `rpgl_stop`:

    idle -> waiting -> scan <-> probe -> removing -> create -> release
         -> initdb -> fork -> boot -> ready -> running -> stop -> rm -> idle

| action | code | action | code |
|---|---|---|---|
| `Start`, `Acquire`, `LockFails` | 83-89, 478 | `Initdb`, `ForkServer` | 526-608 |
| `BeginScan` | 189-194 | `ServerUp`, `BootFails` | what `initdb` / `pg_ctl` report, 558-613 |
| `CheckAge` | 194-205 | `Ready`, `ReadyTimesOut` | 660-676 |
| `Probe` | 109-174, 208 | `Stop` | 679-682 |
| `Remove`, `OrphanRemove` | 210-212, 354-373 | `StopServer`, `StopTimesOut` | 684-698 |
| `EndScan` | 213-215 | `RemoveOwn` | 715-728 |
| `FailEarly`, `Mkdtemp`, `OpenDataDir`, `Release` | 483-524 | `Crash`, `Restart`, `ServerEnds`, `Tick` | environment |

`lock`, `heirs` and `lockFd` are the kernel's view of the lock: its holder, the
processes with a copy of its descriptor, and each call's `lock_fd` (`failed` is
-1).  When a process dies the lock is free unless a child holds a copy
(`Inherited`).  `clock`, `mtime`, `now` and `since` are times in ticks;
`StaleAge` ticks are the ten minutes of `STALE_AGE_SECONDS`.  `status` and
`server` are each directory's contents and whether a socket there answers.

Abstractions, and why they do not hide what is checked:

* **A boot is shorter than `STALE_AGE_SECONDS`** (`BootAssumption`, enforced in
  `Tick`).  `pg_ctl` has a limit of 10 s and readiness of 10 s; `initdb` has none.
  This is the assumption the code's age guard itself makes; without it a suspended
  machine or a slow disk lets another process delete a boot in progress.
* `mkdtemp` never returns a name used before: the kernel would allow it for a name
  that has been deleted, with probability 62^-6 a call.
* `rm -rf` removes the directory or the model has nothing to say: a directory of
  another user that cannot be removed is met again by the next scan.
* The caller does not give one `data_dir` to two handles (`OpenDataDir`).
* `readdir` returns the entries there when the scan began; later ones may be
  returned but are younger than `now` and skipped by the age guard.
* The probe tells the truth: `socket()` failing for want of descriptors (hazard at
  line 112) is not modelled.
* A directory's mtime is set where an entry of it appears or goes: `mkdtemp`,
  `initdb`, the server's socket and pid file.  A server changes it no more in
  between, the worst case for the age guard.
* `initdb` inherits the lock's descriptor too, for as long as it runs; only
  the server's copy and a dead host's `rm` are followed.
* `pg_ctl` exists: the branch that runs `postgres` directly belongs to Lifecycle.
* When `pg_ctl start` gives up (`BootFails`) no server comes up afterwards.  One that is
  up by the time it is told to stop is `ServerUp` followed by `ReadyTimesOut`; one that
  comes up later still, against a `pg_ctl stop` that found no pid file, is in Lifecycle.
* When `/tmp` cannot be opened (line 190) the scan finds nothing (`BeginScan`).

### Registry and InstanceTable - the instances a process stops at its exit

One action per access to the table in `track_instance` (`Register`, `CheckRoom`,
`ReadCount`, `BumpCount`, `StoreSlot`: line 225 checks the count that line 226 reads
again) and one per store of `untrack_instance` (`Find`, `Decrement`, `MoveLast`,
`ClearLast`); `Boot`, `ConnectExisting`, `Stop` and `Shutdown` are the rest of the
calls around them.  `Terminate` is `exit()` or a signal and comes between any two;
`SkipSlot`, `StopSlot` and `EndLoop` are the loop of `cleanup_all_instances`, whose
calls of `rpgl_stop` swap and erase entries under the loop.  `dropped` and `seen`
are history: who found the table full, and what the cleanup found.

`Registry` is the abstract specification, for a process whose calls come from one
thread: a set of `live` servers with a capacity, to which a start adds and from which
a stop takes, and an exit that knows all of them but one at most (`reach`), stops
one after the other and may forget one for each that it stops.  It has no array, no
index and no order of stores.  The refinement mapping reads `live` off `state` and
`dropped`, and `reach` off the slots that the cleanup has yet to visit; the stores of
a start and a stop are stutters, so the promise holds between any two of them.

`Missed` is what a signal hides from the cleanup: an instance whose server is up and
which is in no slot yet, or no longer, or is being moved.

Abstractions: the cleanup's call of `rpgl_stop` is one step (a second signal during
the handler is not modelled); a compiler may not reorder the stores.  Two threads can
pass the check with room for one, and the second then writes behind the array: `slots`
has one word more than the table, `slots[Max]`, which nothing else uses (a build may
put another variable there, whose loss is not explored).  With one thread `idx` stays
inside the table, which `TypeOK` says.  A count below zero, which two threads in
`untrack_instance` can reach, ends what the model explores of them.

### EmbeddedServer and Lifecycle - what a handle promises, and how it is kept

`EmbeddedServer` is the abstract specification: handles, the directory each is `on`,
its `owner`s, those that can use `pg_ctl` (`ctl`), those that `rpgl_start` has `opened`,
which directories hold `data`, and whose `server` answers in each.  It says who may
change what: only handles on a directory touch its server and its data, without
`pg_ctl` a stop ends only the server that its own handle has started (`MayEnd`), only
the owner deletes the directory, and a start hands out a handle when a server answers
there.  There are no processes, no pid files and no time limits in it.

`Lifecycle` is the code after the lock: several handles, each in a host process that
may die, on directories they may share.  `pc[h]` is the point of the handle's call:

    none -> initdb -> make -> fork -> pgctl -> wait -> up
         -> stop -> reap -> kill -> collect -> remove -> gone      (lost: host died)

| action | code | action | code |
|---|---|---|---|
| `Begin` | 500-524 | `Stop` | 679-682 |
| `CheckVersion`, `Initdb`, `InitdbFails` | 526-560 | `PgCtlStop`, `PgCtlReturns` | 684-698 |
| `StartServer`, `ForkFails` | 588-658 | `Terminate`, `NothingToSignal` | 699-701 |
| `PgCtlStarted`, `PgCtlFails` | 608-613 | `Reap`, `ReapTimesOut` | 702-706 |
| `Ready`, `ReadyTimesOut` | 426-463, 660-676 | `Kill`, `Collect` | 707-710 |
| `ConnectExisting` | 731-782 | `Remove` | 715-728 |
| `LockDir`, `Listen`, `ShutdownCompletes`, `ServerFails` | PostgreSQL as the shim relies on it | `Crash` | the host dies without its cleanup |
| `Dies` | the kernel delivers SIGKILL, some time after 709 | | |

`pgctl`, any subset chosen at the start, holds the handles whose calls find a `pg_ctl`: a
host may lack it, and a guest whose `pg_bin_dir` is NULL (lines 685, 769) skips it
although others have it.  `proc` is the process a handle has forked, with the SIGKILL
it has still to die of (`killed`) and the zombie that `waitpid` collects, and `pidfile`
is whose `postmaster.pid` a directory holds: a server refuses a directory whose
`postmaster.pid` names a process that exists, which is how two starts on one
directory are told apart.

The refinement mapping reads `phase` off `pc` (every point of a start is
`starting`, of a stop `stopping`), `server` off `pidfile` and `proc` (the server
named by the file, if it answers), `owner` and `opened` off `kind`.  Most steps of `Lifecycle` are
stutters of `EmbeddedServer`; those that are not are the ones a caller can see.

Abstractions:

* A handle lives once: a second start is a second handle.
* A process id is not reused, so `kill(pid, 0)` in line 708 after the loop has
  collected the child finds nothing; with reuse it could find a stranger (hazard at 708).
* Ports are not in the state.  An instance has its own socket directory and no
  TCP, so a port only tells servers of one directory apart; `Ready` believes whatever
  answers there, which covers equal ports, and `ReadyTimesOut` covers different ones.
* `initdb` is one step that may also finish after its host's death; it fails with
  no cluster left behind.  A half-filled directory makes the next start fail
  at `initdb` as well, or its server fail, and both failures are free here.
* `rpgl_connect_existing` finds a `postmaster.pid` with all its five lines.
* `broken` is history: whose server ended by itself, which no code can prevent.

`UpServed` says who may take the server of an instance that was handed out and is not
stopped: the server itself, by ending, or a stop under way on the same directory of a
handle that started that server, owns the directory or has a `pg_ctl`.  The last of
these is more than the comments promise.  With `pg_ctl`, `rpgl_stop` on a guest from
`rpgl_connect_existing` stops the shared server, although line 772 says "don't manage -
we didn't start it": `GuestsManageNothing` states that comment and `lifecycle_guests`
refutes it (finding 8).  In the same way a start that fails on a directory in use
stops the server of the handle that uses it (line 611); no text promises otherwise.
What does hold, and is checked and proved, is that without `pg_ctl` neither happens, that
the damage stays inside that directory and ends with the stop, and that the data of a
caller's directory are never deleted.  (`pg_shim.h:67-70` says of `rpgl_stop` that the
directory is deleted "unless keep_data was set"; a given `data_dir` never is, line 497-499.)

`NothingLeft` is about the branch without `pg_ctl`.  With it, `pg_ctl stop` gives up
after five seconds, its exit code is ignored (line 698) and the server may end later
or never.  An owner's directory is then deleted under a running server; of other
directories `OneServer` says that no second server runs beside the one that is left.

### SqlExec - running SQL in process or through psql

One action per step of `rpgl_exec_sql`, `rpgl_create_database` and `rpgl_exec_file`
by any of several threads, each with an instance of its own; what they share is
`libpq_handle` and the pointers.

| action | code | action | code |
|---|---|---|---|
| `Call` | entry of the three, 912-996 | `Close`, `Clear` | 871-873 |
| `CheckHandle` | 829 | `Connect`, `Discard` | 885-892, 893 |
| `Open` | 847-859 | `Execute` | 897-909 |
| `LoadSymbol` | 861-867 | `RunProgram` | 921-1003 |
| `Verify` | 869-875 | `Crash` | a call through a pointer that is not set |

`ViaLibpqFails` is where the three differ once libpq has failed them.  `symbols` is
what the installed libpq exports and `tools` which programs are installed: any
subset, chosen at the start.  `effects` and `whole` are history: how often the
statement of the current call took effect, and whether it was executed to its end.  A
statement can be executed to its end and its answer be lost with the connection: libpq
then reports an error like any other, and the fallback runs the statement again.

Abstractions: `N` pointers stand for seven, the first for `PQconnectdb` and
`PQstatus`, the last for `PQfinish`, which a failed connection needs too (line 893), the
others for those that execute; a thread's stores are seen in program
order; the three `dlopen` attempts are one; texts (`error_msg`, the 512 bytes of
`CREATE DATABASE`, the file that is read) are left out.  A host that is itself
linked with libpq, where `dlsym(NULL)` finds its symbols, is not modelled.
`MaxOpens` bounds the `dlopen`s that racing loads of an incomplete libpq leak.

## 3. What is checked

| run | instance | shows |
|---|---|---|
| `stale_dirs` | 2 processes, 2 directories, stale after 2 ticks, boots of 1, 3 ticks, 2 crashes, the lock may fail, starts of kind `auto` | `TypeOK`; `VictimAbandoned`: when `rm` runs on a directory nothing lives or boots there; `InstanceIntact`: no boot or instance loses its directory; `NoDirAppearsInScan`: the lock serialises |
| `stale_dirs_live` | 2 processes, 1 directory, all kinds of start, 2 crashes, the lock works | `FreshNotCondemned`, `FreshIntact`: reopening endangers kept directories only; `LockLetGo`: the lock is with a thread inside its window or with the `rm` of a dead one, never with a server; `StartReturns`: a waiter comes back; `StaleReclaimed`: a scan that meets a stale directory removes it |
| `stale_dirs_kept` | as the first, `keep` only, no crash | violated `KeptDirSurvives` (finding 3) |
| `stale_dirs_reopen` | as the first with `reopen` | violated `BootKeepsDir` (finding 4) |
| `stale_dirs_lock` | one process of two threads | violated `LockNotHeldByServer` (finding 5) |
| `instance_table` | 1 thread, 5 objects, a table of 4 | `TypeOK`, `TableExact`, `NoStaleEntry`, `HalfStopped`, `CleanupEnds`; `ExitLeavesHalf`: an exit between calls leaves exactly every second one; `ExitMissesOne`: a signal inside a start or a stop hides at most one running instance; `DropOnlyWhenFull`: none is left out of a table with room; `KeepsRegistry`: the refinement |
| `instance_table_exit` | the same | violated `ExitStopsAll` (finding 1) |
| `instance_table_race` | 2 threads | violated `HandlesTracked` (finding 2) |
| `lifecycle` | 2 handles, 2 directories, each handle with or without `pg_ctl` | `TypeOK`; `UpServed`: only a stop that may end the server takes it from an instance; `NothingLeft`: without `pg_ctl` a stop leaves no server and no zombie; `OneServer`: two servers in one directory only after an owner deleted it under one; `Implements`: the refinement; `CallsReturn`: every start and stop returns |
| `lifecycle_guests` | 2 handles, 1 directory | violated `GuestsManageNothing` (finding 8) |
| `sql_exec` | 2 threads, 3 pointers, every libpq and set of programs | `TypeOK`; `OpenMeansLoaded`: outside a load an open handle is usable; `OkMeansDone`: success is true; `CrashIsRace`: with a complete libpq a bad pointer is only called while another thread loads |
| `sql_exec_once` | 1 thread | violated `AtMostOnce` (finding 6) |

**Why the bounds are enough.**  A hazard of StaleDirs takes one scanner, one owner
and one directory; the second directory gives the owner a fresh one while the old
one is reclaimed.  Three ticks let a directory be made, outlive a boot and become
stale; one crash lets a lock be inherited and a directory be orphaned, a second one hits
the process that cleans up after the first.  The kinds `keep` and `reopen` are left
to `stale_dirs_live` and the violation runs: a kept directory without a server looks
to everyone else like the leftovers `Init` begins with.  In
InstanceTable four slots are the fewest where the cleanup loop skips two entries,
and the fifth object finds the table full.  In Lifecycle two handles give every pairing
the code meets (owner and guest, a kept directory and its reopening, two starts that
race on one directory), and the second directory shows that a stop does not reach into
another one.  Directories are symmetric in the
safety runs of StaleDirs (no symmetry is used with liveness).  The theorems below remove the
bounds for the safety properties.

**Fairness.**  `stale_dirs_live` assumes weak fairness of each thread's own steps
(the scheduler runs it; `initdb`, `pg_ctl` and `rm` come back) and strong fairness
of `Acquire`: the kernel wakes `flock` waiters in order, so one that waits while the
lock is freed again and again gets it in the end.  Nothing is assumed of callers,
crashes, servers or time.  `LockMayFail` is FALSE there because nobody waits then.
`lifecycle` assumes weak fairness of each handle's own call (the scheduler runs it;
`initdb`, `pg_ctl` and `rm` return) and of `Dies` (a process with a SIGKILL dies), and
nothing else of servers, callers and hosts: a server may hang and ignore SIGTERM, and
`CallsReturn` rests on the time limits and on SIGKILL, after which the `waitpid` of line
710 waits for a death that does come.  Its handles are used up in the end (`CHECK_DEADLOCK FALSE`).
`instance_table` assumes only that the cleanup's thread runs.  Callers may stop
calling for ever, so InstanceTable ends when the process does (`CHECK_DEADLOCK
FALSE`), and so does SqlExec after a bad call; StaleDirs is checked for deadlock.
Three pointers are the fewest that separate the one that connects, one in the middle
and the last; two threads are enough for a race of one loader with one caller.

### Findings

1. **The exit cleanup stops every second instance** (`pg_shim.c:52-57`).  It walks
   forwards while `rpgl_stop` moves the last entry into the current slot, which is
   then erased.  `HalfStopped` is what the code does guarantee wherever the signal comes,
   `ExitLeavesHalf` the exact loss between two calls; both are proved.
2. **Concurrent starts lose a registration** (`:226`): the table is shared by
   threads and has no lock.
3. **Kept directories are reclaimed** (`:205-212`): nothing marks a directory kept
   on purpose.
4. **A reopened directory is not protected while it boots** (`:518-520`): the
   comment's age argument only holds for a directory just created.  That it holds
   there, and that nothing else is endangered, is proved (`BootSafe`, `FreshSafe`).
5. **A server can inherit the startup lock** (`:84`): no close-on-exec.  It takes two
   threads that start instances in one process: otherwise only the holder's own `rm`
   inherits it (`LockLetGo`, proved of processes with one thread).
6. **The fallback repeats statements** (`:921`, `:949`): it is meant for a libpq
   that failed to load but is taken for every error, so a text that took effect in
   part, or was executed to its end and whose answer was lost, takes effect again
   through `psql`.
7. **A function pointer can be called before it is loaded** (`:829`): the handle is
   published first, so a second thread that arrives during the load calls a pointer that
   is not set.  No run is spent on this one crash: `sql_exec` reaches it, and
   `CrashIsRace` pins it to exactly that race, for any libpq that is complete;
   `OpenMeansLoaded` is what does hold.  Both are proved, and that with one thread it
   never happens (`SingleThreadSafe`).
8. **A guest stops the shared server** (`:685-698`, `:772`): `rpgl_stop` looks at
   `pg_pid` only where `pg_ctl` is missing.  `UpServed` is what does hold.

## 4. What is proved

`StaleDirs_proofs` (for any sets of threads, hosts and directories, any bounds):

* `TypeCorrect`: `Spec => []TypeOK`.
* For every kind of start: `FreshSafe` (`FreshNotCondemned`), `FreshKept`
  (`FreshIntact`), `ScanSerialised` (`NoDirAppearsInScan`).
* Assuming `"reopen" \notin Options` (with it they are false: finding 4):
  `CleanerSafe` (`VictimAbandoned`), `InstanceSafe` (`InstanceIntact`), `BootSafe`
  (`BootKeepsDir`, the property that `stale_dirs_reopen` refutes with it).
* Assuming one thread for each process: `LockReturned` (`LockLetGo`; without the
  assumption finding 5 is a counterexample).

All of them rest on `StaleDirsAssumption`, whose part that matters is
`BootBound < StaleAge`.

The argument.  None of the two guards is inductive by itself: they are evaluated in
one step and used in a later one.  `IInv` closes the gap, for every kind of start, with
these parts.  *Lock* (`LockInv`): `lockFd` says "held" of the holder alone, the
holder is inside the window, and every copy of the descriptor is with a process
that ends or with a server.  *Time* (`TimeInv`): nothing is dated in the future.
*Ownership* (`OwnInv`): two instances never share a directory, and one that works on a
kept directory has reopened it.  *Boot* (`BootInv`): a boot is no older than
`BootBound`, and its directory is there and no older than the boot, unless
it is a kept one: so its age is below `StaleAge` and no scan can have found it
stale.  *Victim* (`VictimInv`): an entry past the age guard belongs to no boot but one
that reopens it, and since a name is never made twice it will belong to none; past
the probe no server listens there but one from such a boot.  *Run* (`RunInv`): a
running server keeps the probe from condemning its directory.  The exception of
the kept directories is what makes the invariant hold with `reopen`, and it is empty
without: nobody then works on a kept directory, and the unconditional properties
follow.  Note that the lock is used nowhere in the argument for the directories: the
age guard alone carries it, as the comment at lines 76-80 says.  `LockReturned`
adds that a process whose one thread is in the window has forked no server, so that no
server is among the heirs.

`InstanceTable_proofs` (for any finite set of objects and any `Max`, assuming
`OneThread`, without which finding 2 is a counterexample):

* `TableCorrect` (`TableExact`), `CleanupSound` (`NoStaleEntry`),
  `CleanupStopsHalf` (`HalfStopped`), `ExitHalfExact` (`ExitLeavesHalf`),
  `SignalMissesOne` (`ExitMissesOne`), `DroppedWhenFull` (`DropOnlyWhenFull`),
  `RegistryKept` (`KeepsRegistry`), `TypeCorrect`.

The argument.  `RunInv` describes the table at each of the stores: between the check of the count and
its second read one thread leaves it alone, `Length` counts
the entry that is on its way, `Hole` is the slot bumped and not yet stored,
`Leaving` the entry being overwritten; entries are distinct live objects, complete,
with nothing behind them.  A signal anywhere turns it into `LoopInv`, which counts:
`Lost`, the live objects that the loop can no longer reach, never outnumber
`Stopped`, because every object stopped loses at most the last entry.  `ExitMissesOne` adds
`KnownInv` (between signals a running instance belongs to the caller or to the one
call that is under way, and the handler is installed before the first entry) and
`MissInv`, which names the one that is missed.  `ExitLeavesHalf` adds `QuietLoop`: when
no call is interrupted the loop meets no hole, so after `i` rounds it has stopped
`i` instances and lost `i` from the end, and the two meet in the middle (`Halve`).
`FullTable` counts a full table: its slots are distinct (`CountEntries`), so `Max`
instances are in it.

The refinement adds `DropInv` (an instance left out is in no slot) and takes the actions
one by one (`RegistryStep`): `Boot` adds, `CheckRoom` with a full table overflows,
`Shutdown` removes, `Terminate` exits knowing all but the one `MissInv` names, each
`StopSlot` stops a known instance and forgets at most the last entry, and every other
store is a stutter.

`Lifecycle_proofs` (for any sets of handles and directories):

* `Refinement` (`Implements`), `ServedUntilStopped` (`UpServed`), `StopLeavesNothing`
  (`NothingLeft`), `OneServerPerDirectory` (`OneServer`), `TypeCorrect`.

The argument.  The refinement needs to know little of the processes: `HandleInv` (a
handle has no server before it forks one, and only `rpgl_start` forks), `PidInv` (a
`postmaster.pid` names a server of that directory, which holds a cluster; so no other
directory's answer changes with a process), `BrokenInv` and `GoneInv` (without `pg_ctl`
the child is collected before the directory goes).  `RunInv` says that a running server
is the one its directory's `postmaster.pid` names until an owner deletes the directory,
hence that two cannot run there before.  `ServingStep` and `ServingSame` say what a step of a
process does to `server`; `StepRefines` takes the actions one by one and names the
abstract action or the stutter.  `UpServed` is then proved of the abstract steps alone
(`ServedStep`), and holds in Lifecycle because its steps are such steps.

`SqlExec_proofs` (for any threads, any number of pointers `N >= 2`):

* `HandleTrusted` (`OpenMeansLoaded`), `CrashNeedsRace` (`CrashIsRace`), `OkTrusted`
  (`OkMeansDone`), `TypeCorrect`.
* Assuming one thread (with two, finding 7 is a counterexample):
  `SingleThreadSafe` (no bad pointer is called, whatever libpq lacks) and
  `SingleThreadLoadsOnce` (libpq is open exactly when the handle is set, and once).

The argument.  `OpenMeansLoaded` must survive loads that overlap, where one thread
may take back the handle that another is about to use.  The installed libpq decides:
if it has every symbol no load fails and pointers only ever become set (`FullInv`);
if it lacks one, that pointer is never set, every load ends in `Clear`, and an open
handle means that somebody is still inside (`LackInv`).  `FullInv` also says that an open
handle whose pointers are not all set has a loader at work, which is `CrashIsRace`.

Every invariant and action property of the passing runs is a theorem.  Only
model-checked: liveness (`StartReturns`, `StaleReclaimed`, `CleanupEnds`,
`CallsReturn`), which the prover does not reach, and the violations, which are
counterexamples.  `LockLetGo` and `CleanupSound` are the safety halves of the first and the
third of them: nobody has the lock without being under way, and the loop meets nothing
it cannot stop.

## 5. Plan

1. `StaleDirs` - done, with proofs.
2. `InstanceTable` - done, with proofs, and with `Registry`, whose refinement is proved.
3. `EmbeddedServer` and `Lifecycle` - done, with the refinement proved.
4. `SqlExec` - done, with proofs.
5. `Wrappers` (Rust ownership, `stopped`, `_disposed`) - dropped: see below.
6. `Ports` - dropped: see below.

Worth adding: a scan of StaleDirs beside the shared directories of Lifecycle, which
now meet only in the assumption that one `data_dir` belongs to one handle there.

## 6. What is not modelled

* **The wrappers.**  The Rust crate's only state is a handle with one owner; the
  Node.js package has one flag, set before the only call that stops and read in
  synchronous methods of a single-threaded program; a model of either would restate
  a guard.  `Dispose` of .NET from two threads can stop a handle twice, but nothing
  in the package promises otherwise.  InstanceTable and Lifecycle take from them
  that a handle is stopped once and not used after.
* **Ports** (`find_free_port`): see the abstractions of Lifecycle.
* **Want of resources**: `socket()` of the probe failing for want of descriptors, and
  memory exhaustion after the first allocation.  With a probe that may lie `VictimAbandoned` fails at
  once, and a run would only restate the hazard at line 112.
* **Interrupted system calls** (`waitpid` in `run_cmd`): the shim's handlers restart them.
* **Reuse of process ids**: after `waitpid` nothing in this API can exclude it.
* Discovery of binaries and of the share directory (a fixed list of paths),
  formatting of paths, connection strings and configuration, what PostgreSQL does
  with SQL, and the build, download and signing scripts: no state of the running
  system.
