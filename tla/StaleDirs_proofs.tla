-------------------------- MODULE StaleDirs_proofs --------------------------
(***************************************************************************)
(* Machine-checked theorems about StaleDirs, for any number of processes,  *)
(* threads and directories, any age limit and any bound on a boot below    *)
(* it.  IInv is the inductive invariant: a boot under way is younger than  *)
(* the age limit, hence never passes the age guard of a scan, so that what *)
(* a scan condemns stays abandoned until rm is done with it.               *)
(***************************************************************************)
EXTENDS StaleDirs, TLAPS

\* Nothing is dated in the future.
TimeInv ==
    /\ \A d \in Dirs : mtime[d] <= clock
    /\ \A t \in Threads : now[t] <= clock /\ since[t] <= clock

\* Every instance has a directory of its own; only a reopened one was kept by
\* an earlier instance.
OwnInv ==
    /\ \A t \in Threads : dir[t] # NoDir => status[dir[t]] # "unused"
    /\ \A t \in Threads : dir[t] \in kept => "reopen" \in Options
    /\ \A d \in kept : status[d] # "unused"
    /\ \A t, u \in Threads : t # u /\ dir[t] # NoDir => dir[t] # dir[u]

\* A boot is young, and so is its directory unless it is a kept one, which
\* may be old or gone.
BootInv ==
    \A t \in Threads : pc[t] \in Booting =>
        /\ clock - since[t] <= BootBound
        /\ dir[t] \notin kept => dir[t] \in There /\ since[t] <= mtime[dir[t]]

\* An entry that passed the age guard belongs to no boot, unless to one that
\* reopens it; it gets no server before it is removed, unless from such a boot.
VictimInv ==
    \A t \in Threads : pc[t] \in HasVictim =>
        /\ status[victim[t]] # "unused"
        /\ \A u \in Threads :
             pc[u] \in Booting /\ dir[u] = victim[t] => victim[t] \in kept
        /\ pc[t] # "probe" /\ victim[t] \in Serving
             => victim[t] \in kept /\ "reopen" \in Options

RunInv ==
    \A t \in Threads :
        pc[t] \in {"ready", "running"} /\ dir[t] \in server
        => dir[t] \in There \cup kept

\* lock_fd tells who holds the lock, a lock is held inside the window, and a copy
\* of its descriptor is in an rm, a boot or a server.
LockInv ==
    /\ \A t \in Threads : lockFd[t] = "held" <=> lock = t
    /\ \A t \in Threads : lock = t => pc[t] \in Window
    /\ lock = Inherited => heirs # {}
    /\ lock = Free => heirs = {}
    /\ \A d \in heirs :
         \/ d \in server
         \/ \E t \in Threads : pc[t] \in {"boot", "orphan"} /\ dir[t] = d
         \/ \E t \in Threads : pc[t] = "orphanRm" /\ victim[t] = d

IInv == TypeOK /\ LockInv /\ TimeInv /\ OwnInv /\ BootInv /\ VictimInv /\ RunInv

----------------------------------------------------------------------------
\* Every step keeps the type invariant.
LEMMA TypeNext ==
    ASSUME TypeOK, [Next]_vars
    PROVE  TypeOK'
<1> USE StaleDirsAssumption DEF TypeOK, locals, inst, disk, PCs, Window,
       Scanning, Booting, HasDir, HasVictim, There, Serving
<1>1. ASSUME NEW t \in Threads, Start(t) PROVE TypeOK'
  BY <1>1 DEF Start, Goto
<1>2. ASSUME NEW t \in Threads, Acquire(t) PROVE TypeOK'
  BY <1>2 DEF Acquire, BeginScan, Goto
<1>3. ASSUME NEW t \in Threads, LockFails(t) PROVE TypeOK'
  BY <1>3 DEF LockFails, BeginScan, Goto
<1>4. ASSUME NEW t \in Threads, NEW d \in Dirs, CheckAge(t, d) PROVE TypeOK'
  BY <1>4 DEF CheckAge, Goto, Skip
<1>5. ASSUME NEW t \in Threads, Probe(t) PROVE TypeOK'
  BY <1>5 DEF Probe, Goto
<1>6. ASSUME NEW t \in Threads, Remove(t) PROVE TypeOK'
  BY <1>6 DEF Remove, Goto
<1>7. ASSUME NEW t \in Threads, OrphanRemove(t) PROVE TypeOK'
  BY <1>7 DEF OrphanRemove, Goto, DropHeir
<1>8. ASSUME NEW t \in Threads, EndScan(t) PROVE TypeOK'
  BY <1>8 DEF EndScan, Goto
<1>9. ASSUME NEW t \in Threads, FailEarly(t) PROVE TypeOK'
  BY <1>9 DEF FailEarly, Goto, ReleaseLock
<1>10. ASSUME NEW t \in Threads, NEW d \in Dirs, Mkdtemp(t, d) PROVE TypeOK'
  BY <1>10 DEF Mkdtemp, TakeDir, Goto
<1>11. ASSUME NEW t \in Threads, NEW d \in Dirs, OpenDataDir(t, d) PROVE TypeOK'
  BY <1>11 DEF OpenDataDir, TakeDir, Goto
<1>12. ASSUME NEW t \in Threads, Release(t) PROVE TypeOK'
  BY <1>12 DEF Release, ReleaseLock, Goto
<1>13. ASSUME NEW t \in Threads, Initdb(t) PROVE TypeOK'
  BY <1>13 DEF Initdb, Goto
<1>14. ASSUME NEW t \in Threads, ForkServer(t) PROVE TypeOK'
  BY <1>14 DEF ForkServer, Goto
<1>15. ASSUME NEW t \in Threads, ServerUp(t) PROVE TypeOK'
  BY <1>15 DEF ServerUp, Goto
<1>16. ASSUME NEW t \in Threads, BootFails(t) PROVE TypeOK'
  BY <1>16 DEF BootFails, DropHeir, Goto
<1>17. ASSUME NEW t \in Threads, Ready(t) PROVE TypeOK'
  BY <1>17 DEF Ready, Goto
<1>18. ASSUME NEW t \in Threads, ReadyTimesOut(t) PROVE TypeOK'
  BY <1>18 DEF ReadyTimesOut, Goto
<1>19. ASSUME NEW t \in Threads, Stop(t) PROVE TypeOK'
  BY <1>19 DEF Stop, Goto
<1>20. ASSUME NEW t \in Threads, StopServer(t) PROVE TypeOK'
  BY <1>20 DEF StopServer, DropHeir, Goto
<1>21. ASSUME NEW t \in Threads, StopTimesOut(t) PROVE TypeOK'
  BY <1>21 DEF StopTimesOut, Goto
<1>22. ASSUME NEW t \in Threads, RemoveOwn(t) PROVE TypeOK'
  BY <1>22 DEF RemoveOwn, ForgetInstance, Goto
<1>23. ASSUME NEW h \in Hosts, Crash(h) PROVE TypeOK'
  BY <1>23 DEF Crash, AfterDeath
<1>24. ASSUME NEW h \in Hosts, Restart(h) PROVE TypeOK'
  <2> USE <1>24 DEF Restart, Fresh
  <2>1. /\ pc' \in [Threads -> PCs]
        /\ now' \in [Threads -> 0..MaxClock]
        /\ todo' \in [Threads -> SUBSET Dirs]
    OBVIOUS
  <2>2. /\ victim' \in [Threads -> Dirs \cup {NoDir}]
        /\ dir' \in [Threads -> Dirs \cup {NoDir}]
        /\ since' \in [Threads -> 0..MaxClock]
    OBVIOUS
  <2>4. keep' \in [Threads -> BOOLEAN]
    BY Zenon
  <2>3. ASSUME NEW u \in Threads
        PROVE  /\ lockFd'[u] = "none" <=> pc'[u] \notin Window
               /\ pc'[u] \in HasDir => dir'[u] # NoDir
               /\ pc'[u] \in HasVictim => victim'[u] # NoDir
    <3>1. CASE HostOf[u] = h
      BY <3>1
    <3>2. CASE HostOf[u] # h
      BY <3>2
    <3> QED
      BY <3>1, <3>2
  <2> QED
    BY <2>1, <2>2, <2>3, <2>4
<1>25. ASSUME NEW d \in Dirs, ServerEnds(d) PROVE TypeOK'
  BY <1>25 DEF ServerEnds, DropHeir
<1>26. ASSUME Tick PROVE TypeOK'
  BY <1>26 DEF Tick
<1>27. CASE UNCHANGED vars
  BY <1>27 DEF vars
<1> QED
  BY <1>1, <1>2, <1>3, <1>4, <1>5, <1>6, <1>7, <1>8, <1>9, <1>10, <1>11, <1>12,
       <1>13, <1>14, <1>15, <1>16, <1>17, <1>18, <1>19, <1>20, <1>21, <1>22,
       <1>23, <1>24, <1>25, <1>26, <1>27
     DEF Next, Step, Scan, Create, Boot, Shutdown

\* TypeOK holds in every reachable state, for all values of the constants.
THEOREM TypeCorrect == Spec => []TypeOK
<1>1. Init => TypeOK
  BY StaleDirsAssumption DEF Init, TypeOK, There, PCs, Window, Scanning,
       Booting, HasDir, HasVictim
<1>2. TypeOK /\ [Next]_vars => TypeOK'
  BY TypeNext
<1> QED
  BY <1>1, <1>2, PTL DEF Spec

----------------------------------------------------------------------------
\* The parts of IInv one by one.  The lock and the times need nothing but
\* the types.
LEMMA LockNext ==
    ASSUME TypeOK, LockInv, [Next]_vars
    PROVE  LockInv'
<1> USE StaleDirsAssumption DEF TypeOK, LockInv, locals, inst, disk, PCs,
       Window, Scanning, Booting
<1>1. ASSUME NEW t \in Threads, Start(t) PROVE LockInv'
  BY <1>1 DEF Start, Goto
<1>2. ASSUME NEW t \in Threads, Acquire(t) PROVE LockInv'
  BY <1>2 DEF Acquire, BeginScan, Goto
<1>3. ASSUME NEW t \in Threads, LockFails(t) PROVE LockInv'
  BY <1>3 DEF LockFails, BeginScan, Goto
<1>4. ASSUME NEW t \in Threads, NEW d \in Dirs, CheckAge(t, d) PROVE LockInv'
  BY <1>4 DEF CheckAge, Goto, Skip
<1>5. ASSUME NEW t \in Threads, Probe(t) PROVE LockInv'
  BY <1>5 DEF Probe, Goto
<1>6. ASSUME NEW t \in Threads, Remove(t) PROVE LockInv'
  BY <1>6 DEF Remove, Goto
<1>7. ASSUME NEW t \in Threads, OrphanRemove(t) PROVE LockInv'
  BY <1>7 DEF OrphanRemove, Goto, DropHeir
<1>8. ASSUME NEW t \in Threads, EndScan(t) PROVE LockInv'
  BY <1>8 DEF EndScan, Goto
<1>9. ASSUME NEW t \in Threads, FailEarly(t) PROVE LockInv'
  BY <1>9 DEF FailEarly, Goto, ReleaseLock
<1>10. ASSUME NEW t \in Threads, NEW d \in Dirs, Mkdtemp(t, d) PROVE LockInv'
  BY <1>10 DEF Mkdtemp, TakeDir, Goto
<1>11. ASSUME NEW t \in Threads, NEW d \in Dirs, OpenDataDir(t, d) PROVE
     LockInv'
  BY <1>11 DEF OpenDataDir, TakeDir, Goto
<1>12. ASSUME NEW t \in Threads, Release(t) PROVE LockInv'
  BY <1>12 DEF Release, ReleaseLock, Goto
<1>13. ASSUME NEW t \in Threads, Initdb(t) PROVE LockInv'
  BY <1>13 DEF Initdb, Goto
<1>14. ASSUME NEW t \in Threads, ForkServer(t) PROVE LockInv'
  BY <1>14 DEF ForkServer, Goto
<1>15. ASSUME NEW t \in Threads, ServerUp(t) PROVE LockInv'
  BY <1>15 DEF ServerUp, Goto
<1>16. ASSUME NEW t \in Threads, BootFails(t) PROVE LockInv'
  BY <1>16 DEF BootFails, DropHeir, Goto
<1>17. ASSUME NEW t \in Threads, Ready(t) PROVE LockInv'
  BY <1>17 DEF Ready, Goto
<1>18. ASSUME NEW t \in Threads, ReadyTimesOut(t) PROVE LockInv'
  BY <1>18 DEF ReadyTimesOut, Goto
<1>19. ASSUME NEW t \in Threads, Stop(t) PROVE LockInv'
  BY <1>19 DEF Stop, Goto
<1>20. ASSUME NEW t \in Threads, StopServer(t) PROVE LockInv'
  BY <1>20 DEF StopServer, DropHeir, Goto
<1>21. ASSUME NEW t \in Threads, StopTimesOut(t) PROVE LockInv'
  BY <1>21 DEF StopTimesOut, Goto
<1>22. ASSUME NEW t \in Threads, RemoveOwn(t) PROVE LockInv'
  BY <1>22 DEF RemoveOwn, ForgetInstance, Goto
<1>23. ASSUME NEW h \in Hosts, Crash(h) PROVE LockInv'
  <2> DEFINE mine == {t \in Threads : HostOf[t] = h}
  <2>1. /\ \A t \in mine : pc'[t] = AfterDeath(pc[t]) /\ lockFd'[t] = "none"
        /\ \A t \in Threads \ mine : pc'[t] = pc[t] /\ lockFd'[t] = lockFd[t]
        /\ UNCHANGED <<victim, dir, server>>
    BY <1>23 DEF Crash
  <2>2. \A t \in Threads :
          /\ pc[t] \in {"boot", "orphan"} => pc'[t] \in {"boot", "orphan"}
          /\ pc[t] = "orphanRm" => pc'[t] = "orphanRm"
          /\ t \in mine /\ pc[t] = "removing" => pc'[t] = "orphanRm"
    BY <2>1 DEF AfterDeath
  <2>3. \A d \in heirs :
          \/ d \in server'
          \/ \E t \in Threads : pc'[t] \in {"boot", "orphan"} /\ dir'[t] = d
          \/ \E t \in Threads : pc'[t] = "orphanRm" /\ victim'[t] = d
    BY <2>1, <2>2
  <2>4. CASE lock \in mine
    <3>1. /\ lock' \in {Free, Inherited}
          /\ lock' = Inherited => heirs' # {}
          /\ lock' = Free => heirs' = {}
      <4>1. lock' = IF heirs' = {} THEN Free ELSE Inherited
        BY <1>23, <2>4, Zenon DEF Crash
      <4> HIDE DEF mine
      <4> QED
        BY <4>1
    <3>4. \A t \in Threads : lockFd'[t] # "held"
      <4>1. \A t \in Threads : lockFd[t] = "held" => t \in mine
        BY <2>4
      <4> HIDE DEF mine
      <4> QED
        BY <2>1, <4>1
    <3>2. ASSUME NEW d \in heirs', d \notin heirs
          PROVE  \E t \in Threads : pc'[t] = "orphanRm" /\ victim'[t] = d
      BY <1>23, <2>1, <2>2, <2>4, <3>2 DEF Crash
    <3> HIDE DEF mine
    <3> QED
      BY <2>3, <3>1, <3>2, <3>4
  <2>5. CASE lock \notin mine
    <3>1. UNCHANGED <<heirs, lock>>
      BY <1>23, <2>5 DEF Crash
    <3> QED
      BY <2>1, <2>3, <2>5, <3>1
  <2> QED
    BY <2>4, <2>5
<1>24. ASSUME NEW h \in Hosts, Restart(h) PROVE LockInv'
  BY <1>24 DEF Restart, Fresh
<1>25. ASSUME NEW d \in Dirs, ServerEnds(d) PROVE LockInv'
  BY <1>25 DEF ServerEnds, DropHeir
<1>26. ASSUME Tick PROVE LockInv'
  BY <1>26 DEF Tick
<1>27. CASE UNCHANGED vars
  BY <1>27 DEF vars
<1> QED
  BY <1>1, <1>2, <1>3, <1>4, <1>5, <1>6, <1>7, <1>8, <1>9, <1>10, <1>11, <1>12,
       <1>13, <1>14, <1>15, <1>16, <1>17, <1>18, <1>19, <1>20, <1>21, <1>22,
       <1>23, <1>24, <1>25, <1>26, <1>27
     DEF Next, Step, Scan, Create, Boot, Shutdown

LEMMA TimeNext ==
    ASSUME TypeOK, TimeInv, [Next]_vars
    PROVE  TimeInv'
<1> USE StaleDirsAssumption DEF TypeOK, TimeInv, locals, inst, disk, There,
       Serving
<1>1. ASSUME NEW t \in Threads, Start(t) PROVE TimeInv'
  BY <1>1 DEF Start, Goto
<1>2. ASSUME NEW t \in Threads, Acquire(t) PROVE TimeInv'
  BY <1>2 DEF Acquire, BeginScan, Goto
<1>3. ASSUME NEW t \in Threads, LockFails(t) PROVE TimeInv'
  BY <1>3 DEF LockFails, BeginScan, Goto
<1>4. ASSUME NEW t \in Threads, NEW d \in Dirs, CheckAge(t, d) PROVE TimeInv'
  BY <1>4 DEF CheckAge, Goto, Skip
<1>5. ASSUME NEW t \in Threads, Probe(t) PROVE TimeInv'
  BY <1>5 DEF Probe, Goto
<1>6. ASSUME NEW t \in Threads, Remove(t) PROVE TimeInv'
  BY <1>6 DEF Remove, Goto
<1>7. ASSUME NEW t \in Threads, OrphanRemove(t) PROVE TimeInv'
  BY <1>7 DEF OrphanRemove, Goto, DropHeir
<1>8. ASSUME NEW t \in Threads, EndScan(t) PROVE TimeInv'
  BY <1>8 DEF EndScan, Goto
<1>9. ASSUME NEW t \in Threads, FailEarly(t) PROVE TimeInv'
  BY <1>9 DEF FailEarly, Goto, ReleaseLock
<1>10. ASSUME NEW t \in Threads, NEW d \in Dirs, Mkdtemp(t, d) PROVE TimeInv'
  BY <1>10 DEF Mkdtemp, TakeDir, Goto
<1>11. ASSUME NEW t \in Threads, NEW d \in Dirs, OpenDataDir(t, d) PROVE
     TimeInv'
  BY <1>11 DEF OpenDataDir, TakeDir, Goto
<1>12. ASSUME NEW t \in Threads, Release(t) PROVE TimeInv'
  BY <1>12 DEF Release, ReleaseLock, Goto
<1>13. ASSUME NEW t \in Threads, Initdb(t) PROVE TimeInv'
  BY <1>13 DEF Initdb, Goto
<1>14. ASSUME NEW t \in Threads, ForkServer(t) PROVE TimeInv'
  BY <1>14 DEF ForkServer, Goto
<1>15. ASSUME NEW t \in Threads, ServerUp(t) PROVE TimeInv'
  BY <1>15 DEF ServerUp, Goto
<1>16. ASSUME NEW t \in Threads, BootFails(t) PROVE TimeInv'
  BY <1>16 DEF BootFails, DropHeir, Goto
<1>17. ASSUME NEW t \in Threads, Ready(t) PROVE TimeInv'
  BY <1>17 DEF Ready, Goto
<1>18. ASSUME NEW t \in Threads, ReadyTimesOut(t) PROVE TimeInv'
  BY <1>18 DEF ReadyTimesOut, Goto
<1>19. ASSUME NEW t \in Threads, Stop(t) PROVE TimeInv'
  BY <1>19 DEF Stop, Goto
<1>20. ASSUME NEW t \in Threads, StopServer(t) PROVE TimeInv'
  BY <1>20 DEF StopServer, DropHeir, Goto
<1>21. ASSUME NEW t \in Threads, StopTimesOut(t) PROVE TimeInv'
  BY <1>21 DEF StopTimesOut, Goto
<1>22. ASSUME NEW t \in Threads, RemoveOwn(t) PROVE TimeInv'
  BY <1>22 DEF RemoveOwn, ForgetInstance, Goto
<1>23. ASSUME NEW h \in Hosts, Crash(h) PROVE TimeInv'
  BY <1>23 DEF Crash, AfterDeath
<1>24. ASSUME NEW h \in Hosts, Restart(h) PROVE TimeInv'
  BY <1>24 DEF Restart, Fresh
<1>25. ASSUME NEW d \in Dirs, ServerEnds(d) PROVE TimeInv'
  BY <1>25 DEF ServerEnds, DropHeir
<1>26. ASSUME Tick PROVE TimeInv'
  BY <1>26 DEF Tick
<1>27. CASE UNCHANGED vars
  BY <1>27 DEF vars
<1> QED
  BY <1>1, <1>2, <1>3, <1>4, <1>5, <1>6, <1>7, <1>8, <1>9, <1>10, <1>11, <1>12,
       <1>13, <1>14, <1>15, <1>16, <1>17, <1>18, <1>19, <1>20, <1>21, <1>22,
       <1>23, <1>24, <1>25, <1>26, <1>27
     DEF Next, Step, Scan, Create, Boot, Shutdown

LEMMA OwnNext ==
    ASSUME TypeOK, OwnInv, [Next]_vars
    PROVE  OwnInv'
<1> USE StaleDirsAssumption DEF TypeOK, OwnInv, locals, inst, disk, There,
       Serving, HasDir, Booting, HasVictim
<1>1. ASSUME NEW t \in Threads, Start(t) PROVE OwnInv'
  BY <1>1 DEF Start, Goto
<1>2. ASSUME NEW t \in Threads, Acquire(t) PROVE OwnInv'
  BY <1>2 DEF Acquire, BeginScan, Goto
<1>3. ASSUME NEW t \in Threads, LockFails(t) PROVE OwnInv'
  BY <1>3 DEF LockFails, BeginScan, Goto
<1>4. ASSUME NEW t \in Threads, NEW d \in Dirs, CheckAge(t, d) PROVE OwnInv'
  BY <1>4 DEF CheckAge, Goto, Skip
<1>5. ASSUME NEW t \in Threads, Probe(t) PROVE OwnInv'
  BY <1>5 DEF Probe, Goto
<1>6. ASSUME NEW t \in Threads, Remove(t) PROVE OwnInv'
  BY <1>6 DEF Remove, Goto
<1>7. ASSUME NEW t \in Threads, OrphanRemove(t) PROVE OwnInv'
  BY <1>7 DEF OrphanRemove, Goto, DropHeir
<1>8. ASSUME NEW t \in Threads, EndScan(t) PROVE OwnInv'
  BY <1>8 DEF EndScan, Goto
<1>9. ASSUME NEW t \in Threads, FailEarly(t) PROVE OwnInv'
  BY <1>9 DEF FailEarly, Goto, ReleaseLock
<1>10. ASSUME NEW t \in Threads, NEW d \in Dirs, Mkdtemp(t, d) PROVE OwnInv'
  BY <1>10 DEF Mkdtemp, TakeDir, Goto
<1>11. ASSUME NEW t \in Threads, NEW d \in Dirs, OpenDataDir(t, d) PROVE OwnInv'
  BY <1>11 DEF OpenDataDir, TakeDir, Goto
<1>12. ASSUME NEW t \in Threads, Release(t) PROVE OwnInv'
  BY <1>12 DEF Release, ReleaseLock, Goto
<1>13. ASSUME NEW t \in Threads, Initdb(t) PROVE OwnInv'
  BY <1>13 DEF Initdb, Goto
<1>14. ASSUME NEW t \in Threads, ForkServer(t) PROVE OwnInv'
  BY <1>14 DEF ForkServer, Goto
<1>15. ASSUME NEW t \in Threads, ServerUp(t) PROVE OwnInv'
  BY <1>15 DEF ServerUp, Goto
<1>16. ASSUME NEW t \in Threads, BootFails(t) PROVE OwnInv'
  BY <1>16 DEF BootFails, DropHeir, Goto
<1>17. ASSUME NEW t \in Threads, Ready(t) PROVE OwnInv'
  BY <1>17 DEF Ready, Goto
<1>18. ASSUME NEW t \in Threads, ReadyTimesOut(t) PROVE OwnInv'
  BY <1>18 DEF ReadyTimesOut, Goto
<1>19. ASSUME NEW t \in Threads, Stop(t) PROVE OwnInv'
  BY <1>19 DEF Stop, Goto
<1>20. ASSUME NEW t \in Threads, StopServer(t) PROVE OwnInv'
  BY <1>20 DEF StopServer, DropHeir, Goto
<1>21. ASSUME NEW t \in Threads, StopTimesOut(t) PROVE OwnInv'
  BY <1>21 DEF StopTimesOut, Goto
<1>22. ASSUME NEW t \in Threads, RemoveOwn(t) PROVE OwnInv'
  BY <1>22 DEF RemoveOwn, ForgetInstance, Goto
<1>23. ASSUME NEW h \in Hosts, Crash(h) PROVE OwnInv'
  BY <1>23 DEF Crash, AfterDeath
<1>24. ASSUME NEW h \in Hosts, Restart(h) PROVE OwnInv'
  BY <1>24 DEF Restart, Fresh
<1>25. ASSUME NEW d \in Dirs, ServerEnds(d) PROVE OwnInv'
  BY <1>25 DEF ServerEnds, DropHeir
<1>26. ASSUME Tick PROVE OwnInv'
  BY <1>26 DEF Tick
<1>27. CASE UNCHANGED vars
  BY <1>27 DEF vars
<1> QED
  BY <1>1, <1>2, <1>3, <1>4, <1>5, <1>6, <1>7, <1>8, <1>9, <1>10, <1>11, <1>12,
       <1>13, <1>14, <1>15, <1>16, <1>17, <1>18, <1>19, <1>20, <1>21, <1>22,
       <1>23, <1>24, <1>25, <1>26, <1>27
     DEF Next, Step, Scan, Create, Boot, Shutdown

\* The parts that need each other.
LEMMA BootNext ==
    ASSUME IInv, [Next]_vars
    PROVE  BootInv'
<1> USE StaleDirsAssumption DEF IInv, TypeOK, TimeInv, OwnInv, BootInv,
       VictimInv, locals, inst, disk, There, Serving, HasDir, Booting, HasVictim
<1>1. ASSUME NEW t \in Threads, Start(t) PROVE BootInv'
  BY <1>1 DEF Start, Goto
<1>2. ASSUME NEW t \in Threads, Acquire(t) PROVE BootInv'
  BY <1>2 DEF Acquire, BeginScan, Goto
<1>3. ASSUME NEW t \in Threads, LockFails(t) PROVE BootInv'
  BY <1>3 DEF LockFails, BeginScan, Goto
<1>4. ASSUME NEW t \in Threads, NEW d \in Dirs, CheckAge(t, d) PROVE BootInv'
  BY <1>4 DEF CheckAge, Goto, Skip
<1>5. ASSUME NEW t \in Threads, Probe(t) PROVE BootInv'
  BY <1>5 DEF Probe, Goto
<1>6. ASSUME NEW t \in Threads, Remove(t) PROVE BootInv'
  BY <1>6 DEF Remove, Goto
<1>7. ASSUME NEW t \in Threads, OrphanRemove(t) PROVE BootInv'
  BY <1>7 DEF OrphanRemove, Goto, DropHeir
<1>8. ASSUME NEW t \in Threads, EndScan(t) PROVE BootInv'
  BY <1>8 DEF EndScan, Goto
<1>9. ASSUME NEW t \in Threads, FailEarly(t) PROVE BootInv'
  BY <1>9 DEF FailEarly, Goto, ReleaseLock
<1>10. ASSUME NEW t \in Threads, NEW d \in Dirs, Mkdtemp(t, d) PROVE BootInv'
  BY <1>10 DEF Mkdtemp, TakeDir, Goto
<1>11. ASSUME NEW t \in Threads, NEW d \in Dirs, OpenDataDir(t, d) PROVE
     BootInv'
  BY <1>11 DEF OpenDataDir, TakeDir, Goto
<1>12. ASSUME NEW t \in Threads, Release(t) PROVE BootInv'
  BY <1>12 DEF Release, ReleaseLock, Goto
<1>13. ASSUME NEW t \in Threads, Initdb(t) PROVE BootInv'
  BY <1>13 DEF Initdb, Goto
<1>14. ASSUME NEW t \in Threads, ForkServer(t) PROVE BootInv'
  BY <1>14 DEF ForkServer, Goto
<1>15. ASSUME NEW t \in Threads, ServerUp(t) PROVE BootInv'
  BY <1>15 DEF ServerUp, Goto
<1>16. ASSUME NEW t \in Threads, BootFails(t) PROVE BootInv'
  BY <1>16 DEF BootFails, DropHeir, Goto
<1>17. ASSUME NEW t \in Threads, Ready(t) PROVE BootInv'
  BY <1>17 DEF Ready, Goto
<1>18. ASSUME NEW t \in Threads, ReadyTimesOut(t) PROVE BootInv'
  BY <1>18 DEF ReadyTimesOut, Goto
<1>19. ASSUME NEW t \in Threads, Stop(t) PROVE BootInv'
  BY <1>19 DEF Stop, Goto
<1>20. ASSUME NEW t \in Threads, StopServer(t) PROVE BootInv'
  BY <1>20 DEF StopServer, DropHeir, Goto
<1>21. ASSUME NEW t \in Threads, StopTimesOut(t) PROVE BootInv'
  BY <1>21 DEF StopTimesOut, Goto
<1>22. ASSUME NEW t \in Threads, RemoveOwn(t) PROVE BootInv'
  BY <1>22 DEF RemoveOwn, ForgetInstance, Goto
<1>23. ASSUME NEW h \in Hosts, Crash(h) PROVE BootInv'
  BY <1>23 DEF Crash, AfterDeath
<1>24. ASSUME NEW h \in Hosts, Restart(h) PROVE BootInv'
  BY <1>24 DEF Restart, Fresh
<1>25. ASSUME NEW d \in Dirs, ServerEnds(d) PROVE BootInv'
  BY <1>25 DEF ServerEnds, DropHeir
<1>26. ASSUME Tick PROVE BootInv'
  BY <1>26 DEF Tick
<1>27. CASE UNCHANGED vars
  BY <1>27 DEF vars
<1> QED
  BY <1>1, <1>2, <1>3, <1>4, <1>5, <1>6, <1>7, <1>8, <1>9, <1>10, <1>11, <1>12,
       <1>13, <1>14, <1>15, <1>16, <1>17, <1>18, <1>19, <1>20, <1>21, <1>22,
       <1>23, <1>24, <1>25, <1>26, <1>27
     DEF Next, Step, Scan, Create, Boot, Shutdown

LEMMA VictimNext ==
    ASSUME IInv, [Next]_vars
    PROVE  VictimInv'
<1> USE StaleDirsAssumption, BootAssumption DEF IInv, TypeOK, TimeInv, OwnInv,
       BootInv, VictimInv, locals, inst, disk, There, Serving, HasDir, Booting,
       HasVictim
<1>1. ASSUME NEW t \in Threads, Start(t) PROVE VictimInv'
  BY <1>1 DEF Start, Goto
<1>2. ASSUME NEW t \in Threads, Acquire(t) PROVE VictimInv'
  BY <1>2 DEF Acquire, BeginScan, Goto
<1>3. ASSUME NEW t \in Threads, LockFails(t) PROVE VictimInv'
  BY <1>3 DEF LockFails, BeginScan, Goto
<1>4. ASSUME NEW t \in Threads, NEW d \in Dirs, CheckAge(t, d) PROVE VictimInv'
  BY <1>4 DEF CheckAge, Goto, Skip
<1>5. ASSUME NEW t \in Threads, Probe(t) PROVE VictimInv'
  BY <1>5 DEF Probe, Goto
<1>6. ASSUME NEW t \in Threads, Remove(t) PROVE VictimInv'
  BY <1>6 DEF Remove, Goto
<1>7. ASSUME NEW t \in Threads, OrphanRemove(t) PROVE VictimInv'
  BY <1>7 DEF OrphanRemove, Goto, DropHeir
<1>8. ASSUME NEW t \in Threads, EndScan(t) PROVE VictimInv'
  BY <1>8 DEF EndScan, Goto
<1>9. ASSUME NEW t \in Threads, FailEarly(t) PROVE VictimInv'
  BY <1>9 DEF FailEarly, Goto, ReleaseLock
<1>10. ASSUME NEW t \in Threads, NEW d \in Dirs, Mkdtemp(t, d) PROVE VictimInv'
  BY <1>10 DEF Mkdtemp, TakeDir, Goto
<1>11. ASSUME NEW t \in Threads, NEW d \in Dirs, OpenDataDir(t, d) PROVE
     VictimInv'
  BY <1>11 DEF OpenDataDir, TakeDir, Goto
<1>12. ASSUME NEW t \in Threads, Release(t) PROVE VictimInv'
  BY <1>12 DEF Release, ReleaseLock, Goto
<1>13. ASSUME NEW t \in Threads, Initdb(t) PROVE VictimInv'
  BY <1>13 DEF Initdb, Goto
<1>14. ASSUME NEW t \in Threads, ForkServer(t) PROVE VictimInv'
  BY <1>14 DEF ForkServer, Goto
<1>15. ASSUME NEW t \in Threads, ServerUp(t) PROVE VictimInv'
  BY <1>15 DEF ServerUp, Goto
<1>16. ASSUME NEW t \in Threads, BootFails(t) PROVE VictimInv'
  BY <1>16 DEF BootFails, DropHeir, Goto
<1>17. ASSUME NEW t \in Threads, Ready(t) PROVE VictimInv'
  BY <1>17 DEF Ready, Goto
<1>18. ASSUME NEW t \in Threads, ReadyTimesOut(t) PROVE VictimInv'
  BY <1>18 DEF ReadyTimesOut, Goto
<1>19. ASSUME NEW t \in Threads, Stop(t) PROVE VictimInv'
  BY <1>19 DEF Stop, Goto
<1>20. ASSUME NEW t \in Threads, StopServer(t) PROVE VictimInv'
  BY <1>20 DEF StopServer, DropHeir, Goto
<1>21. ASSUME NEW t \in Threads, StopTimesOut(t) PROVE VictimInv'
  BY <1>21 DEF StopTimesOut, Goto
<1>22. ASSUME NEW t \in Threads, RemoveOwn(t) PROVE VictimInv'
  BY <1>22 DEF RemoveOwn, ForgetInstance, Goto
<1>23. ASSUME NEW h \in Hosts, Crash(h) PROVE VictimInv'
  BY <1>23 DEF Crash, AfterDeath
<1>24. ASSUME NEW h \in Hosts, Restart(h) PROVE VictimInv'
  BY <1>24 DEF Restart, Fresh
<1>25. ASSUME NEW d \in Dirs, ServerEnds(d) PROVE VictimInv'
  BY <1>25 DEF ServerEnds, DropHeir
<1>26. ASSUME Tick PROVE VictimInv'
  BY <1>26 DEF Tick
<1>27. CASE UNCHANGED vars
  BY <1>27 DEF vars
<1> QED
  BY <1>1, <1>2, <1>3, <1>4, <1>5, <1>6, <1>7, <1>8, <1>9, <1>10, <1>11, <1>12,
       <1>13, <1>14, <1>15, <1>16, <1>17, <1>18, <1>19, <1>20, <1>21, <1>22,
       <1>23, <1>24, <1>25, <1>26, <1>27
     DEF Next, Step, Scan, Create, Boot, Shutdown

LEMMA RunNext ==
    ASSUME IInv, [Next]_vars
    PROVE  RunInv'
<1> USE StaleDirsAssumption DEF IInv, TypeOK, OwnInv, VictimInv, RunInv, locals,
       inst, disk, There, Serving, HasDir, Booting, HasVictim
<1>1. ASSUME NEW t \in Threads, Start(t) PROVE RunInv'
  BY <1>1 DEF Start, Goto
<1>2. ASSUME NEW t \in Threads, Acquire(t) PROVE RunInv'
  BY <1>2 DEF Acquire, BeginScan, Goto
<1>3. ASSUME NEW t \in Threads, LockFails(t) PROVE RunInv'
  BY <1>3 DEF LockFails, BeginScan, Goto
<1>4. ASSUME NEW t \in Threads, NEW d \in Dirs, CheckAge(t, d) PROVE RunInv'
  BY <1>4 DEF CheckAge, Goto, Skip
<1>5. ASSUME NEW t \in Threads, Probe(t) PROVE RunInv'
  BY <1>5 DEF Probe, Goto
<1>6. ASSUME NEW t \in Threads, Remove(t) PROVE RunInv'
  BY <1>6 DEF Remove, Goto
<1>7. ASSUME NEW t \in Threads, OrphanRemove(t) PROVE RunInv'
  BY <1>7 DEF OrphanRemove, Goto, DropHeir
<1>8. ASSUME NEW t \in Threads, EndScan(t) PROVE RunInv'
  BY <1>8 DEF EndScan, Goto
<1>9. ASSUME NEW t \in Threads, FailEarly(t) PROVE RunInv'
  BY <1>9 DEF FailEarly, Goto, ReleaseLock
<1>10. ASSUME NEW t \in Threads, NEW d \in Dirs, Mkdtemp(t, d) PROVE RunInv'
  BY <1>10 DEF Mkdtemp, TakeDir, Goto
<1>11. ASSUME NEW t \in Threads, NEW d \in Dirs, OpenDataDir(t, d) PROVE RunInv'
  BY <1>11 DEF OpenDataDir, TakeDir, Goto
<1>12. ASSUME NEW t \in Threads, Release(t) PROVE RunInv'
  BY <1>12 DEF Release, ReleaseLock, Goto
<1>13. ASSUME NEW t \in Threads, Initdb(t) PROVE RunInv'
  BY <1>13 DEF Initdb, Goto
<1>14. ASSUME NEW t \in Threads, ForkServer(t) PROVE RunInv'
  BY <1>14 DEF ForkServer, Goto
<1>15. ASSUME NEW t \in Threads, ServerUp(t) PROVE RunInv'
  BY <1>15 DEF ServerUp, Goto
<1>16. ASSUME NEW t \in Threads, BootFails(t) PROVE RunInv'
  BY <1>16 DEF BootFails, DropHeir, Goto
<1>17. ASSUME NEW t \in Threads, Ready(t) PROVE RunInv'
  BY <1>17 DEF Ready, Goto
<1>18. ASSUME NEW t \in Threads, ReadyTimesOut(t) PROVE RunInv'
  BY <1>18 DEF ReadyTimesOut, Goto
<1>19. ASSUME NEW t \in Threads, Stop(t) PROVE RunInv'
  BY <1>19 DEF Stop, Goto
<1>20. ASSUME NEW t \in Threads, StopServer(t) PROVE RunInv'
  BY <1>20 DEF StopServer, DropHeir, Goto
<1>21. ASSUME NEW t \in Threads, StopTimesOut(t) PROVE RunInv'
  BY <1>21 DEF StopTimesOut, Goto
<1>22. ASSUME NEW t \in Threads, RemoveOwn(t) PROVE RunInv'
  BY <1>22 DEF RemoveOwn, ForgetInstance, Goto
<1>23. ASSUME NEW h \in Hosts, Crash(h) PROVE RunInv'
  BY <1>23 DEF Crash, AfterDeath
<1>24. ASSUME NEW h \in Hosts, Restart(h) PROVE RunInv'
  BY <1>24 DEF Restart, Fresh
<1>25. ASSUME NEW d \in Dirs, ServerEnds(d) PROVE RunInv'
  BY <1>25 DEF ServerEnds, DropHeir
<1>26. ASSUME Tick PROVE RunInv'
  BY <1>26 DEF Tick
<1>27. CASE UNCHANGED vars
  BY <1>27 DEF vars
<1> QED
  BY <1>1, <1>2, <1>3, <1>4, <1>5, <1>6, <1>7, <1>8, <1>9, <1>10, <1>11, <1>12,
       <1>13, <1>14, <1>15, <1>16, <1>17, <1>18, <1>19, <1>20, <1>21, <1>22,
       <1>23, <1>24, <1>25, <1>26, <1>27
     DEF Next, Step, Scan, Create, Boot, Shutdown

LEMMA IInvHolds == Spec => []IInv
<1>1. Init => IInv
  <2> SUFFICES ASSUME Init PROVE IInv
    OBVIOUS
  <2>1. TypeOK
    BY StaleDirsAssumption DEF Init, TypeOK, There, PCs, Window, Scanning,
         Booting, HasDir, HasVictim
  <2>2. LockInv /\ TimeInv /\ OwnInv
    BY StaleDirsAssumption DEF Init, LockInv, TimeInv, OwnInv, HasDir, Booting
  <2>3. BootInv /\ VictimInv /\ RunInv
    BY DEF Init, BootInv, VictimInv, RunInv, Booting, HasVictim
  <2> QED
    BY <2>1, <2>2, <2>3 DEF IInv
<1>2. IInv /\ [Next]_vars => IInv'
  BY TypeNext, LockNext, TimeNext, OwnNext, BootNext, VictimNext, RunNext DEF
       IInv
<1> QED
  BY <1>1, <1>2, PTL DEF Spec

----------------------------------------------------------------------------
\* The cleaner condemns nothing in use but a kept directory, with or without the
\* startup lock, for every number of processes (cleanup_stale_tmpdirs(),
\* pg_shim.c:188-215).
THEOREM FreshSafe == Spec => []FreshNotCondemned
<1>1. IInv => FreshNotCondemned
  BY DEF IInv, VictimInv, FreshNotCondemned, HasVictim
<1> QED
  BY <1>1, IInvHolds, PTL

\* No boot and no live instance loses the directory its start has made, even
\* while others reopen theirs (rpgl_start(), pg_shim.c:467-677).
THEOREM FreshKept == Spec => []FreshIntact
<1>1. IInv => FreshIntact
  BY DEF IInv, BootInv, RunInv, FreshIntact
<1> QED
  BY <1>1, IInvHolds, PTL

\* Unless somebody reopens a kept directory, the cleaner removes nothing that
\* boots or serves, with or without the startup lock, for every number of
\* processes (cleanup_stale_tmpdirs(), pg_shim.c:188-215).
THEOREM CleanerSafe ==
    ASSUME "reopen" \notin Options
    PROVE  Spec => []VictimAbandoned
<1>1. IInv => VictimAbandoned
  BY DEF IInv, TypeOK, OwnInv, VictimInv, VictimAbandoned, HasVictim, HasDir
<1> QED
  BY <1>1, IInvHolds, PTL

\* Under the same condition no boot and no live instance loses its directory
\* (rpgl_start(), pg_shim.c:467-677).
THEOREM InstanceSafe ==
    ASSUME "reopen" \notin Options
    PROVE  Spec => []InstanceIntact
<1>1. IInv => InstanceIntact
  BY DEF IInv, OwnInv, BootInv, RunInv, InstanceIntact
<1> QED
  BY <1>1, IInvHolds, PTL

\* A boot under way stays in its directory.
LEMMA BootStays ==
    ASSUME TypeOK, [Next]_vars, NEW t \in Threads,
           pc[t] \in Booting, pc'[t] \in Booting
    PROVE  dir'[t] = dir[t]
<1>1. CASE UNCHANGED vars
  BY <1>1 DEF vars
<1>2. ASSUME NEW u \in Threads,
             Start(u) \/ Acquire(u) \/ LockFails(u) \/ Step(u) \/ Stop(u)
      PROVE  dir'[t] = dir[t]
  BY <1>2 DEF TypeOK, Start, Acquire, LockFails, BeginScan, Stop, Step, Scan,
     CheckAge, Probe, Remove, OrphanRemove, EndScan, Create, FailEarly, Mkdtemp,
     OpenDataDir, TakeDir, Release, Boot, Initdb, ForkServer, ServerUp, BootFails,
     Ready, ReadyTimesOut, Shutdown, StopServer, StopTimesOut, RemoveOwn,
     ForgetInstance, Goto, inst, Booting
<1>3. ASSUME NEW h \in Hosts, Crash(h) \/ Restart(h) PROVE dir'[t] = dir[t]
  BY <1>3 DEF Crash, Restart, Fresh, inst, Booting
<1>4. CASE Tick \/ \E d \in Dirs : ServerEnds(d)
  BY <1>4 DEF Tick, ServerEnds, inst
<1> QED
  BY <1>1, <1>2, <1>3, <1>4 DEF Next

\* The comment at pg_shim.c:519-520 is right of every directory but a reopened
\* one: no boot under way loses its directory.
THEOREM BootSafe ==
    ASSUME "reopen" \notin Options
    PROVE  Spec => BootKeepsDir
<1>1. IInv => InstanceIntact
  BY DEF IInv, OwnInv, BootInv, RunInv, InstanceIntact
<1>2. IInv /\ InstanceIntact' /\ [Next]_vars
        => [\A t \in Threads :
              pc[t] \in Booting /\ pc'[t] \in Booting /\ dir[t] \in There
              => dir[t] \in There']_vars
  BY BootStays DEF IInv, InstanceIntact
<1> QED
  BY <1>1, <1>2, IInvHolds, PTL DEF Spec, BootKeepsDir

\* Where no process runs two threads the startup lock is let go: by its holder,
\* or by the rm of a dead holder, and no server ever has it
\* (acquire_startup_lock(), release_startup_lock(), pg_shim.c:77-96, 210-212).
THEOREM LockReturned ==
    ASSUME \A t, u \in Threads : HostOf[t] = HostOf[u] => t = u
    PROVE  Spec => []LockLetGo
<1> DEFINE RmInherits ==
      \A d \in heirs : \E t \in Threads : pc[t] = "orphanRm" /\ victim[t] = d
<1>1. Init => RmInherits
  BY DEF Init
<1>2. IInv /\ RmInherits /\ [Next]_vars => RmInherits'
  <2> SUFFICES ASSUME IInv, RmInherits, [Next]_vars PROVE RmInherits'
    OBVIOUS
  <2> USE StaleDirsAssumption DEF IInv, TypeOK, locals, inst, disk
  <2>1. CASE UNCHANGED vars
    BY <2>1 DEF vars
  <2>2. ASSUME NEW t \in Threads,
               Start(t) \/ Acquire(t) \/ LockFails(t) \/ Stop(t) \/ Shutdown(t)
        PROVE  RmInherits'
    BY <2>2 DEF Start, Acquire, LockFails, BeginScan, Stop, Shutdown, StopServer,
       StopTimesOut, RemoveOwn, DropHeir, Goto
  <2>3. ASSUME NEW t \in Threads, Scan(t) \/ Create(t) PROVE RmInherits'
    BY <2>3 DEF Scan, CheckAge, Skip, Probe, Remove, OrphanRemove, EndScan, Create,
       FailEarly, Mkdtemp, OpenDataDir, TakeDir, Release, ReleaseLock, DropHeir, Goto
  <2>4. ASSUME NEW t \in Threads, Boot(t) PROVE RmInherits'
    <3>1. CASE ForkServer(t)
      <4>1. lock \in Threads => HostOf[lock] # HostOf[t]
        BY <3>1 DEF ForkServer, LockInv, Window, Scanning
      <4> QED
        BY <3>1, <4>1 DEF ForkServer, Goto
    <3> QED
      BY <2>4, <3>1 DEF Boot, Initdb, ServerUp, BootFails, Ready, ReadyTimesOut,
         DropHeir, Goto
  <2>5. ASSUME NEW h \in Hosts, Crash(h) PROVE RmInherits'
    BY <2>5 DEF Crash, AfterDeath
  <2>6. ASSUME NEW h \in Hosts, Restart(h) PROVE RmInherits'
    BY <2>6 DEF Restart, Fresh
  <2>7. CASE Tick \/ \E d \in Dirs : ServerEnds(d)
    BY <2>7 DEF Tick, ServerEnds, DropHeir
  <2> QED
    BY <2>1, <2>2, <2>3, <2>4, <2>5, <2>6, <2>7 DEF Next, Step
<1>3. IInv /\ RmInherits => LockLetGo
  BY DEF IInv, LockInv, LockLetGo
<1> QED
  BY <1>1, <1>2, <1>3, IInvHolds, PTL DEF Spec

\* mkdtemp() under the lock excludes a scan under the lock, reopened
\* directories, dead hosts and inherited descriptors included
\* (pg_shim.c:471-474).
THEOREM ScanSerialised == Spec => NoDirAppearsInScan
<1>1. Init => TypeOK /\ LockInv
  <2>1. Init => TypeOK
    BY StaleDirsAssumption DEF Init, TypeOK, There, PCs, Window, Scanning,
         Booting, HasDir, HasVictim
  <2>2. Init => LockInv
    BY StaleDirsAssumption DEF Init, LockInv
  <2> QED
    BY <2>1, <2>2
<1>2. TypeOK /\ LockInv /\ [Next]_vars => (TypeOK /\ LockInv)'
  BY TypeNext, LockNext
<1>3. LockInv =>
        \A t, u \in Threads :
          /\ pc[t] = "create" /\ pc'[t] = "release" /\ t # u
          /\ lockFd[t] = "held" /\ lockFd[u] = "held"
          => pc[u] \notin Scanning
  BY DEF LockInv
<1> QED
  BY <1>1, <1>2, <1>3, PTL DEF Spec, NoDirAppearsInScan
=============================================================================
