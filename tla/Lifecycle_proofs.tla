------------------------- MODULE Lifecycle_proofs -------------------------
(***************************************************************************)
(* Machine-checked theorems about Lifecycle, for any number of handles and *)
(* directories: it implements EmbeddedServer step by step, and the branch  *)
(* without pg_ctl leaves no server behind.                                 *)
(***************************************************************************)
EXTENDS Lifecycle, TLAPS

Opened == {"auto", "keep", "given"}

\* A handle has no server before it forks one, and a guest never has.
HandleInv ==
    \A h \in Handles :
        /\ pc[h] = "none" => kind[h] = "none"
        /\ pc[h] \in Starting \/ proc[h] # "none" => kind[h] \in Opened
        /\ pc[h] \in {"none", "attached", "initdb", "make", "fork"} =>
               proc[h] = "none"

\* The server that wrote a postmaster.pid is one of that directory, which
\* holds a cluster.
PidInv ==
    \A d \in Dirs : pidfile[d] # NoServer =>
        d \in cluster /\ dir[pidfile[d]] = d /\ proc[pidfile[d]] # "none"

\* Without pg_ctl the server is gone when the directory is removed.
GoneInv ==
    \A h \in Handles :
        h \notin pgctl /\ pc[h] \in {"remove", "gone"} => proc[h] \in {"none", "ended"}

\* postmaster.pid names the server that runs in its directory, unless the owner
\* of the directory has deleted both.
RunInv ==
    \A s \in Handles : Running(s) =>
        \/ pidfile[dir[s]] = s
        \/ \E h \in Handles : kind[h] = "auto" /\ dir[h] = dir[s] /\ pc[h] = "gone"

\* A directory whose last server has ended by itself has no other that answers.
BrokenInv == \A d \in broken : ~ Answers(d)

IInv == TypeOK /\ HandleInv /\ PidInv /\ GoneInv /\ RunInv /\ BrokenInv

----------------------------------------------------------------------------
LEMMA InitStep == Init => IInv
BY LifecycleAssumption
   DEF Init, IInv, TypeOK, HandleInv, PidInv, GoneInv, RunInv, BrokenInv, Running, Opened,
       Calling, Starting, Stopping, Held, Alive

\* Every step keeps the invariant.
LEMMA StepKeepsIInv ==
    ASSUME IInv, [Next]_vars
    PROVE  IInv'
<1> USE LifecycleAssumption DEF IInv, TypeOK, HandleInv, PidInv, GoneInv,
       RunInv, BrokenInv, Answers, Running, Opened, host, Starting, Stopping, Held, Calling, Alive
<1>1. ASSUME NEW h \in Handles, NEW d \in Dirs, NEW k \in {"auto", "keep", "given"},
             Begin(h, d, k)
      PROVE  IInv'
  BY <1>1 DEF Begin, Goto, Proc
<1>2. ASSUME NEW h \in Handles, NEW d \in Dirs, ConnectExisting(h, d) PROVE IInv'
  BY <1>2 DEF ConnectExisting, Goto, Proc
<1>3. ASSUME NEW h \in Handles, CheckVersion(h) PROVE IInv'
  BY <1>3 DEF CheckVersion, Goto, Proc
<1>4. ASSUME NEW h \in Handles, Initdb(h) PROVE IInv'
  BY <1>4 DEF Initdb, Goto, Proc
<1>5. ASSUME NEW h \in Handles, InitdbFails(h) PROVE IInv'
  BY <1>5 DEF InitdbFails, Goto, Proc
<1>6. ASSUME NEW h \in Handles, StartServer(h) PROVE IInv'
  BY <1>6 DEF StartServer, Goto, Proc
<1>7. ASSUME NEW h \in Handles, ForkFails(h) PROVE IInv'
  BY <1>7 DEF ForkFails, Goto, Proc
<1>8. ASSUME NEW h \in Handles, PgCtlStarted(h) PROVE IInv'
  BY <1>8 DEF PgCtlStarted, Goto, Proc
<1>9. ASSUME NEW h \in Handles, PgCtlFails(h) PROVE IInv'
  BY <1>9 DEF PgCtlFails, Goto, Proc
<1>10. ASSUME NEW h \in Handles, Ready(h) PROVE IInv'
  BY <1>10 DEF Ready, Goto, Proc
<1>11. ASSUME NEW h \in Handles, ReadyTimesOut(h) PROVE IInv'
  BY <1>11 DEF ReadyTimesOut, Goto, Proc
<1>12. ASSUME NEW h \in Handles, Stop(h) PROVE IInv'
  BY <1>12 DEF Stop, Goto, Proc
<1>13. ASSUME NEW h \in Handles, PgCtlStop(h) PROVE IInv'
  BY <1>13 DEF PgCtlStop, Exists, Signal, Goto, Proc
<1>14. ASSUME NEW h \in Handles, PgCtlReturns(h) PROVE IInv'
  BY <1>14 DEF PgCtlReturns, Goto, Proc
<1>15. ASSUME NEW h \in Handles, Terminate(h) PROVE IInv'
  BY <1>15 DEF Terminate, Signal, Goto, Proc
<1>16. ASSUME NEW h \in Handles, NothingToSignal(h) PROVE IInv'
  BY <1>16 DEF NothingToSignal, Goto, Proc
<1>17. ASSUME NEW h \in Handles, Reap(h) PROVE IInv'
  BY <1>17 DEF Reap, Goto, Proc
<1>18. ASSUME NEW h \in Handles, ReapTimesOut(h) PROVE IInv'
  BY <1>18 DEF ReapTimesOut, Goto, Proc
<1>19. ASSUME NEW h \in Handles, Kill(h) PROVE IInv'
  BY <1>19 DEF Kill, Goto, Proc
<1>20. ASSUME NEW h \in Handles, Collect(h) PROVE IInv'
  BY <1>20 DEF Collect, Goto, Proc
<1>21. ASSUME NEW h \in Handles, Remove(h) PROVE IInv'
  BY <1>21 DEF Remove, Goto, Proc
<1>22. ASSUME NEW h \in Handles, Crash(h) PROVE IInv'
  BY <1>22 DEF Crash, Goto, Proc
<1>23. ASSUME NEW h \in Handles, LockDir(h) PROVE IInv'
  BY <1>23 DEF LockDir, Exists, AtEnd, Goto, Proc
<1>24. ASSUME NEW h \in Handles, Listen(h) PROVE IInv'
  BY <1>24 DEF Listen, Goto, Proc
<1>25. ASSUME NEW h \in Handles, ShutdownCompletes(h) PROVE IInv'
  BY <1>25 DEF ShutdownCompletes, AtEnd, Forget, Goto, Proc
<1>26. ASSUME NEW h \in Handles, ServerFails(h) PROVE IInv'
  BY <1>26 DEF ServerFails, AtEnd, Forget, Goto, Proc
<1>27. ASSUME NEW h \in Handles, Dies(h) PROVE IInv'
  BY <1>27 DEF Dies, AtEnd, Goto, Proc
<1>28. CASE UNCHANGED vars
  BY <1>28 DEF vars
<1> QED
  BY <1>1, <1>2, <1>3, <1>4, <1>5, <1>6, <1>7, <1>8, <1>9, <1>10, <1>11, <1>12,
     <1>13, <1>14, <1>15, <1>16, <1>17, <1>18, <1>19, <1>20, <1>21, <1>22, <1>23,
     <1>24, <1>25, <1>26, <1>27, <1>28
     DEF Next, Start, Shutdown, Server

\* Every variable keeps its type.
THEOREM TypeCorrect == Spec => []TypeOK
<1>1. Init => IInv
  BY InitStep
<1>2. IInv /\ [Next]_vars => IInv'
  BY StepKeepsIInv
<1>3. IInv => TypeOK
  BY DEF IInv
<1> QED
  BY <1>1, <1>2, <1>3, PTL DEF Spec

\* Without pg_ctl no stop leaves a server or a zombie (rpgl_stop(),
\* pg_shim.c:699-713).
THEOREM StopLeavesNothing == Spec => []NothingLeft
<1>1. Init => IInv
  BY InitStep
<1>2. IInv /\ [Next]_vars => IInv'
  BY StepKeepsIInv
<1>3. IInv => NothingLeft
  BY DEF IInv, GoneInv, NothingLeft
<1> QED
  BY <1>1, <1>2, <1>3, PTL DEF Spec

\* A directory has two servers only after its owner has deleted it under one
\* (pg_shim.c:535, 608-613, 674, 684-719).
THEOREM OneServerPerDirectory == Spec => []OneServer
<1>1. Init => IInv
  BY InitStep
<1>2. IInv /\ [Next]_vars => IInv'
  BY StepKeepsIInv
<1>3. IInv => OneServer
  BY DEF IInv, RunInv, OneServer
<1> QED
  BY <1>1, <1>2, <1>3, PTL DEF Spec

----------------------------------------------------------------------------
Starters == {h \in Handles : kind[h] \in {"auto", "keep", "given"}}
Owner == {h \in Handles : kind[h] = "auto"}
Serving == [d \in Dirs |-> IF Answers(d) THEN pidfile[d] ELSE NoServer]

\* The step of a handle's call as its caller sees it.
LEMMA PhaseStep ==
    ASSUME TypeOK, NEW h \in Handles, NEW from, NEW to, Goto(h, from, to)
    PROVE  /\ Phase[h] = PhaseOf(from)
           /\ Phase' = [Phase EXCEPT ![h] = PhaseOf(to)]
           /\ PhaseOf(from) = PhaseOf(to) => UNCHANGED Phase
BY DEF TypeOK, Goto, Phase

\* A server that changes its state, and not its postmaster.pid, stops to answer
\* in its own directory at most.
LEMMA ServingStep ==
    ASSUME IInv, NEW s \in Handles, NEW state, state # "serving",
           Proc(s, state), UNCHANGED pidfile
    PROVE  \/ Serving' = Serving
           \/ /\ Serving[dir[s]] = s
              /\ Serving' = [Serving EXCEPT ![dir[s]] = NoServer]
<1>1. \A d \in Dirs : pidfile[d] # s => (Answers(d)' <=> Answers(d))
  BY DEF IInv, TypeOK, Answers, Proc
<1>2. \A d \in Dirs : pidfile[d] = s => d = dir[s] /\ ~ Answers(d)'
  BY LifecycleAssumption DEF IInv, TypeOK, PidInv, Answers, Proc
<1>3. CASE dir[s] \in Dirs /\ pidfile[dir[s]] = s /\ proc[s] = "serving"
  <2>1. Serving[dir[s]] = s
    BY <1>3, LifecycleAssumption DEF Serving, Answers
  <2>2. Serving' = [Serving EXCEPT ![dir[s]] = NoServer]
    BY <1>1, <1>2, <1>3 DEF Serving
  <2> QED
    BY <2>1, <2>2
<1>4. CASE ~ (dir[s] \in Dirs /\ pidfile[dir[s]] = s /\ proc[s] = "serving")
  <2>1. \A d \in Dirs : Answers(d)' <=> Answers(d)
    BY <1>1, <1>2, <1>4 DEF Answers
  <2> QED
    BY <2>1 DEF Serving
<1> QED
  BY <1>3, <1>4

\* A process that does not serve can change its state unseen.
LEMMA ServingSame ==
    ASSUME IInv, NEW s \in Handles, NEW state, state # "serving",
           proc[s] # "serving", Proc(s, state),
           \A d \in Dirs : pidfile'[d] \in {pidfile[d], s, NoServer} /\
               (pidfile'[d] # pidfile[d] => ~ Answers(d))
    PROVE  Serving' = Serving
<1>1. \A d \in Dirs : (Answers(d)' <=> Answers(d)) /\ (Answers(d) => pidfile'[d] = pidfile[d])
  BY LifecycleAssumption DEF IInv, TypeOK, Answers, Proc
<1> QED
  BY <1>1 DEF Serving

LEMMA ServingUnchanged ==
    ASSUME UNCHANGED <<proc, pidfile>>
    PROVE  Serving' = Serving
BY DEF Serving, Answers

LEMMA InitRefines == Init => ES!Init
<1> SUFFICES ASSUME Init PROVE ES!Init
  OBVIOUS
<1>1. Phase = [h \in Handles |-> "none"]
  BY DEF Init, Phase, PhaseOf, Starting, Stopping
<1>2. Starters = {} /\ Owner = {} /\ Serving = [d \in Dirs |-> NoServer]
  BY DEF Init, Starters, Owner, Serving, Answers
<1> QED
  BY <1>1, <1>2 DEF Init, ES!Init, Starters, Owner, Serving

\* Every step is a step of EmbeddedServer or changes nothing there.
LEMMA StepRefines ==
    ASSUME IInv, IInv', [Next]_vars
    PROVE  [ES!Next]_ES!vars
<1> USE DEF Starting, Stopping, PhaseOf, Starters, Owner, Serving
<1>a. TypeOK /\ HandleInv /\ PidInv
  BY DEF IInv
<1>1. ASSUME NEW h \in Handles, NEW d \in Dirs, NEW k \in {"auto", "keep", "given"},
             Begin(h, d, k)
      PROVE  [ES!Next]_ES!vars
  <2>1. Goto(h, "none", "initdb") /\ UNCHANGED <<proc, pidfile>>
    BY <1>1 DEF Begin
  <2>2. Phase[h] = "none" /\ Phase' = [Phase EXCEPT ![h] = "starting"] /\ Serving' = Serving
    BY <2>1, <1>a, PhaseStep, ServingUnchanged
  <2>3. /\ Starters' = Starters \cup {h}
        /\ Owner' = IF k = "auto" THEN Owner \cup {h} ELSE Owner
    BY <1>1, <2>1, <1>a DEF Begin, TypeOK, HandleInv, Goto
  <2>4. ES!OpenGiven(h, d) \/ ES!OpenFresh(h, d)
    BY <1>1, <2>2, <2>3 DEF Begin, ES!OpenGiven, ES!OpenFresh, ES!Turn
  <2> QED
    BY <2>4 DEF ES!Next
<1>2. ASSUME NEW h \in Handles, NEW d \in Dirs, ConnectExisting(h, d) PROVE [ES!Next]_ES!vars
  <2>1. Goto(h, "none", "attached") /\ UNCHANGED <<proc, pidfile>>
    BY <1>2 DEF ConnectExisting
  <2>2. Phase[h] = "none" /\ Phase' = [Phase EXCEPT ![h] = "attached"] /\ Serving' = Serving
    BY <2>1, <1>a, PhaseStep, ServingUnchanged
  <2>3. Starters' = Starters /\ Owner' = Owner
    BY <1>2, <2>1, <1>a DEF ConnectExisting, TypeOK, HandleInv, Goto
  <2>4. ES!Attach(h, d)
    BY <1>2, <2>2, <2>3 DEF ConnectExisting, ES!Attach, ES!Turn
  <2> QED
    BY <2>4 DEF ES!Next
<1>3. ASSUME NEW h \in Handles, CheckVersion(h) PROVE [ES!Next]_ES!vars
  BY <1>3, <1>a, PhaseStep, ServingUnchanged DEF CheckVersion, ES!vars
<1>4. ASSUME NEW h \in Handles, Initdb(h) PROVE [ES!Next]_ES!vars
  <2>1. Goto(h, "make", "fork") /\ UNCHANGED <<kind, proc, pidfile>>
    BY <1>4 DEF Initdb
  <2>2. ES!Create(h)
    BY <1>4, <2>1, <1>a, PhaseStep, ServingUnchanged DEF Initdb, ES!Create
  <2> QED
    BY <2>2 DEF ES!Next
<1>5. ASSUME NEW h \in Handles, InitdbFails(h) PROVE [ES!Next]_ES!vars
  <2>1. Goto(h, "make", "stop") /\ UNCHANGED <<kind, proc, pidfile>>
    BY <1>5 DEF InitdbFails
  <2>2. ES!GiveUp(h)
    BY <1>5, <2>1, <1>a, PhaseStep, ServingUnchanged
       DEF InitdbFails, TypeOK, ES!GiveUp, ES!Turn
  <2> QED
    BY <2>2 DEF ES!Next
<1>6. ASSUME NEW h \in Handles, StartServer(h) PROVE [ES!Next]_ES!vars
  <2>1. Serving' = Serving
    BY <1>6, <1>a, ServingSame DEF StartServer, HandleInv, Goto
  <2> QED
    BY <1>6, <2>1, <1>a, PhaseStep DEF StartServer, ES!vars
<1>7. ASSUME NEW h \in Handles, ForkFails(h) PROVE [ES!Next]_ES!vars
  <2>1. Goto(h, "fork", "stop") /\ UNCHANGED <<kind, proc, pidfile>>
    BY <1>7 DEF ForkFails
  <2>2. ES!GiveUp(h)
    BY <1>7, <2>1, <1>a, PhaseStep, ServingUnchanged
       DEF ForkFails, TypeOK, ES!GiveUp, ES!Turn
  <2> QED
    BY <2>2 DEF ES!Next
<1>8. ASSUME NEW h \in Handles, PgCtlStarted(h) PROVE [ES!Next]_ES!vars
  BY <1>8, <1>a, PhaseStep, ServingUnchanged DEF PgCtlStarted, ES!vars
<1>9. ASSUME NEW h \in Handles, PgCtlFails(h) PROVE [ES!Next]_ES!vars
  <2>1. Goto(h, "pgctl", "stop") /\ UNCHANGED <<kind, proc, pidfile>>
    BY <1>9 DEF PgCtlFails
  <2>2. ES!GiveUp(h)
    BY <1>9, <2>1, <1>a, PhaseStep, ServingUnchanged
       DEF PgCtlFails, TypeOK, ES!GiveUp, ES!Turn
  <2> QED
    BY <2>2 DEF ES!Next
<1>10. ASSUME NEW h \in Handles, Ready(h) PROVE [ES!Next]_ES!vars
  <2>1. Goto(h, "wait", "up") /\ UNCHANGED <<kind, proc, pidfile>>
    BY <1>10 DEF Ready
  <2>2. Serving[dir[h]] # NoServer
    BY <1>10, <1>a DEF Ready, TypeOK, Goto, Answers
  <2>3. ES!Ready(h)
    BY <1>10, <2>1, <2>2, <1>a, PhaseStep, ServingUnchanged DEF Ready, ES!Ready, ES!Turn
  <2> QED
    BY <2>3 DEF ES!Next
<1>11. ASSUME NEW h \in Handles, ReadyTimesOut(h) PROVE [ES!Next]_ES!vars
  <2>1. Goto(h, "wait", "stop") /\ UNCHANGED <<kind, proc, pidfile>>
    BY <1>11 DEF ReadyTimesOut
  <2>2. ES!GiveUp(h)
    BY <1>11, <2>1, <1>a, PhaseStep, ServingUnchanged
       DEF ReadyTimesOut, TypeOK, ES!GiveUp, ES!Turn
  <2> QED
    BY <2>2 DEF ES!Next
<1>12. ASSUME NEW h \in Handles, Stop(h) PROVE [ES!Next]_ES!vars
  <2>1. ES!Close(h)
    BY <1>12, <1>a, PhaseStep, ServingUnchanged DEF Stop, ES!Close, ES!Turn
  <2> QED
    BY <2>1 DEF ES!Next
<1>13. ASSUME NEW h \in Handles, PgCtlStop(h) PROVE [ES!Next]_ES!vars
  <2>1. /\ Phase[h] = "stopping" /\ h \in pgctl
        /\ UNCHANGED <<Phase, dir, pgctl, kind, cluster, broken>>
    BY <1>13, <1>a, PhaseStep DEF PgCtlStop
  <2>2. Serving' \in {Serving, [Serving EXCEPT ![dir[h]] = NoServer]}
    <3> DEFINE s == pidfile[dir[h]]
    <3>1. CASE Exists(s)
      <4>1. dir[h] \in Dirs /\ s \in Handles /\ dir[s] = dir[h]
        BY <1>13, <3>1, <1>a DEF PgCtlStop, TypeOK, PidInv, Exists
      <4>2. PICK state \in {"ending", "killed", "zombie"} : Proc(s, state) /\ UNCHANGED pidfile
        BY <1>13, <3>1 DEF PgCtlStop, Signal, Exists
      <4> QED
        BY <4>1, <4>2, ServingStep
    <3>2. CASE ~ Exists(s)
      BY <1>13, <3>2, ServingUnchanged DEF PgCtlStop
    <3> QED
      BY <3>1, <3>2
  <2> QED
    BY <2>1, <2>2 DEF ES!Next, ES!EndServer, ES!MayEnd, ES!vars
<1>14. ASSUME NEW h \in Handles, PgCtlReturns(h) PROVE [ES!Next]_ES!vars
  BY <1>14, <1>a, PhaseStep, ServingUnchanged DEF PgCtlReturns, ES!vars
<1>15. ASSUME NEW h \in Handles, Terminate(h) PROVE [ES!Next]_ES!vars
  <2>1. /\ Phase[h] = "stopping"
        /\ UNCHANGED <<Phase, dir, pgctl, kind, cluster, broken>>
    BY <1>15, <1>a, PhaseStep DEF Terminate
  <2>2. PICK state \in {"none", "ending", "killed", "zombie", "ended"} : Proc(h, state) /\ UNCHANGED pidfile
    BY <1>15, <1>a DEF Terminate, Signal, TypeOK, Alive
  <2>3. \/ Serving' = Serving
        \/ Serving[dir[h]] = h /\ Serving' = [Serving EXCEPT ![dir[h]] = NoServer]
    BY <2>2, ServingStep
  <2> QED
    BY <2>1, <2>3 DEF ES!Next, ES!EndServer, ES!MayEnd, ES!vars
<1>16. ASSUME NEW h \in Handles, NothingToSignal(h) PROVE [ES!Next]_ES!vars
  BY <1>16, <1>a, PhaseStep, ServingUnchanged DEF NothingToSignal, ES!vars
<1>17. ASSUME NEW h \in Handles, Reap(h) PROVE [ES!Next]_ES!vars
  <2>1. /\ Phase[h] = "stopping"
        /\ UNCHANGED <<Phase, dir, pgctl, kind, cluster, broken>>
    BY <1>17, <1>a, PhaseStep DEF Reap
  <2>2. PICK state \in {"none", "ending", "killed", "zombie", "ended"} : Proc(h, state) /\ UNCHANGED pidfile
    BY <1>17, <1>a DEF Reap, TypeOK, Alive
  <2>3. \/ Serving' = Serving
        \/ Serving[dir[h]] = h /\ Serving' = [Serving EXCEPT ![dir[h]] = NoServer]
    BY <2>2, ServingStep
  <2> QED
    BY <2>1, <2>3 DEF ES!Next, ES!EndServer, ES!MayEnd, ES!vars
<1>18. ASSUME NEW h \in Handles, ReapTimesOut(h) PROVE [ES!Next]_ES!vars
  BY <1>18, <1>a, PhaseStep, ServingUnchanged DEF ReapTimesOut, ES!vars
<1>19. ASSUME NEW h \in Handles, Kill(h) PROVE [ES!Next]_ES!vars
  <2>1. /\ Phase[h] = "stopping"
        /\ UNCHANGED <<Phase, dir, pgctl, kind, cluster, broken>>
    BY <1>19, <1>a, PhaseStep DEF Kill
  <2>2. PICK state \in {"none", "ending", "killed", "zombie", "ended"} : Proc(h, state) /\ UNCHANGED pidfile
    BY <1>19, <1>a DEF Kill, TypeOK, Alive
  <2>3. \/ Serving' = Serving
        \/ Serving[dir[h]] = h /\ Serving' = [Serving EXCEPT ![dir[h]] = NoServer]
    BY <2>2, ServingStep
  <2> QED
    BY <2>1, <2>3 DEF ES!Next, ES!EndServer, ES!MayEnd, ES!vars
<1>20. ASSUME NEW h \in Handles, Collect(h) PROVE [ES!Next]_ES!vars
  <2>1. /\ Phase[h] = "stopping"
        /\ UNCHANGED <<Phase, dir, pgctl, kind, cluster, broken>>
    BY <1>20, <1>a, PhaseStep DEF Collect
  <2>2. PICK state \in {"none", "ending", "killed", "zombie", "ended"} : Proc(h, state) /\ UNCHANGED pidfile
    BY <1>20, <1>a DEF Collect, TypeOK, Alive
  <2>3. \/ Serving' = Serving
        \/ Serving[dir[h]] = h /\ Serving' = [Serving EXCEPT ![dir[h]] = NoServer]
    BY <2>2, ServingStep
  <2> QED
    BY <2>1, <2>3 DEF ES!Next, ES!EndServer, ES!MayEnd, ES!vars
<1>21. ASSUME NEW h \in Handles, Remove(h) PROVE [ES!Next]_ES!vars
  <2>1. Goto(h, "remove", "gone") /\ UNCHANGED <<dir, kind, proc, broken>>
    BY <1>21 DEF Remove
  <2>2. CASE kind[h] = "auto"
    <3>1. \A d \in Dirs : /\ Answers(d)' <=> Answers(d) /\ d # dir[h]
                          /\ d # dir[h] => pidfile'[d] = pidfile[d]
      BY <1>21, <2>2, <1>a, LifecycleAssumption DEF Remove, Answers, TypeOK
    <3>2. Serving' = [Serving EXCEPT ![dir[h]] = NoServer]
      BY <3>1
    <3>3. ES!Finish(h)
      BY <1>21, <2>1, <2>2, <3>2, <1>a, PhaseStep DEF Remove, ES!Finish, ES!Turn
    <3> QED
      BY <3>3 DEF ES!Next
  <2>3. CASE kind[h] # "auto"
    <3>1. ES!Finish(h)
      BY <1>21, <2>1, <2>3, <1>a, PhaseStep, ServingUnchanged DEF Remove, ES!Finish, ES!Turn
    <3> QED
      BY <3>1 DEF ES!Next
  <2> QED
    BY <2>2, <2>3
<1>22. ASSUME NEW h \in Handles, Crash(h) PROVE [ES!Next]_ES!vars
  <2>1. PICK p \in Held \cup Calling : Goto(h, p, "lost")
    BY <1>22 DEF Crash
  <2>2. /\ Phase[h] \in {"starting", "up", "attached", "stopping"}
        /\ Phase' = [Phase EXCEPT ![h] = "lost"]
        /\ pc[h] = "make" => Phase[h] = "starting"
    <3>1. p = pc[h] /\ Phase[h] = PhaseOf(p)
          /\ Phase' = [Phase EXCEPT ![h] = PhaseOf("lost")]
      BY <2>1, <1>a, PhaseStep DEF Goto
    <3> QED
      BY <3>1, <2>1 DEF Held, Calling
  <2>3. Serving' = Serving
    <3>1. CASE proc[h] = "zombie"
      BY <1>22, <3>1, ServingSame DEF Crash, Proc
    <3>2. CASE proc[h] # "zombie"
      <4>1. UNCHANGED <<proc, pidfile>>
        BY <1>22, <3>2, <1>a DEF Crash, TypeOK
      <4> QED
        BY <4>1, ServingUnchanged
    <3> QED
      BY <3>1, <3>2
  <2>4. ES!Crash(h)
    BY <1>22, <2>2, <2>3 DEF Crash, ES!Crash, ES!Turn
  <2> QED
    BY <2>4 DEF ES!Next
<1>23. ASSUME NEW h \in Handles, LockDir(h) PROVE [ES!Next]_ES!vars
  <2>1. PICK state \in {"booting", "ended", "zombie"} : Proc(h, state)
    BY <1>23 DEF LockDir, AtEnd
  <2>2. Serving' = Serving
    BY <1>23, <2>1, <1>a, ServingSame DEF LockDir, Exists, Answers, TypeOK, Alive
  <2>3. UNCHANGED Phase
    BY <1>23 DEF LockDir, host, Phase
  <2> QED
    BY <1>23, <2>2, <2>3 DEF LockDir, host, ES!vars
<1>24. ASSUME NEW h \in Handles, Listen(h) PROVE [ES!Next]_ES!vars
  <2>1. dir[h] \in cluster /\ dir[h] \in Dirs /\ h \in Starters
    BY <1>24, <1>a, LifecycleAssumption DEF Listen, TypeOK, HandleInv, PidInv, Opened
  <2>2. UNCHANGED Phase
    BY <1>24 DEF Listen, host, Phase
  <2>3. \A d \in Dirs : Answers(d)' <=> Answers(d) \/ d = dir[h]
    BY <1>24, <2>1, <1>a, LifecycleAssumption DEF Listen, host, Proc, Answers, TypeOK, PidInv
  <2>4. Serving[dir[h]] = NoServer /\ Serving' = [Serving EXCEPT ![dir[h]] = h]
    BY <1>24, <2>1, <2>3 DEF Listen, Answers
  <2>5. ES!Serve(h)
    BY <1>24, <2>1, <2>2, <2>4 DEF Listen, host, ES!Serve
  <2> QED
    BY <2>5 DEF ES!Next
<1>25. ASSUME NEW h \in Handles, ShutdownCompletes(h) PROVE [ES!Next]_ES!vars
  <2>1. PICK state \in {"ended", "zombie"} : Proc(h, state)
    BY <1>25 DEF ShutdownCompletes, AtEnd
  <2>2. Serving' = Serving
    BY <1>25, <2>1, <1>a, ServingSame DEF ShutdownCompletes, Forget, Answers, TypeOK
  <2>3. UNCHANGED Phase
    BY <1>25 DEF ShutdownCompletes, host, Phase
  <2> QED
    BY <1>25, <2>2, <2>3 DEF ShutdownCompletes, host, ES!vars
<1>26. ASSUME NEW h \in Handles, ServerFails(h) PROVE [ES!Next]_ES!vars
  <2>1. PICK state \in {"ended", "zombie"} : Proc(h, state)
    BY <1>26 DEF ServerFails, AtEnd
  <2>2. UNCHANGED Phase
    BY <1>26 DEF ServerFails, host, Phase
  <2>3. CASE proc[h] = "serving" /\ pidfile[dir[h]] = h
    <3>1. dir[h] \in Dirs /\ Serving[dir[h]] # NoServer
      BY <1>26, <2>3, <1>a, LifecycleAssumption DEF ServerFails, Answers, TypeOK, HandleInv
    <3>2. \A d \in Dirs : /\ Answers(d)' <=> Answers(d) /\ d # dir[h]
                          /\ Answers(d)' => pidfile'[d] = pidfile[d]
      BY <1>26, <2>1, <2>3, <1>a, LifecycleAssumption
         DEF ServerFails, Forget, Proc, Answers, TypeOK, PidInv
    <3>3. Serving' = [Serving EXCEPT ![dir[h]] = NoServer]
      BY <3>2
    <3>4. PICK d \in Dirs : d = dir[h]
      BY <3>1
    <3>5. ES!Fail(d)
      BY <1>26, <2>2, <2>3, <3>1, <3>3, <3>4 DEF ServerFails, host, ES!Fail
    <3> QED
      BY <3>5 DEF ES!Next
  <2>4. CASE ~ (proc[h] = "serving" /\ pidfile[dir[h]] = h)
    <3>1. \A d \in Dirs : /\ Answers(d)' <=> Answers(d)
                          /\ Answers(d)' => pidfile'[d] = pidfile[d]
      BY <1>26, <2>1, <2>4, <1>a, LifecycleAssumption
         DEF ServerFails, Forget, Proc, Answers, TypeOK, PidInv
    <3> QED
      BY <1>26, <2>2, <2>4, <3>1 DEF ServerFails, host, ES!vars
  <2> QED
    BY <2>3, <2>4
<1>27. ASSUME NEW h \in Handles, Dies(h) PROVE [ES!Next]_ES!vars
  <2>1. PICK state \in {"ended", "zombie"} : Proc(h, state)
    BY <1>27 DEF Dies, AtEnd
  <2>2. Serving' = Serving
    BY <1>27, <2>1, <1>a, ServingSame DEF Dies
  <2>3. UNCHANGED Phase
    BY <1>27 DEF Dies, host, Phase
  <2> QED
    BY <1>27, <2>2, <2>3 DEF Dies, host, ES!vars
<1>28. CASE UNCHANGED vars
  BY <1>28, ServingUnchanged DEF vars, Phase, ES!vars
<1> QED
  BY <1>1, <1>2, <1>3, <1>4, <1>5, <1>6, <1>7, <1>8, <1>9, <1>10, <1>11, <1>12,
     <1>13, <1>14, <1>15, <1>16, <1>17, <1>18, <1>19, <1>20, <1>21, <1>22, <1>23,
     <1>24, <1>25, <1>26, <1>27, <1>28
     DEF Next, Start, Shutdown, Server

\* Every step that EmbeddedServer allows spares the server of an instance in use.
LEMMA ServedStep ==
    ASSUME IInv, [ES!Next]_ES!vars
    PROVE  [ES!KeepsServer]_ES!vars
<1> USE DEF ES!KeepsServer, ES!Turn
<1>a. /\ Phase = [h \in Handles |-> Phase[h]] /\ dir = [h \in Handles |-> dir[h]]
      /\ Serving = [d \in Dirs |-> Serving[d]]
      /\ \A h \in Handles : Phase[h] = "up" => dir[h] \in Dirs
      /\ \A d \in broken : d \in Dirs /\ Serving[d] = NoServer
  BY DEF IInv, TypeOK, BrokenInv, Phase, PhaseOf, Serving, Starting, Stopping
<1>b. SUFFICES ASSUME ES!Next PROVE ES!KeepsServer
  OBVIOUS
<1> USE DEF Starters, Owner, Serving
<1>1. ASSUME NEW h \in Handles, NEW d \in Dirs, ES!OpenFresh(h, d) PROVE ES!KeepsServer
  BY <1>1, <1>a DEF ES!OpenFresh
<1>2. ASSUME NEW h \in Handles, NEW d \in Dirs, ES!OpenGiven(h, d) PROVE ES!KeepsServer
  BY <1>2, <1>a DEF ES!OpenGiven
<1>3. ASSUME NEW h \in Handles, NEW d \in Dirs, ES!Attach(h, d) PROVE ES!KeepsServer
  BY <1>3, <1>a DEF ES!Attach
<1>4. ASSUME NEW h \in Handles, ES!Create(h) PROVE ES!KeepsServer
  BY <1>4, <1>a DEF ES!Create
<1>5. ASSUME NEW h \in Handles, ES!Serve(h) PROVE ES!KeepsServer
  BY <1>5, <1>a DEF ES!Serve
<1>6. ASSUME NEW h \in Handles, ES!Ready(h) PROVE ES!KeepsServer
  BY <1>6, <1>a DEF ES!Ready
<1>7. ASSUME NEW h \in Handles, ES!GiveUp(h) PROVE ES!KeepsServer
  BY <1>7, <1>a DEF ES!GiveUp
<1>8. ASSUME NEW h \in Handles, ES!Close(h) PROVE ES!KeepsServer
  BY <1>8, <1>a DEF ES!Close
<1>9. ASSUME NEW h \in Handles, ES!EndServer(h) PROVE ES!KeepsServer
  BY <1>9, <1>a DEF ES!EndServer
<1>10. ASSUME NEW h \in Handles, ES!Finish(h) PROVE ES!KeepsServer
  BY <1>10, <1>a DEF ES!Finish
<1>11. ASSUME NEW h \in Handles, ES!Crash(h) PROVE ES!KeepsServer
  BY <1>11, <1>a DEF ES!Crash
<1>12. ASSUME NEW d \in Dirs, ES!Fail(d) PROVE ES!KeepsServer
  BY <1>12, <1>a DEF ES!Fail
<1> QED
  BY <1>b, <1>1, <1>2, <1>3, <1>4, <1>5, <1>6, <1>7, <1>8, <1>9, <1>10, <1>11,
     <1>12 DEF ES!Next

\* An instance that rpgl_start() handed out loses its server only to the server's
\* own failure and to a stop in progress, on its directory, of the handle that
\* started the server, of an owner or of one with a pg_ctl (pg_shim.c:660-719).
THEOREM ServedUntilStopped == Spec => UpServed
<1>1. Init => IInv
  BY InitStep
<1>2. IInv /\ [Next]_vars => IInv'
  BY StepKeepsIInv
<1>3. IInv /\ IInv' /\ [Next]_vars => [ES!KeepsServer]_ES!vars
  BY StepRefines, ServedStep
<1> QED
  BY <1>1, <1>2, <1>3, PTL DEF Spec, UpServed, ES!UpServed

\* Lifecycle implements EmbeddedServer (rpgl_start(), rpgl_stop() and
\* rpgl_connect_existing(), pg_shim.c:467-782).
THEOREM Refinement == Spec => Implements
<1>1. Init => IInv /\ ES!Init
  BY InitStep, InitRefines
<1>2. IInv /\ [Next]_vars => IInv'
  BY StepKeepsIInv
<1>3. IInv /\ IInv' /\ [Next]_vars => [ES!Next]_ES!vars
  BY StepRefines
<1> QED
  BY <1>1, <1>2, <1>3, PTL DEF Spec, Implements, ES!Spec

=============================================================================
