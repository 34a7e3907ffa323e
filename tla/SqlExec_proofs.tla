--------------------------- MODULE SqlExec_proofs ---------------------------
(***************************************************************************)
(* Machine-checked theorems about SqlExec, for any number of threads and   *)
(* of function pointers.  An installed libpq either has every symbol, then *)
(* no load ever fails and the pointers only ever get set (FullInv), or     *)
(* lacks one, then every load fails and takes the handle back (LackInv).   *)
(***************************************************************************)
EXTENDS SqlExec, TLAPS

Inside == {"symbol", "verify", "close", "clear"}

FullInv ==
    symbols = Pointers =>
        /\ handle => opens > 0
        /\ \A t \in Threads : pc[t] \notin {"close", "clear"}
        /\ \A t \in Threads : pc[t] \in Inside \cup {"connect", "discard", "execute"} => handle
        /\ \A t \in Threads : pc[t] = "symbol" => \A k \in 1..(next[t] - 1) : ptr[k]
        /\ \A t \in Threads : pc[t] = "verify" => \A k \in Pointers : ptr[k]
        /\ handle =>
             \/ \A k \in Pointers : ptr[k]
             \/ \E t \in Threads : pc[t] \in Inside

LackInv ==
    symbols # Pointers =>
        /\ \E k \in Pointers : ~ ptr[k] /\ k \notin symbols
        /\ handle => \E t \in Threads : pc[t] \in Inside

\* A call has no result before it returns, and runs its statement once on each
\* of its two ways.
CallInv ==
    \A t \in Threads :
        /\ pc[t] # "idle" => ret[t] = "none"
        /\ pc[t] \notin {"idle", "fallback"} => effects[t] = 0
        /\ pc[t] = "fallback" => effects[t] <= 1
        /\ pc[t] = "fallback" /\ kind[t] = "file" => "psql" \in tools

IInv == TypeOK /\ FullInv /\ LackInv /\ CallInv /\ OkMeansDone

----------------------------------------------------------------------------
LEMMA InitStep == Init => IInv
<1> SUFFICES ASSUME Init PROVE IInv
  OBVIOUS
<1> USE SqlExecAssumption DEF Init, Pointers
<1>1. TypeOK
  <2>1. 1 \in Pointers /\ 0 \in 0..MaxOpens /\ 0 \in 0..2
    OBVIOUS
  <2>2. ptr \in [Pointers -> BOOLEAN] /\ whole \in [Threads -> BOOLEAN]
    BY Zenon
  <2> QED
    BY <2>1, <2>2 DEF TypeOK, PCs, Loading
<1>2. FullInv /\ LackInv
  <2>1. ~ handle /\ \A t \in Threads : pc[t] = "idle"
    OBVIOUS
  <2>2. symbols # Pointers => \E k \in Pointers : ~ ptr[k] /\ k \notin symbols
    OBVIOUS
  <2> QED
    BY <2>1, <2>2 DEF FullInv, LackInv, Inside
<1>3. CallInv /\ OkMeansDone
  BY DEF CallInv, OkMeansDone
<1> QED
  BY <1>1, <1>2, <1>3 DEF IInv

\* An update keeps the type of a Boolean-valued function.
LEMMA UpdateBoolean ==
    ASSUME NEW S, NEW f \in [S -> BOOLEAN], NEW x \in S, NEW b \in BOOLEAN
    PROVE  [f EXCEPT ![x] = b] \in [S -> BOOLEAN]
  BY Zenon

\* Where a call goes when libpq fails it.
LEMMA FailsShape ==
    ASSUME TypeOK, NEW t \in Threads, ViaLibpqFails(t)
    PROVE  /\ \E p \in {"idle", "fallback"} : pc' = [pc EXCEPT ![t] = p]
           /\ pc' \in [Threads -> PCs]
           /\ ret' \in [Threads -> {"none", "ok", "error"}]
  BY DEF TypeOK, PCs, ViaLibpqFails, Goto, Return

\* Every step keeps the invariant: first the steps of load_libpq() ...
LEMMA LoadStep ==
    ASSUME IInv, NEW t \in Threads, Load(t)
    PROVE  IInv'
<1> USE SqlExecAssumption DEF IInv, TypeOK, PCs, Loading, Pointers, At, Goto,
       Return, ViaLibpqFails, Program, lib, call, history, Inside
<1>1. CASE CheckHandle(t)
  <2> USE <1>1 DEF CheckHandle
  <2>1. TypeOK'
    OBVIOUS
  <2>2. FullInv'
    BY DEF FullInv
  <2>3. LackInv'
    BY DEF LackInv
  <2>4. CallInv' /\ OkMeansDone'
    BY DEF CallInv, OkMeansDone
  <2> QED
    BY <2>1, <2>2, <2>3, <2>4
<1>2. CASE Open(t)
  <2> USE <1>2 DEF Open
  <2>1. TypeOK'
    <3>1. pc' \in [Threads -> PCs] /\ ret' \in [Threads -> {"none", "ok", "error"}]
      BY FailsShape
    <3>2. handle' \in BOOLEAN
      BY Zenon
    <3>3. opens' \in 0..MaxOpens /\ next' \in [Threads -> Pointers]
      <4>1. CASE symbols = {}
        BY <4>1
      <4>2. CASE symbols # {}
        <5>1. opens' = opens + 1 /\ next' = [next EXCEPT ![t] = 1]
          BY <4>2
        <5> QED
          BY <5>1
      <4> QED
        BY <4>1, <4>2
    <3> QED
      BY <3>1, <3>2, <3>3
  <2>2. FullInv'
    <3> SUFFICES ASSUME symbols = Pointers PROVE FullInv'
      BY DEF FullInv
    <3>1. symbols # {}
      OBVIOUS
    <3>2. /\ pc' = [pc EXCEPT ![t] = "symbol"] /\ next' = [next EXCEPT ![t] = 1]
          /\ handle' = TRUE /\ opens' = opens + 1 /\ UNCHANGED <<symbols, ptr>>
      BY <3>1
    <3> QED
      BY <3>2 DEF FullInv
  <2>3. LackInv'
    <3>1. CASE symbols = {}
      BY <3>1 DEF LackInv
    <3>2. CASE symbols # {}
      <4>1. /\ pc' = [pc EXCEPT ![t] = "symbol"]
            /\ handle' = TRUE /\ opens' = opens + 1 /\ UNCHANGED <<symbols, ptr>>
        BY <3>2
      <4> QED
        BY <4>1 DEF LackInv
    <3> QED
      BY <3>1, <3>2
  <2>4. CallInv' /\ OkMeansDone'
    BY DEF CallInv, OkMeansDone
  <2> QED
    BY <2>1, <2>2, <2>3, <2>4
<1>3. CASE LoadSymbol(t)
  <2> USE <1>3 DEF LoadSymbol
  <2>1. TypeOK'
    <3>1. ptr' \in [Pointers -> BOOLEAN]
      BY UpdateBoolean
    <3>2. pc' \in [Threads -> PCs] /\ next' \in [Threads -> Pointers]
      <4>1. CASE next[t] < N
        <5>1. pc' = pc /\ next' = [next EXCEPT ![t] = next[t] + 1]
          BY <4>1
        <5>2. next[t] + 1 \in Pointers
          BY <4>1
        <5> QED
          BY <5>1, <5>2
      <4>2. CASE ~ (next[t] < N)
        BY <4>2
      <4> QED
        BY <4>1, <4>2
    <3> QED
      BY <3>1, <3>2
  <2>2. FullInv'
    <3> SUFFICES ASSUME symbols = Pointers PROVE FullInv'
      BY DEF FullInv
    <3>0. handle /\ next[t] \in symbols
      BY DEF FullInv
    <3>1. ptr' = [ptr EXCEPT ![next[t]] = TRUE]
      <4>1. (handle /\ next[t] \in symbols) = TRUE
        BY <3>0, Zenon
      <4> QED
        BY <4>1
    <3>2. \A k \in Pointers : ptr[k] \/ k = next[t] => ptr'[k]
      BY <3>1
    <3>3. \A k \in 1..next[t] : ptr'[k]
      BY <3>2 DEF FullInv
    <3>4. /\ \A u \in Threads : pc'[u] \notin {"close", "clear"}
          /\ \E u \in Threads : pc'[u] \in Inside
          /\ handle'
      BY <3>0 DEF FullInv
    <3>5. ASSUME NEW u \in Threads, pc'[u] = "symbol"
          PROVE  \A k \in 1..(next'[u] - 1) : ptr'[k]
      <4>1. CASE u = t
        <5>1. next'[t] = next[t] + 1 /\ next[t] \in Pointers
          BY <3>5, <4>1
        <5> QED
          BY <3>3, <4>1, <5>1
      <4>2. CASE u # t
        <5>1. next'[u] = next[u] /\ pc[u] = "symbol"
          BY <3>5, <4>2
        <5>2. \A k \in 1..(next[u] - 1) : ptr[k] /\ k \in Pointers
          BY <5>1 DEF FullInv
        <5> QED
          BY <3>2, <5>1, <5>2
      <4> QED
        BY <4>1, <4>2
    <3>6. ASSUME NEW u \in Threads, pc'[u] = "verify"
          PROVE  \A k \in Pointers : ptr'[k]
      BY <3>2, <3>3, <3>6 DEF FullInv
    <3>7. handle' => opens' > 0
      BY DEF FullInv
    <3> QED
      BY <3>4, <3>5, <3>6, <3>7 DEF FullInv
  <2>3. LackInv'
    BY DEF LackInv
  <2>4. CallInv' /\ OkMeansDone'
    BY DEF CallInv, OkMeansDone
  <2> QED
    BY <2>1, <2>2, <2>3, <2>4
<1>4. CASE Verify(t)
  <2> USE <1>4 DEF Verify
  <2>1. TypeOK'
    OBVIOUS
  <2>2. FullInv'
    BY DEF FullInv
  <2>3. LackInv'
    BY DEF LackInv
  <2>4. CallInv' /\ OkMeansDone'
    BY DEF CallInv, OkMeansDone
  <2> QED
    BY <2>1, <2>2, <2>3, <2>4
<1>5. CASE Close(t)
  <2> USE <1>5 DEF Close
  <2>1. TypeOK'
    <3>1. opens' \in 0..MaxOpens
      OBVIOUS
    <3> QED
      BY <3>1
  <2>2. FullInv'
    BY DEF FullInv
  <2>3. LackInv'
    BY DEF LackInv
  <2>4. CallInv' /\ OkMeansDone'
    BY DEF CallInv, OkMeansDone
  <2> QED
    BY <2>1, <2>2, <2>3, <2>4
<1>6. CASE Clear(t)
  <2> USE <1>6 DEF Clear
  <2>1. TypeOK'
    <3>1. pc' \in [Threads -> PCs] /\ ret' \in [Threads -> {"none", "ok", "error"}]
      BY FailsShape
    <3> QED
      BY <3>1
  <2>2. FullInv'
    BY DEF FullInv
  <2>3. LackInv'
    BY DEF LackInv
  <2>4. CallInv' /\ OkMeansDone'
    BY DEF CallInv, OkMeansDone
  <2> QED
    BY <2>1, <2>2, <2>3, <2>4
<1> QED
  BY <1>1, <1>2, <1>3, <1>4, <1>5, <1>6 DEF Load

\* ... then those that leave the handle and the pointers alone.
LEMMA RunStep ==
    ASSUME IInv, NEW t \in Threads,
           Call(t) \/ Connect(t) \/ Discard(t) \/ Execute(t) \/ RunProgram(t) \/ Crash(t)
    PROVE  IInv'
<1> USE SqlExecAssumption DEF IInv, TypeOK, PCs, Loading, Pointers, At, Goto,
       Return, ViaLibpqFails, Program, lib, call, history, Inside,
       Done, Refused, Cut, Effect
<1>1. CASE Call(t)
  <2> USE <1>1 DEF Call
  <2>1. TypeOK'
    OBVIOUS
  <2>2. FullInv' /\ LackInv'
    BY DEF FullInv, LackInv
  <2>3. CallInv'
    BY DEF CallInv
  <2>4. OkMeansDone'
    BY DEF OkMeansDone
  <2> QED
    BY <2>1, <2>2, <2>3, <2>4
<1>2. CASE Connect(t)
  <2> USE <1>2 DEF Connect
  <2>1. TypeOK'
    <3>1. pc' \in [Threads -> PCs] /\ ret' \in [Threads -> {"none", "ok", "error"}]
      <4>1. CASE \E point \in {"execute", "discard"} : Goto(t, point) /\ UNCHANGED ret
        BY <4>1
      <4>2. CASE ViaLibpqFails(t)
        BY <4>2, FailsShape
      <4> QED
        BY <4>1, <4>2
    <3> QED
      BY <3>1
  <2>2. FullInv' /\ LackInv'
    <3>1. /\ \E p \in {"execute", "discard", "idle", "fallback"} : pc' = [pc EXCEPT ![t] = p]
          /\ UNCHANGED <<symbols, handle, ptr, opens, next>>
      BY FailsShape
    <3> QED
      BY <3>1 DEF FullInv, LackInv
  <2>3. CallInv'
    BY DEF CallInv
  <2>4. OkMeansDone'
    BY DEF OkMeansDone
  <2> QED
    BY <2>1, <2>2, <2>3, <2>4
<1>3. CASE Execute(t)
  <2> USE <1>3 DEF Execute
  <2>1. TypeOK'
    <3>1. pc' \in [Threads -> PCs] /\ ret' \in [Threads -> {"none", "ok", "error"}]
      BY FailsShape
    <3>2. effects' \in [Threads -> 0..2]
      <4>1. effects[t] + 1 \in 0..2
        BY DEF CallInv
      <4>2. effects' = effects \/ effects' = [effects EXCEPT ![t] = @ + 1]
        BY Zenon
      <4> QED
        BY <4>1, <4>2
    <3>3. whole' \in [Threads -> BOOLEAN]
      BY Zenon
    <3> QED
      BY <3>1, <3>2, <3>3
  <2>2. FullInv' /\ LackInv'
    <3>1. /\ \E p \in {"idle", "fallback"} : pc' = [pc EXCEPT ![t] = p]
          /\ UNCHANGED <<symbols, handle, ptr, opens, next>>
      BY FailsShape
    <3> QED
      BY <3>1 DEF FullInv, LackInv
  <2>3. CallInv'
    BY DEF CallInv
  <2>4. OkMeansDone'
    BY DEF OkMeansDone
  <2> QED
    BY <2>1, <2>2, <2>3, <2>4
<1>4. CASE RunProgram(t)
  <2> USE <1>4 DEF RunProgram
  <2>1. TypeOK'
    <3>1. pc' \in [Threads -> PCs] /\ ret' \in [Threads -> {"none", "ok", "error"}]
      OBVIOUS
    <3>2. effects' \in [Threads -> 0..2]
      <4>1. effects[t] + 1 \in 0..2
        <5>1. effects[t] \in 0..2 /\ effects[t] <= 1
          BY DEF CallInv
        <5> QED
          BY <5>1
      <4>2. effects' = effects \/ effects' = [effects EXCEPT ![t] = @ + 1]
        BY Zenon
      <4> QED
        BY <4>1, <4>2
    <3>3. whole' \in [Threads -> BOOLEAN]
      BY Zenon
    <3> QED
      BY <3>1, <3>2, <3>3
  <2>2. FullInv' /\ LackInv'
    <3>1. /\ pc' = [pc EXCEPT ![t] = "idle"]
          /\ UNCHANGED <<symbols, handle, ptr, opens, next>>
      OBVIOUS
    <3> QED
      BY <3>1 DEF FullInv, LackInv
  <2>3. CallInv'
    BY DEF CallInv
  <2>4. OkMeansDone'
    BY DEF OkMeansDone, CallInv
  <2> QED
    BY <2>1, <2>2, <2>3, <2>4
<1>5. CASE Crash(t)
  BY <1>5 DEF Crash, FullInv, LackInv, CallInv, OkMeansDone
<1>6. CASE Discard(t)
  <2> USE <1>6 DEF Discard
  <2>1. TypeOK'
    <3>1. pc' \in [Threads -> PCs] /\ ret' \in [Threads -> {"none", "ok", "error"}]
      BY FailsShape
    <3> QED
      BY <3>1
  <2>2. FullInv' /\ LackInv'
    <3>1. /\ \E p \in {"idle", "fallback"} : pc' = [pc EXCEPT ![t] = p]
          /\ UNCHANGED <<symbols, handle, ptr, opens, next>>
      BY FailsShape
    <3> QED
      BY <3>1 DEF FullInv, LackInv
  <2>3. CallInv' /\ OkMeansDone'
    BY DEF CallInv, OkMeansDone
  <2> QED
    BY <2>1, <2>2, <2>3
<1> QED
  BY <1>1, <1>2, <1>3, <1>4, <1>5, <1>6

LEMMA IInvHolds == Spec => []IInv
<1>1. IInv /\ [Next]_vars => IInv'
  <2> SUFFICES ASSUME IInv, [Next]_vars PROVE IInv'
    OBVIOUS
  <2>1. CASE UNCHANGED vars
    BY <2>1 DEF vars, IInv, TypeOK, FullInv, LackInv, CallInv, OkMeansDone,
       Inside
  <2> QED
    BY <2>1, LoadStep, RunStep DEF Next, ViaLibpq
<1> QED
  BY <1>1, InitStep, PTL DEF Spec

\* Every variable keeps its type.
THEOREM TypeCorrect == Spec => []TypeOK
<1>1. IInv => TypeOK
  BY DEF IInv
<1> QED
  BY <1>1, IInvHolds, PTL

\* Outside a load, an open libpq_handle means that every pointer can be called
\* (load_libpq(), pg_shim.c:829, 869-874).
THEOREM HandleTrusted == Spec => []OpenMeansLoaded
<1>1. IInv => OpenMeansLoaded
  BY DEF IInv, FullInv, LackInv, OpenMeansLoaded, Callable, Inside, Loading
<1> QED
  BY <1>1, IInvHolds, PTL

\* A complete libpq is never called through a bad pointer unless another thread
\* is inside load_libpq() (pg_shim.c:829-875).
THEOREM CrashNeedsRace == Spec => CrashIsRace
<1>1. IInv /\ [Next]_vars
        => [symbols = Pointers /\ crashed' /\ ~ crashed
              => \E t \in Threads : pc[t] \in Loading]_vars
  <2> SUFFICES ASSUME IInv, Next, symbols = Pointers, crashed', ~ crashed
               PROVE  \E t \in Threads : pc[t] \in Loading
    OBVIOUS
  <2>1. PICK t \in Threads : Crash(t)
    BY DEF Next, Call, ViaLibpq, Load, CheckHandle, Open, LoadSymbol, Verify, Close,
       Clear, Connect, Discard, Execute, RunProgram
  <2>2. handle /\ opens > 0
    BY <2>1 DEF Crash, At, IInv, FullInv
  <2>3. ~ \A k \in Pointers : ptr[k]
    BY <2>1, <2>2, SqlExecAssumption DEF Crash, Callable, Pointers
  <2> QED
    BY <2>2, <2>3 DEF IInv, FullInv, Inside, Loading
<1> QED
  BY <1>1, IInvHolds, PTL DEF Spec, CrashIsRace

\* In a process whose calls come from one thread no call of libpq is bad, whatever
\* the installed libpq lacks (load_libpq(), pg_shim.c:828-877).
THEOREM SingleThreadSafe ==
    ASSUME \A t, u \in Threads : t = u
    PROVE  Spec => [](~ crashed)
<1> DEFINE Safe ==
      /\ ~ crashed
      /\ symbols # Pointers => \A t \in Threads : pc[t] \notin {"connect", "discard", "execute"}
<1>1. Init => Safe
  BY DEF Init
<1>2. IInv /\ Safe /\ [Next]_vars => Safe'
  <2> SUFFICES ASSUME IInv, Safe, [Next]_vars PROVE Safe'
    OBVIOUS
  <2> USE DEF IInv, TypeOK, At, Goto, Return, ViaLibpqFails, call, lib, history
  <2>1. CASE UNCHANGED vars
    BY <2>1 DEF vars
  <2>2. ASSUME NEW t \in Threads, CheckHandle(t) PROVE Safe'
    <3>1. symbols # Pointers => ~ handle
      BY <2>2 DEF CheckHandle, LackInv, Inside
    <3> QED
      BY <2>2, <3>1 DEF CheckHandle
  <2>3. ASSUME NEW t \in Threads, Verify(t) PROVE Safe'
    BY <2>3 DEF Verify, LackInv
  <2>4. ASSUME NEW t \in Threads, Open(t) \/ LoadSymbol(t) \/ Close(t) \/ Clear(t)
        PROVE  Safe'
    BY <2>4 DEF Open, LoadSymbol, Close, Clear
  <2>5. ASSUME NEW t \in Threads, Connect(t) \/ Discard(t) \/ Execute(t) PROVE Safe'
    BY <2>5 DEF Connect, Discard, Execute
  <2>6. ASSUME NEW t \in Threads, Call(t) \/ RunProgram(t) PROVE Safe'
    BY <2>6 DEF Call, RunProgram
  <2>7. ASSUME NEW t \in Threads, Crash(t) PROVE FALSE
    <3>1. pc[t] \in {"connect", "discard", "execute"} /\ symbols = Pointers
      BY <2>7 DEF Crash
    <3>2. opens > 0 /\ \A k \in Pointers : ptr[k]
      BY <3>1 DEF FullInv, Inside
    <3> QED
      BY <2>7, <3>2, SqlExecAssumption DEF Crash, Callable, Pointers
  <2> QED
    BY <2>1, <2>2, <2>3, <2>4, <2>5, <2>6, <2>7 DEF Next, ViaLibpq, Load
<1>3. Safe => ~ crashed
  OBVIOUS
<1> QED
  BY <1>1, <1>2, <1>3, IInvHolds, PTL DEF Spec

\* In such a process libpq is "loaded once via dlopen" (pg_shim.c:810): a load that
\* succeeds is not repeated, one that fails is taken back.
LoadedOnce ==
    /\ opens <= 1
    /\ \A t \in Threads : pc[t] \notin Loading => (opens = 1 <=> handle)

THEOREM SingleThreadLoadsOnce ==
    ASSUME \A t, u \in Threads : t = u
    PROVE  Spec => []LoadedOnce
<1> DEFINE Once ==
      \A t \in Threads :
        /\ pc[t] = "open" => ~ handle
        /\ opens = IF handle /\ pc[t] # "clear" THEN 1 ELSE 0
<1>1. Init => Once /\ LoadedOnce
  BY DEF Init, LoadedOnce
<1>2. IInv /\ IInv' /\ Once /\ LoadedOnce /\ [Next]_vars => Once' /\ LoadedOnce'
  <2> SUFFICES ASSUME IInv, IInv', Once, LoadedOnce, [Next]_vars PROVE Once' /\ LoadedOnce'
    OBVIOUS
  <2> USE DEF IInv, TypeOK, At, Goto, Return, ViaLibpqFails, call, lib, history,
         LoadedOnce, Loading
  <2>1. CASE UNCHANGED vars
    BY <2>1 DEF vars
  <2>2. ASSUME NEW t \in Threads, Load(t) PROVE Once' /\ LoadedOnce'
    BY <2>2 DEF Load, CheckHandle, Open, LoadSymbol, Verify, Close, Clear
  <2>3. ASSUME NEW t \in Threads,
               Call(t) \/ Connect(t) \/ Discard(t) \/ Execute(t) \/ RunProgram(t) \/ Crash(t)
        PROVE  Once' /\ LoadedOnce'
    BY <2>3 DEF Call, Connect, Discard, Execute, RunProgram, Crash
  <2> QED
    BY <2>1, <2>2, <2>3 DEF Next, ViaLibpq
<1> QED
  BY <1>1, <1>2, IInvHolds, PTL DEF Spec

\* RPGL_OK means that the statement ran to its end (rpgl_exec_sql(),
\* rpgl_create_database(), pg_shim.c:912-974).
THEOREM OkTrusted == Spec => []OkMeansDone
<1>1. IInv => OkMeansDone
  BY DEF IInv
<1> QED
  BY <1>1, IInvHolds, PTL
=============================================================================
