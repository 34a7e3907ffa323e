------------------------ MODULE InstanceTable_proofs ------------------------
(***************************************************************************)
(* Machine-checked theorems about InstanceTable, for a process whose calls *)
(* come from one thread, any size of the table and any set of objects.     *)
(* The signal may still come between any two stores.  IInv describes the   *)
(* table at every such point: RunInv while the process runs, LoopInv while *)
(* the cleanup does.                                                       *)
(***************************************************************************)
EXTENDS InstanceTable, FiniteSetTheorems, TLAPS

OneThread == \A t, u \in Threads : t = u

\* The entries that count, one more while the last one is on its way.
Length == IF \E t \in Threads : pc[t] = "move" THEN count + 1 ELSE count
\* The instance being stopped is in the table until its slot is overwritten.
Leaving == {arg[t] : t \in {u \in Threads : pc[u] \in {"find", "dec", "move"}}}
Hole(k) == \E t \in Threads : pc[t] = "store" /\ k = idx[t]

\* The entries are the tracked instances and the one that leaves, ...
Entered ==
    \A k \in 0..(Length - 1) : ~ Hole(k) =>
        /\ slots[k] \in Tracked \cup Leaving
        /\ slots[k] \in Insts
        /\ state[slots[k]] = "up"
\* ... each once, ...
Distinct == \A k, l \in 0..(Length - 1) : slots[k] = slots[l] => k = l
\* ... none is missing, ...
Complete == \A x \in Tracked : \E k \in 0..(Length - 1) : slots[k] = x
\* ... and behind them the table is empty.
Cleared ==
    \A k \in Length..(Max - 1) :
        slots[k] # Null => k = count /\ \E t \in Threads : pc[t] = "clear"

SlotInv == Length <= Max /\ Entered /\ Distinct /\ Complete /\ Cleared

CallInv ==
    \A t \in Threads :
        /\ pc[t] # "idle" => arg[t] \in Insts /\ arg[t] \notin held
        /\ pc[t] \in {"register", "check", "read", "bump", "store"} =>
              state[arg[t]] = "up" /\ arg[t] \notin dropped
        /\ pc[t] \in {"check", "read", "bump", "store"} => registered
        /\ pc[t] = "read" => count < Max
        /\ pc[t] = "bump" => idx[t] = count
        /\ pc[t] = "store" => count = idx[t] + 1 /\ slots[idx[t]] = Null
        /\ pc[t] \in {"dec", "move"} => idx[t] < Length /\ slots[idx[t]] = arg[t]
        /\ pc[t] = "clear" => count < Max
        /\ pc[t] \in {"find", "dec", "move", "clear", "shutdown"} =>
              state[arg[t]] \in {"up", "guest"}

RunInv ==
    phase = "run" =>
        /\ SlotInv /\ CallInv
        /\ seen = {} /\ handler = Null
        /\ \A x \in held : state[x] \in {"up", "guest"}
        /\ \A x \in dropped : state[x] # "new"

Remaining == {slots[k] : k \in i..(count - 1)}
Stopped == {x \in seen : state[x] # "up"}
Lost == (seen \ Stopped) \ Remaining

LoopInv ==
    phase = "loop" =>
        /\ handler \in Threads
        /\ \A k \in i..(count - 1) : slots[k] # Null =>
              slots[k] \in seen /\ state[slots[k]] = "up"
        /\ \A k, l \in i..(count - 1) : slots[k] = slots[l] /\ slots[k] # Null => k = l
        /\ \A k \in 0..(i - 1) : k < count => slots[k] = Null
        /\ Cardinality(Lost) <= Cardinality(Stopped)

IInv == TypeOK /\ RunInv /\ LoopInv /\ HalfStopped

----------------------------------------------------------------------------
\* With one thread the quantifiers of the definitions come down to it.
LEMMA OneThreadFacts ==
    ASSUME OneThread, NEW t \in Threads
    PROVE  /\ Length = IF pc[t] = "move" THEN count + 1 ELSE count
           /\ Length' = IF pc'[t] = "move" THEN count' + 1 ELSE count'
           /\ Leaving = IF pc[t] \in {"find", "dec", "move"} THEN {arg[t]} ELSE {}
           /\ Leaving' = IF pc'[t] \in {"find", "dec", "move"} THEN {arg'[t]} ELSE {}
           /\ \A k : Hole(k) <=> pc[t] = "store" /\ k = idx[t]
           /\ \A k : Hole(k)' <=> pc'[t] = "store" /\ k = idx'[t]
  BY DEF OneThread, Length, Leaving, Hole

\* A thread that runs is not the one the cleanup interrupted: there is no cleanup.
LEMMA RunningPhase ==
    ASSUME IInv, OneThread, NEW t \in Threads, NEW p, At(t, p)
    PROVE  phase = "run"
  BY DEF IInv, TypeOK, LoopInv, OneThread, At

\* First() of a singleton.
LEMMA FirstOfOne ==
    ASSUME NEW k \in Int
    PROVE  First({k}) = k
  BY DEF First

\* While the process runs every step keeps the table in shape.
LEMMA RunStep ==
    ASSUME IInv, OneThread, NEW t \in Threads,
           \/ \E x \in Insts : Boot(t, x) \/ ConnectExisting(t, x) \/ Stop(t, x)
           \/ Track(t) \/ Untrack(t) \/ Shutdown(t)
    PROVE  IInv'
<1> USE InstanceTableAssumption
   DEF IInv, TypeOK, RunInv, PCs, At, table, local, exit
<1>1. ASSUME NEW x \in Insts, Boot(t, x)
      PROVE TypeOK' /\ RunInv' /\ phase' = "run"
  <2>1. phase = "run" /\ phase' = "run"
    BY <1>1, RunningPhase DEF Boot
  <2>2. TypeOK'
    BY <1>1, <2>1 DEF Boot, Enter, Goto
  <2>3. CallInv'
    BY <1>1, <2>1, OneThreadFacts DEF Boot, Enter, Goto, OneThread, CallInv
  <2>4. /\ Length' = Length
        /\ Leaving' = IF pc'[t] = "find" THEN {x} ELSE {}
        /\ \A k : Hole(k)' <=> FALSE
    BY <1>1, <2>1, OneThreadFacts DEF Boot, Enter, Goto
  <2>5. Tracked' = Tracked
    BY <1>1, <2>1 DEF Boot, Enter, Goto, Tracked, CallInv
  <2>6. (Length <= Max)' /\ Entered'
    BY <1>1, <2>1, <2>4, <2>5, OneThreadFacts
       DEF Boot, Enter, Goto, SlotInv, CallInv, Entered, Tracked
  <2>7. Distinct'
    BY <1>1, <2>1, <2>4, OneThreadFacts
       DEF Boot, Enter, Goto, SlotInv, CallInv, Entered, Distinct, Cleared
  <2>8. Complete'
    BY <1>1, <2>1, <2>4, <2>5, OneThreadFacts
       DEF Boot, Enter, Goto, SlotInv, CallInv, Complete
  <2>9. Cleared'
    BY <1>1, <2>1, <2>4, OneThreadFacts
       DEF Boot, Enter, Goto, SlotInv, CallInv, Cleared, OneThread
  <2>10. /\ seen' = {} /\ handler' = Null
         /\ \A y \in held' : state'[y] \in {"up", "guest"}
         /\ \A y \in dropped' : state'[y] # "new"
    BY <1>1, <2>1 DEF Boot, Enter, Goto, CallInv
  <2> QED
    BY <2>1, <2>2, <2>3, <2>6, <2>7, <2>8, <2>9, <2>10 DEF SlotInv
<1>2. ASSUME NEW x \in Insts, ConnectExisting(t, x)
      PROVE TypeOK' /\ RunInv' /\ phase' = "run"
  <2>1. phase = "run" /\ phase' = "run"
    BY <1>2, RunningPhase DEF ConnectExisting
  <2>2. TypeOK'
    BY <1>2, <2>1 DEF ConnectExisting
  <2>3. CallInv'
    BY <1>2, <2>1, OneThreadFacts DEF ConnectExisting, OneThread, CallInv
  <2>4. /\ Length' = Length
        /\ Leaving' = Leaving
        /\ \A k : Hole(k)' <=> FALSE
    BY <1>2, <2>1, OneThreadFacts DEF ConnectExisting
  <2>5. Tracked' = Tracked
    BY <1>2, <2>1 DEF ConnectExisting, Tracked, CallInv
  <2>6. (Length <= Max)' /\ Entered'
    BY <1>2, <2>1, <2>4, <2>5, OneThreadFacts
       DEF ConnectExisting, SlotInv, CallInv, Entered, Tracked
  <2>7. Distinct'
    BY <1>2, <2>1, <2>4, OneThreadFacts
       DEF ConnectExisting, SlotInv, CallInv, Entered, Distinct, Cleared
  <2>8. Complete'
    BY <1>2, <2>1, <2>4, <2>5, OneThreadFacts
       DEF ConnectExisting, SlotInv, CallInv, Complete
  <2>9. Cleared'
    BY <1>2, <2>1, <2>4, OneThreadFacts
       DEF ConnectExisting, SlotInv, CallInv, Cleared, OneThread
  <2>10. /\ seen' = {} /\ handler' = Null
         /\ \A y \in held' : state'[y] \in {"up", "guest"}
         /\ \A y \in dropped' : state'[y] # "new"
    BY <1>2, <2>1 DEF ConnectExisting, CallInv
  <2> QED
    BY <2>1, <2>2, <2>3, <2>6, <2>7, <2>8, <2>9, <2>10 DEF SlotInv
<1>3. ASSUME NEW x \in Insts, Stop(t, x)
      PROVE TypeOK' /\ RunInv' /\ phase' = "run"
  <2>1. phase = "run" /\ phase' = "run"
    BY <1>3, RunningPhase DEF Stop
  <2>2. TypeOK'
    BY <1>3, <2>1 DEF Stop, Enter, Goto
  <2>3. CallInv'
    BY <1>3, <2>1, OneThreadFacts DEF Stop, Enter, Goto, OneThread, CallInv
  <2>4. /\ Length' = Length
        /\ Leaving' = {x}
        /\ \A k : Hole(k)' <=> FALSE
    BY <1>3, <2>1, OneThreadFacts DEF Stop, Enter, Goto
  <2>5. Tracked' = Tracked \ {x}
    BY <1>3, <2>1 DEF Stop, Enter, Goto, Tracked, CallInv
  <2>6. (Length <= Max)' /\ Entered'
    BY <1>3, <2>1, <2>4, <2>5, OneThreadFacts
       DEF Stop, Enter, Goto, SlotInv, CallInv, Entered, Tracked
  <2>7. Distinct'
    BY <1>3, <2>1, <2>4, OneThreadFacts
       DEF Stop, Enter, Goto, SlotInv, CallInv, Entered, Distinct, Cleared
  <2>8. Complete'
    BY <1>3, <2>1, <2>4, <2>5, OneThreadFacts
       DEF Stop, Enter, Goto, SlotInv, CallInv, Complete
  <2>9. Cleared'
    BY <1>3, <2>1, <2>4, OneThreadFacts
       DEF Stop, Enter, Goto, SlotInv, CallInv, Cleared, OneThread
  <2>10. /\ seen' = {} /\ handler' = Null
         /\ \A y \in held' : state'[y] \in {"up", "guest"}
         /\ \A y \in dropped' : state'[y] # "new"
    BY <1>3, <2>1 DEF Stop, Enter, Goto, CallInv
  <2> QED
    BY <2>1, <2>2, <2>3, <2>6, <2>7, <2>8, <2>9, <2>10 DEF SlotInv
<1>4. ASSUME Register(t) PROVE TypeOK' /\ RunInv' /\ phase' = "run"
  <2>1. phase = "run" /\ phase' = "run"
    BY <1>4, RunningPhase DEF Register
  <2>2. TypeOK'
    BY <1>4, <2>1 DEF Register, Goto
  <2>3. CallInv'
    BY <1>4, <2>1, OneThreadFacts DEF Register, Goto, OneThread, CallInv
  <2>4. /\ Length' = Length
        /\ Leaving' = Leaving
        /\ \A k : Hole(k)' <=> FALSE
    BY <1>4, <2>1, OneThreadFacts DEF Register, Goto
  <2>5. Tracked' = Tracked
    BY <1>4, <2>1 DEF Register, Goto, Tracked, CallInv
  <2>6. (Length <= Max)' /\ Entered'
    BY <1>4, <2>1, <2>4, <2>5, OneThreadFacts
       DEF Register, Goto, SlotInv, CallInv, Entered, Tracked
  <2>7. Distinct'
    BY <1>4, <2>1, <2>4, OneThreadFacts
       DEF Register, Goto, SlotInv, CallInv, Entered, Distinct, Cleared
  <2>8. Complete'
    BY <1>4, <2>1, <2>4, <2>5, OneThreadFacts
       DEF Register, Goto, SlotInv, CallInv, Complete
  <2>9. Cleared'
    BY <1>4, <2>1, <2>4, OneThreadFacts
       DEF Register, Goto, SlotInv, CallInv, Cleared, OneThread
  <2>10. /\ seen' = {} /\ handler' = Null
         /\ \A y \in held' : state'[y] \in {"up", "guest"}
         /\ \A y \in dropped' : state'[y] # "new"
    BY <1>4, <2>1 DEF Register, Goto, CallInv
  <2> QED
    BY <2>1, <2>2, <2>3, <2>6, <2>7, <2>8, <2>9, <2>10 DEF SlotInv
<1>5. ASSUME CheckRoom(t) PROVE TypeOK' /\ RunInv' /\ phase' = "run"
  <2>1. phase = "run" /\ phase' = "run"
    BY <1>5, RunningPhase DEF CheckRoom
  <2>11. arg[t] \in Insts
    BY <1>5, <2>1, OneThreadFacts DEF CheckRoom, CallInv
  <2>2. TypeOK'
    <3>1. CASE count < Max
      <4>1. /\ pc' = [pc EXCEPT ![t] = "read"]
            /\ UNCHANGED <<arg, idx, held, dropped, table, state, exit>>
        BY <1>5, <3>1 DEF CheckRoom, Goto
      <4> QED
        BY <2>1, <4>1
    <3>2. CASE ~ (count < Max)
      <4>1. /\ pc' = [pc EXCEPT ![t] = "idle"] /\ idx' = [idx EXCEPT ![t] = 0]
            /\ arg' = [arg EXCEPT ![t] = Null]
        BY <1>5, <3>2 DEF CheckRoom, Goto, Return
      <4>2. held' \subseteq Insts /\ dropped' \subseteq Insts
        BY <1>5, <2>11, <3>2 DEF CheckRoom
      <4>3. UNCHANGED <<table, state, exit>>
        BY <1>5 DEF CheckRoom
      <4> QED
        BY <2>1, <4>1, <4>2, <4>3
    <3> QED
      BY <3>1, <3>2
  <2>3. CallInv'
    BY <1>5, <2>1, OneThreadFacts
       DEF CheckRoom, Goto, Return, OneThread, CallInv
  <2>4. /\ Length' = Length
        /\ Leaving' = Leaving
        /\ \A k : Hole(k)' <=> FALSE
    <3>1. /\ pc[t] = "check" /\ pc'[t] \in {"read", "idle"} /\ count' = count
      BY <1>5 DEF CheckRoom, Goto, Return
    <3> QED
      BY <3>1, OneThreadFacts
  <2>5. Tracked' = Tracked
    BY <1>5, <2>1 DEF CheckRoom, Goto, Return, Tracked, CallInv
  <2>6. (Length <= Max)' /\ Entered'
    BY <1>5, <2>1, <2>4, <2>5, OneThreadFacts
       DEF CheckRoom, Goto, Return, SlotInv, CallInv, Entered, Tracked
  <2>7. Distinct'
    BY <1>5, <2>1, <2>4, OneThreadFacts
       DEF CheckRoom, Goto, Return, SlotInv, CallInv, Entered, Distinct, Cleared
  <2>8. Complete'
    BY <1>5, <2>1, <2>4, <2>5, OneThreadFacts
       DEF CheckRoom, Goto, Return, SlotInv, CallInv, Complete
  <2>9. Cleared'
    BY <1>5, <2>1, <2>4, OneThreadFacts
       DEF CheckRoom, Goto, Return, SlotInv, CallInv, Cleared, OneThread
  <2>10. /\ seen' = {} /\ handler' = Null
         /\ \A y \in held' : state'[y] \in {"up", "guest"}
         /\ \A y \in dropped' : state'[y] # "new"
    BY <1>5, <2>1 DEF CheckRoom, Goto, Return, CallInv
  <2> QED
    BY <2>1, <2>2, <2>3, <2>6, <2>7, <2>8, <2>9, <2>10 DEF SlotInv
<1>6. ASSUME ReadCount(t) PROVE TypeOK' /\ RunInv' /\ phase' = "run"
  <2>1. phase = "run" /\ phase' = "run"
    BY <1>6, RunningPhase DEF ReadCount
  <2>2. TypeOK'
    <3>1. count \in 0..(Max - 1)
      BY <1>6, <2>1 DEF ReadCount, CallInv
    <3>2. idx' = [idx EXCEPT ![t] = count] /\ pc' = [pc EXCEPT ![t] = "bump"]
      BY <1>6 DEF ReadCount, Goto
    <3> QED
      BY <1>6, <2>1, <3>1, <3>2 DEF ReadCount
  <2>3. CallInv'
    BY <1>6, <2>1, OneThreadFacts DEF ReadCount, Goto, OneThread, CallInv
  <2>4. /\ Length' = Length
        /\ Leaving' = Leaving
        /\ \A k : Hole(k)' <=> FALSE
    BY <1>6, <2>1, OneThreadFacts DEF ReadCount, Goto
  <2>5. Tracked' = Tracked
    BY <1>6, <2>1 DEF ReadCount, Goto, Tracked, CallInv
  <2>6. (Length <= Max)' /\ Entered'
    BY <1>6, <2>1, <2>4, <2>5, OneThreadFacts
       DEF ReadCount, Goto, SlotInv, CallInv, Entered, Tracked
  <2>7. Distinct'
    BY <1>6, <2>1, <2>4, OneThreadFacts
       DEF ReadCount, Goto, SlotInv, CallInv, Entered, Distinct, Cleared
  <2>8. Complete'
    BY <1>6, <2>1, <2>4, <2>5, OneThreadFacts
       DEF ReadCount, Goto, SlotInv, CallInv, Complete
  <2>9. Cleared'
    BY <1>6, <2>1, <2>4, OneThreadFacts
       DEF ReadCount, Goto, SlotInv, CallInv, Cleared, OneThread
  <2>10. /\ seen' = {} /\ handler' = Null
         /\ \A y \in held' : state'[y] \in {"up", "guest"}
         /\ \A y \in dropped' : state'[y] # "new"
    BY <1>6, <2>1 DEF ReadCount, Goto, CallInv
  <2> QED
    BY <2>1, <2>2, <2>3, <2>6, <2>7, <2>8, <2>9, <2>10 DEF SlotInv
<1>7. ASSUME BumpCount(t) PROVE TypeOK' /\ RunInv' /\ phase' = "run"
  <2>1. phase = "run" /\ phase' = "run"
    BY <1>7, RunningPhase DEF BumpCount
  <2>11. /\ idx[t] = count /\ arg[t] \notin held
         /\ Length = count /\ Leaving = {} /\ \A k : ~ Hole(k)
         /\ slots[count] = Null
    BY <1>7, <2>1, OneThreadFacts
       DEF BumpCount, CallInv, SlotInv, Cleared, OneThread
  <2>2. TypeOK'
    BY <1>7, <2>1, <2>11 DEF BumpCount, Goto
  <2>3. CallInv'
    BY <1>7, <2>1, <2>11, OneThreadFacts DEF BumpCount, Goto, OneThread, CallInv
  <2>4. /\ Length' = count + 1
        /\ Leaving' = {}
        /\ \A k : Hole(k)' <=> k = count
    BY <1>7, <2>1, <2>11, OneThreadFacts DEF BumpCount, Goto
  <2>5. Tracked' = Tracked
    BY <1>7, <2>1 DEF BumpCount, Goto, Tracked, CallInv
  <2>6. (Length <= Max)' /\ Entered'
    BY <1>7, <2>1, <2>2, <2>4, <2>5, <2>11
       DEF BumpCount, Goto, SlotInv, Entered, Tracked
  <2>7. Distinct'
    BY <1>7, <2>1, <2>4, <2>11 DEF BumpCount, Goto, SlotInv, Entered, Distinct,
       Cleared
  <2>8. Complete'
    BY <1>7, <2>1, <2>4, <2>5, <2>11 DEF BumpCount, Goto, SlotInv, Complete
  <2>9. Cleared'
    BY <1>7, <2>1, <2>4, OneThreadFacts
       DEF BumpCount, Goto, SlotInv, CallInv, Cleared, OneThread
  <2>10. /\ seen' = {} /\ handler' = Null
         /\ \A y \in held' : state'[y] \in {"up", "guest"}
         /\ \A y \in dropped' : state'[y] # "new"
    BY <1>7, <2>1 DEF BumpCount, Goto, CallInv
  <2> QED
    BY <2>1, <2>2, <2>3, <2>6, <2>7, <2>8, <2>9, <2>10 DEF SlotInv
<1>8. ASSUME StoreSlot(t) PROVE TypeOK' /\ RunInv' /\ phase' = "run"
  <2>1. phase = "run" /\ phase' = "run"
    BY <1>8, RunningPhase DEF StoreSlot
  <2>11. /\ arg[t] \in Insts /\ arg[t] \notin held /\ state[arg[t]] = "up"
         /\ arg[t] \notin dropped
         /\ count = idx[t] + 1 /\ slots[idx[t]] = Null
         /\ Length = count /\ Leaving = {} /\ \A k : Hole(k) <=> k = idx[t]
    BY <1>8, <2>1, OneThreadFacts DEF StoreSlot, CallInv
  <2>2. TypeOK'
    BY <1>8, <2>1, <2>11 DEF StoreSlot, Return, Goto
  <2>3. CallInv'
    BY <1>8, <2>1, OneThreadFacts
       DEF StoreSlot, Return, Goto, OneThread, CallInv
  <2>4. /\ Length' = Length
        /\ Leaving' = {}
        /\ \A k : Hole(k)' <=> FALSE
    BY <1>8, <2>1, OneThreadFacts DEF StoreSlot, Return, Goto
  <2>5. Tracked' = Tracked \cup {arg[t]}
    BY <1>8, <2>1 DEF StoreSlot, Return, Goto, Tracked, CallInv
  <2>6. (Length <= Max)' /\ Entered'
    <3>1. ASSUME NEW k \in 0..(count - 1)
          PROVE  /\ slots'[k] \in (Tracked \cup Leaving)'
                 /\ slots'[k] \in Insts
                 /\ state'[slots'[k]] = "up"
      <4>1. CASE k = idx[t]
        BY <1>8, <2>5, <2>11, <4>1 DEF StoreSlot
      <4>2. CASE k # idx[t]
        <5>1. slots'[k] = slots[k] /\ state' = state
          BY <1>8, <4>2 DEF StoreSlot
        <5>2. ~ Hole(k) /\ k \in 0..(Length - 1)
          BY <2>11, <4>2
        <5> QED
          BY <2>1, <2>5, <2>11, <5>1, <5>2 DEF SlotInv, Entered
      <4> QED
        BY <4>1, <4>2
    <3> QED
      BY <1>8, <2>1, <2>2, <2>4, <2>11, <3>1 DEF StoreSlot, Entered
  <2>7. Distinct'
    <3>1. \A k \in 0..(count - 1) : k # idx[t] => slots[k] # arg[t]
      BY <2>1, <2>11 DEF SlotInv, Entered, Tracked
    <3> QED
      BY <1>8, <2>1, <2>4, <2>11, <3>1 DEF StoreSlot, SlotInv, Distinct
  <2>8. Complete'
    <3>1. \A x \in Tracked : \E k \in 0..(count - 1) : slots'[k] = x
      <4> SUFFICES ASSUME NEW x \in Tracked
                   PROVE  \E k \in 0..(count - 1) : slots'[k] = x
        OBVIOUS
      <4>1. PICK k \in 0..(count - 1) : slots[k] = x
        BY <2>1, <2>11 DEF SlotInv, Complete
      <4>2. k # idx[t]
        BY <2>11, <4>1 DEF Tracked
      <4> QED
        BY <1>8, <4>1, <4>2 DEF StoreSlot
    <3>2. idx[t] \in 0..(count - 1) /\ slots'[idx[t]] = arg[t]
      BY <1>8, <2>11 DEF StoreSlot
    <3>3. Length' = count
      BY <2>4, <2>11
    <3> QED
      BY <2>5, <3>1, <3>2, <3>3 DEF Complete
  <2>9. Cleared'
    BY <1>8, <2>1, <2>4, OneThreadFacts
       DEF StoreSlot, Return, Goto, SlotInv, CallInv, Cleared, OneThread
  <2>10. /\ seen' = {} /\ handler' = Null
         /\ \A y \in held' : state'[y] \in {"up", "guest"}
         /\ \A y \in dropped' : state'[y] # "new"
    BY <1>8, <2>1 DEF StoreSlot, Return, Goto, CallInv
  <2> QED
    BY <2>1, <2>2, <2>3, <2>6, <2>7, <2>8, <2>9, <2>10 DEF SlotInv
<1>9. ASSUME Find(t) PROVE TypeOK' /\ RunInv' /\ phase' = "run"
  <2>1. phase = "run" /\ phase' = "run"
    BY <1>9, RunningPhase DEF Find
  <2>11. /\ arg[t] \in Insts /\ arg[t] \notin held
         /\ Length = count /\ Leaving = {arg[t]} /\ \A k : ~ Hole(k)
    BY <1>9, <2>1, OneThreadFacts DEF Find, CallInv
  <2>12. ASSUME IndexesOf(arg[t]) # {}
         PROVE  /\ First(IndexesOf(arg[t])) \in 0..(count - 1)
                /\ slots[First(IndexesOf(arg[t]))] = arg[t]
    <3>1. PICK k \in 0..(count - 1) : slots[k] = arg[t]
      BY <2>12 DEF IndexesOf
    <3>2. IndexesOf(arg[t]) = {k}
      BY <2>1, <2>11, <3>1 DEF SlotInv, Distinct, IndexesOf
    <3> QED
      BY <3>1, <3>2, FirstOfOne
  <2>2. TypeOK'
    <3>1. idx' \in [Threads -> 0..(Max - 1)]
      <4>1. CASE IndexesOf(arg[t]) = {}
        BY <1>9, <4>1 DEF Find
      <4>2. CASE IndexesOf(arg[t]) # {}
        <5>1. First(IndexesOf(arg[t])) \in 0..(Max - 1)
          BY <2>12, <4>2
        <5> QED
          BY <1>9, <4>2, <5>1 DEF Find
      <4> QED
        BY <4>1, <4>2
    <3>2. pc' \in [Threads -> PCs] /\ UNCHANGED <<table, state, held, arg, exit, dropped>>
      BY <1>9 DEF Find, Goto
    <3> QED
      BY <2>1, <3>1, <3>2
  <2>3. CallInv'
    <3>1. CASE IndexesOf(arg[t]) = {}
      BY <1>9, <2>1, <2>11, <3>1, OneThreadFacts
         DEF Find, Goto, OneThread, CallInv
    <3>2. CASE IndexesOf(arg[t]) # {}
      BY <1>9, <2>1, <2>11, <2>12, <3>2, OneThreadFacts
         DEF Find, Goto, OneThread, CallInv
    <3> QED
      BY <3>1, <3>2
  <2>4. /\ Length' = Length
        /\ Leaving' = IF IndexesOf(arg[t]) = {} THEN {} ELSE {arg[t]}
        /\ \A k : Hole(k)' <=> FALSE
    BY <1>9, <2>1, OneThreadFacts DEF Find, Goto
  <2>5. Tracked' = Tracked
    BY <1>9, <2>1 DEF Find, Goto, Tracked, CallInv
  <2>6. (Length <= Max)' /\ Entered'
    <3>1. CASE IndexesOf(arg[t]) = {}
      <4>1. \A k \in 0..(count - 1) : slots[k] # arg[t]
        BY <3>1 DEF IndexesOf
      <4> QED
        BY <1>9, <2>1, <2>4, <2>5, <2>11, <4>1 DEF Find, SlotInv, Entered
    <3>2. CASE IndexesOf(arg[t]) # {}
      BY <1>9, <2>1, <2>4, <2>5, <2>11, <3>2 DEF Find, SlotInv, Entered
    <3> QED
      BY <3>1, <3>2
  <2>7. Distinct'
    BY <1>9, <2>1, <2>4, <2>11 DEF Find, Goto, SlotInv, Entered, Distinct,
       Cleared
  <2>8. Complete'
    BY <1>9, <2>1, <2>4, <2>5, <2>11 DEF Find, Goto, SlotInv, Complete
  <2>9. Cleared'
    BY <1>9, <2>1, <2>4, OneThreadFacts
       DEF Find, Goto, SlotInv, CallInv, Cleared, OneThread
  <2>10. /\ seen' = {} /\ handler' = Null
         /\ \A y \in held' : state'[y] \in {"up", "guest"}
         /\ \A y \in dropped' : state'[y] # "new"
    BY <1>9, <2>1 DEF Find, Goto, CallInv
  <2> QED
    BY <2>1, <2>2, <2>3, <2>6, <2>7, <2>8, <2>9, <2>10 DEF SlotInv
<1>10. ASSUME Decrement(t) PROVE TypeOK' /\ RunInv' /\ phase' = "run"
  <2>1. phase = "run" /\ phase' = "run"
    BY <1>10, RunningPhase DEF Decrement
  <2>11. count > 0
    BY <1>10, <2>1, OneThreadFacts DEF Decrement, CallInv
  <2>2. TypeOK'
    BY <1>10, <2>1, <2>11 DEF Decrement, Goto
  <2>3. CallInv'
    BY <1>10, <2>1, OneThreadFacts DEF Decrement, Goto, OneThread, CallInv
  <2>4. /\ Length' = Length
        /\ Leaving' = {arg[t]}
        /\ \A k : Hole(k)' <=> FALSE
    BY <1>10, <2>1, OneThreadFacts DEF Decrement, Goto
  <2>5. Tracked' = Tracked
    BY <1>10, <2>1 DEF Decrement, Goto, Tracked, CallInv
  <2>6. (Length <= Max)' /\ Entered'
    BY <1>10, <2>1, <2>4, <2>5, OneThreadFacts
       DEF Decrement, Goto, SlotInv, CallInv, Entered, Tracked
  <2>7. Distinct'
    BY <1>10, <2>1, <2>4, OneThreadFacts
       DEF Decrement, Goto, SlotInv, CallInv, Entered, Distinct, Cleared
  <2>8. Complete'
    BY <1>10, <2>1, <2>4, <2>5, OneThreadFacts
       DEF Decrement, Goto, SlotInv, CallInv, Complete
  <2>9. Cleared'
    BY <1>10, <2>1, <2>4, OneThreadFacts
       DEF Decrement, Goto, SlotInv, CallInv, Cleared, OneThread
  <2>10. /\ seen' = {} /\ handler' = Null
         /\ \A y \in held' : state'[y] \in {"up", "guest"}
         /\ \A y \in dropped' : state'[y] # "new"
    BY <1>10, <2>1 DEF Decrement, Goto, CallInv
  <2> QED
    BY <2>1, <2>2, <2>3, <2>6, <2>7, <2>8, <2>9, <2>10 DEF SlotInv
<1>11. ASSUME MoveLast(t) PROVE TypeOK' /\ RunInv' /\ phase' = "run"
  <2>1. phase = "run" /\ phase' = "run"
    BY <1>11, RunningPhase DEF MoveLast
  <2>11. /\ arg[t] \in Insts /\ arg[t] \notin held
         /\ idx[t] <= count /\ slots[idx[t]] = arg[t] /\ count < Max
         /\ Length = count + 1 /\ Leaving = {arg[t]} /\ \A k : ~ Hole(k)
    BY <1>11, <2>1, OneThreadFacts DEF MoveLast, CallInv, SlotInv
  <2>2. TypeOK'
    <3>1. slots[count] \in Insts \cup {Null}
      BY <1>11 DEF MoveLast
    <3>2. slots' \in [0..Max -> Insts \cup {Null}]
      BY <1>11, <3>1 DEF MoveLast
    <3>3. /\ pc' \in [Threads -> PCs]
          /\ UNCHANGED <<count, registered, state, held, arg, idx, exit, dropped>>
      BY <1>11 DEF MoveLast, Goto
    <3> QED
      BY <2>1, <3>2, <3>3
  <2>3. CallInv'
    BY <1>11, <2>1, <2>11, OneThreadFacts
       DEF MoveLast, Goto, OneThread, CallInv
  <2>4. /\ Length' = count
        /\ Leaving' = {}
        /\ \A k : Hole(k)' <=> FALSE
    BY <1>11, <2>1, OneThreadFacts DEF MoveLast, Goto
  <2>5. Tracked' = Tracked
    BY <1>11, <2>1 DEF MoveLast, Goto, Tracked, CallInv
  <2>6. (Length <= Max)' /\ Entered'
    <3>1. ASSUME NEW k \in 0..(count - 1)
          PROVE  /\ slots'[k] \in Tracked
                 /\ slots'[k] \in Insts
                 /\ state[slots'[k]] = "up"
      <4>1. PICK l \in 0..count : l # idx[t] /\ slots'[k] = slots[l]
        <5>1. CASE k = idx[t]
          BY <1>11, <2>11, <5>1 DEF MoveLast
        <5>2. CASE k # idx[t]
          BY <1>11, <2>11, <5>2 DEF MoveLast
        <5> QED
          BY <5>1, <5>2
      <4>2. slots[l] # arg[t]
        BY <2>1, <2>11, <4>1 DEF SlotInv, Distinct
      <4> QED
        BY <2>1, <2>11, <4>1, <4>2 DEF SlotInv, Entered
    <3> QED
      BY <1>11, <2>1, <2>2, <2>4, <2>5, <2>11, <3>1 DEF MoveLast, Entered
  <2>7. Distinct'
    BY <1>11, <2>1, <2>4, <2>11
       DEF MoveLast, Goto, SlotInv, Entered, Distinct, Cleared
  <2>8. Complete'
    <3> SUFFICES ASSUME NEW x \in Tracked
                 PROVE  \E k \in 0..(count - 1) : slots'[k] = x
      BY <1>11, <2>4, <2>5 DEF MoveLast, Complete
    <3>1. PICK k \in 0..count : slots[k] = x
      BY <2>1, <2>11 DEF SlotInv, Complete
    <3>2. k # idx[t]
      BY <2>11, <3>1 DEF Tracked
    <3>3. CASE k = count
      BY <1>11, <2>11, <3>1, <3>2, <3>3 DEF MoveLast
    <3>4. CASE k # count
      BY <1>11, <2>11, <3>1, <3>2, <3>4 DEF MoveLast
    <3> QED
      BY <3>3, <3>4
  <2>9. Cleared'
    BY <1>11, <2>1, <2>4, OneThreadFacts
       DEF MoveLast, Goto, SlotInv, CallInv, Cleared, OneThread
  <2>10. /\ seen' = {} /\ handler' = Null
         /\ \A y \in held' : state'[y] \in {"up", "guest"}
         /\ \A y \in dropped' : state'[y] # "new"
    BY <1>11, <2>1 DEF MoveLast, Goto, CallInv
  <2> QED
    BY <2>1, <2>2, <2>3, <2>6, <2>7, <2>8, <2>9, <2>10 DEF SlotInv
<1>12. ASSUME ClearLast(t) PROVE TypeOK' /\ RunInv' /\ phase' = "run"
  <2>1. phase = "run" /\ phase' = "run"
    BY <1>12, RunningPhase DEF ClearLast
  <2>11. /\ arg[t] \notin held
         /\ Length = count /\ Leaving = {} /\ \A k : ~ Hole(k)
    BY <1>12, <2>1, OneThreadFacts DEF ClearLast, CallInv
  <2>2. TypeOK'
    BY <1>12, <2>1, <2>11 DEF ClearLast, Goto
  <2>3. CallInv'
    BY <1>12, <2>1, OneThreadFacts DEF ClearLast, Goto, OneThread, CallInv
  <2>4. /\ Length' = count
        /\ Leaving' = {}
        /\ \A k : Hole(k)' <=> FALSE
    BY <1>12, <2>1, OneThreadFacts DEF ClearLast, Goto
  <2>5. Tracked' = Tracked
    BY <1>12, <2>1 DEF ClearLast, Goto, Tracked, CallInv
  <2>6. (Length <= Max)' /\ Entered'
    BY <1>12, <2>1, <2>2, <2>4, <2>5, <2>11
       DEF ClearLast, Goto, SlotInv, Entered, Tracked
  <2>7. Distinct'
    BY <1>12, <2>1, <2>4, <2>11
       DEF ClearLast, Goto, SlotInv, Entered, Distinct, Cleared
  <2>8. Complete'
    BY <1>12, <2>1, <2>4, <2>5, <2>11 DEF ClearLast, Goto, SlotInv, Complete
  <2>9. Cleared'
    BY <1>12, <2>1, <2>4, OneThreadFacts
       DEF ClearLast, Goto, SlotInv, CallInv, Cleared, OneThread
  <2>10. /\ seen' = {} /\ handler' = Null
         /\ \A y \in held' : state'[y] \in {"up", "guest"}
         /\ \A y \in dropped' : state'[y] # "new"
    BY <1>12, <2>1 DEF ClearLast, Goto, CallInv
  <2> QED
    BY <2>1, <2>2, <2>3, <2>6, <2>7, <2>8, <2>9, <2>10 DEF SlotInv
<1>13. ASSUME Shutdown(t) PROVE TypeOK' /\ RunInv' /\ phase' = "run"
  <2>1. phase = "run" /\ phase' = "run"
    BY <1>13, RunningPhase DEF Shutdown
  <2>11. /\ arg[t] \in Insts /\ arg[t] \notin held
         /\ Length = count /\ Leaving = {} /\ \A k : ~ Hole(k)
    BY <1>13, <2>1, OneThreadFacts DEF Shutdown, CallInv
  <2>2. TypeOK'
    BY <1>13, <2>1, <2>11 DEF Shutdown, Return, Goto
  <2>3. CallInv'
    BY <1>13, <2>1, OneThreadFacts
       DEF Shutdown, Return, Goto, OneThread, CallInv
  <2>4. /\ Length' = count
        /\ Leaving' = {}
        /\ \A k : Hole(k)' <=> FALSE
    BY <1>13, <2>1, OneThreadFacts DEF Shutdown, Return, Goto
  <2>5. Tracked' = Tracked
    BY <1>13, <2>1 DEF Shutdown, Return, Goto, Tracked, CallInv
  <2>6. (Length <= Max)' /\ Entered'
    BY <1>13, <2>1, <2>2, <2>4, <2>5, <2>11
       DEF Shutdown, Return, Goto, SlotInv, Entered, Tracked
  <2>7. Distinct'
    BY <1>13, <2>1, <2>4, <2>11
       DEF Shutdown, Return, Goto, SlotInv, Entered, Distinct, Cleared
  <2>8. Complete'
    BY <1>13, <2>1, <2>4, <2>5, <2>11
       DEF Shutdown, Return, Goto, SlotInv, Complete
  <2>9. Cleared'
    BY <1>13, <2>1, <2>4, OneThreadFacts
       DEF Shutdown, Return, Goto, SlotInv, CallInv, Cleared, OneThread
  <2>10. /\ seen' = {} /\ handler' = Null
         /\ \A y \in held' : state'[y] \in {"up", "guest"}
         /\ \A y \in dropped' : state'[y] # "new"
    BY <1>13, <2>1 DEF Shutdown, Return, Goto, CallInv
  <2> QED
    BY <2>1, <2>2, <2>3, <2>6, <2>7, <2>8, <2>9, <2>10 DEF SlotInv
<1>14. phase' = "run" => LoopInv' /\ HalfStopped'
  BY DEF LoopInv, HalfStopped
<1> QED
  BY <1>1, <1>2, <1>3, <1>4, <1>5, <1>6, <1>7, <1>8, <1>9, <1>10, <1>11, <1>12,
     <1>13, <1>14 DEF Track, Untrack

----------------------------------------------------------------------------
\* Sets of instances are finite.
LEMMA FiniteInsts ==
    ASSUME NEW S, S \subseteq Insts
    PROVE  IsFiniteSet(S) /\ Cardinality(S) \in Nat
  BY FS_Subset, FS_CardinalityType, InstanceTableAssumption

\* A signal between any two stores finds nothing but live instances, each once.
LEMMA TerminateStep ==
    ASSUME IInv, OneThread, NEW t \in Threads, Terminate(t)
    PROVE  IInv'
<1> USE DEF IInv, TypeOK, Terminate, table, local
<1>1. CASE ~ registered
  <2>1. phase' = "dead" /\ seen' = {}
    BY <1>1 DEF RunInv
  <2>2. TypeOK'
    BY <1>1, InstanceTableAssumption
  <2>3. {x \in seen' : state'[x] = "up"} = {}
    BY <2>1
  <2> QED
    BY <2>1, <2>2, <2>3, FS_EmptySet DEF RunInv, LoopInv, HalfStopped
<1>2. CASE registered
  <2>1. phase' = "loop" /\ handler' = t /\ i' = 0 /\ seen' = Entries
        /\ UNCHANGED <<slots, count, state>> /\ phase = "run"
    BY <1>2
  <2>2. TypeOK'
    <3>1. seen' \subseteq Insts
      <4>1. \A k \in 0..(count - 1) : slots[k] \in Insts \cup {Null}
        BY InstanceTableAssumption
      <4> QED
        BY <2>1, <4>1 DEF Entries
    <3>2. i' \in 0..Max
      BY <2>1, InstanceTableAssumption
    <3>3. UNCHANGED <<slots, count, registered, state, held, pc, arg, idx, dropped>>
      OBVIOUS
    <3>4. phase' \in {"run", "loop", "dead"} /\ handler' \in Threads \cup {Null}
      BY <2>1
    <3> QED
      BY <3>1, <3>2, <3>3, <3>4 DEF Terminate
  <2>3. count <= Length
    BY DEF Length
  <2>4. ASSUME NEW k \in 0..(count - 1), slots[k] # Null
        PROVE  slots[k] \in Entries /\ state[slots[k]] = "up"
    <3>1. ~ Hole(k)
      BY <2>1, <2>4 DEF RunInv, CallInv, Hole
    <3>2. Length \in Int
      BY DEF Length
    <3> QED
      BY <2>1, <2>3, <2>4, <3>1, <3>2 DEF RunInv, SlotInv, Entered, Entries
  <2>5. \A k, l \in 0..(count - 1) : slots[k] = slots[l] => k = l
    <3>1. Length \in Int
      BY DEF Length
    <3> QED
      BY <2>1, <2>3, <3>1 DEF RunInv, SlotInv, Distinct
  <2>6. Stopped' = {} /\ Lost' = {}
    <3>1. Remaining' = {slots[k] : k \in 0..(count - 1)}
      BY <2>1 DEF Remaining
    <3>2. \A x \in Entries : state[x] = "up"
      BY <2>4 DEF Entries
    <3> QED
      BY <2>1, <3>1, <3>2 DEF Stopped, Lost, Entries
  <2>7. LoopInv'
    BY <2>1, <2>4, <2>5, <2>6, FS_EmptySet DEF LoopInv
  <2> QED
    BY <2>1, <2>2, <2>7 DEF RunInv, HalfStopped
<1> QED
  BY <1>1, <1>2

\* The cleanup loop.  Each instance it stops costs it at most one other: the
\* last one, which moves into the slot that is erased next.
LEMMA CleanupStep ==
    ASSUME IInv, OneThread, Cleanup
    PROVE  IInv'
<1> USE InstanceTableAssumption DEF IInv, TypeOK, table, local
<1>1. CASE SkipSlot
  <2> USE <1>1 DEF SkipSlot
  <2>1. TypeOK' /\ phase' = "loop"
    OBVIOUS
  <2>2. Stopped' = Stopped /\ Lost' \subseteq Lost
    <3>1. Stopped' = Stopped /\ seen' = seen
      BY DEF Stopped
    <3>2. Remaining \subseteq Remaining' \cup {Null}
      BY DEF Remaining
    <3> QED
      BY <3>1, <3>2 DEF Lost
  <2>3. Cardinality(Lost') <= Cardinality(Stopped')
    <3>1. Cardinality(Lost') <= Cardinality(Lost)
      BY <2>2, FiniteInsts, FS_Subset DEF Lost
    <3> QED
      BY <2>2, <3>1, FiniteInsts DEF LoopInv, Lost, Stopped
  <2>4. LoopInv'
    BY <2>1, <2>3 DEF LoopInv
  <2> QED
    BY <2>1, <2>4 DEF RunInv, HalfStopped
<1>2. CASE StopSlot
  <2> DEFINE x == slots[i]
             last == count - 1
             y == slots[last]
  <2>1. phase = "loop" /\ phase' = "loop" /\ i \in 0..last /\ last \in 0..(Max - 1)
    BY <1>2 DEF StopSlot
  <2>2. x \in Insts /\ x \in seen /\ state[x] = "up"
    BY <1>2, <2>1 DEF StopSlot, LoopInv
  <2>3. First(IndexesOf(x)) = i
    <3>1. IndexesOf(x) = {i}
      BY <2>1, <2>2 DEF IndexesOf, LoopInv
    <3> QED
      BY <2>1, <3>1, FirstOfOne
  <2>4. /\ slots' = [slots EXCEPT ![i] = y, ![last] = Null, ![i] = Null]
        /\ state' = [state EXCEPT ![x] = "freed"]
        /\ count' = last /\ i' = i + 1
        /\ UNCHANGED <<registered, held, pc, arg, idx, handler, seen, dropped>>
    BY <1>2, <2>3 DEF StopSlot
  <2>5. TypeOK'
    <3>1. y \in Insts \cup {Null}
      BY <2>1
    <3>2. slots' \in [0..Max -> Insts \cup {Null}]
      BY <2>4, <3>1
    <3>3. state' \in [Insts -> {"new", "up", "guest", "freed"}]
      BY <2>4
    <3>4. count' \in 0..Max /\ i' \in 0..Max
      BY <2>1, <2>4
    <3>5. /\ phase' \in {"run", "loop", "dead"}
          /\ UNCHANGED <<registered, held, pc, arg, idx, handler, seen, dropped>>
      BY <2>1, <2>4
    <3> HIDE DEF x, y, last
    <3> QED
      BY <3>2, <3>3, <3>4, <3>5
  <2>6. \A k \in (i + 1)..(last - 1) : slots'[k] = slots[k]
    BY <2>1, <2>4
  <2>7. \A k \in 0..i : k < last => slots'[k] = Null
    BY <2>1, <2>4 DEF LoopInv
  <2>8. \A k \in (i + 1)..(last - 1) : slots[k] # x
    BY <2>1, <2>2 DEF LoopInv
  <2>9. Cardinality(Lost') <= Cardinality(Stopped')
    <3>1. Stopped' = Stopped \cup {x} /\ x \notin Stopped
      BY <2>2, <2>4 DEF Stopped
    <3>2. Remaining \subseteq Remaining' \cup {x, y}
      <4>1. ASSUME NEW k \in i..last
            PROVE  slots[k] \in Remaining' \cup {x, y}
        <5>1. CASE k \in (i + 1)..(last - 1)
          BY <2>4, <2>6, <5>1 DEF Remaining
        <5>2. CASE k = i \/ k = last
          BY <5>2
        <5> QED
          BY <2>1, <5>1, <5>2
      <4> QED
        BY <2>1, <4>1 DEF Remaining
    <3>3. Lost' \subseteq Lost \cup {y}
      BY <2>4, <3>1, <3>2 DEF Lost
    <3>4. /\ IsFiniteSet(Lost) /\ IsFiniteSet(Stopped)
          /\ Cardinality(Lost) \in Nat /\ Cardinality(Stopped) \in Nat
      BY FiniteInsts DEF Lost, Stopped
    <3> HIDE DEF x, y, last
    <3>5. /\ IsFiniteSet(Lost \cup {y})
          /\ Cardinality(Lost \cup {y}) <= Cardinality(Lost) + 1
      <4>1. /\ IsFiniteSet(Lost \cup {y})
            /\ \/ Cardinality(Lost \cup {y}) = Cardinality(Lost)
               \/ Cardinality(Lost \cup {y}) = Cardinality(Lost) + 1
        BY <3>4, FS_AddElement
      <4> QED
        BY <3>4, <4>1
    <3>6. /\ Cardinality(Lost \cup {y}) \in Nat /\ Cardinality(Lost') \in Nat
          /\ Cardinality(Lost') <= Cardinality(Lost \cup {y})
      BY <3>3, <3>5, FS_Subset, FS_CardinalityType
    <3>7. Cardinality(Stopped') = Cardinality(Stopped) + 1
      BY <3>1, <3>4, FS_AddElement
    <3>8. Cardinality(Lost) <= Cardinality(Stopped)
      BY <2>1 DEF LoopInv
    <3> QED
      BY <3>4, <3>5, <3>6, <3>7, <3>8
  <2>10. LoopInv'
    <3>1. \A k \in i'..(count' - 1) : slots'[k] # Null =>
              slots'[k] \in seen' /\ state'[slots'[k]] = "up"
      BY <2>1, <2>4, <2>6, <2>8 DEF LoopInv
    <3>2. \A k, l \in i'..(count' - 1) : slots'[k] = slots'[l] /\ slots'[k] # Null => k = l
      BY <2>1, <2>4, <2>6 DEF LoopInv
    <3> QED
      BY <2>1, <2>4, <2>7, <2>9, <3>1, <3>2 DEF LoopInv
  <2> QED
    BY <2>1, <2>5, <2>10 DEF RunInv, HalfStopped
<1>3. CASE EndLoop
  <2> USE <1>3 DEF EndLoop
  <2>1. TypeOK' /\ phase' = "dead" /\ UNCHANGED <<state, seen>>
    OBVIOUS
  <2> DEFINE up == {x \in seen : state[x] = "up"}
  <2>2. Lost = up /\ up = seen \ Stopped
    BY DEF Lost, Stopped, Remaining
  <2>3. Cardinality(up) <= Cardinality(Stopped)
    BY <2>2 DEF LoopInv
  <2>4. Cardinality(seen) = Cardinality(up) + Cardinality(Stopped)
    <3>1. up \cup Stopped = seen /\ up \cap Stopped = {}
      BY DEF Stopped
    <3>2. /\ IsFiniteSet(up) /\ IsFiniteSet(Stopped)
          /\ Cardinality(up) \in Nat /\ Cardinality(Stopped) \in Nat
      BY FiniteInsts DEF Stopped
    <3>3. Cardinality(up \cup Stopped)
            = Cardinality(up) + Cardinality(Stopped) - Cardinality(up \cap Stopped)
      BY <3>2, FS_Union
    <3>4. Cardinality(up \cap Stopped) = 0
      BY <3>1, FS_EmptySet
    <3> HIDE DEF up
    <3>5. Cardinality(up \cup Stopped) = Cardinality(seen)
      BY <3>1, Zenon
    <3> QED
      BY <3>2, <3>3, <3>4, <3>5
  <2>5. Cardinality(up) \in Nat /\ Cardinality(Stopped) \in Nat
    BY FiniteInsts DEF Stopped
  <2>6. 2 * Cardinality(up) <= Cardinality(seen)
    <3> HIDE DEF up
    <3> QED
      BY <2>3, <2>4, <2>5
  <2> QED
    BY <2>1, <2>6 DEF RunInv, LoopInv, HalfStopped
<1> QED
  BY <1>1, <1>2, <1>3 DEF Cleanup

----------------------------------------------------------------------------
LEMMA IInvHolds ==
    ASSUME OneThread
    PROVE  Spec => []IInv
<1>1. Init => IInv
  <2> SUFFICES ASSUME Init PROVE IInv
    OBVIOUS
  <2> USE InstanceTableAssumption DEF Init
  <2>1. TypeOK
    <3>1. /\ 0 \in 0..(Max - 1) /\ 0 \in 0..Max
          /\ {} \subseteq Insts
      OBVIOUS
    <3>2. /\ slots \in [0..Max -> Insts \cup {Null}]
          /\ state \in [Insts -> {"new", "up", "guest", "freed"}]
          /\ pc \in [Threads -> PCs]
          /\ arg \in [Threads -> Insts \cup {Null}]
      BY DEF PCs
    <3>3. idx \in [Threads -> 0..(Max - 1)]
      BY <3>1
    <3> QED
      BY <3>1, <3>2, <3>3 DEF TypeOK
  <2>2. Length = 0 /\ Leaving = {} /\ \A k : ~ Hole(k)
    BY DEF Length, Leaving, Hole
  <2>3. SlotInv
    BY <2>2 DEF SlotInv, Entered, Distinct, Complete, Cleared, Tracked
  <2>4. CallInv
    BY DEF CallInv
  <2> QED
    BY <2>1, <2>3, <2>4 DEF IInv, RunInv, LoopInv, HalfStopped
<1>2. IInv /\ [Next]_vars => IInv'
  <2> SUFFICES ASSUME IInv, [Next]_vars PROVE IInv'
    OBVIOUS
  <2>1. CASE UNCHANGED vars
    <3>1. TypeOK'
      BY <2>1 DEF vars, IInv, TypeOK
    <3>2. CallInv' <=> CallInv
      BY <2>1 DEF vars, CallInv, Length
    <3>3. SlotInv' <=> SlotInv
      BY <2>1 DEF vars, SlotInv, Entered, Distinct, Complete, Cleared, Tracked,
         Length, Leaving, Hole
    <3>4. RunInv'
      BY <2>1, <3>2, <3>3 DEF vars, IInv, RunInv
    <3>5. LoopInv' /\ HalfStopped'
      BY <2>1 DEF vars, IInv, LoopInv, HalfStopped, Lost, Stopped, Remaining
    <3> QED
      BY <3>1, <3>4, <3>5 DEF IInv
  <2> QED
    BY <2>1, RunStep, TerminateStep, CleanupStep DEF Next
<1> QED
  BY <1>1, <1>2, PTL DEF Spec

\* Between two calls the table is exactly the set of tracked instances
\* (track_instance(), untrack_instance(), pg_shim.c:217-238).
THEOREM TableCorrect ==
    ASSUME OneThread
    PROVE  Spec => []TableExact
<1>1. IInv => TableExact
  <2> SUFFICES ASSUME IInv, Quiet PROVE TableExact
    BY DEF TableExact
  <2>1. Length = count /\ Leaving = {} /\ \A k : ~ Hole(k)
    BY DEF Quiet, Length, Leaving, Hole
  <2>2. SlotInv
    BY DEF IInv, RunInv, Quiet
  <2>3. \A k \in 0..(count - 1) : slots[k] \in Tracked /\ slots[k] # Null
    BY <2>1, <2>2, InstanceTableAssumption DEF SlotInv, Entered
  <2>4. Entries = Tracked
    BY <2>1, <2>2, <2>3 DEF SlotInv, Complete, Entries
  <2> QED
    BY <2>1, <2>2, <2>3, <2>4 DEF TableExact, SlotInv, Distinct
<1> QED
  BY <1>1, IInvHolds, PTL

\* The cleanup stops no instance twice and no freed one, wherever the signal
\* came (cleanup_all_instances(), pg_shim.c:51-59).
THEOREM CleanupSound ==
    ASSUME OneThread
    PROVE  Spec => []NoStaleEntry
<1>1. IInv => NoStaleEntry
  BY DEF IInv, LoopInv, NoStaleEntry
<1> QED
  BY <1>1, IInvHolds, PTL

\* However many instances there are, the cleanup stops at least half of them
\* (cleanup_all_instances(), pg_shim.c:51-59).
THEOREM CleanupStopsHalf ==
    ASSUME OneThread
    PROVE  Spec => []HalfStopped
<1>1. IInv => HalfStopped
  BY DEF IInv
<1> QED
  BY <1>1, IInvHolds, PTL
----------------------------------------------------------------------------
\* A running instance is its caller's or in a call, and nothing is in the table
\* before the signal handlers are installed.
KnownInv ==
    phase = "run" =>
        /\ \A x \in Insts : state[x] = "up" =>
              x \in held \/ \E t \in Threads : pc[t] # "idle" /\ arg[t] = x
        /\ ~ registered => count = 0

MissInv == phase # "run" => \E z : Missed \subseteq {z}

LEMMA KnownStep ==
    ASSUME IInv, IInv', OneThread, KnownInv, [Next]_vars
    PROVE  KnownInv'
<1> USE DEF IInv, TypeOK, KnownInv, OneThread, At, table, local, exit
<1>1. ASSUME NEW t \in Threads, NEW x \in Insts,
             Boot(t, x) \/ ConnectExisting(t, x) \/ Stop(t, x)
      PROVE  KnownInv'
  BY <1>1 DEF Boot, ConnectExisting, Stop, Enter, Goto
<1>2. ASSUME NEW t \in Threads, Track(t) PROVE KnownInv'
  BY <1>2 DEF Track, Register, CheckRoom, ReadCount, BumpCount, StoreSlot, Return,
     Goto, RunInv, CallInv
<1>3. ASSUME NEW t \in Threads, Untrack(t) PROVE KnownInv'
  <2>1. pc[t] = "dec" => Length = count /\ idx[t] < Length
    BY <1>3, OneThreadFacts, RunningPhase
       DEF Untrack, Find, Decrement, MoveLast, ClearLast, RunInv, CallInv
  <2> QED
    BY <1>3, <2>1 DEF Untrack, Find, Decrement, MoveLast, ClearLast, Goto
<1>4. ASSUME NEW t \in Threads, Shutdown(t) PROVE KnownInv'
  BY <1>4 DEF Shutdown, Return, Goto
<1>5. ASSUME NEW t \in Threads, Terminate(t) PROVE KnownInv'
  BY <1>5 DEF Terminate
<1>6. CASE Cleanup
  BY <1>6 DEF Cleanup, SkipSlot, StopSlot, EndLoop
<1>7. CASE UNCHANGED vars
  BY <1>7 DEF vars
<1> QED
  BY <1>1, <1>2, <1>3, <1>4, <1>5, <1>6, <1>7 DEF Next

\* When the signal comes every running instance is in an entry that counts,
\* but for the one that the interrupted call is about.
LEMMA MissTerminate ==
    ASSUME IInv, OneThread, KnownInv, NEW t \in Threads, Terminate(t)
    PROVE  MissInv'
<1> USE DEF IInv, TypeOK, Terminate, table, local
<1>1. SlotInv /\ CallInv /\ seen = {} /\ phase = "run"
  BY DEF RunInv
<1>2. ASSUME NEW x \in Insts, state[x] = "up", x \notin dropped, x \notin Entries
      PROVE  x = arg[t] \/ (pc[t] = "move" /\ x = slots[count])
  <2>1. CASE x \in held
    <3>1. PICK k \in 0..(Length - 1) : slots[k] = x
      BY <1>1, <1>2, <2>1 DEF SlotInv, Complete, Tracked
    <3>2. pc[t] = "move" /\ k = count
      BY <1>2, <3>1, OneThreadFacts, InstanceTableAssumption DEF Entries
    <3> QED
      BY <3>1, <3>2
  <2>2. CASE x \notin held
    BY <1>1, <1>2, <2>2 DEF KnownInv, OneThread
  <2> QED
    BY <2>1, <2>2
<1>3. ASSUME pc[t] = "move", arg[t] \notin Entries, arg[t] \in Insts
      PROVE  arg[t] = slots[count]
  <2>1. idx[t] < count + 1 /\ slots[idx[t]] = arg[t]
    BY <1>1, <1>3, OneThreadFacts DEF CallInv
  <2>2. idx[t] \notin 0..(count - 1)
    BY <1>3, <2>1, InstanceTableAssumption DEF Entries
  <2> QED
    BY <2>1, <2>2
<1>4. seen' = Entries
  BY <1>1 DEF KnownInv, Entries
<1>5. Missed' = ({x \in Insts : state[x] = "up"} \ Entries) \ dropped
  BY <1>4 DEF Missed
<1>6. CASE pc[t] = "move"
  <2>1. Missed' \subseteq {slots[count]}
    BY <1>2, <1>3, <1>5, <1>6
  <2> QED
    BY <2>1 DEF MissInv
<1>7. CASE pc[t] # "move"
  <2>1. Missed' \subseteq {arg[t]}
    BY <1>2, <1>5, <1>7
  <2> QED
    BY <2>1 DEF MissInv
<1> QED
  BY <1>6, <1>7

\* The cleanup starts nothing and what it has found stays found.
LEMMA MissStep ==
    ASSUME IInv, OneThread, KnownInv, MissInv, [Next]_vars
    PROVE  MissInv'
<1> USE DEF MissInv, table, local, exit
<1>1. CASE Cleanup
  <2>1. Missed' \subseteq Missed
    BY <1>1 DEF Cleanup, SkipSlot, StopSlot, EndLoop, Missed, IInv, TypeOK
  <2> QED
    BY <1>1, <2>1 DEF Cleanup, SkipSlot, StopSlot, EndLoop
<1>2. ASSUME NEW t \in Threads, Terminate(t) PROVE MissInv'
  BY <1>2, MissTerminate
<1>3. ASSUME NEW t \in Threads,
             \/ \E x \in Insts : Boot(t, x) \/ ConnectExisting(t, x) \/ Stop(t, x)
             \/ Track(t) \/ Untrack(t) \/ Shutdown(t)
      PROVE  MissInv'
  <2>1. PICK p : At(t, p)
    BY <1>3 DEF Boot, ConnectExisting, Stop, Track, Register, CheckRoom,
       ReadCount, BumpCount, StoreSlot, Untrack, Find, Decrement, MoveLast, ClearLast, Shutdown
  <2>2. phase = "run" /\ phase' = phase
    BY <1>3, <2>1, RunningPhase
       DEF Boot, ConnectExisting, Stop, Track, Register, CheckRoom,
       ReadCount, BumpCount, StoreSlot, Untrack, Find, Decrement, MoveLast, ClearLast, Shutdown
  <2> QED
    BY <2>2
<1>4. CASE UNCHANGED vars
  BY <1>4 DEF vars, Missed
<1> QED
  BY <1>1, <1>2, <1>3, <1>4 DEF Next

\* A subset of a singleton has one element at most.
LEMMA AtMostOne ==
    ASSUME NEW S, NEW z, S \subseteq {z}
    PROVE  Cardinality(S) <= 1
<1>1. IsFiniteSet({z}) /\ Cardinality({z}) = 1
  BY FS_Singleton
<1>2. Cardinality(S) <= Cardinality({z})
  BY <1>1, FS_Subset
<1> QED
  BY <1>1, <1>2

\* A signal hides at most one running instance from the cleanup, wherever it
\* comes (pg_shim.c:51-59, 608, 674, 682).
THEOREM SignalMissesOne ==
    ASSUME OneThread
    PROVE  Spec => []ExitMissesOne
<1>1. Init => KnownInv /\ MissInv
  BY DEF Init, KnownInv, MissInv
<1>2. IInv /\ IInv' /\ KnownInv /\ MissInv /\ [Next]_vars => KnownInv' /\ MissInv'
  BY KnownStep, MissStep
<1>3. MissInv => ExitMissesOne
  BY AtMostOne DEF MissInv, ExitMissesOne
<1> QED
  BY <1>1, <1>2, <1>3, IInvHolds, PTL DEF Spec

\* Every variable keeps its type.
THEOREM TypeCorrect ==
    ASSUME OneThread
    PROVE  Spec => []TypeOK
<1>1. IInv => TypeOK
  BY DEF IInv
<1> QED
  BY <1>1, IInvHolds, PTL

----------------------------------------------------------------------------
\* A table of n different entries holds n of them.
LEMMA CountEntries ==
    ASSUME NEW n \in Nat, NEW f,
           \A k, l \in 0..(n - 1) : f[k] = f[l] => k = l
    PROVE  Cardinality({f[k] : k \in 0..(n - 1)}) = n
<1> DEFINE D == 0..(n - 1)
           S == {f[k] : k \in D}
           g == [k \in D |-> f[k]]
<1>1. IsFiniteSet(D) /\ Cardinality(D) = n
  BY FS_Interval
<1>2. g \in Surjection(D, S)
  BY DEF Surjection
<1>3. g \in Injection(D, S)
  BY DEF Injection, IsInjective
<1> QED
  BY <1>1, <1>2, <1>3, FS_Surjection

\* A start that finds no room finds Max tracked instances.
LEMMA FullTable ==
    ASSUME IInv, OneThread, NEW t \in Threads, CheckRoom(t), count >= Max
    PROVE  Cardinality(Tracked) = Max
<1>1. phase = "run" /\ pc[t] = "check" /\ count = Max
  BY RunningPhase, InstanceTableAssumption DEF CheckRoom, At, IInv, TypeOK
<1>2. SlotInv /\ Length = Max /\ Leaving = {} /\ \A k : ~ Hole(k)
  BY <1>1, OneThreadFacts DEF IInv, RunInv
<1>3. Tracked = {slots[k] : k \in 0..(Max - 1)}
  BY <1>2 DEF SlotInv, Entered, Complete
<1> QED
  BY <1>2, <1>3, CountEntries, InstanceTableAssumption DEF SlotInv, Distinct

\* An instance is left out of the table only when the table is full of running
\* ones (track_instance(), pg_shim.c:225-227).
THEOREM DroppedWhenFull ==
    ASSUME OneThread
    PROVE  Spec => DropOnlyWhenFull
<1>1. IInv /\ [Next]_vars
        => [dropped' # dropped => Cardinality(Tracked) = Max]_vars
  <2> SUFFICES ASSUME IInv, Next, dropped' # dropped
               PROVE  Cardinality(Tracked) = Max
    OBVIOUS
  <2>1. PICK t \in Threads : CheckRoom(t) /\ count >= Max
    BY InstanceTableAssumption
       DEF Next, Boot, ConnectExisting, Stop, Track, Register, CheckRoom,
       ReadCount, BumpCount, StoreSlot, Untrack, Find, Decrement, MoveLast, ClearLast, Shutdown,
       Terminate, Cleanup, SkipSlot, StopSlot, EndLoop, IInv, TypeOK
  <2> QED
    BY <2>1, FullTable
<1> QED
  BY <1>1, IInvHolds, PTL DEF Spec, DropOnlyWhenFull

----------------------------------------------------------------------------
\* When no call is interrupted the loop meets no hole: it has visited i entries,
\* stopped as many, and lost as many from the end of the table.
QuietLoop ==
    phase = "loop" /\ (\A t \in Threads : pc[t] = "idle") =>
        /\ \A k \in i..(count - 1) : slots[k] # Null
        /\ Cardinality(Stopped) = i
        /\ count + i = Cardinality(seen)
        /\ 2 * i <= Cardinality(seen) + 1

LEMMA QuietTerminate ==
    ASSUME IInv, IInv', TableExact, NEW t \in Threads, Terminate(t)
    PROVE  QuietLoop'
<1> SUFFICES ASSUME phase' = "loop", \A u \in Threads : pc'[u] = "idle"
             PROVE  QuietLoop'
  BY DEF QuietLoop
<1>1. /\ Quiet /\ i' = 0 /\ seen' = Entries
      /\ UNCHANGED <<slots, count, state>>
  BY DEF Terminate, Quiet, table, local
<1>2. count \in Nat /\ \A k \in 0..(count - 1) : slots[k] # Null
  BY <1>1 DEF TableExact, IInv, TypeOK
<1>3. Cardinality(seen') = count
  <2>1. Entries = {slots[k] : k \in 0..(count - 1)}
    BY <1>2 DEF Entries
  <2> QED
    BY <1>1, <1>2, <2>1, CountEntries DEF TableExact
<1>4. Cardinality(Stopped') = 0
  <2>1. \A x \in Entries : state[x] = "up"
    BY <1>1 DEF TableExact, Tracked
  <2>2. Stopped' = {}
    BY <1>1, <2>1 DEF Stopped
  <2> QED
    BY <2>2, FS_EmptySet
<1> QED
  BY <1>1, <1>2, <1>3, <1>4 DEF QuietLoop

LEMMA QuietStep ==
    ASSUME IInv, OneThread, QuietLoop, StopSlot
    PROVE  QuietLoop'
<1> USE DEF IInv, TypeOK
<1> SUFFICES ASSUME phase' = "loop", \A u \in Threads : pc'[u] = "idle"
             PROVE  QuietLoop'
  BY DEF QuietLoop
<1> DEFINE x == slots[i]
           last == count - 1
<1>1. /\ phase = "loop" /\ i \in 0..last /\ last \in 0..(Max - 1)
      /\ UNCHANGED <<pc, seen>> /\ \A u \in Threads : pc[u] = "idle"
  BY InstanceTableAssumption DEF StopSlot, local
<1>2. x \in seen /\ state[x] = "up" /\ x \in Insts
  BY <1>1 DEF StopSlot, LoopInv
<1>3. First(IndexesOf(x)) = i
  <2>1. IndexesOf(x) = {i}
    BY <1>1, <1>2, InstanceTableAssumption DEF IndexesOf, LoopInv
  <2> QED
    BY <1>1, <2>1, FirstOfOne
<1>4. /\ slots' = [slots EXCEPT ![i] = slots[last], ![last] = Null, ![i] = Null]
      /\ state' = [state EXCEPT ![x] = "freed"]
      /\ count' = last /\ i' = i + 1
  BY <1>3 DEF StopSlot
<1>5. \A k \in (i + 1)..(last - 1) : slots'[k] = slots[k] /\ slots[k] # Null
  BY <1>1, <1>4, InstanceTableAssumption DEF QuietLoop
<1>6. Cardinality(Stopped') = i + 1
  <2>1. Stopped' = Stopped \cup {x} /\ x \notin Stopped
    BY <1>1, <1>2, <1>4 DEF Stopped
  <2>2. IsFiniteSet(Stopped) /\ Cardinality(Stopped) = i
    BY <1>1, FiniteInsts DEF Stopped, QuietLoop
  <2> QED
    BY <2>1, <2>2, FS_AddElement
<1>7. /\ Cardinality(seen) \in Nat /\ count + i = Cardinality(seen)
  BY <1>1, FiniteInsts DEF QuietLoop
<1>8. 2 * (i + 1) <= Cardinality(seen) + 1 /\ last + (i + 1) = Cardinality(seen)
  BY <1>1, <1>7
<1> HIDE DEF x, last
<1> QED
  BY <1>1, <1>4, <1>5, <1>6, <1>8 DEF QuietLoop

LEMMA Halve ==
    ASSUME NEW n \in Nat, NEW c \in Nat, NEW j \in Nat,
           c + j = n, j >= c, 2 * j <= n + 1
    PROVE  n - j = n \div 2
  OBVIOUS

\* A loop that has met no hole has stopped half, rounded up.
LEMMA QuietEnd ==
    ASSUME IInv, QuietLoop, EndLoop
    PROVE  ExitLeavesHalf'
<1> SUFFICES ASSUME \A u \in Threads : pc[u] = "idle"
             PROVE  Cardinality({x \in seen : state[x] = "up"})
                      = Cardinality(seen) \div 2
  BY DEF EndLoop, ExitLeavesHalf, local
<1> DEFINE up == {x \in seen : state[x] = "up"}
<1>1. /\ phase = "loop" /\ i >= count /\ count \in Nat /\ i \in Nat
  BY InstanceTableAssumption DEF EndLoop, IInv, TypeOK
<1>2. /\ Cardinality(Stopped) = i /\ count + i = Cardinality(seen)
      /\ 2 * i <= Cardinality(seen) + 1
  BY <1>1 DEF QuietLoop
<1>3. IsFiniteSet(seen) /\ Cardinality(seen) \in Nat
  BY FiniteInsts DEF IInv, TypeOK
<1>4. Cardinality(up) = Cardinality(seen) - i
  <2>1. up = seen \ Stopped /\ seen \cap Stopped = Stopped
    BY DEF Stopped
  <2>2. Cardinality(seen \ Stopped)
          = Cardinality(seen) - Cardinality(seen \cap Stopped)
    BY <1>3, FS_Difference
  <2> HIDE DEF up
  <2> QED
    BY <1>2, <2>1, <2>2
<1> HIDE DEF up
<1>5. Cardinality(seen) - i = Cardinality(seen) \div 2
  BY <1>1, <1>2, <1>3, Halve
<1>6. Cardinality(up) = Cardinality(seen) \div 2
  BY <1>4, <1>5
<1> QED
  BY <1>6 DEF up

\* An exit between two calls leaves every second instance running, exactly
\* (cleanup_all_instances(), pg_shim.c:51-59).
THEOREM ExitHalfExact ==
    ASSUME OneThread
    PROVE  Spec => []ExitLeavesHalf
<1> DEFINE Inv == QuietLoop /\ ExitLeavesHalf
<1>1. Init => Inv
  BY DEF Init, QuietLoop, ExitLeavesHalf
<1>2. IInv /\ IInv' /\ TableExact /\ Inv /\ [Next]_vars => Inv'
  <2> SUFFICES ASSUME IInv, IInv', TableExact, Inv, [Next]_vars PROVE Inv'
    OBVIOUS
  <2>1. CASE UNCHANGED vars
    BY <2>1 DEF vars, QuietLoop, ExitLeavesHalf, Stopped
  <2>2. ASSUME NEW t \in Threads,
               \/ \E x \in Insts : Boot(t, x) \/ ConnectExisting(t, x) \/ Stop(t, x)
               \/ Track(t) \/ Untrack(t) \/ Shutdown(t)
        PROVE  Inv'
    <3>1. PICK p : At(t, p)
      BY <2>2 DEF Boot, ConnectExisting, Stop, Track, Register, CheckRoom,
         ReadCount, BumpCount, StoreSlot, Untrack, Find, Decrement, MoveLast, ClearLast, Shutdown
    <3>2. phase' = "run"
      BY <2>2, <3>1, RunningPhase
         DEF Boot, ConnectExisting, Stop, Track, Register, CheckRoom,
         ReadCount, BumpCount, StoreSlot, Untrack, Find, Decrement, MoveLast, ClearLast, Shutdown, exit
    <3> QED
      BY <3>2 DEF QuietLoop, ExitLeavesHalf
  <2>3. ASSUME NEW t \in Threads, Terminate(t) PROVE Inv'
    <3>1. ExitLeavesHalf'
      BY <2>3, InstanceTableAssumption DEF Terminate, ExitLeavesHalf, IInv, RunInv
    <3> QED
      BY <2>3, <3>1, QuietTerminate
  <2>4. CASE StopSlot
    BY <2>4, QuietStep DEF ExitLeavesHalf, StopSlot
  <2>5. CASE SkipSlot
    <3>1. phase' = "loop" /\ \E t \in Threads : pc'[t] # "idle"
      BY <2>5 DEF SkipSlot, QuietLoop, IInv, TypeOK, local
    <3> QED
      BY <3>1 DEF QuietLoop, ExitLeavesHalf
  <2>6. CASE EndLoop
    BY <2>6, QuietEnd DEF QuietLoop, EndLoop
  <2> QED
    BY <2>1, <2>2, <2>3, <2>4, <2>5, <2>6 DEF Next, Cleanup
<1> QED
  BY <1>1, <1>2, IInvHolds, TableCorrect, PTL DEF Spec

----------------------------------------------------------------------------
\* An instance that was left out is never in the table.
DropInv == \A k \in 0..(Max - 1) : slots[k] \notin dropped

LEMMA DropStep ==
    ASSUME IInv, OneThread, DropInv, [Next]_vars
    PROVE  DropInv'
<1> USE InstanceTableAssumption DEF IInv, TypeOK, DropInv, table, local, exit
<1>1. ASSUME NEW t \in Threads, CheckRoom(t), count >= Max PROVE DropInv'
  <2>1. phase = "run" /\ pc[t] = "check" /\ count = Max
    BY <1>1, RunningPhase DEF CheckRoom, At
  <2>2. SlotInv /\ CallInv /\ Length = Max /\ Leaving = {} /\ \A k : ~ Hole(k)
    BY <2>1, OneThreadFacts DEF RunInv
  <2>3. arg[t] \notin held /\ \A k \in 0..(Max - 1) : slots[k] \in held
    BY <2>1, <2>2 DEF CallInv, SlotInv, Entered, Tracked
  <2> QED
    BY <1>1, <2>3 DEF CheckRoom
<1>2. ASSUME NEW t \in Threads, StoreSlot(t) PROVE DropInv'
  <2>1. arg[t] \notin dropped
    BY <1>2, RunningPhase DEF StoreSlot, At, RunInv, CallInv
  <2> QED
    BY <1>2, <2>1 DEF StoreSlot
<1>3. ASSUME NEW t \in Threads, MoveLast(t) \/ ClearLast(t) PROVE DropInv'
  <2>1. CASE MoveLast(t)
    <3>1. phase = "run" /\ pc[t] = "move"
      BY <2>1, RunningPhase DEF MoveLast, At
    <3>2. count + 1 <= Max /\ count \in 0..(Max - 1)
      BY <3>1, OneThreadFacts DEF RunInv, SlotInv
    <3> QED
      BY <2>1, <3>2 DEF MoveLast
  <2>2. CASE ClearLast(t)
    <3>1. \A k \in 0..(Max - 1) : slots'[k] = slots[k] \/ slots'[k] = Null
      BY <2>2 DEF ClearLast
    <3> QED
      BY <2>2, <3>1 DEF ClearLast
  <2> QED
    BY <1>3, <2>1, <2>2
<1>4. CASE StopSlot
  <2>1. count - 1 \in 0..(Max - 1) /\ slots[count - 1] \notin dropped
    BY <1>4 DEF StopSlot
  <2>2. \A k \in 0..(Max - 1) : slots'[k] \in {slots[k], slots[count - 1], Null}
    <3>1. PICK a : a = First(IndexesOf(slots[i]))
      OBVIOUS
    <3>2. slots' = [slots EXCEPT ![a] = slots[count - 1], ![count - 1] = Null, ![i] = Null]
      BY <1>4, <3>1 DEF StopSlot
    <3> HIDE DEF DropInv
    <3> QED
      BY <3>2
  <2>3. dropped' = dropped /\ Null \notin dropped
    BY <1>4 DEF StopSlot
  <2> QED
    BY <2>1, <2>2, <2>3
<1>5. CASE UNCHANGED <<slots, dropped>>
  BY <1>5
<1> QED
  BY <1>1, <1>2, <1>3, <1>4, <1>5
     DEF Next, Boot, ConnectExisting, Stop, Track, Register, CheckRoom,
     ReadCount, BumpCount, Untrack, Find, Decrement, Shutdown, Terminate, Cleanup,
     SkipSlot, EndLoop, vars

\* Registry's Cardinality is this module's.
LEMMA SameCardinality ==
    \A S : RG!Cardinality(S) = Cardinality(S)
  BY DEF Cardinality, RG!Cardinality

\* A start that finds the table full overflows the registry.
LEMMA RegistryOverflow ==
    ASSUME IInv, OneThread, KnownInv, NEW t \in Threads, CheckRoom(t), count >= Max
    PROVE  RG!Overflow(arg[t]) /\ arg[t] \in Insts
<1> USE InstanceTableAssumption DEF IInv, TypeOK, table, exit
<1>1. phase = "run" /\ pc[t] = "check" /\ count = Max
  BY RunningPhase DEF CheckRoom, At
<1>2. SlotInv /\ CallInv /\ Length = Max /\ Leaving = {} /\ \A k : ~ Hole(k)
  BY <1>1, OneThreadFacts DEF RunInv
<1>3. /\ arg[t] \in Insts /\ arg[t] \notin held /\ arg[t] \notin dropped
      /\ state[arg[t]] = "up"
  BY <1>1, <1>2 DEF CallInv
<1>4. Live \ {arg[t]} = Tracked
  BY <1>1, <1>3 DEF Live, Tracked, KnownInv, OneThread
<1>5. Cardinality(Live \ {arg[t]}) = Max
  BY <1>4, FullTable
<1>6. /\ Live' = Live \ {arg[t]} /\ dropped' = dropped \cup {arg[t]}
      /\ phase' = "run"
  BY <1>1 DEF CheckRoom, Live
<1> QED
  BY <1>1, <1>3, <1>5, <1>6, SameCardinality DEF RG!Overflow, Live

\* A signal or exit() finds all running instances in the table but one at most.
LEMMA RegistryExit ==
    ASSUME IInv, OneThread, KnownInv, DropInv, NEW t \in Threads, Terminate(t)
    PROVE  RG!Exit \/ RG!Die
<1> USE InstanceTableAssumption DEF IInv, TypeOK, table, local
<1>1. /\ phase = "run" /\ SlotInv /\ seen = {} /\ i' = 0
      /\ UNCHANGED <<slots, count, state, dropped>> /\ Live' = Live
  BY DEF Terminate, RunInv, Live
<1>2. PICK z : Missed' \subseteq {z}
  BY MissTerminate DEF MissInv, Terminate
<1>3. CASE registered
  <2>1. phase' = "loop" /\ seen' = Entries /\ Reach' = Entries
    BY <1>1, <1>3 DEF Terminate, Entries, Reach
  <2>2. Entries \subseteq Live
    <3>1. ASSUME NEW k \in 0..(count - 1), slots[k] # Null PROVE slots[k] \in Live
      <4>1. k \in 0..(Length - 1) /\ k \in 0..(Max - 1)
        BY DEF Length
      <4>2. ~ Hole(k)
        BY <1>1, <3>1 DEF Hole, RunInv, CallInv
      <4> QED
        <5>1. slots[k] \in Insts /\ state[slots[k]] = "up"
          <6> HIDE DEF IInv, TypeOK, table, local
          <6> QED
            BY <1>1, <4>1, <4>2 DEF SlotInv, Entered
        <5>2. slots[k] \notin dropped
          BY <4>1 DEF DropInv
        <5> QED
          BY <5>1, <5>2 DEF Live
    <3> QED
      BY <3>1 DEF Entries
  <2>3. Live \ Entries \subseteq {z}
    BY <1>1, <1>2, <2>1 DEF Missed, Live
  <2>4. Cardinality(Live \ Entries) <= 1
    BY <2>3, AtMostOne
  <2> QED
    BY <1>1, <2>1, <2>2, <2>4, SameCardinality DEF RG!Exit
<1>4. CASE ~ registered
  <2>1. phase' = "dead" /\ seen' = {}
    BY <1>1, <1>4 DEF Terminate
  <2>2. Live \subseteq {z}
    BY <1>1, <1>2, <2>1 DEF Missed, Live
  <2>3. Cardinality(Live) <= 1
    BY <2>2, AtMostOne
  <2> QED
    BY <1>1, <2>1, <2>3, SameCardinality DEF RG!Die
<1> QED
  BY <1>3, <1>4

\* The cleanup stops an instance it knows and forgets at most the last entry.
LEMMA RegistryStop ==
    ASSUME IInv, OneThread, StopSlot
    PROVE  RG!StopNext(slots[i]) /\ slots[i] \in Insts
<1> USE DEF IInv, TypeOK
<1> DEFINE x == slots[i]
           last == count - 1
<1>1. /\ phase = "loop" /\ phase' = "loop" /\ i \in 0..last /\ last \in 0..(Max - 1)
      /\ UNCHANGED dropped /\ x # Null
  BY InstanceTableAssumption DEF StopSlot
<1>2. x \in seen /\ state[x] = "up" /\ x \in Insts
  BY <1>1 DEF LoopInv
<1>3. First(IndexesOf(x)) = i
  <2>1. IndexesOf(x) = {i}
    BY <1>1, <1>2, InstanceTableAssumption DEF IndexesOf, LoopInv
  <2> QED
    BY <1>1, <2>1, FirstOfOne
<1>4. /\ slots' = [slots EXCEPT ![i] = slots[last], ![last] = Null, ![i] = Null]
      /\ state' = [state EXCEPT ![x] = "freed"]
      /\ count' = last /\ i' = i + 1
  BY <1>3 DEF StopSlot
<1>5. \A k \in (i + 1)..(last - 1) : slots'[k] = slots[k] /\ slots[k] # x
  BY <1>1, <1>2, <1>4, InstanceTableAssumption DEF LoopInv
<1>6. /\ \A y \in Reach' : \E k \in (i + 1)..(last - 1) : y = slots[k] /\ y # Null
      /\ \A k \in (i + 1)..(last - 1) : slots[k] # Null => slots[k] \in Reach'
  <2>1. Reach' = {slots'[k] : k \in (i + 1)..(last - 1)} \ {Null}
    BY <1>4 DEF Reach
  <2> HIDE DEF x, last
  <2> QED
    BY <1>5, <2>1
<1>7. x \in Reach /\ Reach' \subseteq Reach \ {x}
  <2>1. x \in Reach
    BY <1>1 DEF Reach
  <2>2. ASSUME NEW y \in Reach' PROVE y \in Reach \ {x}
    <3>1. PICK k \in (i + 1)..(last - 1) : y = slots[k] /\ y # Null
      BY <1>6
    <3>2. k \in i..(count - 1) /\ slots[k] # x
      BY <1>1, <1>5, <3>1
    <3> QED
      BY <3>1, <3>2 DEF Reach
  <2> QED
    BY <2>1, <2>2
<1>8. Cardinality((Reach \ {x}) \ Reach') <= 1
  <2>1. ASSUME NEW y \in Reach, y # x, y \notin Reach' PROVE y = slots[last]
    <3>1. PICK k \in i..last : y = slots[k] /\ y # Null
      BY DEF Reach
    <3>2. k = i \/ k = last \/ k \in (i + 1)..(last - 1)
      BY <1>1, <3>1
    <3> QED
      BY <1>6, <2>1, <3>1, <3>2
  <2>2. (Reach \ {x}) \ Reach' \subseteq {slots[last]}
    BY <2>1
  <2> QED
    BY <2>2, AtMostOne
<1>9. Live' = Live \ {x}
  BY <1>1, <1>2, <1>4 DEF Live
<1> QED
  BY <1>1, <1>2, <1>7, <1>8, <1>9, SameCardinality DEF RG!StopNext

LEMMA RegistryStep ==
    ASSUME IInv, OneThread, KnownInv, DropInv, [Next]_vars
    PROVE  [RG!Next]_(RG!vars)
<1> USE InstanceTableAssumption DEF IInv, TypeOK, table, local, exit
<1>1. ASSUME NEW t \in Threads, NEW x \in Insts, Boot(t, x) PROVE RG!Add(x)
  <2>1. phase = "run" /\ x \notin dropped
    BY <1>1, RunningPhase DEF Boot, RunInv
  <2> QED
    BY <1>1, <2>1 DEF Boot, Live, RG!Add
<1>2. ASSUME NEW t \in Threads, NEW x \in Insts, ConnectExisting(t, x) \/ Stop(t, x)
      PROVE  UNCHANGED RG!vars
  BY <1>2, RunningPhase DEF ConnectExisting, Stop, Live, Reach, RG!vars
<1>3. ASSUME NEW t \in Threads,
             Register(t) \/ ReadCount(t) \/ BumpCount(t) \/ StoreSlot(t) \/ Untrack(t)
      PROVE  UNCHANGED RG!vars
  <2>1. phase = "run" /\ UNCHANGED <<phase, state, dropped>>
    BY <1>3, RunningPhase DEF Register, ReadCount, BumpCount, StoreSlot, Untrack,
       Find, Decrement, MoveLast, ClearLast
  <2> QED
    BY <2>1 DEF Live, RG!vars
<1>4. ASSUME NEW t \in Threads, CheckRoom(t), count < Max PROVE UNCHANGED RG!vars
  BY <1>4, RunningPhase DEF CheckRoom, Live, RG!vars
<1>5. ASSUME NEW t \in Threads, Shutdown(t)
      PROVE  (RG!Remove(arg[t]) /\ arg[t] \in Insts) \/ UNCHANGED RG!vars
  <2>1. phase = "run" /\ phase' = "run" /\ UNCHANGED dropped
    BY <1>5, RunningPhase DEF Shutdown
  <2>2. arg[t] \in Insts
    BY <1>5, <2>1 DEF Shutdown, At, RunInv, CallInv
  <2>3. Live' = Live \ {arg[t]}
    BY <1>5, <2>1, <2>2 DEF Shutdown, Live
  <2> QED
    BY <2>1, <2>2, <2>3 DEF RG!Remove, RG!vars
<1>6. ASSUME SkipSlot PROVE UNCHANGED RG!vars
  <2>1. Reach' = Reach
    BY <1>6 DEF SkipSlot, Reach
  <2> QED
    BY <1>6, <2>1 DEF SkipSlot, Live, RG!vars
<1>7. ASSUME EndLoop PROVE RG!Finish
  <2>1. Reach = {}
    BY <1>7 DEF EndLoop, Reach
  <2> QED
    BY <1>7, <2>1 DEF EndLoop, Live, RG!Finish
<1>8. CASE UNCHANGED vars
  BY <1>8 DEF vars, Live, Reach, RG!vars
<1>9. ASSUME NEW t \in Threads, CheckRoom(t)
      PROVE  RG!Next \/ UNCHANGED RG!vars
  BY <1>9, <1>4, RegistryOverflow DEF RG!Next
<1>10. ASSUME NEW t \in Threads, Terminate(t) PROVE RG!Next
  BY <1>10, RegistryExit DEF RG!Next
<1>11. ASSUME StopSlot PROVE RG!Next
  BY <1>11, RegistryStop DEF RG!Next
<1>12. ASSUME Next PROVE RG!Next \/ UNCHANGED RG!vars
  BY <1>12, <1>1, <1>2, <1>3, <1>5, <1>6, <1>7, <1>9, <1>10, <1>11
     DEF Next, Track, Cleanup, RG!Next
<1> QED
  BY <1>8, <1>12

\* For one thread the table keeps the promise of Registry: what is known is what
\* runs, and the cleanup stops only that (pg_shim.c:44-67, 217-238).
THEOREM RegistryKept ==
    ASSUME OneThread
    PROVE  Spec => KeepsRegistry
<1>1. Init => RG!Init
  BY DEF Init, RG!Init, Live
<1>2. Init => KnownInv /\ DropInv
  BY InstanceTableAssumption DEF Init, KnownInv, DropInv
<1>3. IInv /\ IInv' /\ KnownInv /\ DropInv /\ [Next]_vars => KnownInv' /\ DropInv'
  BY KnownStep, DropStep
<1>4. IInv /\ KnownInv /\ DropInv /\ [Next]_vars => [RG!Next]_(RG!vars)
  BY RegistryStep
<1> QED
  BY <1>1, <1>2, <1>3, <1>4, IInvHolds, PTL DEF Spec, KeepsRegistry, RG!Spec
=============================================================================
