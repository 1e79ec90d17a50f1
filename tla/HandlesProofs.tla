---------------------------- MODULE HandlesProofs ----------------------------
(***************************************************************************)
(* Handles proved for every finite set of threads, every harbor and every  *)
(* number of launches: its types, the reference counts, what a deleted     *)
(* context is out of reach of, the names, and what failed creates and      *)
(* ABORT leave behind.                                                     *)
(*                                                                         *)
(* All of it rests on one inductive invariant, IInv.  Its parts lean on    *)
(* each other: a reader that found a context may count it only because the *)
(* table still does (CallOK, "grab"); a launcher may release only because  *)
(* nobody else launches the same context (LaunchInv); and the table has    *)
(* room because handles and numbered contexts are equally many (TableInv). *)
(* Each part is kept by every step, in a lemma of its own.                 *)
(***************************************************************************)
EXTENDS Handles, FiniteSetTheorems, TLAPS

\* Where a thread inside create may be.
Launching == {"reg", "new_queue", "init", "release_launched", "set_init", "push_queue",
              "release_failed", "read_handle", "retire_failed"}

TableOf(c) == {h \in Handle : h2c[h] = c}
Holders(c) == {t \in Threads : Holds(t, c)}
Numbered   == {c \in Contexts : handle[c] # 0}

Registering(c) == \E t \in Threads : cur[t] = c /\ At(t, "reg")

\* A table entry is its context's handle; handles are handed out in order.
TableInv ==
    /\ \A h \in Handle : h2c[h] # NoCtx => h # 0 /\ handle[h2c[h]] = h
    /\ \A c \in Numbered : \E k \in 1 .. handle_index - 1 : handle[c] = HandleOf(k)
    /\ Cardinality(Numbered) = handle_index - 1

\* What a thread may rely on about the context it works on, at each label.
CallOK(t) ==
    /\ cur[t] # NoCtx => cur[t] <= created
    /\ pc[t] \in Launching \cup {"grab", "use", "put", "lost"} => cur[t] # NoCtx
    /\ pc[t] = "reg" => handle[cur[t]] = 0
    /\ pc[t] \in Launching \ {"reg"} => handle[cur[t]] # 0
    /\ pc[t] \in {"reg", "new_queue"} => cur[t] \notin queued
    /\ pc[t] \in Launching \ {"reg", "new_queue"} => cur[t] \in queued
    /\ pc[t] \in Launching => cur[t] \notin scheduled \cup failed
    /\ pc[t] = "push_queue" => cur[t] \in inited \cup deleted
    /\ pc[t] = "retire_failed" => cur[t] \in deleted \/ arg[t] = handle[cur[t]]
    /\ pc[t] = "grab" => h2c[handle[cur[t]]] = cur[t]
    /\ next[t] # 0 => pc[t] \in {"look", "retire_next", "put"}
    /\ pc[t] \in {"look", "retire_next"} => next[t] # 0
    /\ pc[t] = "retire_next" => next[t] < handle_index

\* A context is launched by one thread, and known to it alone until it is registered.
LaunchInv ==
    /\ \A t, u \in Threads :
          t # u /\ pc[t] \in Launching /\ (pc[t] = "reg" \/ pc[u] \in Launching) => cur[t] # cur[u]
    /\ \A c \in 1 .. created \ queued :
          \E t \in Threads : cur[t] = c /\ pc[t] \in {"reg", "new_queue"}
    /\ \A c \in Contexts : c > created => handle[c] = 0 /\ ref[c] = 0
    /\ failed \subseteq 1 .. created

CallInv == \A t \in Threads : CallOK(t)

\* The count itself: 2 from the start, before there is anything to count.
RefInv ==
    /\ \A c \in Contexts :
          IF Registering(c) THEN ref[c] = 2
          ELSE ref[c] = Cardinality(TableOf(c)) + Cardinality(Holders(c))
    /\ \A c \in deleted : ref[c] = 0

IInv == TypeOK /\ TableInv /\ CallInv /\ LaunchInv /\ RefInv
-----------------------------------------------------------------------------
\* The numbers of this node's handles are distinct, and handle 0 is none of them.
LEMMA HandleOfFacts ==
    /\ \A k \in Nat : HandleOf(k) \in Nat /\ HandleOf(k) >= k
    /\ \A j, k \in Nat : HandleOf(j) = HandleOf(k) => j = k
    /\ \A k \in 1 .. MaxLaunch : HandleOf(k) \in Handle \ {0}
    /\ Handle \subseteq Nat /\ 0 \in Handle /\ 0 .. MaxLaunch \subseteq Handle
<1> DEFINE base == Harbor * 2 ^ HANDLE_REMOTE_SHIFT
<1>1. base \in Nat
  BY HarborAssumption
<1>2. \A k : HandleOf(k) = base + k
  BY DEF HandleOf
<1> HIDE DEF base
<1>3. QED
  BY <1>1, <1>2, MaxLaunchAssumption DEF Handle

\* Sets of contexts, handles and threads are finite.
LEMMA Finite ==
    /\ IsFiniteSet(Handle)
    /\ IsFiniteSet(Contexts)
    /\ \A c : IsFiniteSet(TableOf(c)) /\ IsFiniteSet(Holders(c))
    /\ IsFiniteSet(Numbered)
<1>1. IsFiniteSet(0 .. HandleOf(MaxLaunch)) /\ IsFiniteSet(1 .. MaxLaunch)
  BY FS_Interval, HandleOfFacts, MaxLaunchAssumption
<1>2. Handle \subseteq 0 .. HandleOf(MaxLaunch)
  BY HarborAssumption, HandleOfFacts, MaxLaunchAssumption DEF Handle, HandleOf
<1>3. IsFiniteSet(Handle) /\ IsFiniteSet(Contexts)
  BY <1>1, <1>2, FS_Subset DEF Contexts
<1>4. QED
  BY <1>3, FS_Subset, ThreadsAssumption DEF TableOf, Holders, Numbered
-----------------------------------------------------------------------------
\* Nothing is launched, registered or counted at first.
LEMMA InitInv == Init => IInv
<1> SUFFICES ASSUME Init PROVE IInv
  OBVIOUS
<1> USE DEF Init
<1>1. TypeOK
  <2>1. 0 \in Handle
    BY HandleOfFacts
  <2>2. QED
    BY <2>1, MaxLaunchAssumption DEF TypeOK, Contexts, Labels
<1>2. Numbered = {} /\ \A c \in Contexts : TableOf(c) = {} /\ Holders(c) = {} /\ ~Registering(c)
  BY NullAssumption DEF Numbered, TableOf, Holders, Holds, Contexts, Registering, At, Building
<1>3. TableInv
  BY <1>2, FS_EmptySet DEF TableInv
<1>4. CallInv /\ LaunchInv
  BY DEF CallInv, CallOK, LaunchInv, Launching, Contexts
<1>5. RefInv
  BY <1>2, FS_EmptySet, SMTT(30) DEF RefInv
<1>6. QED
  BY <1>1, <1>3, <1>4, <1>5 DEF IInv
-----------------------------------------------------------------------------
\* Whoever holds a context, or finds it in the table, has counted a reference to it.
LEMMA Counted ==
    ASSUME IInv, NEW c \in Contexts
    PROVE  /\ ref[c] \in Nat
           /\ \A t \in Threads : Holds(t, c) => ~Registering(c) /\ ref[c] >= 1 /\ c \notin deleted
           /\ \A h \in Handle : h2c[h] = c => ~Registering(c) /\ ref[c] >= 1 /\ c \notin deleted
           /\ \A t, u \in Threads : Holds(t, c) /\ Holds(u, c) /\ t # u => ref[c] >= 2
<1> USE DEF IInv
<1>1. ref[c] \in Nat /\ Cardinality(TableOf(c)) \in Nat /\ Cardinality(Holders(c)) \in Nat
  BY Finite, FS_CardinalityType DEF TypeOK
<1>2. ASSUME NEW t \in Threads, Holds(t, c) PROVE ~Registering(c)
  <2>1. ASSUME NEW u \in Threads, cur[u] = c, pc[u] = "reg" PROVE FALSE
    BY <1>2, <2>1 DEF Holds, Building, LaunchInv, Launching
  <2>2. QED
    BY <2>1 DEF Registering, At
<1>3. ASSUME NEW h \in Handle, h2c[h] = c PROVE ~Registering(c)
  BY <1>3, NullAssumption DEF TableInv, CallInv, CallOK, Registering, At, Contexts
<1>4. ASSUME NEW t \in Threads, Holds(t, c) PROVE ref[c] >= 1
  <2>1. Cardinality(Holders(c)) # 0
    BY <1>4, Finite, FS_EmptySet DEF Holders
  <2>2. QED
    BY <1>1, <1>2, <1>4, <2>1 DEF RefInv
<1>5. ASSUME NEW h \in Handle, h2c[h] = c PROVE ref[c] >= 1
  <2>1. Cardinality(TableOf(c)) # 0
    BY <1>5, Finite, FS_EmptySet DEF TableOf
  <2>2. QED
    BY <1>1, <1>3, <1>5, <2>1 DEF RefInv
<1>6. ASSUME NEW t \in Threads, NEW u \in Threads, Holds(t, c), Holds(u, c), t # u PROVE ref[c] >= 2
  <2>1. Cardinality(Holders(c)) # 0 /\ Cardinality(Holders(c)) # 1
    BY <1>6, Finite, FS_EmptySet, FS_Singleton DEF Holders
  <2>2. QED
    BY <1>1, <1>2, <1>6, <2>1 DEF RefInv
<1>7. QED
  BY <1>1, <1>2, <1>3, <1>4, <1>5, <1>6 DEF RefInv

\* A context on which nobody but its launcher has got so far has a queue, or two references.
LEMMA QueuedOrCounted ==
    ASSUME IInv, NEW t \in Threads, pc[t] \in {"release_launched", "release_failed", "put"}
    PROVE  /\ cur[t] \in Contexts /\ Holds(t, cur[t])
           /\ ref[cur[t]] \in Nat \ {0}
           /\ ref[cur[t]] = 1 => cur[t] \in queued
<1> USE DEF IInv
<1>1. cur[t] \in Contexts /\ cur[t] \in 1 .. created /\ Holds(t, cur[t])
  BY DEF TypeOK, CallInv, CallOK, Launching, Holds, Building, Contexts
<1>2. ASSUME cur[t] \notin queued PROVE ref[cur[t]] # 1
  <2>1. PICK u \in Threads : cur[u] = cur[t] /\ pc[u] \in {"reg", "new_queue"}
    BY <1>1, <1>2 DEF LaunchInv
  <2>2. pc[u] = "new_queue" /\ u # t
    BY <1>1, <2>1, Counted DEF Registering, At
  <2>3. Holds(u, cur[t])
    BY <2>1, <2>2 DEF Holds, Building
  <2>4. QED
    BY <1>1, <2>2, <2>3, Counted
<1>3. QED
  BY <1>1, <1>2, Counted

\* Every step keeps the types: the table never runs out of handles, and no
\* count is taken below zero.
LEMMA TypeStep == IInv /\ [Next]_vars => TypeOK'
<1> SUFFICES ASSUME IInv, [Next]_vars PROVE TypeOK'
  OBVIOUS
<1> USE MaxLaunchAssumption DEF TypeOK, Contexts, At, Goto, maps, life, abort
<1>0. TypeOK /\ \A t \in Threads : CallOK(t)
  BY DEF IInv, CallInv
<1>1. ASSUME NEW t \in Threads, Create(t) PROVE TypeOK'
  BY <1>0, <1>1 DEF Create, Labels
<1>2. ASSUME NEW t \in Threads, BeginAbort(t) PROVE TypeOK'
  BY <1>0, <1>2 DEF BeginAbort, Labels
<1>3. ASSUME NEW t \in Threads, NEW h \in Handle, RemoveHandle(t, h)
      PROVE  /\ h2c' \in [Handle -> Contexts \cup {NoCtx}]
             /\ h2n' \in [Handle -> Names \cup {NoName}]
             /\ n2h' \in [Names -> Handle]
             /\ pc' \in [Threads -> Labels]
             /\ cur' \in [Threads -> Contexts \cup {NoCtx}]
             /\ arg' \in [Threads -> Handle]
  <2>1. 0 \in Handle
    BY HandleOfFacts
  <2>2. h2n[h] # NoName => h2n[h] \in Names
    BY <1>0
  <2>3. h2c[h] \in Contexts \cup {NoCtx}
    BY <1>0
  <2>4. h2c' \in [Handle -> Contexts \cup {NoCtx}] /\ h2n' \in [Handle -> Names \cup {NoName}]
    BY <1>0, <1>3 DEF RemoveHandle
  <2>5. n2h' \in [Names -> Handle]
    BY <1>0, <1>3, <2>1, <2>2 DEF RemoveHandle
  <2>6. cur' \in [Threads -> Contexts \cup {NoCtx}] /\ arg' \in [Threads -> Handle]
    BY <1>0, <1>3, <2>1, <2>3 DEF RemoveHandle, Return
  <2>7. pc' \in [Threads -> Labels]
    BY <1>0, <1>3 DEF RemoveHandle, Return, Labels
  <2>8. QED
    BY <2>4, <2>5, <2>6, <2>7
<1>4. ASSUME NEW t \in Threads, NEW h \in Handle, Retire(t, h) PROVE TypeOK'
  BY <1>0, <1>3, <1>4 DEF Retire
<1>5. ASSUME NEW t \in Threads, NEW h \in Handle, Find(t, h) PROVE TypeOK'
  BY <1>0, <1>5 DEF Find, Labels
<1>6. ASSUME NEW t \in Threads, NEW h \in Handle, NEW n \in Names, RegName(t, h, n) PROVE TypeOK'
  BY <1>0, <1>6 DEF RegName
<1>7. ASSUME NEW t \in Threads, Reg(t) PROVE TypeOK'
  <2>1. cur[t] \in Contexts \ Numbered
    BY <1>0, <1>7 DEF Reg, CallOK, Launching, Numbered
  <2>2. IsFiniteSet(Contexts) /\ Cardinality(Contexts) = MaxLaunch
    BY FS_Interval
  <2>3. Cardinality(Numbered) <= MaxLaunch - 1
    <3>1. IsFiniteSet(Contexts \ {cur[t]}) /\ Cardinality(Contexts \ {cur[t]}) = MaxLaunch - 1
      BY <2>1, <2>2, FS_RemoveElement
    <3>2. Numbered \subseteq Contexts \ {cur[t]}
      BY <2>1 DEF Numbered
    <3>3. QED
      BY <3>1, <3>2, FS_Subset, ZenonT(40)
  <2>4. handle_index <= MaxLaunch
    BY <1>0, <2>3 DEF IInv, TableInv
  <2>5. HandleOf(handle_index) \in Handle
    BY <1>0, <2>4, HandleOfFacts
  <2>6. pc' \in [Threads -> Labels] /\ handle_index' \in 1 .. MaxLaunch + 1
    BY <1>0, <1>7, <2>4 DEF Reg, Labels
  <2>7. h2c' \in [Handle -> Contexts \cup {NoCtx}] /\ handle' \in [Contexts -> Handle]
    BY <1>0, <1>7, <2>1, <2>5 DEF Reg
  <2>8. UNCHANGED <<h2n, n2h, ref, created, deleted, queued, inited, scheduled, cur, arg, abort, failed>>
    BY <1>7 DEF Reg
  <2>9. QED
    BY <1>0, <2>6, <2>7, <2>8
<1>8. ASSUME NEW t \in Threads, NewQueue(t) PROVE TypeOK'
  <2>1. cur[t] \in 1 .. created
    BY <1>0, <1>8 DEF NewQueue, CallOK, Launching
  <2>2. QED
    BY <1>0, <1>8, <2>1 DEF NewQueue, Labels
<1>9. ASSUME NEW t \in Threads, CallInit(t) PROVE TypeOK'
  BY <1>0, <1>9 DEF CallInit, Labels
<1>10. ASSUME NEW t \in Threads, Release(cur[t]),
              pc[t] \in {"release_launched", "release_failed", "put"}
       PROVE  ref' \in [Contexts -> Nat] /\ deleted' \subseteq queued
  <2>1. cur[t] \in Contexts /\ ref[cur[t]] \in Nat \ {0} /\ (ref[cur[t]] = 1 => cur[t] \in queued)
    BY <1>10, QueuedOrCounted
  <2>2. ref[cur[t]] - 1 \in Nat
    BY <2>1
  <2>3. QED
    BY <1>0, <1>10, <2>1, <2>2 DEF Release
<1>11. ASSUME NEW t \in Threads, ReleaseLaunched(t) PROVE TypeOK'
  BY <1>0, <1>10, <1>11 DEF ReleaseLaunched, Labels
<1>12. ASSUME NEW t \in Threads, ReleaseFailed(t) PROVE TypeOK'
  BY <1>0, <1>10, <1>12 DEF ReleaseFailed, Labels
<1>13. ASSUME NEW t \in Threads, Put(t) PROVE TypeOK'
  <2>1. 0 \in Handle
    BY HandleOfFacts
  <2>2. QED
    BY <1>0, <1>10, <1>13, <2>1 DEF Put, Return, Labels
<1>14. ASSUME NEW t \in Threads, SetInit(t) PROVE TypeOK'
  BY <1>0, <1>14, ZenonT(40) DEF SetInit, CallOK, Launching, Labels
<1>15. ASSUME NEW t \in Threads, PushQueue(t) PROVE TypeOK'
  <2>1. 0 \in Handle
    BY HandleOfFacts
  <2>2. cur[t] \in queued \ failed
    BY <1>0, <1>15 DEF PushQueue, CallOK, Launching
  <2>3. QED
    BY <1>0, <1>15, <2>1, <2>2 DEF PushQueue, Return, Labels
<1>16. ASSUME NEW t \in Threads, ReadHandle(t) PROVE TypeOK'
  BY <1>0, <1>16 DEF ReadHandle, Labels
<1>17. ASSUME NEW t \in Threads, RetireFailed(t) PROVE TypeOK'
  <2>1. cur[t] \notin scheduled
    BY <1>0, <1>17 DEF RetireFailed, CallOK, Launching
  <2>2. QED
    BY <1>0, <1>3, <1>17, <2>1 DEF RetireFailed
<1>18. ASSUME NEW t \in Threads, RetireNext(t) PROVE TypeOK'
  <2>1. next[t] \in 0 .. MaxLaunch + 1 /\ next[t] < handle_index
    BY <1>0, <1>18 DEF RetireNext, CallOK
  <2>2. next[t] \in Handle /\ next[t] + 1 \in 0 .. MaxLaunch + 1
    <3>1. 0 .. MaxLaunch \subseteq Handle
      BY HandleOfFacts
    <3>2. QED
      BY <1>0, <2>1, <3>1
  <2>3. QED
    BY <1>0, <1>3, <1>18, <2>2 DEF RetireNext
<1>19. ASSUME NEW t \in Threads, Look(t) PROVE TypeOK'
  BY <1>0, <1>19 DEF Look, Labels
<1>20. ASSUME NEW t \in Threads, Skip(t) PROVE TypeOK'
  BY <1>0, <1>20 DEF Skip
<1>21. ASSUME NEW t \in Threads, EndAbort(t) \/ ReturnFromAbort(t) PROVE TypeOK'
  <2>1. CASE EndAbort(t)
    BY <1>0, <2>1 DEF EndAbort, Labels
  <2>2. CASE ReturnFromAbort(t)
    BY <1>0, <2>2 DEF ReturnFromAbort, Labels
  <2>3. QED
    BY <1>21, <2>1, <2>2
<1>22. ASSUME NEW t \in Threads, Grab(t) PROVE TypeOK'
  BY <1>0, <1>22, SMTT(30) DEF Grab, CallOK, Labels
<1>23. ASSUME NEW t \in Threads, Use(t) PROVE TypeOK'
  BY <1>0, <1>23 DEF Use, Labels
<1>24. CASE UNCHANGED vars
  BY <1>0, <1>24 DEF vars
<1>25. QED
  BY <1>1, <1>2, <1>4, <1>5, <1>6, <1>7, <1>8, <1>9, <1>11, <1>12, <1>13, <1>14, <1>15, <1>16,
     <1>17, <1>18, <1>19, <1>20, <1>21, <1>22, <1>23, <1>24 DEF Next, Begin, Continue
-----------------------------------------------------------------------------
\* The table and the handles change when a context is registered or a handle is retired.
LEMMA TableSteps ==
    ASSUME IInv, [Next]_vars
    PROVE  \/ UNCHANGED <<handle_index, h2c, h2n, n2h, handle>>
           \/ \E t \in Threads, h \in Handle, n \in Names : RegName(t, h, n)
           \/ \E t \in Threads : Reg(t)
           \/ \E t \in Threads, h \in Handle : RemoveHandle(t, h) /\ UNCHANGED <<handle_index, handle>>
<1> USE DEF maps, life
<1>1. TypeOK /\ TypeOK' /\ \A t \in Threads : CallOK(t)
  BY TypeStep DEF IInv, CallInv
<1>2. ASSUME NEW t \in Threads, RetireFailed(t)
      PROVE  arg[t] \in Handle /\ RemoveHandle(t, arg[t]) /\ UNCHANGED <<handle_index, handle>>
  BY <1>1, <1>2 DEF RetireFailed, TypeOK
<1>3. ASSUME NEW t \in Threads, RetireNext(t)
      PROVE  next[t] \in Handle /\ RemoveHandle(t, next[t]) /\ UNCHANGED <<handle_index, handle>>
  <2>1. next[t] \in 0 .. MaxLaunch + 1 /\ next[t] < handle_index /\ handle_index \in 1 .. MaxLaunch + 1
    BY <1>1, <1>3 DEF RetireNext, CallOK, TypeOK, At
  <2>2. next[t] \in 0 .. MaxLaunch
    BY <2>1, MaxLaunchAssumption
  <2>3. QED
    BY <1>3, <2>2, HandleOfFacts DEF RetireNext
<1>4. ASSUME NEW t \in Threads, Begin(t) PROVE
           \/ UNCHANGED <<handle_index, h2c, h2n, n2h, handle>>
           \/ \E h \in Handle, n \in Names : RegName(t, h, n)
           \/ \E h \in Handle : RemoveHandle(t, h) /\ UNCHANGED <<handle_index, handle>>
  BY <1>4 DEF Begin, Create, BeginAbort, Retire, Find
<1>5. ASSUME NEW t \in Threads, Continue(t), ~Reg(t), ~RetireFailed(t), ~RetireNext(t)
      PROVE  UNCHANGED <<handle_index, h2c, h2n, n2h, handle>>
  BY <1>5 DEF Continue, NewQueue, CallInit, ReleaseLaunched, SetInit, PushQueue, ReleaseFailed, ReadHandle,
     Look, Skip, EndAbort, ReturnFromAbort, Grab, Use, Put
<1>6. QED
  BY <1>2, <1>3, <1>4, <1>5 DEF Next, vars

\* A handle is registered once, for one context.
LEMMA TableStep == IInv /\ [Next]_vars => TableInv'
<1> SUFFICES ASSUME IInv, [Next]_vars PROVE TableInv'
  OBVIOUS
<1>1. TypeOK /\ TypeOK' /\ TableInv
  BY TypeStep DEF IInv
<1>2. CASE UNCHANGED <<handle_index, h2c, handle>>
  BY <1>1, <1>2 DEF TableInv, Numbered
<1>3. ASSUME NEW t \in Threads, NEW h \in Handle, RemoveHandle(t, h), UNCHANGED <<handle_index, handle>>
      PROVE  TableInv'
  <2>1. Numbered' = Numbered
    BY <1>3 DEF Numbered
  <2>2. \A k \in Handle : h2c'[k] # NoCtx => h2c'[k] = h2c[k]
    BY <1>1, <1>3 DEF RemoveHandle, TypeOK
  <2>3. QED
    BY <1>1, <1>3, <2>1, <2>2 DEF TableInv
<1>4. ASSUME NEW t \in Threads, Reg(t) PROVE TableInv'
  <2> DEFINE h == HandleOf(handle_index)
  <2>1. cur[t] \in Contexts /\ handle[cur[t]] = 0
    BY <1>1, <1>4 DEF Reg, IInv, CallInv, CallOK, Launching, TypeOK, At
  <2>2. handle_index \in Nat \ {0} /\ handle_index <= MaxLaunch
    BY <1>1, <1>4, MaxLaunchAssumption DEF Reg, TypeOK
  <2>3. h \in Handle \ {0}
    BY <2>2, HandleOfFacts, MaxLaunchAssumption
  <2>4. /\ handle_index' = handle_index + 1
        /\ handle' = [handle EXCEPT ![cur[t]] = h]
        /\ h2c' = [h2c EXCEPT ![h] = cur[t]]
    BY <1>4 DEF Reg
  <2> HIDE DEF h
  <2>5. Numbered' = Numbered \cup {cur[t]} /\ cur[t] \notin Numbered
    BY <1>1, <2>1, <2>3, <2>4 DEF Numbered, TypeOK
  <2>6. Cardinality(Numbered') = Cardinality(Numbered) + 1
    BY <2>5, Finite, FS_AddElement
  <2>7. ASSUME NEW c \in Numbered' PROVE \E k \in 1 .. handle_index' - 1 : handle'[c] = HandleOf(k)
    <3>1. CASE c = cur[t]
      <4>1. handle'[c] = HandleOf(handle_index) /\ handle_index \in 1 .. handle_index' - 1
        BY <1>1, <2>1, <2>2, <2>4, <3>1 DEF TypeOK, h
      <4>2. QED
        BY <4>1
    <3>2. CASE c # cur[t]
      <4>1. c \in Numbered /\ handle'[c] = handle[c]
        BY <1>1, <2>4, <2>5, <3>2 DEF TypeOK, Numbered
      <4>2. PICK k \in 1 .. handle_index - 1 : handle[c] = HandleOf(k)
        BY <1>1, <4>1 DEF TableInv
      <4>3. QED
        BY <2>2, <2>4, <4>1, <4>2
    <3>3. QED
      BY <3>1, <3>2
  <2>8. ASSUME NEW k \in Handle, h2c'[k] # NoCtx PROVE k # 0 /\ handle'[h2c'[k]] = k
    <3>1. CASE k = h
      BY <1>1, <2>1, <2>3, <2>4, <3>1 DEF TypeOK
    <3>2. CASE k # h
      <4>1. h2c'[k] = h2c[k] /\ k # 0 /\ handle[h2c[k]] = k /\ h2c[k] # cur[t]
        BY <1>1, <2>1, <2>8, <2>4, <3>2 DEF TypeOK, TableInv
      <4>2. QED
        BY <1>1, <2>4, <2>8, <4>1 DEF TypeOK
    <3>3. QED
      BY <3>1, <3>2
  <2>9. Cardinality(Numbered') = handle_index' - 1
    BY <1>1, <2>2, <2>4, <2>6 DEF TableInv
  <2>10. QED
    BY <2>7, <2>8, <2>9 DEF TableInv
<1>5. QED
  BY <1>2, <1>3, <1>4, TableSteps DEF RegName, life
-----------------------------------------------------------------------------
\* What the steps of other threads leave alone of a call.
Untouched(u) ==
    /\ pc'[u] = pc[u] /\ cur'[u] = cur[u] /\ arg'[u] = arg[u] /\ next'[u] = next[u]
    /\ created <= created' /\ handle_index <= handle_index'
    /\ inited \subseteq inited' /\ deleted \subseteq deleted'
    /\ pc[u] \in Launching =>
          /\ handle'[cur[u]] = handle[cur[u]]
          /\ cur[u] \in queued' <=> cur[u] \in queued
          /\ cur[u] \in scheduled' \cup failed' => cur[u] \in scheduled \cup failed
    /\ pc[u] = "grab" => handle'[cur[u]] = handle[cur[u]] /\ h2c'[handle[cur[u]]] = h2c[handle[cur[u]]]

\* It is enough to look at the thread that moves.
LEMMA OtherCalls ==
    ASSUME IInv, TypeOK', NEW t \in Threads, CallOK(t)', \A u \in Threads \ {t} : Untouched(u)
    PROVE  CallInv'
<1> SUFFICES ASSUME NEW u \in Threads, u # t PROVE CallOK(u)'
  BY DEF CallInv
<1>1. cur[u] # NoCtx => cur[u] \in Nat
  BY MaxLaunchAssumption DEF IInv, TypeOK, Contexts
<1>2. /\ next[u] \in Nat
      /\ created \in Nat /\ created' \in Nat /\ handle_index \in Nat /\ handle_index' \in Nat
  BY MaxLaunchAssumption DEF IInv, TypeOK
<1>3. CallOK(u) /\ Untouched(u)
  BY DEF IInv, CallInv
<1>4. QED
  BY <1>1, <1>2, <1>3 DEF CallOK, Untouched, Launching
-----------------------------------------------------------------------------
\* Only the launcher of a context changes what launchers know of it.
LEMMA CallStep == IInv /\ [Next]_vars => CallInv'
<1> SUFFICES ASSUME IInv, [Next]_vars PROVE CallInv'
  OBVIOUS
<1> USE DEF At, Goto, maps, life, abort
<1>0. TypeOK /\ TypeOK' /\ LaunchInv /\ \A t \in Threads : CallOK(t)
  BY TypeStep DEF IInv, CallInv
<1>30. created \in Nat /\ handle_index \in Nat
  BY <1>0, MaxLaunchAssumption DEF TypeOK
<1>31. \A h \in Handle : h2c[h] # NoCtx => h2c[h] \in 1 .. created /\ h # 0 /\ handle[h2c[h]] = h
  BY <1>0, <1>30, MaxLaunchAssumption DEF TypeOK, IInv, TableInv, LaunchInv, Contexts
<1>32. \A t, u \in Threads : t # u /\ pc[t] \in Launching /\ pc[u] \in Launching => cur[t] # cur[u]
  BY <1>0 DEF LaunchInv
<1>1. ASSUME NEW t \in Threads, Create(t) PROVE CallInv'
  <2>1. /\ created + 1 \in Contexts /\ created + 1 <= created' /\ created + 1 # NoCtx
        /\ handle[created + 1] = 0 /\ created + 1 \notin queued \cup scheduled \cup failed
    BY <1>0, <1>30, <1>1, MaxLaunchAssumption, NullAssumption DEF Create, TypeOK, LaunchInv, Contexts
  <2>4. next[t] = 0
    BY <1>0, <1>1 DEF Create, CallOK
  <2>5. cur'[t] = created + 1 /\ pc'[t] = "reg" /\ UNCHANGED <<handle, queued, scheduled, failed, next>>
    BY <1>0, <1>1 DEF Create, TypeOK
  <2>6. CallOK(t)'
    BY <2>1, <2>4, <2>5 DEF CallOK, Launching
  <2>2. \A u \in Threads \ {t} : Untouched(u)
    BY <1>0, <1>30, <1>1 DEF Create, Untouched, TypeOK
  <2>3. QED
    BY <1>0, <2>2, <2>6, OtherCalls
<1>2. ASSUME NEW t \in Threads, BeginAbort(t) PROVE CallInv'
  <2>1. CallOK(t)'
    BY <1>0, <1>2 DEF BeginAbort, CallOK, Launching, TypeOK
  <2>2. \A u \in Threads \ {t} : Untouched(u)
    BY <1>0, <1>30, <1>2 DEF BeginAbort, Untouched, TypeOK
  <2>3. QED
    BY <1>0, <2>1, <2>2, OtherCalls
<1>3. ASSUME NEW t \in Threads, CallInit(t) PROVE CallInv'
  <2>1. CallOK(t)'
    BY <1>0, <1>3 DEF CallInit, CallOK, Launching, TypeOK
  <2>2. \A u \in Threads \ {t} : Untouched(u)
    BY <1>0, <1>30, <1>3 DEF CallInit, Untouched, TypeOK
  <2>3. QED
    BY <1>0, <2>1, <2>2, OtherCalls
<1>4. ASSUME NEW t \in Threads, ReadHandle(t) PROVE CallInv'
  <2>1. CallOK(t)'
    BY <1>0, <1>4 DEF ReadHandle, CallOK, Launching, TypeOK
  <2>2. \A u \in Threads \ {t} : Untouched(u)
    BY <1>0, <1>30, <1>4 DEF ReadHandle, Untouched, TypeOK
  <2>3. QED
    BY <1>0, <2>1, <2>2, OtherCalls
<1>5. ASSUME NEW t \in Threads, Look(t) PROVE CallInv'
  <2>1. CallOK(t)'
    BY <1>0, <1>5 DEF Look, CallOK, Launching, TypeOK
  <2>2. \A u \in Threads \ {t} : Untouched(u)
    BY <1>0, <1>30, <1>5 DEF Look, Untouched, TypeOK
  <2>3. QED
    BY <1>0, <2>1, <2>2, OtherCalls
<1>6. ASSUME NEW t \in Threads, Skip(t) PROVE CallInv'
  <2>1. CallOK(t)'
    BY <1>0, <1>6 DEF Skip, CallOK, Launching, TypeOK
  <2>2. \A u \in Threads \ {t} : Untouched(u)
    BY <1>0, <1>30, <1>6 DEF Skip, Untouched, TypeOK
  <2>3. QED
    BY <1>0, <2>1, <2>2, OtherCalls
<1>7. ASSUME NEW t \in Threads, EndAbort(t) PROVE CallInv'
  <2>1. CallOK(t)'
    BY <1>0, <1>7 DEF EndAbort, CallOK, Launching, TypeOK
  <2>2. \A u \in Threads \ {t} : Untouched(u)
    BY <1>0, <1>30, <1>7 DEF EndAbort, Untouched, TypeOK
  <2>3. QED
    BY <1>0, <2>1, <2>2, OtherCalls
<1>8. ASSUME NEW t \in Threads, ReturnFromAbort(t) PROVE CallInv'
  <2>1. CallOK(t)'
    BY <1>0, <1>8 DEF ReturnFromAbort, CallOK, Launching, TypeOK
  <2>2. \A u \in Threads \ {t} : Untouched(u)
    BY <1>0, <1>30, <1>8 DEF ReturnFromAbort, Untouched, TypeOK
  <2>3. QED
    BY <1>0, <2>1, <2>2, OtherCalls
<1>9. ASSUME NEW t \in Threads, Grab(t) PROVE CallInv'
  <2>1. CallOK(t)'
    BY <1>0, <1>9 DEF Grab, CallOK, Launching, TypeOK
  <2>2. \A u \in Threads \ {t} : Untouched(u)
    BY <1>0, <1>30, <1>9 DEF Grab, Untouched, TypeOK
  <2>3. QED
    BY <1>0, <2>1, <2>2, OtherCalls
<1>10. ASSUME NEW t \in Threads, Use(t) PROVE CallInv'
  <2>1. CallOK(t)'
    BY <1>0, <1>10 DEF Use, CallOK, Launching, TypeOK
  <2>2. \A u \in Threads \ {t} : Untouched(u)
    BY <1>0, <1>30, <1>10 DEF Use, Untouched, TypeOK
  <2>3. QED
    BY <1>0, <2>1, <2>2, OtherCalls
<1>11. ASSUME NEW t \in Threads, SetInit(t) PROVE CallInv'
  <2>1. CallOK(t)'
    BY <1>0, <1>11 DEF SetInit, CallOK, Launching, TypeOK
  <2>2. \A u \in Threads \ {t} : Untouched(u)
    BY <1>0, <1>30, <1>11 DEF SetInit, Untouched, TypeOK
  <2>3. QED
    BY <1>0, <2>1, <2>2, OtherCalls
<1>12. ASSUME NEW t \in Threads, ReleaseLaunched(t) PROVE CallInv'
  <2>1. CallOK(t)'
    BY <1>0, <1>12 DEF ReleaseLaunched, CallOK, Launching, TypeOK, Release
  <2>2. \A u \in Threads \ {t} : Untouched(u)
    BY <1>0, <1>30, <1>12 DEF ReleaseLaunched, Untouched, TypeOK, Release
  <2>3. QED
    BY <1>0, <2>1, <2>2, OtherCalls
<1>13. ASSUME NEW t \in Threads, ReleaseFailed(t) PROVE CallInv'
  <2>1. CallOK(t)'
    BY <1>0, <1>13 DEF ReleaseFailed, CallOK, Launching, TypeOK, Release
  <2>2. \A u \in Threads \ {t} : Untouched(u)
    BY <1>0, <1>30, <1>13 DEF ReleaseFailed, Untouched, TypeOK, Release
  <2>3. QED
    BY <1>0, <2>1, <2>2, OtherCalls
<1>14. ASSUME NEW t \in Threads, Put(t) PROVE CallInv'
  <2>1. CallOK(t)'
    BY <1>0, <1>14 DEF Put, CallOK, Launching, TypeOK, Release, Return
  <2>2. \A u \in Threads \ {t} : Untouched(u)
    BY <1>0, <1>30, <1>14 DEF Put, Untouched, TypeOK, Release, Return
  <2>3. QED
    BY <1>0, <2>1, <2>2, OtherCalls
<1>15. ASSUME NEW t \in Threads, NewQueue(t) PROVE CallInv'
  <2>1. CallOK(t)'
    BY <1>0, <1>15 DEF NewQueue, CallOK, Launching, TypeOK
  <2>2. \A u \in Threads \ {t} : Untouched(u)
    BY <1>0, <1>30, <1>32, <1>15 DEF NewQueue, Untouched, TypeOK, Launching
  <2>3. QED
    BY <1>0, <2>1, <2>2, OtherCalls
<1>16. ASSUME NEW t \in Threads, PushQueue(t) PROVE CallInv'
  <2>1. CallOK(t)'
    BY <1>0, <1>16 DEF PushQueue, CallOK, Launching, TypeOK, Return
  <2>2. \A u \in Threads \ {t} : Untouched(u)
    BY <1>0, <1>30, <1>32, <1>16 DEF PushQueue, Untouched, TypeOK, Launching, Return
  <2>3. QED
    BY <1>0, <2>1, <2>2, OtherCalls
<1>17. ASSUME NEW t \in Threads, NEW h \in Handle, RemoveHandle(t, h), pc[t] \in {"idle", "retire_failed", "retire_next"}, next[t] # 0 <=> pc[t] = "retire_next",
              UNCHANGED <<handle_index, life, nonnull, found>>,
              next'[t] \in {0, next[t] + 1}, next'[t] # 0 <=> next[t] # 0, \A u \in Threads \ {t} : next'[u] = next[u],
              failed' \subseteq failed \cup {cur[t]}, failed' # failed => pc[t] = "retire_failed"
       PROVE  CallInv'
  <2>1. CallOK(t)'
    BY <1>0, <1>17, <1>31 DEF RemoveHandle, Return, CallOK, Launching, TypeOK
  <2>2. \A u \in Threads : pc[u] # "grab"
    BY <1>17 DEF RemoveHandle, NoReader
  <2>3. \A u \in Threads \ {t} : Untouched(u)
    <3> SUFFICES ASSUME NEW u \in Threads, u # t PROVE Untouched(u)
      OBVIOUS
    <3>1. pc'[u] = pc[u] /\ cur'[u] = cur[u] /\ arg'[u] = arg[u] /\ next'[u] = next[u]
      BY <1>0, <1>17 DEF RemoveHandle, Return, TypeOK
    <3>2. pc[u] \in Launching => (cur[u] \in failed' => cur[u] \in failed)
      BY <1>17, <1>32 DEF Launching
    <3>3. QED
      BY <1>30, <1>17, <2>2, <3>1, <3>2 DEF Untouched
  <2>4. QED
    BY <1>0, <2>1, <2>3, OtherCalls
<1>18. ASSUME NEW t \in Threads, NEW h \in Handle, Retire(t, h) PROVE CallInv'
  BY <1>0, <1>17, <1>18 DEF Retire, CallOK
<1>19. ASSUME NEW t \in Threads, RetireFailed(t) PROVE CallInv'
  <2>1. arg[t] \in Handle /\ next[t] = 0 /\ pc[t] = "retire_failed"
    BY <1>0, <1>19 DEF RetireFailed, CallOK, TypeOK
  <2>2. QED
    BY <1>17, <1>19, <2>1 DEF RetireFailed
<1>20. ASSUME NEW t \in Threads, RetireNext(t) PROVE CallInv'
  <2>1. pc[t] = "retire_next" /\ next[t] \in Nat \ {0} /\ next[t] < handle_index /\ handle_index <= MaxLaunch + 1
    BY <1>0, <1>30, <1>20 DEF RetireNext, CallOK, TypeOK
  <2>2. next[t] \in Handle
    BY <1>30, <2>1, MaxLaunchAssumption, HandleOfFacts
  <2>3. next' = [next EXCEPT ![t] = next[t] + 1] /\ next \in [Threads -> 0 .. MaxLaunch + 1]
    BY <1>0, <1>20 DEF RetireNext, TypeOK
  <2>4. /\ next'[t] \in {0, next[t] + 1} /\ next'[t] # 0 <=> next[t] # 0
        /\ \A u \in Threads \ {t} : next'[u] = next[u]
    BY <2>1, <2>3
  <2>5. QED
    BY <1>17, <1>20, <2>1, <2>2, <2>4 DEF RetireNext
<1>21. ASSUME NEW t \in Threads, Reg(t) PROVE CallInv'
  <2>1. CallOK(t)'
    <3>1. HandleOf(handle_index) # 0 /\ cur[t] \in Contexts
      <4>1. handle_index \in 1 .. MaxLaunch
        BY <1>0, <1>30, <1>21, MaxLaunchAssumption DEF Reg, TypeOK
      <4>2. QED
        BY <1>0, <1>21, <4>1, HandleOfFacts DEF Reg, CallOK, TypeOK
    <3>2. handle'[cur[t]] # 0
      BY <1>0, <1>21, <3>1 DEF Reg, TypeOK
    <3>3. /\ pc'[t] = "new_queue" /\ pc[t] = "reg"
          /\ UNCHANGED <<cur, arg, next, created, queued, scheduled, failed, inited, deleted>>
      BY <1>0, <1>21 DEF Reg, TypeOK
    <3>4. QED
      BY <1>0, <3>2, <3>3 DEF CallOK, Launching
  <2>2. \A u \in Threads \ {t} : Untouched(u)
    <3> SUFFICES ASSUME NEW u \in Threads, u # t PROVE Untouched(u)
      OBVIOUS
    <3>1. pc'[u] = pc[u] /\ handle_index <= handle_index' /\ pc[u] # "grab"
      BY <1>0, <1>30, <1>21 DEF Reg, NoReader, TypeOK
    <3>2. pc[u] \in Launching => handle'[cur[u]] = handle[cur[u]]
      BY <1>0, <1>21, <1>32 DEF Reg, Launching, TypeOK
    <3>3. QED
      BY <1>30, <1>21, <3>1, <3>2 DEF Reg, Untouched
  <2>3. QED
    BY <1>0, <2>1, <2>2, OtherCalls
<1>22. ASSUME NEW t \in Threads, NEW h \in Handle, Find(t, h) PROVE CallInv'
  <2>1. CallOK(t)'
    BY <1>0, <1>22, <1>31 DEF Find, CallOK, Launching, TypeOK
  <2>2. \A u \in Threads \ {t} : Untouched(u)
    BY <1>0, <1>30, <1>22 DEF Find, Untouched, TypeOK
  <2>3. QED
    BY <1>0, <2>1, <2>2, OtherCalls
<1>23. ASSUME NEW t \in Threads, NEW h \in Handle, NEW n \in Names, RegName(t, h, n) PROVE CallInv'
  BY <1>0, <1>23 DEF RegName, CallInv, CallOK
<1>24. CASE UNCHANGED vars
  BY <1>0, <1>24 DEF vars, CallInv, CallOK
<1>25. QED
  BY <1>1, <1>2, <1>3, <1>4, <1>5, <1>6, <1>7, <1>8, <1>9, <1>10, <1>11, <1>12, <1>13, <1>14, <1>15, <1>16,
     <1>18, <1>19, <1>20, <1>21, <1>22, <1>23, <1>24 DEF Next, Begin, Continue
-----------------------------------------------------------------------------
\* What a step of t, other than the creation of a context, may do to the
\* contexts that are being launched.
LaunchStepOf(t) ==
    /\ \A u \in Threads \ {t} : pc'[u] = pc[u] /\ cur'[u] = cur[u]
    /\ created' = created /\ queued \subseteq queued'
    /\ cur'[t] \in {cur[t], NoCtx} \cup {h2c[h] : h \in Handle}
    /\ pc'[t] \in Launching => pc[t] \in Launching /\ pc'[t] # "reg" /\ cur'[t] = cur[t]
    /\ pc[t] \in {"reg", "new_queue"} => (pc'[t] = "new_queue" /\ cur'[t] = cur[t]) \/ cur[t] \in queued'
    /\ \A c \in Contexts : c > created => handle'[c] = handle[c] /\ ref'[c] = ref[c]
    /\ failed' \subseteq failed \cup 1 .. created

\* Such a step leaves every launched context to its launcher.
LEMMA LaunchFrame ==
    ASSUME IInv, TypeOK', NEW t \in Threads, LaunchStepOf(t)
    PROVE  LaunchInv'
<1> USE DEF LaunchStepOf
<1>1. ASSUME NEW u \in Threads, NEW v \in Threads, u # v, pc'[u] \in Launching,
             pc'[u] = "reg" \/ pc'[v] \in Launching
      PROVE  cur'[u] # cur'[v]
  <2>0. \A x, y \in Threads :
           x # y /\ pc[x] \in Launching /\ (pc[x] = "reg" \/ pc[y] \in Launching) => cur[x] # cur[y]
    BY DEF IInv, LaunchInv
  <2>1. CASE u = t
    BY <1>1, <2>0, <2>1 DEF Launching
  <2>2. CASE v = t /\ pc'[v] \in Launching
    BY <1>1, <2>0, <2>2 DEF Launching
  <2>3. CASE v = t /\ pc'[v] \notin Launching
    <3>1. pc[u] = "reg" /\ cur'[u] = cur[u] /\ cur[u] # NoCtx /\ handle[cur[u]] = 0
      BY <1>1, <2>3 DEF IInv, CallInv, CallOK, Launching
    <3>2. cur[u] # cur[t]
      BY <1>1, <2>0, <2>3, <3>1 DEF Launching
    <3>3. \A h \in Handle : h2c[h] # cur[u]
      BY <3>1 DEF IInv, TableInv
    <3>4. QED
      BY <2>3, <3>1, <3>2, <3>3
  <2>4. CASE u # t /\ v # t
    BY <1>1, <2>0, <2>4
  <2>5. QED
    BY <2>1, <2>2, <2>3, <2>4
<1>2. ASSUME NEW c \in 1 .. created' \ queued'
      PROVE  \E u \in Threads : cur'[u] = c /\ pc'[u] \in {"reg", "new_queue"}
  <2>1. PICK u \in Threads : cur[u] = c /\ pc[u] \in {"reg", "new_queue"}
    BY <1>2 DEF IInv, LaunchInv
  <2>2. QED
    BY <1>2, <2>1
<1>3. \A c \in Contexts : c > created' => handle'[c] = 0 /\ ref'[c] = 0
  BY DEF IInv, LaunchInv
<1>4. failed' \subseteq 1 .. created'
  BY DEF IInv, LaunchInv
<1>5. QED
  BY <1>1, <1>2, <1>3, <1>4 DEF LaunchInv

\* Create takes a context nobody has; the others leave launches alone.
LEMMA LaunchStep == IInv /\ [Next]_vars => LaunchInv'
<1> SUFFICES ASSUME IInv, [Next]_vars PROVE LaunchInv'
  OBVIOUS
<1> USE DEF At, Goto, maps, life, abort
<1>0. TypeOK /\ TypeOK' /\ LaunchInv /\ \A t \in Threads : CallOK(t)
  BY TypeStep DEF IInv, CallInv
<1>30. created \in Nat /\ \A t \in Threads : cur[t] # NoCtx => cur[t] \in Contexts /\ cur[t] \in 1 .. created
  BY <1>0, MaxLaunchAssumption DEF TypeOK, CallOK, Contexts
<1>1. ASSUME NEW t \in Threads, Create(t) PROVE LaunchInv'
  <2>1. /\ pc' = [pc EXCEPT ![t] = "reg"] /\ cur' = [cur EXCEPT ![t] = created + 1]
        /\ created' = created + 1 /\ UNCHANGED <<queued, handle, failed>>
        /\ ref' = [ref EXCEPT ![created + 1] = 2]
        /\ created + 1 \in Contexts /\ created + 1 # NoCtx
    BY <1>30, <1>1, NullAssumption, MaxLaunchAssumption DEF Create, Contexts
  <2>2. \A u \in Threads : cur[u] # created + 1
    BY <1>30, <2>1
  <2>3. \A u, v \in Threads :
           u # v /\ pc'[u] \in Launching /\ (pc'[u] = "reg" \/ pc'[v] \in Launching) => cur'[u] # cur'[v]
    BY <1>0, <2>1, <2>2 DEF TypeOK, LaunchInv
  <2>4. ASSUME NEW c \in 1 .. created' \ queued'
        PROVE  \E u \in Threads : cur'[u] = c /\ pc'[u] \in {"reg", "new_queue"}
    <3>1. CASE c = created + 1
      BY <1>0, <2>1, <3>1 DEF TypeOK
    <3>2. CASE c # created + 1
      <4>1. c \in 1 .. created \ queued
        BY <1>30, <2>1, <2>4, <3>2
      <4>2. PICK u \in Threads : cur[u] = c /\ pc[u] \in {"reg", "new_queue"}
        BY <1>0, <4>1 DEF LaunchInv
      <4>3. u # t
        BY <1>1, <4>2 DEF Create
      <4>4. QED
        BY <1>0, <2>1, <4>2, <4>3 DEF TypeOK
    <3>3. QED
      BY <3>1, <3>2
  <2>5. \A c \in Contexts : c > created' => handle'[c] = 0 /\ ref'[c] = 0
    BY <1>0, <1>30, <2>1 DEF TypeOK, LaunchInv, Contexts
  <2>6. failed' \subseteq 1 .. created'
    BY <1>0, <1>30, <2>1 DEF LaunchInv
  <2>7. QED
    BY <2>3, <2>4, <2>5, <2>6 DEF LaunchInv
<1>2. ASSUME NEW t \in Threads, BeginAbort(t) PROVE LaunchInv'
  <2>1. LaunchStepOf(t)
    BY <1>0, <1>30, <1>2 DEF BeginAbort, LaunchStepOf, Launching, TypeOK, Contexts
  <2>2. QED
    BY <1>0, <2>1, LaunchFrame
<1>3. ASSUME NEW t \in Threads, CallInit(t) PROVE LaunchInv'
  <2>1. LaunchStepOf(t)
    BY <1>0, <1>30, <1>3 DEF CallInit, LaunchStepOf, Launching, TypeOK, Contexts
  <2>2. QED
    BY <1>0, <2>1, LaunchFrame
<1>4. ASSUME NEW t \in Threads, ReadHandle(t) PROVE LaunchInv'
  <2>1. LaunchStepOf(t)
    BY <1>0, <1>30, <1>4 DEF ReadHandle, LaunchStepOf, Launching, TypeOK, Contexts
  <2>2. QED
    BY <1>0, <2>1, LaunchFrame
<1>5. ASSUME NEW t \in Threads, Look(t) PROVE LaunchInv'
  <2>1. LaunchStepOf(t)
    BY <1>0, <1>30, <1>5 DEF Look, LaunchStepOf, Launching, TypeOK, Contexts
  <2>2. QED
    BY <1>0, <2>1, LaunchFrame
<1>6. ASSUME NEW t \in Threads, Skip(t) PROVE LaunchInv'
  <2>1. LaunchStepOf(t)
    BY <1>0, <1>30, <1>6 DEF Skip, LaunchStepOf, Launching, TypeOK, Contexts
  <2>2. QED
    BY <1>0, <2>1, LaunchFrame
<1>7. ASSUME NEW t \in Threads, EndAbort(t) PROVE LaunchInv'
  <2>1. LaunchStepOf(t)
    BY <1>0, <1>30, <1>7 DEF EndAbort, LaunchStepOf, Launching, TypeOK, Contexts
  <2>2. QED
    BY <1>0, <2>1, LaunchFrame
<1>8. ASSUME NEW t \in Threads, ReturnFromAbort(t) PROVE LaunchInv'
  <2>1. LaunchStepOf(t)
    BY <1>0, <1>30, <1>8 DEF ReturnFromAbort, LaunchStepOf, Launching, TypeOK, Contexts
  <2>2. QED
    BY <1>0, <2>1, LaunchFrame
<1>9. ASSUME NEW t \in Threads, Grab(t) PROVE LaunchInv'
  <2>1. LaunchStepOf(t)
    BY <1>0, <1>30, <1>9 DEF Grab, LaunchStepOf, Launching, TypeOK, Contexts, CallOK
  <2>2. QED
    BY <1>0, <2>1, LaunchFrame
<1>10. ASSUME NEW t \in Threads, Use(t) PROVE LaunchInv'
  <2>1. LaunchStepOf(t)
    BY <1>0, <1>30, <1>10 DEF Use, LaunchStepOf, Launching, TypeOK, Contexts
  <2>2. QED
    BY <1>0, <2>1, LaunchFrame
<1>11. ASSUME NEW t \in Threads, SetInit(t) PROVE LaunchInv'
  <2>1. LaunchStepOf(t)
    BY <1>0, <1>30, <1>11 DEF SetInit, LaunchStepOf, Launching, TypeOK, Contexts
  <2>2. QED
    BY <1>0, <2>1, LaunchFrame
<1>12. ASSUME NEW t \in Threads, NewQueue(t) PROVE LaunchInv'
  <2>1. LaunchStepOf(t)
    BY <1>0, <1>30, <1>12 DEF NewQueue, LaunchStepOf, Launching, TypeOK, Contexts
  <2>2. QED
    BY <1>0, <2>1, LaunchFrame
<1>13. ASSUME NEW t \in Threads, PushQueue(t) PROVE LaunchInv'
  <2>1. LaunchStepOf(t)
    BY <1>0, <1>30, <1>13 DEF PushQueue, LaunchStepOf, Launching, TypeOK, Contexts, Return
  <2>2. QED
    BY <1>0, <2>1, LaunchFrame
<1>14. ASSUME NEW t \in Threads, ReleaseLaunched(t) PROVE LaunchInv'
  <2>1. LaunchStepOf(t)
    BY <1>0, <1>30, <1>14 DEF ReleaseLaunched, LaunchStepOf, Launching, TypeOK, Contexts, Release, CallOK
  <2>2. QED
    BY <1>0, <2>1, LaunchFrame
<1>15. ASSUME NEW t \in Threads, ReleaseFailed(t) PROVE LaunchInv'
  <2>1. LaunchStepOf(t)
    BY <1>0, <1>30, <1>15 DEF ReleaseFailed, LaunchStepOf, Launching, TypeOK, Contexts, Release, CallOK
  <2>2. QED
    BY <1>0, <2>1, LaunchFrame
<1>16. ASSUME NEW t \in Threads, Put(t) PROVE LaunchInv'
  <2>1. LaunchStepOf(t)
    BY <1>0, <1>30, <1>16 DEF Put, LaunchStepOf, Launching, TypeOK, Contexts, Release, Return, CallOK
  <2>2. QED
    BY <1>0, <2>1, LaunchFrame
<1>17. ASSUME NEW t \in Threads, Reg(t) PROVE LaunchInv'
  <2>1. LaunchStepOf(t)
    BY <1>0, <1>30, <1>17 DEF Reg, LaunchStepOf, Launching, TypeOK, Contexts, CallOK
  <2>2. QED
    BY <1>0, <2>1, LaunchFrame
<1>18. ASSUME NEW t \in Threads, NEW h \in Handle, Find(t, h) PROVE LaunchInv'
  <2>1. LaunchStepOf(t)
    BY <1>0, <1>30, <1>18 DEF Find, LaunchStepOf, Launching, TypeOK, Contexts
  <2>2. QED
    BY <1>0, <2>1, LaunchFrame
<1>19. ASSUME NEW t \in Threads, NEW h \in Handle, RemoveHandle(t, h),
              pc[t] \in {"idle", "retire_failed", "retire_next"},
              UNCHANGED <<handle_index, life>>, failed' \subseteq failed \cup 1 .. created
       PROVE  LaunchInv'
  <2>1. LaunchStepOf(t)
    BY <1>0, <1>30, <1>19 DEF RemoveHandle, Return, LaunchStepOf, Launching, TypeOK, Contexts
  <2>2. QED
    BY <1>0, <2>1, LaunchFrame
<1>20. ASSUME NEW t \in Threads, NEW h \in Handle, Retire(t, h) PROVE LaunchInv'
  BY <1>0, <1>19, <1>20 DEF Retire
<1>21. ASSUME NEW t \in Threads, RetireFailed(t) PROVE LaunchInv'
  <2>1. arg[t] \in Handle /\ cur[t] \in 1 .. created
    BY <1>0, <1>30, <1>21 DEF RetireFailed, TypeOK, CallOK, Launching
  <2>2. QED
    BY <1>19, <1>21, <2>1 DEF RetireFailed
<1>22. ASSUME NEW t \in Threads, RetireNext(t) PROVE LaunchInv'
  <2>1. handle_index \in 1 .. MaxLaunch + 1 /\ next[t] \in 0 .. MaxLaunch + 1 /\ next[t] < handle_index
    BY <1>0, <1>22 DEF RetireNext, CallOK, TypeOK
  <2>2. next[t] \in Handle
    BY <2>1, MaxLaunchAssumption, HandleOfFacts
  <2>3. QED
    BY <1>19, <1>22, <2>2 DEF RetireNext
<1>23. ASSUME NEW t \in Threads, NEW h \in Handle, NEW n \in Names, RegName(t, h, n) PROVE LaunchInv'
  BY <1>0, <1>23 DEF RegName, LaunchInv
<1>24. CASE UNCHANGED vars
  BY <1>0, <1>24 DEF vars, LaunchInv
<1>25. QED
  BY <1>1, <1>2, <1>3, <1>4, <1>5, <1>6, <1>7, <1>8, <1>9, <1>10, <1>11, <1>12, <1>13, <1>14, <1>15, <1>16, <1>17, <1>18,
     <1>20, <1>21, <1>22, <1>23, <1>24 DEF Next, Begin, Continue
-----------------------------------------------------------------------------
One(p) == IF p THEN 1 ELSE 0

\* The count of one context.
RefOK(c) ==
    IF Registering(c) THEN ref[c] = 2 ELSE ref[c] = Cardinality(TableOf(c)) + Cardinality(Holders(c))

\* A step of t that changes one entry of the table, counted for context c.
LEMMA RefFrame ==
    ASSUME IInv, TypeOK', NEW t \in Threads, NEW h \in Handle, NEW c \in Contexts,
           \A u \in Threads \ {t} : pc'[u] = pc[u] /\ cur'[u] = cur[u],
           \A k \in Handle \ {h} : h2c'[k] = h2c[k],
           pc[t] # "reg" /\ pc'[t] # "reg",
           Registering(c) => ref'[c] = ref[c],
           ref'[c] + One(h2c[h] = c) + One(Holds(t, c)) = ref[c] + One(h2c'[h] = c) + One(Holds(t, c)')
    PROVE  RefOK(c)'
<1>1. Registering(c)' <=> Registering(c)
  BY DEF Registering, At
<1>2. ref[c] \in Nat /\ ref'[c] \in Nat
  BY DEF IInv, TypeOK
<1>3. RefOK(c)
  BY DEF IInv, RefInv, RefOK
<1>4. Cardinality(TableOf(c)) \in Nat /\ Cardinality(Holders(c)) \in Nat
  BY Finite, FS_CardinalityType
<1>5. Cardinality(TableOf(c)') + One(h2c[h] = c) = Cardinality(TableOf(c)) + One(h2c'[h] = c)
  <2>1. CASE h2c[h] = c <=> h2c'[h] = c
    <3>1. TableOf(c)' = TableOf(c)
      BY <2>1 DEF TableOf
    <3>2. QED
      BY <2>1, <3>1, <1>4 DEF One
  <2>2. CASE h2c[h] = c /\ h2c'[h] # c
    <3>1. TableOf(c)' = TableOf(c) \ {h} /\ h \in TableOf(c)
      BY <2>2 DEF TableOf
    <3>2. Cardinality(TableOf(c)') = Cardinality(TableOf(c)) - 1
      BY <3>1, Finite, FS_RemoveElement
    <3>3. QED
      BY <2>2, <3>2, <1>4 DEF One
  <2>3. CASE h2c[h] # c /\ h2c'[h] = c
    <3>1. TableOf(c)' = TableOf(c) \cup {h} /\ h \notin TableOf(c)
      BY <2>3 DEF TableOf
    <3>2. Cardinality(TableOf(c)') = Cardinality(TableOf(c)) + 1
      BY <3>1, Finite, FS_AddElement
    <3>3. QED
      BY <2>3, <3>2, <1>4 DEF One
  <2>4. QED
    BY <2>1, <2>2, <2>3
<1>6. Cardinality(Holders(c)') + One(Holds(t, c)) = Cardinality(Holders(c)) + One(Holds(t, c)')
  <2>0. \A u \in Threads \ {t} : Holds(u, c)' <=> Holds(u, c)
    BY DEF Holds
  <2>1. CASE Holds(t, c)' <=> Holds(t, c)
    <3>1. Holders(c)' = Holders(c)
      BY <2>0, <2>1 DEF Holders
    <3>2. QED
      BY <2>1, <3>1, <1>4 DEF One
  <2>2. CASE Holds(t, c) /\ ~Holds(t, c)'
    <3>1. Holders(c)' = Holders(c) \ {t} /\ t \in Holders(c)
      BY <2>0, <2>2 DEF Holders
    <3>2. Cardinality(Holders(c)') = Cardinality(Holders(c)) - 1
      BY <3>1, Finite, FS_RemoveElement
    <3>3. QED
      BY <2>2, <3>2, <1>4 DEF One
  <2>3. CASE ~Holds(t, c) /\ Holds(t, c)'
    <3>1. Holders(c)' = Holders(c) \cup {t} /\ t \notin Holders(c)
      BY <2>0, <2>3 DEF Holders
    <3>2. Cardinality(Holders(c)') = Cardinality(Holders(c)) + 1
      BY <3>1, Finite, FS_AddElement
    <3>3. QED
      BY <2>3, <3>2, <1>4 DEF One
  <2>4. QED
    BY <2>1, <2>2, <2>3
<1>7. (RefOK(c))' <=> IF Registering(c)' THEN ref'[c] = 2
                      ELSE ref'[c] = Cardinality(TableOf(c)') + Cardinality(Holders(c)')
  BY DEF RefOK
<1>8. CASE Registering(c)
  BY <1>1, <1>3, <1>7, <1>8 DEF RefOK
<1>9. CASE ~Registering(c)
  <2>1. ref[c] = Cardinality(TableOf(c)) + Cardinality(Holders(c))
    BY <1>3, <1>9 DEF RefOK
  <2>2. One(h2c[h] = c) \in Nat /\ One(h2c'[h] = c) \in Nat /\ One(Holds(t, c)) \in Nat /\ One(Holds(t, c)') \in Nat
    BY DEF One
  <2>3. Cardinality(TableOf(c)') \in Nat /\ Cardinality(Holders(c)') \in Nat
    <3>1. TableOf(c)' \subseteq Handle /\ Holders(c)' \subseteq Threads
      BY DEF TableOf, Holders
    <3>2. IsFiniteSet(TableOf(c)') /\ IsFiniteSet(Holders(c)')
      BY <3>1, Finite, FS_Subset, ThreadsAssumption
    <3>3. QED
      BY <3>2, FS_CardinalityType
  <2>4. ref'[c] = Cardinality(TableOf(c)') + Cardinality(Holders(c)')
    BY <1>2, <1>4, <1>5, <1>6, <2>1, <2>2, <2>3
  <2>5. QED
    BY <1>1, <1>7, <1>9, <2>4
<1>10. QED
  BY <1>8, <1>9

\* References are passed from the table to a thread, or taken and given back
\* by the one thread that moves.
LEMMA RefStep == IInv /\ [Next]_vars => RefInv'
<1> SUFFICES ASSUME IInv, [Next]_vars PROVE RefInv'
  OBVIOUS
<1> USE DEF At, Goto, maps, life, abort
<1>0. TypeOK /\ TypeOK' /\ RefInv /\ \A t \in Threads : CallOK(t)
  BY TypeStep DEF IInv, CallInv
<1>1. (\A c \in Contexts : RefOK(c)') /\ (\A c \in deleted' : ref'[c] = 0) => RefInv'
  BY DEF RefInv, RefOK
<1>2. 0 \in Handle
  BY HandleOfFacts
<1>3. ASSUME NEW t \in Threads, \A u \in Threads \ {t} : pc'[u] = pc[u] /\ cur'[u] = cur[u],
             UNCHANGED <<h2c, ref, deleted>>, pc[t] # "reg" /\ pc'[t] # "reg",
             \A c \in Contexts : Holds(t, c)' <=> Holds(t, c)
      PROVE  RefInv'
  <2>1. ASSUME NEW c \in Contexts PROVE RefOK(c)'
    <3>1. ref'[c] + One(h2c[0] = c) + One(Holds(t, c)) = ref[c] + One(h2c'[0] = c) + One(Holds(t, c)')
      BY <1>3 DEF One
    <3>2. QED
      BY <1>0, <1>2, <1>3, <3>1, RefFrame
  <2>2. QED
    BY <1>0, <1>1, <1>3, <2>1 DEF RefInv
<1>4. ASSUME NEW t \in Threads, BeginAbort(t) PROVE RefInv'
  BY <1>0, <1>3, <1>4 DEF BeginAbort, Holds, Building, TypeOK
<1>5. ASSUME NEW t \in Threads, NewQueue(t) PROVE RefInv'
  BY <1>0, <1>3, <1>5 DEF NewQueue, Holds, Building, TypeOK
<1>6. ASSUME NEW t \in Threads, CallInit(t) PROVE RefInv'
  BY <1>0, <1>3, <1>6 DEF CallInit, Holds, Building, TypeOK
<1>7. ASSUME NEW t \in Threads, SetInit(t) PROVE RefInv'
  BY <1>0, <1>3, <1>7 DEF SetInit, Holds, Building, TypeOK
<1>8. ASSUME NEW t \in Threads, ReadHandle(t) PROVE RefInv'
  BY <1>0, <1>3, <1>8 DEF ReadHandle, Holds, Building, TypeOK
<1>9. ASSUME NEW t \in Threads, Look(t) PROVE RefInv'
  BY <1>0, <1>3, <1>9 DEF Look, Holds, Building, TypeOK
<1>10. ASSUME NEW t \in Threads, Skip(t) PROVE RefInv'
  BY <1>0, <1>3, <1>10 DEF Skip, Holds, Building, TypeOK
<1>11. ASSUME NEW t \in Threads, EndAbort(t) PROVE RefInv'
  BY <1>0, <1>3, <1>11 DEF EndAbort, Holds, Building, TypeOK
<1>12. ASSUME NEW t \in Threads, ReturnFromAbort(t) PROVE RefInv'
  BY <1>0, <1>3, <1>12 DEF ReturnFromAbort, Holds, Building, TypeOK
<1>13. ASSUME NEW t \in Threads, Use(t) PROVE RefInv'
  BY <1>0, <1>3, <1>13 DEF Use, Holds, Building, TypeOK
<1>14. ASSUME NEW t \in Threads, PushQueue(t) PROVE RefInv'
  BY <1>0, <1>3, <1>14 DEF PushQueue, Holds, Building, TypeOK, Return
<1>15. ASSUME NEW t \in Threads, NEW h \in Handle, Find(t, h) PROVE RefInv'
  BY <1>0, <1>3, <1>15 DEF Find, Holds, Building, TypeOK
<1>16. ASSUME NEW t \in Threads, NEW h \in Handle, NEW n \in Names, RegName(t, h, n) PROVE RefInv'
  BY <1>0, <1>3, <1>16 DEF RegName, Holds, Building, TypeOK
<1>17. ASSUME NEW t \in Threads, Release(cur[t]), UNCHANGED h2c,
              \A u \in Threads \ {t} : pc'[u] = pc[u] /\ cur'[u] = cur[u],
              pc[t] \in {"release_launched", "release_failed", "put"}, pc'[t] # "reg",
              \A c \in Contexts : ~Holds(t, c)'
       PROVE  RefInv'
  <2>1. /\ cur[t] \in Contexts /\ Holds(t, cur[t]) /\ ref[cur[t]] \in Nat \ {0}
        /\ ~Registering(cur[t]) /\ cur[t] \notin deleted
    BY <1>17, QueuedOrCounted, Counted
  <2>2. ref' = [ref EXCEPT ![cur[t]] = ref[cur[t]] - 1]
    BY <1>17 DEF Release
  <2>3. ASSUME NEW c \in Contexts PROVE RefOK(c)'
    <3>1. ref'[c] + One(h2c[0] = c) + One(Holds(t, c)) = ref[c] + One(h2c'[0] = c) + One(Holds(t, c)')
      <4>1. ref[c] \in Nat /\ One(h2c[0] = c) \in Nat
        BY <1>0 DEF TypeOK, One
      <4>2. CASE c = cur[t]
        <5>1. ref'[c] = ref[c] - 1 /\ One(Holds(t, c)) = 1 /\ One(Holds(t, c)') = 0
          BY <1>0, <1>17, <2>1, <2>2, <4>2 DEF One, TypeOK
        <5>2. QED
          BY <1>17, <4>1, <5>1
      <4>3. CASE c # cur[t]
        <5>1. ref'[c] = ref[c] /\ ~Holds(t, c) /\ ~Holds(t, c)'
          BY <1>0, <1>17, <2>2, <4>3 DEF TypeOK, Holds
        <5>2. QED
          BY <1>17, <5>1 DEF One
      <4>4. QED
        BY <4>2, <4>3
    <3>2. Registering(c) => ref'[c] = ref[c]
      BY <1>0, <2>1, <2>2 DEF TypeOK
    <3>3. QED
      BY <1>0, <1>2, <1>17, <3>1, <3>2, RefFrame
  <2>4. \A c \in deleted' : ref'[c] = 0
    BY <1>0, <1>17, <2>1, <2>2 DEF Release, RefInv, TypeOK
  <2>5. QED
    BY <1>1, <2>3, <2>4
<1>18. ASSUME NEW t \in Threads, ReleaseLaunched(t) PROVE RefInv'
  BY <1>0, <1>17, <1>18 DEF ReleaseLaunched, Holds, Building, TypeOK
<1>19. ASSUME NEW t \in Threads, ReleaseFailed(t) PROVE RefInv'
  BY <1>0, <1>17, <1>19 DEF ReleaseFailed, Holds, Building, TypeOK
<1>20. ASSUME NEW t \in Threads, Put(t) PROVE RefInv'
  BY <1>0, <1>17, <1>20 DEF Put, Return, Holds, Building, TypeOK
<1>21. ASSUME NEW t \in Threads, Grab(t) PROVE RefInv'
  <2>1. /\ cur[t] \in Contexts /\ handle[cur[t]] \in Handle /\ h2c[handle[cur[t]]] = cur[t]
        /\ ~Registering(cur[t]) /\ cur[t] \notin deleted
    BY <1>0, <1>21, Counted DEF Grab, TypeOK, CallOK
  <2>2. /\ ref' = [ref EXCEPT ![cur[t]] = ref[cur[t]] + 1] /\ UNCHANGED <<h2c, deleted>>
        /\ pc[t] = "grab" /\ pc'[t] = "use" /\ UNCHANGED cur
        /\ \A u \in Threads \ {t} : pc'[u] = pc[u] /\ cur'[u] = cur[u]
    BY <1>0, <1>21 DEF Grab, TypeOK
  <2>3. ASSUME NEW c \in Contexts PROVE RefOK(c)'
    <3>1. ref'[c] + One(h2c[0] = c) + One(Holds(t, c)) = ref[c] + One(h2c'[0] = c) + One(Holds(t, c)')
      <4>1. ref[c] \in Nat /\ One(h2c[0] = c) \in Nat
        BY <1>0 DEF TypeOK, One
      <4>2. CASE c = cur[t]
        <5>1. ref'[c] = ref[c] + 1 /\ One(Holds(t, c)) = 0 /\ One(Holds(t, c)') = 1
          BY <1>0, <2>1, <2>2, <4>2 DEF One, TypeOK, Holds, Building
        <5>2. QED
          BY <2>2, <4>1, <5>1
      <4>3. CASE c # cur[t]
        <5>1. ref'[c] = ref[c] /\ ~Holds(t, c) /\ ~Holds(t, c)'
          BY <1>0, <2>2, <4>3 DEF TypeOK, Holds
        <5>2. QED
          BY <2>2, <5>1 DEF One
      <4>4. QED
        BY <4>2, <4>3
    <3>2. Registering(c) => ref'[c] = ref[c]
      BY <1>0, <2>1, <2>2 DEF TypeOK
    <3>3. QED
      BY <1>0, <1>2, <2>2, <3>1, <3>2, RefFrame
  <2>4. \A c \in deleted' : ref'[c] = 0
    BY <1>0, <2>1, <2>2 DEF RefInv, TypeOK
  <2>5. QED
    BY <1>1, <2>3, <2>4
<1>22. ASSUME NEW t \in Threads, NEW h \in Handle, RemoveHandle(t, h), UNCHANGED <<ref, deleted>>,
              pc[t] \in {"idle", "retire_failed", "retire_next"}
       PROVE  RefInv'
  <2>1. /\ h2c' = [h2c EXCEPT ![h] = NoCtx] /\ pc'[t] # "reg"
        /\ \A u \in Threads \ {t} : pc'[u] = pc[u] /\ cur'[u] = cur[u]
    BY <1>0, <1>22 DEF RemoveHandle, Return, TypeOK
  <2>2. ASSUME NEW c \in Contexts PROVE RefOK(c)'
    <3>1. ~Holds(t, c) /\ (Holds(t, c)' <=> h2c[h] = c) /\ h2c'[h] # c
      BY <1>0, <1>22, NullAssumption DEF RemoveHandle, Return, Holds, Building, TypeOK, Contexts
    <3>2. ref'[c] + One(h2c[h] = c) + One(Holds(t, c)) = ref[c] + One(h2c'[h] = c) + One(Holds(t, c)')
      <4>1. One(Holds(t, c)) = 0 /\ One(h2c'[h] = c) = 0 /\ One(Holds(t, c)') = One(h2c[h] = c)
        BY <3>1 DEF One
      <4>2. ref[c] \in Nat /\ ref'[c] = ref[c] /\ One(h2c[h] = c) \in Nat
        BY <1>0, <1>22 DEF TypeOK, One
      <4>3. QED
        BY <4>1, <4>2
    <3>3. \A k \in Handle \ {h} : h2c'[k] = h2c[k]
      BY <1>0, <2>1 DEF TypeOK
    <3>4. QED
      BY <1>0, <1>22, <2>1, <3>2, <3>3, RefFrame
  <2>3. QED
    BY <1>0, <1>1, <1>22, <2>2 DEF RefInv
<1>23. ASSUME NEW t \in Threads, NEW h \in Handle, Retire(t, h) PROVE RefInv'
  BY <1>0, <1>22, <1>23 DEF Retire
<1>24. ASSUME NEW t \in Threads, RetireFailed(t) PROVE RefInv'
  BY <1>0, <1>22, <1>24 DEF RetireFailed, TypeOK
<1>25. ASSUME NEW t \in Threads, RetireNext(t) PROVE RefInv'
  <2>1. handle_index \in 1 .. MaxLaunch + 1 /\ next[t] \in 0 .. MaxLaunch + 1 /\ next[t] < handle_index
    BY <1>0, <1>25 DEF RetireNext, CallOK, TypeOK
  <2>2. next[t] \in Handle
    BY <2>1, MaxLaunchAssumption, HandleOfFacts
  <2>3. QED
    BY <1>22, <1>25, <2>2 DEF RetireNext
<1>26. ASSUME NEW t \in Threads, Create(t) PROVE RefInv'
  <2>1. /\ created + 1 \in Contexts /\ created \in Nat
        /\ ref' = [ref EXCEPT ![created + 1] = 2] /\ cur' = [cur EXCEPT ![t] = created + 1]
        /\ pc' = [pc EXCEPT ![t] = "reg"] /\ pc[t] = "idle" /\ UNCHANGED <<h2c, deleted>>
    BY <1>0, <1>26, MaxLaunchAssumption DEF Create, TypeOK, Contexts
  <2>2. ASSUME NEW c \in Contexts PROVE RefOK(c)'
    <3>1. CASE c = created + 1
      BY <1>0, <2>1, <3>1 DEF RefOK, Registering, TypeOK
    <3>2. CASE c # created + 1
      <4>1. ref'[c] = ref[c] /\ TableOf(c)' = TableOf(c) /\ Holders(c)' = Holders(c)
        BY <1>0, <2>1, <3>2 DEF TypeOK, TableOf, Holders, Holds, Building
      <4>2. Registering(c)' <=> Registering(c)
        BY <1>0, <2>1, <3>2 DEF Registering, TypeOK
      <4>3. QED
        BY <1>0, <4>1, <4>2 DEF RefInv, RefOK
    <3>3. QED
      BY <3>1, <3>2
  <2>3. created + 1 \notin deleted
    BY <1>0, <2>1 DEF TypeOK
  <2>4. \A c \in deleted' : ref'[c] = 0
    BY <1>0, <2>1, <2>3 DEF RefInv, TypeOK
  <2>5. QED
    BY <1>1, <2>2, <2>4
<1>27. ASSUME NEW t \in Threads, Reg(t) PROVE RefInv'
  <2> DEFINE h == HandleOf(handle_index)
             c0 == cur[t]
  <2>1. c0 \in Contexts /\ handle[c0] = 0 /\ c0 \notin queued
    BY <1>0, <1>27 DEF Reg, CallOK, Launching, TypeOK
  <2>2. handle_index \in 1 .. MaxLaunch
    BY <1>0, <1>27, MaxLaunchAssumption DEF Reg, TypeOK
  <2>3. h \in Handle \ {0}
    BY <2>2, HandleOfFacts, MaxLaunchAssumption
  <2>4. h2c[h] = NoCtx
    <3>1. SUFFICES ASSUME h2c[h] # NoCtx PROVE FALSE
      OBVIOUS
    <3>2. h2c[h] \in Numbered /\ handle[h2c[h]] = h
      BY <1>0, <2>3, <3>1 DEF IInv, TableInv, Numbered, TypeOK
    <3>3. PICK k \in 1 .. handle_index - 1 : h = HandleOf(k)
      BY <3>2 DEF IInv, TableInv
    <3>4. k = handle_index
      BY <2>2, <3>3, HandleOfFacts, MaxLaunchAssumption
    <3>5. QED
      BY <2>2, <3>4
  <2>5. /\ h2c' = [h2c EXCEPT ![h] = c0] /\ UNCHANGED <<ref, deleted, cur>>
        /\ pc' = [pc EXCEPT ![t] = "new_queue"] /\ pc[t] = "reg"
    BY <1>27 DEF Reg
  <2> HIDE DEF h
  <2>6. \A u \in Threads \ {t} : cur[u] # c0
    BY <2>5 DEF IInv, LaunchInv, Launching
  <2>7. ASSUME NEW c \in Contexts PROVE RefOK(c)'
    <3>1. CASE c = c0
      <4>1. ref'[c] = 2 /\ ~Registering(c)'
        BY <1>0, <2>5, <2>6, <3>1 DEF RefInv, Registering, TypeOK
      <4>2. TableOf(c)' = {h}
        <5>1. \A k \in Handle : h2c[k] # c
          BY <2>1, <3>1, NullAssumption DEF IInv, TableInv, Contexts
        <5>2. QED
          BY <1>0, <2>3, <2>5, <3>1, <5>1 DEF TableOf, TypeOK
      <4>3. Holders(c)' = {t}
        BY <1>0, <2>5, <2>6, <3>1 DEF Holders, Holds, Building, TypeOK
      <4>4. Cardinality(TableOf(c)') = 1 /\ Cardinality(Holders(c)') = 1
        BY <4>2, <4>3, FS_Singleton
      <4>5. QED
        BY <4>1, <4>4 DEF RefOK
    <3>2. CASE c # c0
      <4>1. ref'[c] = ref[c] /\ (Registering(c)' <=> Registering(c))
        BY <1>0, <2>5, <3>2 DEF Registering, TypeOK
      <4>2. TableOf(c)' = TableOf(c)
        BY <1>0, <2>3, <2>4, <2>5, <3>2, NullAssumption DEF TableOf, TypeOK, Contexts
      <4>3. Holders(c)' = Holders(c)
        BY <1>0, <2>5, <3>2 DEF Holders, Holds, TypeOK
      <4>4. QED
        BY <1>0, <4>1, <4>2, <4>3 DEF RefInv, RefOK
    <3>3. QED
      BY <3>1, <3>2
  <2>8. QED
    BY <1>0, <1>1, <2>5, <2>7 DEF RefInv
<1>28. CASE UNCHANGED vars
  BY <1>0, <1>28 DEF vars, RefInv, Registering, TableOf, Holders, Holds
<1>29. QED
  BY <1>4, <1>5, <1>6, <1>7, <1>8, <1>9, <1>10, <1>11, <1>12, <1>13, <1>14, <1>15, <1>16,
     <1>18, <1>19, <1>20, <1>21, <1>23, <1>24, <1>25, <1>26, <1>27, <1>28 DEF Next, Begin, Continue
-----------------------------------------------------------------------------
\* The inductive invariant: table, calls, launches and counts together.
THEOREM HandlesInvariant == Spec => []IInv
<1>1. IInv /\ [Next]_vars => IInv'
  BY TypeStep, TableStep, CallStep, LaunchStep, RefStep DEF IInv
<1>2. QED
  BY InitInv, <1>1, PTL DEF Spec

\* The variables of Handles have their types, however many threads run.
THEOREM TypeCorrect == Spec => []TypeOK
BY HandlesInvariant, PTL DEF IInv

\* Context::m_ref is the number of references there are, at every step of every
\* interleaving of create, retire, grab and release.
THEOREM RefCountsCorrect == Spec => []RefCounts
<1>1. IInv => RefCounts
  BY DEF IInv, RefInv, RefCounts, Registering, TableOf, Holders
<1>2. QED
  BY HandlesInvariant, <1>1, PTL

\* `delete this` in Context::release never takes a context that the table, a
\* holder or a reader between its look-up and its increment still leads to.
THEOREM DeletedCorrect == Spec => []DeletedIsUnreachable
<1>1. ASSUME IInv, NEW c \in deleted
      PROVE  /\ \A h \in Handle : h2c[h] # c
             /\ \A t \in Threads : ~Holds(t, c) /\ ~(cur[t] = c /\ At(t, "grab"))
  <2>1. c \in Contexts /\ handle[c] \in Handle
    BY <1>1, MaxLaunchAssumption DEF IInv, TypeOK, Contexts
  <2>2. \A t \in Threads : cur[t] = c /\ At(t, "grab") => h2c[handle[c]] = c
    BY <1>1 DEF IInv, CallInv, CallOK, At
  <2>3. QED
    BY <1>1, <2>1, <2>2, Counted
<1>2. IInv => DeletedIsUnreachable
  BY <1>1 DEF DeletedIsUnreachable
<1>3. QED
  BY HandlesInvariant, <1>2, PTL
-----------------------------------------------------------------------------
\* reg_name does not give a name away that leads elsewhere, and retire takes the
\* name with the handle.
THEOREM NamesCorrect == Spec => []NamesAgree
<1>1. Init => NamesAgree
  BY DEF Init, NamesAgree
<1>2. ASSUME IInv, NamesAgree, [Next]_vars PROVE NamesAgree'
  <2>1. TypeOK /\ TypeOK' /\ TableInv
    BY <1>2, TypeStep DEF IInv
  <2>2. CASE UNCHANGED <<h2c, h2n, n2h>>
    BY <1>2, <2>2 DEF NamesAgree
  <2>3. ASSUME NEW t \in Threads, NEW h \in Handle, NEW n \in Names, RegName(t, h, n) PROVE NamesAgree'
    <3>1. /\ h2n' = [h2n EXCEPT ![h] = n] /\ n2h' = [n2h EXCEPT ![n] = h] /\ h2c' = h2c
          /\ n2h[n] = 0 /\ h2c[h] # NoCtx
      BY <2>3 DEF RegName
    <3>2. \A k \in Handle : h2c[k] # NoCtx => k # 0
      BY <2>1 DEF TableInv
    <3>3. QED
      BY <1>2, <2>1, <3>1, <3>2 DEF NamesAgree, TypeOK
  <2>4. ASSUME NEW t \in Threads, Reg(t) PROVE NamesAgree'
    <3>1. /\ h2c' = [h2c EXCEPT ![HandleOf(handle_index)] = cur[t]] /\ UNCHANGED <<h2n, n2h>>
          /\ cur[t] # NoCtx
      BY <1>2, <2>4 DEF Reg, IInv, CallInv, CallOK, At, Launching
    <3>2. QED
      BY <1>2, <2>1, <3>1 DEF NamesAgree, TypeOK
  <2>5. ASSUME NEW t \in Threads, NEW h \in Handle, RemoveHandle(t, h) PROVE NamesAgree'
    <3>1. /\ h2c' = [h2c EXCEPT ![h] = NoCtx] /\ h2n' = [h2n EXCEPT ![h] = NoName]
          /\ n2h' = IF h2n[h] = NoName THEN n2h ELSE [n2h EXCEPT ![h2n[h]] = 0]
      BY <2>5 DEF RemoveHandle
    <3>2. ASSUME NEW k \in Handle, h2n'[k] # NoName
          PROVE  h2c'[k] # NoCtx /\ n2h'[h2n'[k]] = k
      <4>1. k # h /\ h2n'[k] = h2n[k] /\ h2c'[k] = h2c[k] /\ h2n[k] \in Names
        BY <2>1, <3>1, <3>2 DEF TypeOK
      <4>2. h2c[k] # NoCtx /\ n2h[h2n[k]] = k
        BY <1>2, <3>2, <4>1 DEF NamesAgree
      <4>3. h2n[h] # NoName => h2n[h] # h2n[k]
        BY <1>2, <4>1, <4>2 DEF NamesAgree
      <4>4. n2h'[h2n[k]] = n2h[h2n[k]]
        BY <2>1, <3>1, <4>1, <4>3 DEF TypeOK
      <4>5. QED
        BY <4>1, <4>2, <4>4
    <3>3. QED
      BY <3>2 DEF NamesAgree
  <2>6. QED
    BY <1>2, <2>2, <2>3, <2>4, <2>5, TableSteps
<1>3. QED
  BY HandlesInvariant, <1>1, <1>2, PTL DEF Spec

\* create pushes a queue only when the flag the dispatcher asserts is set, or
\* the context is gone.
THEOREM ScheduledCorrect == Spec => []ScheduledIsInit
<1>1. Init => ScheduledIsInit
  BY DEF Init, ScheduledIsInit
<1>2. ASSUME IInv, [Next]_vars
      PROVE  inited \subseteq inited' /\ deleted \subseteq deleted'
             /\ scheduled' \subseteq scheduled \cup inited \cup deleted
  <2> USE DEF life, maps
  <2>1. ASSUME NEW t \in Threads, PushQueue(t)
        PROVE  UNCHANGED <<inited, deleted>> /\ scheduled' \subseteq scheduled \cup inited \cup deleted
    BY <1>2, <2>1 DEF PushQueue, IInv, CallInv, CallOK, At
  <2>2. ASSUME NEW t \in Threads, Begin(t) PROVE UNCHANGED <<inited, deleted, scheduled>>
    BY <2>2 DEF Begin, Create, BeginAbort, Retire, Find, RegName
  <2>3. ASSUME NEW t \in Threads, Continue(t), ~PushQueue(t)
        PROVE  inited \subseteq inited' /\ deleted \subseteq deleted' /\ UNCHANGED scheduled
    BY <2>3 DEF Continue, Reg, NewQueue, CallInit, ReleaseLaunched, SetInit, ReleaseFailed, ReadHandle,
       RetireFailed, Look, RetireNext, Skip, EndAbort, ReturnFromAbort, Grab, Use, Put, Release
  <2>4. CASE UNCHANGED vars
    BY <2>4 DEF vars
  <2>5. QED
    BY <1>2, <2>1, <2>2, <2>3, <2>4 DEF Next
<1>3. IInv /\ ScheduledIsInit /\ [Next]_vars => ScheduledIsInit'
  BY <1>2 DEF ScheduledIsInit
<1>4. QED
  BY HandlesInvariant, <1>1, <1>3, PTL DEF Spec

\* What create does when the init callback fails leaves no handle behind.
THEOREM FailedCorrect == Spec => []FailedIsGone
<1>1. Init => FailedIsGone
  BY DEF Init, FailedIsGone
<1>2. ASSUME IInv, FailedIsGone, [Next]_vars PROVE FailedIsGone'
  <2>1. TypeOK /\ TypeOK' /\ TableInv /\ \A t \in Threads : CallOK(t)
    BY <1>2, TypeStep DEF IInv, CallInv
  <2>2. ASSUME NEW t \in Threads, RetireFailed(t) PROVE FailedIsGone'
    <3>1. /\ arg[t] \in Handle /\ h2c' = [h2c EXCEPT ![arg[t]] = NoCtx] /\ failed' = failed \cup {cur[t]}
          /\ cur[t] \in Contexts
          /\ cur[t] \in deleted \/ arg[t] = handle[cur[t]]
      BY <2>1, <2>2 DEF RetireFailed, RemoveHandle, TypeOK, CallOK, Launching, At
    <3>2. ASSUME NEW h \in Handle PROVE h2c'[h] # cur[t]
      <4>1. CASE cur[t] \in deleted
        BY <1>2, <2>1, <3>1, <4>1, Counted, NullAssumption DEF TypeOK, Contexts
      <4>2. CASE arg[t] = handle[cur[t]]
        BY <2>1, <3>1, <4>2, NullAssumption DEF TypeOK, TableInv, Contexts
      <4>3. QED
        BY <3>1, <4>1, <4>2
    <3>3. ASSUME NEW c \in failed, NEW h \in Handle PROVE h2c'[h] # c
      <4>1. c \in Contexts
        BY <1>2, MaxLaunchAssumption DEF IInv, TypeOK, LaunchInv, Contexts
      <4>2. QED
        BY <1>2, <2>1, <3>1, <3>3, <4>1, NullAssumption DEF FailedIsGone, TypeOK, Contexts
    <3>4. QED
      BY <3>1, <3>2, <3>3 DEF FailedIsGone
  <2>3. ASSUME NEW t \in Threads, Reg(t) PROVE FailedIsGone'
    BY <1>2, <2>1, <2>3 DEF FailedIsGone, Reg, TypeOK, CallOK, Launching, At
  <2>4. ASSUME NEW t \in Threads, NEW h \in Handle, RemoveHandle(t, h), UNCHANGED failed PROVE FailedIsGone'
    <3>1. ASSUME NEW c \in failed, NEW k \in Handle PROVE h2c'[k] # c
      <4>1. c \in Contexts
        BY <1>2, MaxLaunchAssumption DEF IInv, TypeOK, LaunchInv, Contexts
      <4>2. QED
        BY <1>2, <2>1, <2>4, <3>1, <4>1, NullAssumption, ZenonT(40) DEF FailedIsGone, RemoveHandle, TypeOK, Contexts
    <3>2. QED
      BY <2>4, <3>1 DEF FailedIsGone
  <2>5. CASE UNCHANGED <<h2c, failed>>
    BY <1>2, <2>5 DEF FailedIsGone
  <2>6. (\E t \in Threads : RetireFailed(t)) \/ UNCHANGED failed
    BY <1>2 DEF Next, vars, Begin, Continue, Create, BeginAbort, Retire, Find, RegName, Reg, NewQueue, CallInit,
       ReleaseLaunched, SetInit, PushQueue, ReleaseFailed, ReadHandle, Look, RetireNext, Skip, EndAbort,
       ReturnFromAbort, Grab, Use, Put
  <2>7. QED
    BY <1>2, <2>2, <2>3, <2>4, <2>5, <2>6, TableSteps DEF RegName
<1>3. QED
  BY HandlesInvariant, <1>1, <1>2, PTL DEF Spec
-----------------------------------------------------------------------------
\* What retireall found is retired already, or it is still to come to it: no
\* handle below handle_index is handed out again.
AbortInv ==
    \A t \in Threads : \A h \in found[t] : h < handle_index /\ (h2c[h] = NoCtx \/ next[t] \in 1 .. h)

\* "destroy all context" (command.h:223) holds of a node whose harbor is 0, where
\* handles are the numbers retireall counts through.  The run HandlesAbort
\* refutes it for another harbor.
THEOREM AbortCorrect ==
    ASSUME Harbor = 0
    PROVE  Spec => []AbortRetiresAll
<1>1. \A k \in Nat : HandleOf(k) = k
  BY HarborAssumption DEF HandleOf
<1>2. Init => AbortInv
  BY DEF Init, AbortInv
<1>3. ASSUME IInv, AbortInv, [Next]_vars PROVE AbortInv'
  <2> USE DEF At, Goto, maps, life, abort
  <2>1. TypeOK /\ TypeOK' /\ TableInv /\ \A t \in Threads : CallOK(t)
    BY <1>3, TypeStep DEF IInv, CallInv
  <2>2. handle_index \in Nat /\ handle_index' \in Nat /\ Handle \subseteq Nat
    BY <2>1, MaxLaunchAssumption, HandleOfFacts DEF TypeOK
  <2>3. \A t \in Threads : found[t] \subseteq Handle /\ next[t] \in Nat
    BY <2>1, MaxLaunchAssumption DEF TypeOK
  <2>4. ASSUME NEW t \in Threads, BeginAbort(t) PROVE AbortInv'
    <3>1. ASSUME NEW h \in Handle, h2c[h] # NoCtx PROVE h < handle_index /\ 1 \in 1 .. h
      <4>1. h # 0 /\ h2c[h] \in Numbered /\ handle[h2c[h]] = h
        BY <2>1, <3>1 DEF TableInv, Numbered, TypeOK
      <4>2. PICK k \in 1 .. handle_index - 1 : h = HandleOf(k)
        BY <2>1, <4>1 DEF TableInv
      <4>3. QED
        BY <1>1, <2>2, <4>2
    <3>2. /\ found' = [found EXCEPT ![t] = {h \in Handle : h2c[h] # NoCtx}]
          /\ next' = [next EXCEPT ![t] = 1] /\ UNCHANGED <<handle_index, h2c>>
      BY <2>4 DEF BeginAbort
    <3>3. QED
      BY <1>3, <2>1, <3>1, <3>2 DEF AbortInv, TypeOK
  <2>5. ASSUME NEW t \in Threads, NEW h \in Handle, RemoveHandle(t, h), UNCHANGED <<handle_index, found>>,
               next'[t] = next[t] \/ (h = next[t] /\ next'[t] = next[t] + 1),
               \A u \in Threads \ {t} : next'[u] = next[u]
        PROVE  AbortInv'
    <3> SUFFICES ASSUME NEW u \in Threads, NEW k \in found[u] PROVE h2c'[k] = NoCtx \/ next'[u] \in 1 .. k
      BY <1>3, <2>5 DEF AbortInv
    <3>1. h2c' = [h2c EXCEPT ![h] = NoCtx] /\ k \in Handle /\ k \in Nat
      BY <2>2, <2>3, <2>5 DEF RemoveHandle
    <3>2. h2c'[k] = NoCtx \/ (h2c'[k] = h2c[k] /\ k # h)
      BY <2>1, <3>1 DEF TypeOK
    <3>3. CASE next[u] \in 1 .. k
      BY <2>3, <2>5, <3>1, <3>2, <3>3
    <3>4. QED
      BY <1>3, <3>2, <3>3 DEF AbortInv
  <2>6. ASSUME NEW t \in Threads, NEW h \in Handle, Retire(t, h) PROVE AbortInv'
    BY <2>5, <2>6 DEF Retire
  <2>7. ASSUME NEW t \in Threads, RetireFailed(t) PROVE AbortInv'
    BY <2>1, <2>5, <2>7 DEF RetireFailed, TypeOK
  <2>8. ASSUME NEW t \in Threads, RetireNext(t) PROVE AbortInv'
    <3>1. next[t] < handle_index /\ handle_index <= MaxLaunch + 1
      BY <2>1, <2>8, MaxLaunchAssumption DEF RetireNext, CallOK, TypeOK
    <3>2. next[t] \in Handle
      BY <2>2, <2>3, <3>1, MaxLaunchAssumption, HandleOfFacts
    <3>3. next'[t] = next[t] + 1 /\ \A u \in Threads \ {t} : next'[u] = next[u]
      BY <2>1, <2>8 DEF RetireNext, TypeOK
    <3>4. QED
      BY <2>5, <2>8, <3>2, <3>3 DEF RetireNext
  <2>9. ASSUME NEW t \in Threads, Reg(t) PROVE AbortInv'
    <3>1. /\ h2c' = [h2c EXCEPT ![handle_index] = cur[t]] /\ handle_index' = handle_index + 1
          /\ UNCHANGED <<found, next>>
      BY <1>1, <2>2, <2>9 DEF Reg
    <3>2. \A u \in Threads : \A h \in found[u] : h2c'[h] = h2c[h] /\ h < handle_index'
      BY <1>3, <2>1, <2>2, <2>3, <3>1 DEF AbortInv, TypeOK
    <3>3. QED
      BY <1>3, <3>1, <3>2 DEF AbortInv
  <2>10. ASSUME NEW t \in Threads, Skip(t) PROVE AbortInv'
    <3>1. /\ h2c[next[t]] = NoCtx /\ next' = [next EXCEPT ![t] = next[t] + 1]
          /\ UNCHANGED <<handle_index, h2c, found>>
      BY <2>10 DEF Skip
    <3> SUFFICES ASSUME NEW u \in Threads, NEW k \in found[u] PROVE h2c[k] = NoCtx \/ next'[u] \in 1 .. k
      BY <1>3, <3>1 DEF AbortInv
    <3>2. CASE u = t /\ next[t] \in 1 .. k
      <4>1. next'[t] = next[t] + 1 /\ k \in Nat /\ next[t] \in Nat
        BY <2>1, <2>2, <2>3, <3>1, <3>2 DEF TypeOK
      <4>2. CASE k = next[t]
        BY <3>1, <4>2
      <4>3. CASE k # next[t]
        BY <3>2, <4>1, <4>3
      <4>4. QED
        BY <4>2, <4>3
    <3>3. CASE u # t
      BY <1>3, <2>1, <3>1, <3>3 DEF AbortInv, TypeOK
    <3>4. QED
      BY <1>3, <3>2, <3>3 DEF AbortInv
  <2>11. ASSUME NEW t \in Threads, EndAbort(t) PROVE AbortInv'
    <3>1. /\ next[t] >= handle_index /\ next' = [next EXCEPT ![t] = 0]
          /\ UNCHANGED <<handle_index, h2c, found>>
      BY <2>11 DEF EndAbort
    <3>2. ASSUME NEW h \in found[t] PROVE h2c[h] = NoCtx
      <4>1. h \in Nat /\ next[t] \in Nat
        BY <2>2, <2>3
      <4>2. h < handle_index /\ (h2c[h] = NoCtx \/ next[t] \in 1 .. h)
        BY <1>3 DEF AbortInv
      <4>3. next[t] \notin 1 .. h
        BY <2>2, <3>1, <4>1, <4>2
      <4>4. QED
        BY <4>2, <4>3
    <3>3. QED
      BY <1>3, <2>1, <3>1, <3>2 DEF AbortInv, TypeOK
  <2>12. ASSUME NEW t \in Threads, ReturnFromAbort(t) PROVE AbortInv'
    BY <1>3, <2>1, <2>12 DEF ReturnFromAbort, AbortInv, TypeOK
  <2>13. CASE UNCHANGED <<handle_index, h2c, next, found>>
    BY <1>3, <2>13 DEF AbortInv
  <2>14. ASSUME NEW t \in Threads, Begin(t)
         PROVE  BeginAbort(t) \/ (\E h \in Handle : Retire(t, h)) \/ UNCHANGED <<handle_index, h2c, next, found>>
    BY <2>14 DEF Begin, Create, Find, RegName
  <2>15. ASSUME NEW t \in Threads, Continue(t)
         PROVE  \/ RetireFailed(t) \/ RetireNext(t) \/ Reg(t) \/ Skip(t) \/ EndAbort(t) \/ ReturnFromAbort(t)
                \/ UNCHANGED <<handle_index, h2c, next, found>>
    BY <2>15 DEF Continue, NewQueue, CallInit, ReleaseLaunched, SetInit, PushQueue, ReleaseFailed, ReadHandle,
       Look, Grab, Use, Put
  <2>16. QED
    BY <1>3, <2>4, <2>6, <2>7, <2>8, <2>9, <2>10, <2>11, <2>12, <2>13, <2>14, <2>15 DEF Next, vars
<1>4. IInv /\ AbortInv => AbortRetiresAll
  BY DEF IInv, CallInv, CallOK, AbortInv, AbortRetiresAll, At
<1>5. QED
  BY HandlesInvariant, <1>2, <1>3, <1>4, PTL DEF Spec
=============================================================================
