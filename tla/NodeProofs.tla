----------------------------- MODULE NodeProofs -----------------------------
(***************************************************************************)
(* What the parts of Node promise, proved for every value of their         *)
(* constants: the module registry, the group manager, the multicast group  *)
(* and the ownership of data.  A part has an inductive invariant of its    *)
(* own, and the steps of the other parts leave it alone.                   *)
(***************************************************************************)
EXTENDS Node, Sequences, FiniteSetTheorems, Induction, TLAPS

-----------------------------------------------------------------------------
(* Modules *)

Inside(t) == loader[t] \in {"check", "open", "sym", "unlock"}

ModulesTypes ==
    /\ m \in [1 .. MAX_MODULE_TYPE -> ModuleNames \cup {Modules!Empty}]
    /\ m_count \in 0 .. MAX_MODULE_TYPE
    /\ module_lock \in BOOLEAN
    /\ opened \in [ModuleNames -> Nat]
    /\ loader \in [Loaders -> {"idle", "find", "lock", "check", "open", "sym", "unlock"}]
    /\ wanted \in [Loaders -> ModuleNames \cup {Modules!Empty}]
    /\ result \in [Loaders -> 0 .. MAX_MODULE_TYPE]
    /\ answers \subseteq ModuleNames \X (0 .. MAX_MODULE_TYPE)
    /\ \A t \in Loaders : loader[t] # "idle" => wanted[t] \in ModuleNames

\* One thread at a time is between lock and unlock.
ModulesLock ==
    /\ \A t \in Loaders : Inside(t) => module_lock
    /\ \A t, u \in Loaders : Inside(t) /\ Inside(u) => t = u

\* The array has a complete entry for name.
Loaded(name) == \E index \in 1 .. m_count : m[index] = name

\* An answer that is right, now and for ever.
Right(name, index) ==
    IF index = 0 THEN name \notin Initialising \/ (m_count = MAX_MODULE_TYPE /\ ~Loaded(name))
    ELSE index <= m_count /\ m[index] = name

\* What the thread between lock and unlock has found out.
ModulesLocal ==
    \A t \in Loaders :
        /\ loader[t] \in {"open", "sym"} => m_count < MAX_MODULE_TYPE /\ ~Loaded(wanted[t]) /\ result[t] = 0
        /\ loader[t] = "sym" => m[m_count + 1] = wanted[t]
        /\ loader[t] = "unlock" => Right(wanted[t], result[t])

\* A library is open once it is in the array, or about to be.
ModulesOpened ==
    \A n \in Initialising :
        opened[n] = IF Loaded(n) \/ \E t \in Loaders : loader[t] = "sym" /\ wanted[t] = n THEN 1 ELSE 0

ModulesEntries ==
    /\ \A k, l \in 1 .. m_count : m[k] \in Initialising /\ (m[k] = m[l] => k = l)
    /\ \A a \in answers : Right(a[1], a[2])

ModulesInv == ModulesTypes /\ ModulesLock /\ ModulesLocal /\ ModulesOpened /\ ModulesEntries

\* find returns the index of the name's entry, or 0.
LEMMA FoundFacts ==
    ASSUME ModulesInv, NEW name
    PROVE  /\ Modules!Found(name) \in 0 .. m_count
           /\ Modules!Found(name) = 0 <=> ~Loaded(name)
           /\ Modules!Found(name) # 0 => m[Modules!Found(name)] = name
<1>1. m_count \in Nat
  BY ModulesAssumption DEF ModulesInv, ModulesTypes
<1>2. CASE Loaded(name)
  <2>1. Modules!Found(name) = CHOOSE index \in 1 .. m_count : m[index] = name
    BY <1>2 DEF Modules!Found, Loaded
  <2>2. Modules!Found(name) \in 1 .. m_count /\ m[Modules!Found(name)] = name
    BY <1>2, <2>1 DEF Loaded
  <2>3. QED
    BY <1>1, <1>2, <2>2
<1>3. CASE ~Loaded(name)
  BY <1>1, <1>3 DEF Modules!Found, Loaded
<1>4. QED
  BY <1>2, <1>3

\* No library is open and no thread looks for one.
LEMMA ModulesInit == Modules!Init => ModulesInv
<1> SUFFICES ASSUME Modules!Init PROVE ModulesInv
  OBVIOUS
<1>1. ModulesTypes
  <2>1. /\ m \in [1 .. MAX_MODULE_TYPE -> ModuleNames \cup {Modules!Empty}]
        /\ wanted \in [Loaders -> ModuleNames \cup {Modules!Empty}]
    BY DEF Modules!Init, Modules!Empty
  <2>2. m_count \in 0 .. MAX_MODULE_TYPE /\ result \in [Loaders -> 0 .. MAX_MODULE_TYPE]
    BY ModulesAssumption DEF Modules!Init
  <2>3. opened \in [ModuleNames -> Nat]
    BY DEF Modules!Init
  <2>4. QED
    BY <2>1, <2>2, <2>3 DEF Modules!Init, ModulesTypes
<1>2. ModulesLock /\ ModulesLocal
  BY DEF Modules!Init, ModulesLock, ModulesLocal, Inside
<1>3. ModulesOpened /\ ModulesEntries
  BY ModulesAssumption DEF Modules!Init, ModulesOpened, ModulesEntries, Loaded
<1>4. QED
  BY <1>1, <1>2, <1>3 DEF ModulesInv

\* A thread's step of Modules::query keeps the invariant.
LEMMA ModulesStep == ASSUME ModulesInv, Modules!Next PROVE ModulesInv'
<1>0. /\ ModulesTypes /\ ModulesLock /\ ModulesLocal /\ ModulesOpened /\ ModulesEntries
      /\ m_count \in Nat /\ MAX_MODULE_TYPE \in Nat /\ Initialising \subseteq Opening /\ Opening \subseteq ModuleNames
  BY ModulesAssumption DEF ModulesInv, ModulesTypes
<1>1. ASSUME NEW t \in Loaders, NEW name \in ModuleNames, Modules!Query(t, name) PROVE ModulesInv'
  <2>1. ModulesTypes'
    <3>1. wanted' = [wanted EXCEPT ![t] = name] /\ loader' = [loader EXCEPT ![t] = "find"]
          /\ UNCHANGED <<m, m_count, module_lock, opened, result, answers>>
      BY <1>1 DEF Modules!Query, Modules!Goto
    <3>2. wanted' \in [Loaders -> ModuleNames \cup {Modules!Empty}]
      BY <1>0, <3>1 DEF ModulesTypes
    <3>3. loader' \in [Loaders -> {"idle", "find", "lock", "check", "open", "sym", "unlock"}]
      BY <1>0, <3>1 DEF ModulesTypes
    <3>4. \A u \in Loaders : loader'[u] # "idle" => wanted'[u] \in ModuleNames
      BY <1>0, <3>1 DEF ModulesTypes
    <3>5. module_lock' \in BOOLEAN /\ UNCHANGED <<m, m_count, opened, result, answers>>
      BY <1>0, <3>1 DEF ModulesTypes
    <3>6. QED
      BY <1>0, <3>2, <3>3, <3>4, <3>5 DEF ModulesTypes, Modules!Empty
  <2>2. ModulesLock'
    BY <1>0, <1>1 DEF Modules!Query, Modules!Goto, ModulesLock, Inside, ModulesTypes
  <2>3. ModulesLocal'
    BY <1>0, <1>1 DEF Modules!Query, Modules!Goto, ModulesLocal, Loaded, Right, ModulesTypes
  <2>4. ModulesOpened'
    BY <1>0, <1>1 DEF Modules!Query, Modules!Goto, ModulesOpened, Loaded, ModulesTypes
  <2>5. ModulesEntries'
    BY <1>0, <1>1 DEF Modules!Query, Modules!Goto, ModulesEntries, Loaded, Right, ModulesTypes
  <2>6. QED
    BY <2>1, <2>2, <2>3, <2>4, <2>5 DEF ModulesInv
<1>2. ASSUME NEW t \in Loaders, Modules!Find(t) PROVE ModulesInv'
  <2>1. ModulesTypes'
    <3>1. CASE Modules!Found(wanted[t]) = 0
      BY <1>0, <1>2, <3>1 DEF Modules!Find, Modules!Goto, ModulesTypes
    <3>2. CASE Modules!Found(wanted[t]) # 0
      <4>1. /\ wanted' = [wanted EXCEPT ![t] = Modules!Empty] /\ result' = [result EXCEPT ![t] = 0]
            /\ loader' = [loader EXCEPT ![t] = "idle"] /\ UNCHANGED <<m, m_count, module_lock, opened>>
            /\ answers' = answers \cup {<<wanted[t], Modules!Found(wanted[t])>>}
        BY <1>2, <3>2 DEF Modules!Find, Modules!Answer, Modules!Goto
      <4>2. wanted[t] \in ModuleNames /\ Modules!Found(wanted[t]) \in 0 .. MAX_MODULE_TYPE
        BY <1>0, <1>2, FoundFacts DEF Modules!Find, ModulesTypes
      <4>3. /\ wanted' \in [Loaders -> ModuleNames \cup {Modules!Empty}]
            /\ result' \in [Loaders -> 0 .. MAX_MODULE_TYPE]
        BY <1>0, <4>1 DEF ModulesTypes
      <4>4. /\ loader' \in [Loaders -> {"idle", "find", "lock", "check", "open", "sym", "unlock"}]
            /\ \A u \in Loaders : loader'[u] # "idle" => wanted'[u] \in ModuleNames
        BY <1>0, <4>1 DEF ModulesTypes
      <4>5. answers' \subseteq ModuleNames \X (0 .. MAX_MODULE_TYPE)
        BY <1>0, <4>1, <4>2 DEF ModulesTypes
      <4>6. module_lock' \in BOOLEAN /\ UNCHANGED <<m, m_count, opened>>
        BY <1>0, <4>1 DEF ModulesTypes
      <4>7. QED
        BY <1>0, <4>3, <4>4, <4>5, <4>6 DEF ModulesTypes, Modules!Empty
    <3>3. QED
      BY <3>1, <3>2
  <2>2. ModulesLock'
    BY <1>0, <1>2 DEF Modules!Find, Modules!Answer, Modules!Goto, ModulesLock, Inside, ModulesTypes
  <2>3. ModulesLocal'
    BY <1>0, <1>2, FoundFacts DEF Modules!Find, Modules!Answer, Modules!Goto, ModulesLocal, Loaded, Right, ModulesTypes
  <2>4. ModulesOpened'
    BY <1>0, <1>2, FoundFacts, ZenonT(40) DEF Modules!Find, Modules!Answer, Modules!Goto, ModulesOpened, Loaded, ModulesTypes
  <2>5. ModulesEntries'
    BY <1>0, <1>2, FoundFacts DEF Modules!Find, Modules!Answer, Modules!Goto, ModulesEntries, Loaded, Right, ModulesTypes
  <2>6. QED
    BY <2>1, <2>2, <2>3, <2>4, <2>5 DEF ModulesInv
<1>3. ASSUME NEW t \in Loaders, Modules!LockModules(t) PROVE ModulesInv'
  <2>1. ModulesTypes'
    BY <1>0, <1>3 DEF Modules!LockModules, Modules!Goto, ModulesTypes
  <2>2. ModulesLock'
    BY <1>0, <1>3 DEF Modules!LockModules, Modules!Goto, ModulesLock, Inside, ModulesTypes
  <2>3. ModulesLocal'
    BY <1>0, <1>3 DEF Modules!LockModules, Modules!Goto, ModulesLocal, Loaded, Right, ModulesTypes
  <2>4. ModulesOpened'
    BY <1>0, <1>3 DEF Modules!LockModules, Modules!Goto, ModulesOpened, Loaded, ModulesTypes
  <2>5. ModulesEntries'
    BY <1>0, <1>3 DEF Modules!LockModules, Modules!Goto, ModulesEntries, Loaded, Right, ModulesTypes
  <2>6. QED
    BY <2>1, <2>2, <2>3, <2>4, <2>5 DEF ModulesInv
<1>4. ASSUME NEW t \in Loaders, Modules!DoubleCheck(t) PROVE ModulesInv'
  <2>1. ModulesTypes'
    BY <1>0, <1>4, FoundFacts DEF Modules!DoubleCheck, Modules!Goto, ModulesTypes
  <2>2. ModulesLock'
    BY <1>0, <1>4 DEF Modules!DoubleCheck, Modules!Goto, ModulesLock, Inside, ModulesTypes
  <2>3. ModulesLocal'
    BY <1>0, <1>4, FoundFacts DEF Modules!DoubleCheck, Modules!Goto, ModulesLocal, Loaded, Right, ModulesTypes
  <2>4. ModulesOpened'
    BY <1>0, <1>4, FoundFacts DEF Modules!DoubleCheck, Modules!Goto, ModulesOpened, Loaded, ModulesTypes
  <2>5. ModulesEntries'
    BY <1>0, <1>4, FoundFacts DEF Modules!DoubleCheck, Modules!Goto, ModulesEntries, Loaded, Right, ModulesTypes
  <2>6. QED
    BY <2>1, <2>2, <2>3, <2>4, <2>5 DEF ModulesInv
<1>5. ASSUME NEW t \in Loaders, Modules!TryOpen(t) PROVE ModulesInv'
  <2>0. /\ loader[t] = "open" /\ m_count < MAX_MODULE_TYPE /\ ~Loaded(wanted[t]) /\ result[t] = 0
        /\ wanted[t] \in ModuleNames /\ m_count + 1 \in 1 .. MAX_MODULE_TYPE
        /\ UNCHANGED <<m_count, module_lock, wanted, result, answers>>
    BY <1>0, <1>5 DEF Modules!TryOpen, ModulesTypes, ModulesLocal
  <2>1. \A u \in Loaders \ {t} : loader'[u] = loader[u] /\ loader[u] \notin {"check", "open", "sym", "unlock"}
    BY <1>0, <1>5, <2>0 DEF Modules!TryOpen, Modules!Goto, ModulesLock, Inside, ModulesTypes
  <2>2. \A index \in 1 .. m_count : m'[index] = m[index]
    BY <1>0, <1>5, <2>0 DEF Modules!TryOpen, ModulesTypes
  <2>3. \A n : Loaded(n)' <=> Loaded(n)
    BY <1>0, <2>0, <2>2 DEF Loaded
  <2>5. ModulesLock'
    <3>1. loader'[t] \in {"sym", "unlock"} /\ module_lock
      BY <1>0, <1>5, <2>0 DEF Modules!TryOpen, Modules!Goto, ModulesTypes, ModulesLock, Inside
    <3>2. QED
      BY <1>0, <2>0, <2>1, <3>1 DEF ModulesLock, Inside
  <2>6. ModulesEntries'
    <3>1. \A a \in answers : Right(a[1], a[2])'
      <4> SUFFICES ASSUME NEW a \in answers PROVE Right(a[1], a[2])'
        OBVIOUS
      <4>1. a[2] \in 0 .. MAX_MODULE_TYPE /\ Right(a[1], a[2])
        BY <1>0 DEF ModulesTypes, ModulesEntries
      <4>2. QED
        BY <1>0, <2>0, <2>2, <2>3, <4>1 DEF Right
    <3>2. QED
      BY <1>0, <2>0, <2>2, <3>1 DEF ModulesEntries
  <2>4. CASE wanted[t] \in Opening
    <3>1. /\ opened' = [opened EXCEPT ![wanted[t]] = opened[wanted[t]] + 1]
          /\ m' = [m EXCEPT ![m_count + 1] = wanted[t]]
          /\ loader' = [loader EXCEPT ![t] = "sym"]
      BY <1>5, <2>4 DEF Modules!TryOpen, Modules!Goto
    <3>2. opened' \in [ModuleNames -> Nat]
      BY <1>0, <2>0, <3>1 DEF ModulesTypes
    <3>3. ModulesTypes'
      BY <1>0, <2>0, <3>1, <3>2 DEF ModulesTypes
    <3>4. m'[m_count + 1] = wanted[t] /\ loader'[t] = "sym"
      BY <1>0, <2>0, <3>1 DEF ModulesTypes
    <3>5. ModulesLocal'
      BY <1>0, <2>0, <2>1, <2>3, <3>4 DEF ModulesLocal
    <3>6. ModulesOpened'
      <4> SUFFICES ASSUME NEW n \in Initialising
                   PROVE  (opened[n] = IF Loaded(n) \/ \E u \in Loaders : loader[u] = "sym" /\ wanted[u] = n THEN 1 ELSE 0)'
        BY DEF ModulesOpened
      <4>1. CASE n = wanted[t]
        <5>1. opened[n] = 0
          BY <1>0, <2>0, <2>1, <4>1 DEF ModulesOpened
        <5>2. opened'[n] = 1
          BY <1>0, <2>0, <3>1, <4>1, <5>1 DEF ModulesTypes
        <5>3. QED
          BY <2>0, <3>4, <4>1, <5>2
      <4>2. CASE n # wanted[t]
        <5>1. opened'[n] = opened[n]
          BY <1>0, <2>0, <3>1, <4>2 DEF ModulesTypes
        <5>2. \A u \in Loaders : ~(loader'[u] = "sym" /\ wanted'[u] = n) /\ ~(loader[u] = "sym" /\ wanted[u] = n)
          BY <2>0, <2>1, <4>2
        <5>3. QED
          BY <1>0, <2>0, <2>3, <5>1, <5>2 DEF ModulesOpened
      <4>3. QED
        BY <4>1, <4>2
    <3>7. QED
      BY <3>3, <3>5, <3>6, <2>5, <2>6 DEF ModulesInv
  <2>7. CASE wanted[t] \notin Opening
    <3>1. UNCHANGED <<m, opened>> /\ loader' = [loader EXCEPT ![t] = "unlock"]
      BY <1>5, <2>7 DEF Modules!TryOpen, Modules!Goto
    <3>2. ModulesTypes' /\ loader'[t] = "unlock"
      BY <1>0, <2>0, <3>1 DEF ModulesTypes
    <3>3. ModulesLocal'
      BY <1>0, <2>0, <2>1, <2>3, <2>7, <3>2 DEF ModulesLocal, Right
    <3>4. \A u \in Loaders : loader'[u] # "sym" /\ loader[u] # "sym"
      BY <2>0, <2>1, <3>2
    <3>5. ModulesOpened'
      BY <1>0, <2>0, <2>3, <3>1, <3>4 DEF ModulesOpened
    <3>6. QED
      BY <3>2, <3>3, <3>5, <2>5, <2>6 DEF ModulesInv
  <2>8. QED
    BY <2>4, <2>7
<1>6. ASSUME NEW t \in Loaders, Modules!OpenSym(t) PROVE ModulesInv'
  <2>0. /\ loader[t] = "sym" /\ m_count < MAX_MODULE_TYPE /\ ~Loaded(wanted[t]) /\ result[t] = 0
        /\ m[m_count + 1] = wanted[t] /\ wanted[t] \in ModuleNames /\ m_count + 1 \in 1 .. MAX_MODULE_TYPE
        /\ UNCHANGED <<m, opened, module_lock, wanted, answers>>
        /\ loader' = [loader EXCEPT ![t] = "unlock"] /\ loader'[t] = "unlock"
    BY <1>0, <1>6 DEF Modules!OpenSym, Modules!Goto, ModulesTypes, ModulesLocal
  <2>1. \A u \in Loaders \ {t} : loader'[u] = loader[u] /\ loader[u] \notin {"check", "open", "sym", "unlock"}
    BY <1>0, <2>0 DEF ModulesLock, Inside, ModulesTypes
  <2>2. ModulesLock'
    BY <1>0, <2>0, <2>1 DEF ModulesLock, Inside
  <2>3. \A u \in Loaders : loader'[u] # "sym" /\ (loader[u] = "sym" <=> u = t)
    BY <2>0, <2>1
  <2>4. CASE wanted[t] \in Initialising
    <3>1. m_count' = m_count + 1 /\ result' = [result EXCEPT ![t] = m_count + 1] /\ result'[t] = m_count + 1
      BY <1>0, <1>6, <2>4 DEF Modules!OpenSym, ModulesTypes
    <3>2. ModulesTypes'
      BY <1>0, <2>0, <3>1 DEF ModulesTypes
    <3>3. \A n : Loaded(n)' <=> Loaded(n) \/ n = wanted[t]
      BY <1>0, <2>0, <3>1 DEF Loaded
    <3>4. ModulesLocal'
      BY <1>0, <2>0, <2>1, <3>1 DEF ModulesLocal, Right
    <3>5. ModulesOpened'
      BY <1>0, <2>0, <2>3, <3>3 DEF ModulesOpened
    <3>6. \A index \in 1 .. m_count' : index \in 1 .. m_count \/ index = m_count + 1
      BY <1>0, <3>1
    <3>7. \A k, l \in 1 .. m_count' : m'[k] \in Initialising /\ (m'[k] = m'[l] => k = l)
      BY <1>0, <2>0, <2>4, <3>6 DEF ModulesEntries, Loaded
    <3>8. \A a \in answers : Right(a[1], a[2])'
      <4> SUFFICES ASSUME NEW a \in answers PROVE Right(a[1], a[2])'
        OBVIOUS
      <4>1. a[2] \in 0 .. MAX_MODULE_TYPE /\ Right(a[1], a[2])
        BY <1>0 DEF ModulesTypes, ModulesEntries
      <4>2. QED
        BY <1>0, <2>0, <3>1, <3>3, <4>1 DEF Right
    <3>9. QED
      BY <2>0, <2>2, <3>2, <3>4, <3>5, <3>7, <3>8 DEF ModulesInv, ModulesEntries
  <2>5. CASE wanted[t] \notin Initialising
    <3>1. UNCHANGED <<m_count, result>>
      BY <1>6, <2>5 DEF Modules!OpenSym
    <3>2. ModulesTypes'
      BY <1>0, <2>0, <3>1 DEF ModulesTypes
    <3>3. ModulesEntries'
      BY <1>0, <2>0, <3>1 DEF ModulesEntries, Right, Loaded
    <3>4. ModulesLocal'
      BY <1>0, <2>0, <2>1, <2>5, <3>1 DEF ModulesLocal, Right, Loaded
    <3>5. \A n \in Initialising : ~\E u \in Loaders : loader[u] = "sym" /\ wanted[u] = n
      BY <2>3, <2>5
    <3>6. ModulesOpened'
      BY <1>0, <2>0, <2>3, <3>1, <3>5 DEF ModulesOpened, Loaded
    <3>7. QED
      BY <2>2, <3>2, <3>3, <3>4, <3>6 DEF ModulesInv
  <2>6. QED
    BY <2>4, <2>5
<1>7. ASSUME NEW t \in Loaders, Modules!UnlockModules(t) PROVE ModulesInv'
  <2>0. /\ loader[t] = "unlock" /\ UNCHANGED <<m, m_count, opened>> /\ ~module_lock'
        /\ answers' = answers \cup {<<wanted[t], result[t]>>} /\ result[t] \in 0 .. MAX_MODULE_TYPE
        /\ wanted' = [wanted EXCEPT ![t] = Modules!Empty] /\ result' = [result EXCEPT ![t] = 0]
        /\ loader' = [loader EXCEPT ![t] = "idle"] /\ loader'[t] = "idle"
    BY <1>0, <1>7 DEF Modules!UnlockModules, Modules!Answer, Modules!Goto, ModulesTypes
  <2>1. \A u \in Loaders \ {t} : loader'[u] = loader[u] /\ wanted'[u] = wanted[u]
            /\ loader[u] \notin {"check", "open", "sym", "unlock"}
    BY <1>0, <2>0 DEF ModulesLock, Inside, ModulesTypes
  <2>2. module_lock' \in BOOLEAN
    BY <1>7 DEF Modules!UnlockModules
  <2>3. wanted' \in [Loaders -> ModuleNames \cup {Modules!Empty}] /\ result' \in [Loaders -> 0 .. MAX_MODULE_TYPE]
    BY <1>0, <2>0 DEF ModulesTypes
  <2>4. ModulesTypes'
    BY <1>0, <2>0, <2>1, <2>2, <2>3 DEF ModulesTypes
  <2>5. ModulesLock'
    BY <2>0, <2>1 DEF ModulesLock, Inside
  <2>6. ModulesLocal'
    BY <2>0, <2>1 DEF ModulesLocal
  <2>7. ModulesOpened'
    BY <1>0, <2>0, <2>1 DEF ModulesOpened, Loaded
  <2>8. Right(wanted[t], result[t])
    BY <1>0, <2>0 DEF ModulesLocal
  <2>9. ModulesEntries'
    <3>1. \A a \in answers' : Right(a[1], a[2])
      BY <1>0, <2>0, <2>8 DEF ModulesEntries
    <3>2. QED
      BY <1>0, <2>0, <3>1 DEF ModulesEntries, Right, Loaded
  <2>10. QED
    BY <2>4, <2>5, <2>6, <2>7, <2>9 DEF ModulesInv
<1>8. QED
  BY <1>1, <1>2, <1>3, <1>4, <1>5, <1>6, <1>7 DEF Modules!Next

\* Modules::query loads a module once and everybody finds it at the same place: the
\* array has no name twice, what has an entry is open once, and an answer given stays
\* right (module.h:79-107).
THEOREM ModulesCorrect == Spec => []ModulesOnce
<1>1. Init => ModulesInv
  BY ModulesInit DEF Init
<1>2. ASSUME ModulesInv, [Next]_vars PROVE ModulesInv'
  <2>1. CASE Modules!Next
    BY <1>2, <2>1, ModulesStep
  <2>2. CASE UNCHANGED modules
    BY <1>2, <2>2 DEF modules, ModulesInv, ModulesTypes, ModulesLock, ModulesLocal, ModulesOpened,
     ModulesEntries, Inside, Loaded, Right
  <2>3. QED
    BY <1>2, <2>1, <2>2 DEF Next, vars
<1>3. ASSUME ModulesInv PROVE ModulesOnce
  <2>1. \A n : Modules!Found(n) = 0 <=> ~Loaded(n)
    BY <1>3, FoundFacts
  <2>2. QED
    BY <1>3, <2>1 DEF ModulesOnce, Modules!ModulesOnce, ModulesInv, ModulesEntries, ModulesOpened, Right
<1>4. QED
  BY <1>1, <1>2, <1>3, PTL DEF Spec
-----------------------------------------------------------------------------
(* Groups *)

GroupCommands == {"E", "L"}

\* Between lock and unlock.
Locking(t) == at[t] \in {"locked", "unlock"}

\* An ENTER of t that has been counted and not been sent.
Entering(t) == cmd[t] = "ENTER" /\ at[t] \in {"unlock", "use"}

\* Where the services are, and the table.
GroupsTypes ==
    /\ creations \in 0 .. MaxGroups
    /\ m_hash \in [GroupHandles -> 0 .. creations]
    /\ m_lock \in BOOLEAN
    /\ killed \subseteq 1 .. creations
    /\ at \in [Services -> {"idle", "lock", "locked", "unlock", "use"}]
    /\ cmd \in [Services -> {"none", "QUERY", "ENTER", "LEAVE", "CLEAR"}]
    /\ group \in [Services -> GroupHandles \cup {NoGroup}]
    /\ ctx \in [Services -> 0 .. creations]
    /\ \A t \in Services : at[t] # "idle" => group[t] \in GroupHandles

\* The contexts' queues, and the history; nobody has written to a context that is not yet.
GroupsQueues ==
    /\ sent \in [1 .. MaxGroups -> [Services -> Seq(GroupCommands)]]
    /\ cleared \in [1 .. MaxGroups -> Nat]
    /\ late \in [1 .. MaxGroups -> SUBSET {"E", "L", "C"}]
    /\ effect \in [GroupHandles -> [Services -> Seq(GroupCommands)]]
    /\ \A c \in 1 .. MaxGroups :
          c > creations => cleared[c] = 0 /\ late[c] = {} /\ \A t \in Services : sent[c][t] = <<>>

\* One service at a time is between lock and unlock.
GroupsLock ==
    /\ \A t \in Services : Locking(t) => m_lock
    /\ \A t, u \in Services : Locking(t) /\ Locking(u) => t = u

\* A context is one group's; whoever has read it has it for that group.
GroupsOwner ==
    /\ \A g, h \in GroupHandles : m_hash[g] = m_hash[h] /\ m_hash[g] # 0 => g = h
    /\ \A g \in GroupHandles : m_hash[g] = 0 => \A t \in Services : effect[g][t] = <<>>
    /\ \A t \in Services :
          /\ ctx[t] # 0 => at[t] \in {"unlock", "use"} /\ cmd[t] \in {"QUERY", "ENTER"}
          /\ at[t] = "use" => ctx[t] # 0
          /\ \A g \in GroupHandles : ctx[t] # 0 /\ m_hash[g] = ctx[t] => g = group[t]

\* A context that lives has been told what took effect on its group, but for what is on its way.
GroupsTold ==
    \A g \in GroupHandles, t \in Services :
        m_hash[g] # 0 /\ m_hash[g] \notin killed =>
           effect[g][t] = IF Entering(t) /\ ctx[t] = m_hash[g] THEN Append(sent[m_hash[g]][t], "E")
                          ELSE sent[m_hash[g]][t]

\* A context that lives is a group's, or has been told that it is no more.
GroupsCleared ==
    \A c \in 1 .. creations \ killed :
        /\ (\E g \in GroupHandles : m_hash[g] = c) => cleared[c] = 0
        /\ ~(\E g \in GroupHandles : m_hash[g] = c) => cleared[c] = 1
        /\ late[c] \subseteq {"E"}

GroupsInv ==
    GroupsTypes /\ GroupsQueues /\ GroupsLock /\ GroupsOwner /\ GroupsTold /\ GroupsCleared

\* A command reaches its context alone, and that only if it lives.
LEMMA Sending ==
    ASSUME GroupsTypes, GroupsQueues, NEW c \in 1 .. creations, NEW t \in Services, NEW k \in GroupCommands,
           Groups!SendCommand(c, t, k)
    PROVE  /\ c \in 1 .. MaxGroups /\ UNCHANGED cleared
           /\ sent' \in [1 .. MaxGroups -> [Services -> Seq(GroupCommands)]]
           /\ \A d \in 1 .. MaxGroups : d # c => sent'[d] = sent[d]
           /\ \A u \in Services : u # t => sent'[c][u] = sent[c][u]
           /\ c \notin killed => sent'[c][t] = Append(sent[c][t], k)
           /\ late' \in [1 .. MaxGroups -> SUBSET {"E", "L", "C"}]
           /\ \A d \in 1 .. MaxGroups : d # c => late'[d] = late[d]
           /\ cleared[c] = 0 => late' = late
           /\ late'[c] \subseteq late[c] \cup {k}
<1>1. /\ c \in 1 .. MaxGroups /\ sent[c] \in [Services -> Seq(GroupCommands)] /\ sent[c][t] \in Seq(GroupCommands)
      /\ sent \in [1 .. MaxGroups -> [Services -> Seq(GroupCommands)]]
      /\ late \in [1 .. MaxGroups -> SUBSET {"E", "L", "C"}] /\ late[c] \in SUBSET {"E", "L", "C"}
      /\ k \in {"E", "L", "C"}
  BY GroupsAssumption DEF GroupsTypes, GroupsQueues, GroupCommands
<1>2. Append(sent[c][t], k) \in Seq(GroupCommands)
  BY <1>1
<1>3. CASE c \in killed
  BY <1>1, <1>3 DEF Groups!SendCommand, Groups!After
<1>4. CASE c \notin killed
  <2>1. sent' = [sent EXCEPT ![c] = [sent[c] EXCEPT ![t] = Append(sent[c][t], k)]] /\ UNCHANGED cleared
    BY <1>4 DEF Groups!SendCommand
  <2>2. late' = late \/ late' = [late EXCEPT ![c] = @ \cup {k}]
    BY DEF Groups!SendCommand, Groups!After
  <2>3. [sent[c] EXCEPT ![t] = Append(sent[c][t], k)] \in [Services -> Seq(GroupCommands)]
    BY <1>1, <1>2
  <2>4. /\ sent' \in [1 .. MaxGroups -> [Services -> Seq(GroupCommands)]]
        /\ \A d \in 1 .. MaxGroups : d # c => sent'[d] = sent[d]
        /\ sent'[c] = [sent[c] EXCEPT ![t] = Append(sent[c][t], k)]
    BY <1>1, <2>1, <2>3
  <2>5. \A u \in Services : u # t => sent'[c][u] = sent[c][u]
    BY <1>1, <2>4
  <2>6. sent'[c][t] = Append(sent[c][t], k)
    BY <1>1, <2>4
  <2>7. late[c] \cup {k} \in SUBSET {"E", "L", "C"}
    BY <1>1
  <2>8. /\ late' \in [1 .. MaxGroups -> SUBSET {"E", "L", "C"}]
        /\ \A d \in 1 .. MaxGroups : d # c => late'[d] = late[d]
        /\ late'[c] \subseteq late[c] \cup {k}
    BY <1>1, <2>2, <2>7
  <2>9. cleared[c] = 0 => late' = late
    BY DEF Groups!SendCommand, Groups!After
  <2>10. QED
    BY <1>1, <2>1, <2>4, <2>5, <2>6, <2>8, <2>9
<1>5. QED
  BY <1>3, <1>4

\* The history of one service on one group grows.
LEMMA Taking ==
    ASSUME GroupsQueues, NEW g \in GroupHandles, NEW t \in Services, NEW k \in GroupCommands,
           effect' = [effect EXCEPT ![g][t] = Append(@, k)]
    PROVE  /\ effect' \in [GroupHandles -> [Services -> Seq(GroupCommands)]]
           /\ \A h \in GroupHandles : h # g => effect'[h] = effect[h]
           /\ \A u \in Services : u # t => effect'[g][u] = effect[g][u]
           /\ effect'[g][t] = Append(effect[g][t], k)
<1>1. /\ effect \in [GroupHandles -> [Services -> Seq(GroupCommands)]]
      /\ effect[g] \in [Services -> Seq(GroupCommands)] /\ effect[g][t] \in Seq(GroupCommands)
      /\ effect' = [effect EXCEPT ![g] = [effect[g] EXCEPT ![t] = Append(effect[g][t], k)]]
  BY DEF GroupsQueues
<1>2. Append(effect[g][t], k) \in Seq(GroupCommands)
  BY <1>1
<1>3. [effect[g] EXCEPT ![t] = Append(effect[g][t], k)] \in [Services -> Seq(GroupCommands)]
  BY <1>1, <1>2
<1>4. /\ effect' \in [GroupHandles -> [Services -> Seq(GroupCommands)]]
      /\ \A h \in GroupHandles : h # g => effect'[h] = effect[h]
      /\ effect'[g] = [effect[g] EXCEPT ![t] = Append(effect[g][t], k)]
  BY <1>1, <1>3
<1>5. QED
  BY <1>1, <1>4

\* There is no group.
LEMMA GroupsInit == Groups!Init => GroupsInv
<1> SUFFICES ASSUME Groups!Init PROVE GroupsInv
  OBVIOUS
<1>1. GroupsTypes
  <2>1. /\ m_hash \in [GroupHandles -> 0 .. creations] /\ ctx \in [Services -> 0 .. creations]
        /\ creations \in 0 .. MaxGroups /\ killed \subseteq 1 .. creations
    BY GroupsAssumption DEF Groups!Init
  <2>2. /\ at \in [Services -> {"idle", "lock", "locked", "unlock", "use"}]
        /\ cmd \in [Services -> {"none", "QUERY", "ENTER", "LEAVE", "CLEAR"}]
        /\ group \in [Services -> GroupHandles \cup {NoGroup}]
    BY DEF Groups!Init
  <2>3. QED
    BY <2>1, <2>2 DEF Groups!Init, GroupsTypes
<1>2. GroupsQueues
  <2>1. [t \in Services |-> <<>>] \in [Services -> Seq(GroupCommands)]
    OBVIOUS
  <2>2. QED
    BY <2>1 DEF Groups!Init, GroupsQueues
<1>3. GroupsLock /\ GroupsOwner
  BY DEF Groups!Init, GroupsLock, GroupsOwner, Locking
<1>4. GroupsTold /\ GroupsCleared
  BY DEF Groups!Init, GroupsTold, GroupsCleared
<1>5. QED
  BY <1>1, <1>2, <1>3, <1>4 DEF GroupsInv

\* A step that sends nothing, and leaves the table and all ENTERs alone.
GroupsQuiet ==
    /\ UNCHANGED <<m_hash, creations, effect, sent, cleared, late, killed>>
    /\ \A u \in Services : /\ Entering(u)' <=> Entering(u)
                           /\ Entering(u) => ctx'[u] = ctx[u]

LEMMA GroupsQuietStep ==
    ASSUME GroupsInv, GroupsQuiet PROVE GroupsQueues' /\ GroupsTold' /\ GroupsCleared'
<1>1. UNCHANGED <<m_hash, creations, effect, sent, cleared, late, killed>>
  BY DEF GroupsQuiet
<1>2. GroupsQueues'
  BY <1>1 DEF GroupsQueues, GroupsInv, GroupCommands
<1>3. GroupsCleared'
  BY <1>1 DEF GroupsCleared, GroupsInv
<1>4. GroupsTold'
  <2> SUFFICES ASSUME NEW g \in GroupHandles, NEW t \in Services, m_hash[g] # 0, m_hash[g] \notin killed
               PROVE  effect[g][t] = IF Entering(t)' /\ ctx'[t] = m_hash[g] THEN Append(sent[m_hash[g]][t], "E")
                                     ELSE sent[m_hash[g]][t]
    BY <1>1 DEF GroupsTold
  <2>1. (Entering(t)' /\ ctx'[t] = m_hash[g]) <=> (Entering(t) /\ ctx[t] = m_hash[g])
    BY DEF GroupsQuiet
  <2>2. effect[g][t] = IF Entering(t) /\ ctx[t] = m_hash[g] THEN Append(sent[m_hash[g]][t], "E")
                       ELSE sent[m_hash[g]][t]
    BY DEF GroupsTold, GroupsInv
  <2>3. CASE Entering(t) /\ ctx[t] = m_hash[g]
    BY <2>1, <2>2, <2>3
  <2>4. CASE ~(Entering(t) /\ ctx[t] = m_hash[g])
    BY <2>1, <2>2, <2>4
  <2>5. QED
    BY <2>3, <2>4
<1>5. QED
  BY <1>2, <1>3, <1>4

\* A step of the group manager keeps the invariant.
LEMMA GroupsStep == ASSUME GroupsInv, Groups!Next PROVE GroupsInv'
<1>0. /\ GroupsTypes /\ GroupsQueues /\ GroupsLock /\ GroupsOwner /\ GroupsTold /\ GroupsCleared
      /\ creations \in Nat /\ MaxGroups \in Nat /\ creations <= MaxGroups
  BY GroupsAssumption DEF GroupsInv, GroupsTypes
<1>1. ASSUME NEW t \in Services, NEW g \in GroupHandles, NEW c \in {"QUERY", "ENTER", "LEAVE", "CLEAR"},
             Groups!Begin(t, c, g)
      PROVE  GroupsInv'
  <2>0. /\ at[t] = "idle" /\ ctx[t] = 0
        /\ cmd' = [cmd EXCEPT ![t] = c] /\ group' = [group EXCEPT ![t] = g] /\ at' = [at EXCEPT ![t] = "lock"]
        /\ UNCHANGED <<m_hash, creations, effect, m_lock, sent, cleared, late, killed, ctx>>
        /\ at'[t] = "lock" /\ group'[t] = g
    BY <1>0, <1>1 DEF Groups!Begin, Groups!Goto, Groups!table, Groups!queues, GroupsTypes, GroupsOwner
  <2>1. \A u \in Services \ {t} : at'[u] = at[u] /\ cmd'[u] = cmd[u] /\ group'[u] = group[u] /\ ctx'[u] = ctx[u]
    BY <1>0, <2>0 DEF GroupsTypes
  <2>2. GroupsTypes'
    BY <1>0, <2>0, <2>1 DEF GroupsTypes
  <2>3. GroupsLock'
    BY <1>0, <2>0, <2>1 DEF GroupsLock, Locking
  <2>4. GroupsOwner'
    BY <1>0, <2>0, <2>1 DEF GroupsOwner
  <2>5. GroupsQuiet
    BY <2>0, <2>1 DEF GroupsQuiet, Entering
  <2>6. QED
    BY <2>2, <2>3, <2>4, <2>5, GroupsQuietStep DEF GroupsInv
<1>2. ASSUME NEW t \in Services, Groups!Lock(t) PROVE GroupsInv'
  <2>0. /\ at[t] = "lock" /\ ~m_lock /\ m_lock' = TRUE /\ ctx[t] = 0
        /\ at' = [at EXCEPT ![t] = "locked"] /\ at'[t] = "locked"
        /\ UNCHANGED <<m_hash, creations, effect, sent, cleared, late, killed, cmd, group, ctx>>
    BY <1>0, <1>2 DEF Groups!Lock, Groups!Goto, Groups!table, Groups!queues, Groups!call, GroupsTypes, GroupsOwner
  <2>1. \A u \in Services \ {t} : at'[u] = at[u] /\ cmd'[u] = cmd[u] /\ group'[u] = group[u] /\ ctx'[u] = ctx[u]
    BY <1>0, <2>0 DEF GroupsTypes
  <2>2. GroupsTypes'
    BY <1>0, <2>0, <2>1 DEF GroupsTypes
  <2>3. GroupsLock'
    BY <1>0, <2>0, <2>1 DEF GroupsLock, Locking
  <2>4. GroupsOwner'
    BY <1>0, <2>0, <2>1 DEF GroupsOwner
  <2>5. GroupsQuiet
    BY <2>0, <2>1 DEF GroupsQuiet, Entering
  <2>6. QED
    BY <2>2, <2>3, <2>4, <2>5, GroupsQuietStep DEF GroupsInv
<1>3. ASSUME NEW t \in Services, Groups!Find(t) PROVE GroupsInv'
  <2> DEFINE g == group[t]
  <2>0. /\ at[t] = "locked" /\ cmd[t] \in {"QUERY", "ENTER"} /\ m_hash[g] # 0 /\ g \in GroupHandles
        /\ ctx' = [ctx EXCEPT ![t] = m_hash[g]] /\ at' = [at EXCEPT ![t] = "unlock"]
        /\ effect' = IF cmd[t] = "ENTER" THEN [effect EXCEPT ![g][t] = Append(@, "E")] ELSE effect
        /\ UNCHANGED <<m_hash, creations, m_lock, sent, cleared, late, killed, cmd, group>>
        /\ at'[t] = "unlock" /\ ctx'[t] = m_hash[g] /\ m_hash[g] \in 1 .. creations
    BY <1>0, <1>3 DEF Groups!Find, Groups!Goto, Groups!Entered, Groups!call, Groups!queues, GroupsTypes
  <2> HIDE DEF g
  <2>1. \A u \in Services \ {t} : at'[u] = at[u] /\ cmd'[u] = cmd[u] /\ group'[u] = group[u] /\ ctx'[u] = ctx[u]
    BY <1>0, <2>0 DEF GroupsTypes
  <2>2. /\ effect' \in [GroupHandles -> [Services -> Seq(GroupCommands)]]
        /\ \A h \in GroupHandles : h # g => effect'[h] = effect[h]
        /\ \A u \in Services : u # t => effect'[g][u] = effect[g][u]
        /\ cmd[t] = "ENTER" => effect'[g][t] = Append(effect[g][t], "E")
        /\ cmd[t] # "ENTER" => effect' = effect
    <3>1. CASE cmd[t] = "ENTER"
      BY <1>0, <2>0, <3>1, Taking DEF GroupCommands
    <3>2. CASE cmd[t] # "ENTER"
      BY <1>0, <2>0, <3>2 DEF GroupsQueues
    <3>3. QED
      BY <3>1, <3>2
  <2>3. GroupsTypes'
    BY <1>0, <2>0, <2>1 DEF GroupsTypes
  <2>4. GroupsQueues'
    <3>1. UNCHANGED <<creations, sent, cleared, late>>
      BY <2>0
    <3>2. QED
      BY <1>0, <2>2, <3>1 DEF GroupsQueues, GroupCommands
  <2>5. GroupsLock'
    BY <1>0, <2>0, <2>1 DEF GroupsLock, Locking
  <2>6. GroupsOwner'
    BY <1>0, <2>0, <2>1, <2>2 DEF GroupsOwner, g
  <2>7. GroupsTold'
    <3> SUFFICES ASSUME NEW h \in GroupHandles, NEW u \in Services, m_hash[h] # 0, m_hash[h] \notin killed
                 PROVE  effect'[h][u] = IF Entering(u)' /\ ctx'[u] = m_hash[h] THEN Append(sent[m_hash[h]][u], "E")
                                        ELSE sent[m_hash[h]][u]
      BY <2>0 DEF GroupsTold
    <3>1. effect[h][u] = IF Entering(u) /\ ctx[u] = m_hash[h] THEN Append(sent[m_hash[h]][u], "E")
                         ELSE sent[m_hash[h]][u]
      BY <1>0 DEF GroupsTold
    <3>2. CASE u # t
      <4>1. (Entering(u)' <=> Entering(u)) /\ ctx'[u] = ctx[u]
        BY <2>1, <3>2 DEF Entering
      <4>2. effect'[h][u] = effect[h][u]
        BY <2>2, <3>2
      <4>3. QED
        BY <3>1, <4>1, <4>2
    <3>3. CASE u = t
      <4>1. ~Entering(t) /\ (Entering(t)' <=> cmd[t] = "ENTER")
        BY <2>0 DEF Entering
      <4>2. m_hash[h] = m_hash[g] <=> h = g
        BY <1>0, <2>0 DEF GroupsOwner
      <4>3. effect[h][t] = sent[m_hash[h]][t]
        BY <3>1, <3>3, <4>1
      <4>4. CASE h = g /\ cmd[t] = "ENTER"
        BY <2>0, <2>2, <3>3, <4>1, <4>3, <4>4
      <4>5. CASE ~(h = g /\ cmd[t] = "ENTER")
        BY <2>0, <2>2, <3>3, <4>1, <4>2, <4>3, <4>5
      <4>6. QED
        BY <4>4, <4>5
    <3>4. QED
      BY <3>2, <3>3
  <2>8. GroupsCleared'
    BY <1>0, <2>0 DEF GroupsCleared
  <2>9. QED
    BY <2>3, <2>4, <2>5, <2>6, <2>7, <2>8 DEF GroupsInv
<1>4. ASSUME NEW t \in Services, Groups!CreateGroup(t) PROVE GroupsInv'
  <2> DEFINE g == group[t]
             c == creations + 1
  <2>0. /\ at[t] = "locked" /\ cmd[t] \in {"QUERY", "ENTER"} /\ m_hash[g] = 0 /\ g \in GroupHandles
        /\ creations < MaxGroups /\ creations' = c
        /\ m_hash' = [m_hash EXCEPT ![g] = c]
        /\ ctx' = [ctx EXCEPT ![t] = c] /\ at' = [at EXCEPT ![t] = "unlock"]
        /\ effect' = IF cmd[t] = "ENTER" THEN [effect EXCEPT ![g][t] = Append(@, "E")] ELSE effect
        /\ UNCHANGED <<m_lock, sent, cleared, late, killed, cmd, group>>
        /\ at'[t] = "unlock" /\ ctx'[t] = c /\ c \in 1 .. MaxGroups /\ c # 0 /\ c > creations
    BY <1>0, <1>4 DEF Groups!CreateGroup, Groups!Goto, Groups!Entered, Groups!call, Groups!queues, GroupsTypes
  <2>1. \A u \in Services \ {t} : at'[u] = at[u] /\ cmd'[u] = cmd[u] /\ group'[u] = group[u] /\ ctx'[u] = ctx[u]
    BY <1>0, <2>0 DEF GroupsTypes
  <2>2. /\ m_hash'[g] = c
        /\ \A h \in GroupHandles : h # g => m_hash'[h] = m_hash[h] /\ m_hash[h] # c
        /\ \A u \in Services : ctx[u] # c
        /\ c \notin killed
    BY <1>0, <2>0 DEF GroupsTypes
  <2>3. /\ cleared[c] = 0 /\ late[c] = {} /\ \A u \in Services : sent[c][u] = <<>> /\ effect[g][u] = <<>>
    BY <1>0, <2>0 DEF GroupsQueues, GroupsOwner
  <2>4. GroupsTypes'
    <3>1. /\ m_hash' \in [GroupHandles -> 0 .. c] /\ ctx' \in [Services -> 0 .. c]
          /\ killed' \subseteq 1 .. c /\ c \in 0 .. MaxGroups
      BY <1>0, <2>0 DEF GroupsTypes
    <3>2. QED
      BY <1>0, <2>0, <2>1, <3>1 DEF GroupsTypes
  <2> HIDE DEF g
  <2>5. /\ effect' \in [GroupHandles -> [Services -> Seq(GroupCommands)]]
        /\ \A h \in GroupHandles : h # g => effect'[h] = effect[h]
        /\ \A u \in Services : u # t => effect'[g][u] = effect[g][u]
        /\ cmd[t] = "ENTER" => effect'[g][t] = Append(effect[g][t], "E")
        /\ cmd[t] # "ENTER" => effect' = effect
    <3>1. CASE cmd[t] = "ENTER"
      BY <1>0, <2>0, <3>1, Taking DEF GroupCommands
    <3>2. CASE cmd[t] # "ENTER"
      BY <1>0, <2>0, <3>2 DEF GroupsQueues
    <3>3. QED
      BY <3>1, <3>2
  <2>6. GroupsQueues'
    <3>1. UNCHANGED <<sent, cleared, late>> /\ \A d \in 1 .. MaxGroups : d > creations' => d > creations
      BY <1>0, <2>0
    <3>2. QED
      BY <1>0, <2>5, <3>1 DEF GroupsQueues, GroupCommands
  <2> HIDE DEF c
  <2>7. GroupsLock'
    BY <1>0, <2>0, <2>1 DEF GroupsLock, Locking
  <2>8. GroupsOwner'
    BY <1>0, <2>0, <2>1, <2>2, <2>5 DEF GroupsOwner, g
  <2>9. GroupsTold'
    <3> SUFFICES ASSUME NEW h \in GroupHandles, NEW u \in Services, m_hash'[h] # 0, m_hash'[h] \notin killed
                 PROVE  effect'[h][u] = IF Entering(u)' /\ ctx'[u] = m_hash'[h] THEN Append(sent[m_hash'[h]][u], "E")
                                        ELSE sent[m_hash'[h]][u]
      BY <2>0 DEF GroupsTold
    <3>1. Entering(t)' <=> cmd[t] = "ENTER"
      BY <2>0 DEF Entering
    <3>2. CASE h = g /\ u = t
      <4>1. m_hash'[h] = c /\ ctx'[t] = c /\ sent[c][t] = <<>> /\ effect[g][t] = <<>>
        BY <2>0, <2>2, <2>3, <3>2
      <4>2. CASE cmd[t] = "ENTER"
        BY <2>5, <3>1, <3>2, <4>1, <4>2
      <4>3. CASE cmd[t] # "ENTER"
        BY <2>5, <3>1, <3>2, <4>1, <4>3
      <4>4. QED
        BY <4>2, <4>3
    <3>3. CASE h = g /\ u # t
      BY <2>1, <2>2, <2>3, <2>5, <3>3
    <3>4. CASE h # g
      <4>1. /\ m_hash'[h] = m_hash[h] /\ m_hash[h] # 0 /\ m_hash[h] # c /\ effect'[h][u] = effect[h][u]
        BY <2>2, <2>5, <3>4
      <4>2. effect[h][u] = IF Entering(u) /\ ctx[u] = m_hash[h] THEN Append(sent[m_hash[h]][u], "E")
                           ELSE sent[m_hash[h]][u]
        BY <1>0, <4>1 DEF GroupsTold
      <4>3. (Entering(u)' /\ ctx'[u] = m_hash[h]) <=> (Entering(u) /\ ctx[u] = m_hash[h])
        BY <2>0, <2>1, <4>1 DEF Entering
      <4>4. CASE Entering(u) /\ ctx[u] = m_hash[h]
        BY <4>1, <4>2, <4>3, <4>4
      <4>5. CASE ~(Entering(u) /\ ctx[u] = m_hash[h])
        BY <4>1, <4>2, <4>3, <4>5
      <4>6. QED
        BY <4>4, <4>5
    <3>5. QED
      BY <3>2, <3>3, <3>4
  <2>10. GroupsCleared'
    <3> SUFFICES ASSUME NEW d \in 1 .. creations' \ killed'
                 PROVE  /\ (\E h \in GroupHandles : m_hash'[h] = d) => cleared[d] = 0
                        /\ ~(\E h \in GroupHandles : m_hash'[h] = d) => cleared[d] = 1
                        /\ late[d] \subseteq {"E"}
      BY <2>0 DEF GroupsCleared
    <3>1. CASE d = c
      BY <2>0, <2>2, <2>3, <3>1
    <3>2. CASE d # c
      <4>1. d \in 1 .. creations \ killed /\ \A h \in GroupHandles : m_hash'[h] = d <=> m_hash[h] = d
        BY <1>0, <2>0, <2>2, <3>2 DEF c
      <4>2. QED
        BY <1>0, <4>1 DEF GroupsCleared
    <3>3. QED
      BY <3>1, <3>2
  <2>11. QED
    BY <2>4, <2>6, <2>7, <2>8, <2>9, <2>10 DEF GroupsInv
<1>5. ASSUME NEW t \in Services, Groups!Leave(t) PROVE GroupsInv'
  <2> DEFINE g == group[t]
             c == m_hash[g]
  <2>0. /\ at[t] = "locked" /\ cmd[t] = "LEAVE" /\ g \in GroupHandles /\ ctx[t] = 0
        /\ IF c = 0 THEN UNCHANGED <<sent, cleared, late>> ELSE Groups!SendCommand(c, t, "L")
        /\ effect' = IF c = 0 THEN effect ELSE [effect EXCEPT ![g][t] = Append(@, "L")]
        /\ at' = [at EXCEPT ![t] = "unlock"]
        /\ UNCHANGED <<m_hash, creations, m_lock, killed, cmd, group, ctx>>
        /\ at'[t] = "unlock" /\ c \in 0 .. creations
    BY <1>0, <1>5 DEF Groups!Leave, Groups!Left, Groups!Goto, Groups!call, Groups!queues, GroupsTypes, GroupsOwner
  <2>1. \A u \in Services \ {t} : at'[u] = at[u] /\ cmd'[u] = cmd[u] /\ group'[u] = group[u] /\ ctx'[u] = ctx[u]
    BY <1>0, <2>0 DEF GroupsTypes
  <2>2. GroupsTypes'
    BY <1>0, <2>0, <2>1 DEF GroupsTypes
  <2>3. GroupsLock'
    BY <1>0, <2>0, <2>1 DEF GroupsLock, Locking
  <2>4. CASE c = 0
    <3>1. GroupsOwner'
      BY <1>0, <2>0, <2>1, <2>4 DEF GroupsOwner
    <3>2. GroupsQuiet
      BY <2>0, <2>1, <2>4 DEF GroupsQuiet, Entering
    <3>3. QED
      BY <2>2, <2>3, <3>1, <3>2, GroupsQuietStep DEF GroupsInv
  <2>5. CASE c # 0
    <3> HIDE DEF g
    <3>1. /\ effect' \in [GroupHandles -> [Services -> Seq(GroupCommands)]]
          /\ \A h \in GroupHandles : h # g => effect'[h] = effect[h]
          /\ \A u \in Services : u # t => effect'[g][u] = effect[g][u]
          /\ effect'[g][t] = Append(effect[g][t], "L")
      BY <1>0, <2>0, <2>5, Taking DEF GroupCommands
    <3>c. c \in 1 .. creations /\ Groups!SendCommand(c, t, "L") /\ "L" \in GroupCommands
      BY <1>0, <2>0, <2>5 DEF GroupCommands
    <3> HIDE DEF c
    <3>2. /\ c \in 1 .. MaxGroups /\ UNCHANGED cleared
          /\ sent' \in [1 .. MaxGroups -> [Services -> Seq(GroupCommands)]]
          /\ \A d \in 1 .. MaxGroups : d # c => sent'[d] = sent[d]
          /\ \A u \in Services : u # t => sent'[c][u] = sent[c][u]
          /\ c \notin killed => sent'[c][t] = Append(sent[c][t], "L")
          /\ late' \in [1 .. MaxGroups -> SUBSET {"E", "L", "C"}]
          /\ \A d \in 1 .. MaxGroups : d # c => late'[d] = late[d]
          /\ cleared[c] = 0 => late' = late
      BY <1>0, <3>c, Sending
    <3>3. GroupsQueues'
      <4>1. \A d \in 1 .. MaxGroups : d > creations => d # c
        BY <1>0, <3>c
      <4>2. \A d \in 1 .. MaxGroups :
              d > creations' => cleared'[d] = 0 /\ late'[d] = {} /\ \A u \in Services : sent'[d][u] = <<>>
        <5>1. creations' = creations
          BY <2>0
        <5> SUFFICES ASSUME NEW d \in 1 .. MaxGroups, d > creations
                     PROVE  cleared'[d] = 0 /\ late'[d] = {} /\ \A u \in Services : sent'[d][u] = <<>>
          BY <5>1
        <5>2. d # c
          BY <4>1
        <5>3. sent'[d] = sent[d] /\ late'[d] = late[d] /\ cleared'[d] = cleared[d]
          BY <3>2, <5>2
        <5>4. QED
          BY <1>0, <5>3 DEF GroupsQueues
      <4>3. cleared' \in [1 .. MaxGroups -> Nat]
        BY <1>0, <3>2 DEF GroupsQueues
      <4>4. QED
        BY <3>1, <3>2, <4>2, <4>3 DEF GroupsQueues, GroupCommands
    <3>4. GroupsOwner'
      BY <1>0, <2>0, <2>1, <2>5, <3>1 DEF GroupsOwner, c
    <3>5. GroupsTold'
      <4> SUFFICES ASSUME NEW h \in GroupHandles, NEW u \in Services, m_hash[h] # 0, m_hash[h] \notin killed
                   PROVE  effect'[h][u] = IF Entering(u)' /\ ctx'[u] = m_hash[h] THEN Append(sent'[m_hash[h]][u], "E")
                                          ELSE sent'[m_hash[h]][u]
        BY <2>0 DEF GroupsTold
      <4>1. effect[h][u] = IF Entering(u) /\ ctx[u] = m_hash[h] THEN Append(sent[m_hash[h]][u], "E")
                           ELSE sent[m_hash[h]][u]
        BY <1>0 DEF GroupsTold
      <4>2. (Entering(u)' <=> Entering(u)) /\ ctx'[u] = ctx[u]
        BY <2>0, <2>1 DEF Entering
      <4>3. m_hash[h] \in 1 .. MaxGroups /\ (m_hash[h] = c <=> h = g)
        BY <1>0, <2>0, <2>5 DEF GroupsOwner, GroupsTypes, c
      <4>4. CASE h = g /\ u = t
        <5>1. ~Entering(t)
          BY <2>0 DEF Entering
        <5>2. effect[g][t] = sent[c][t]
          BY <4>1, <4>3, <4>4, <5>1
        <5>3. sent'[c][t] = Append(sent[c][t], "L")
          BY <3>2, <4>3, <4>4
        <5>4. QED
          BY <3>1, <4>2, <4>3, <4>4, <5>1, <5>2, <5>3
      <4>5. CASE ~(h = g /\ u = t)
        <5>1. effect'[h][u] = effect[h][u] /\ sent'[m_hash[h]][u] = sent[m_hash[h]][u]
          BY <3>1, <3>2, <4>3, <4>5
        <5>2. QED
          BY <4>1, <4>2, <5>1
      <4>6. QED
        BY <4>4, <4>5
    <3>6. GroupsCleared'
      <4>1. c \notin killed => cleared[c] = 0
        BY <1>0, <2>0, <3>c DEF GroupsCleared, c
      <4>2. \A d \in 1 .. creations \ killed : late'[d] = late[d]
        BY <1>0, <3>2, <4>1
      <4>3. UNCHANGED <<m_hash, creations, killed, cleared>>
        BY <2>0, <3>2
      <4>4. QED
        BY <1>0, <4>2, <4>3 DEF GroupsCleared
    <3>7. QED
      BY <2>2, <2>3, <3>3, <3>4, <3>5, <3>6 DEF GroupsInv
  <2>6. QED
    BY <2>4, <2>5
<1>6. ASSUME NEW t \in Services, Groups!Clear(t) PROVE GroupsInv'
  <2> DEFINE g == group[t]
             c == m_hash[g]
  <2>0. /\ at[t] = "locked" /\ cmd[t] = "CLEAR" /\ g \in GroupHandles /\ ctx[t] = 0
        /\ IF c = 0 THEN UNCHANGED <<sent, cleared, late>> ELSE Groups!SendClear(c)
        /\ m_hash' = [m_hash EXCEPT ![g] = 0]
        /\ effect' = [effect EXCEPT ![g] = [u \in Services |-> <<>>]]
        /\ at' = [at EXCEPT ![t] = "unlock"]
        /\ UNCHANGED <<creations, m_lock, killed, cmd, group, ctx>>
        /\ at'[t] = "unlock" /\ c \in 0 .. creations
    BY <1>0, <1>6 DEF Groups!Clear, Groups!Goto, Groups!call, Groups!queues, GroupsTypes, GroupsOwner
  <2>1. \A u \in Services \ {t} : at'[u] = at[u] /\ cmd'[u] = cmd[u] /\ group'[u] = group[u] /\ ctx'[u] = ctx[u]
    BY <1>0, <2>0 DEF GroupsTypes
  <2>2. /\ effect' \in [GroupHandles -> [Services -> Seq(GroupCommands)]]
        /\ m_hash' \in [GroupHandles -> 0 .. creations]
        /\ m_hash'[g] = 0 /\ \A u \in Services : effect'[g][u] = <<>>
        /\ \A h \in GroupHandles : h # g => effect'[h] = effect[h] /\ m_hash'[h] = m_hash[h]
        /\ \A h \in GroupHandles : h # g /\ m_hash[h] # 0 => m_hash[h] # c
    <3>1. [u \in Services |-> <<>>] \in [Services -> Seq(GroupCommands)]
      OBVIOUS
    <3>2. QED
      BY <1>0, <2>0, <3>1 DEF GroupsTypes, GroupsQueues, GroupsOwner
  <2>3. /\ UNCHANGED sent
        /\ cleared' \in [1 .. MaxGroups -> Nat]
        /\ \A d \in 1 .. MaxGroups : d # c => cleared'[d] = cleared[d] /\ late'[d] = late[d]
        /\ c # 0 /\ c \notin killed => cleared'[c] = cleared[c] + 1
        /\ cleared[c] = 0 => late' = late
        /\ late' \in [1 .. MaxGroups -> SUBSET {"E", "L", "C"}]
    <3>1. CASE c = 0
      BY <1>0, <2>0, <3>1 DEF GroupsQueues
    <3>2. CASE c # 0
      <4>1. c \in 1 .. MaxGroups /\ Groups!SendClear(c)
        BY <1>0, <2>0, <3>2
      <4> HIDE DEF c
      <4>2. /\ UNCHANGED sent
            /\ cleared' = IF c \in killed THEN cleared ELSE [cleared EXCEPT ![c] = @ + 1]
            /\ late' = IF c \in killed \/ cleared[c] = 0 THEN late ELSE [late EXCEPT ![c] = @ \cup {"C"}]
        BY <4>1 DEF Groups!SendClear, Groups!After
      <4>3. cleared \in [1 .. MaxGroups -> Nat] /\ late \in [1 .. MaxGroups -> SUBSET {"E", "L", "C"}]
        BY <1>0 DEF GroupsQueues
      <4>4. QED
        BY <3>2, <4>1, <4>2, <4>3
    <3>3. QED
      BY <3>1, <3>2
  <2>4. GroupsTypes'
    BY <1>0, <2>0, <2>1, <2>2 DEF GroupsTypes
  <2>5. GroupsQueues'
    <3>1. \A d \in 1 .. MaxGroups : d > creations => d # c
      BY <1>0, <2>0
    <3>2. QED
      BY <1>0, <2>0, <2>2, <2>3, <3>1 DEF GroupsQueues, GroupCommands
  <2> HIDE DEF g
  <2>6. GroupsLock'
    BY <1>0, <2>0, <2>1 DEF GroupsLock, Locking
  <2>7. GroupsOwner'
    BY <1>0, <2>0, <2>1, <2>2 DEF GroupsOwner, GroupsTypes
  <2>8. GroupsTold'
    <3> SUFFICES ASSUME NEW h \in GroupHandles, NEW u \in Services, m_hash'[h] # 0, m_hash'[h] \notin killed
                 PROVE  effect'[h][u] = IF Entering(u)' /\ ctx'[u] = m_hash'[h] THEN Append(sent[m_hash'[h]][u], "E")
                                        ELSE sent[m_hash'[h]][u]
      BY <2>0, <2>3 DEF GroupsTold
    <3>1. h # g /\ m_hash'[h] = m_hash[h] /\ effect'[h] = effect[h]
      BY <2>2
    <3>2. (Entering(u)' <=> Entering(u)) /\ ctx'[u] = ctx[u]
      BY <2>0, <2>1 DEF Entering
    <3>3. effect[h][u] = IF Entering(u) /\ ctx[u] = m_hash[h] THEN Append(sent[m_hash[h]][u], "E")
                         ELSE sent[m_hash[h]][u]
      BY <1>0, <3>1 DEF GroupsTold
    <3>4. QED
      BY <3>1, <3>2, <3>3
  <2>9. GroupsCleared'
    <3> SUFFICES ASSUME NEW d \in 1 .. creations \ killed
                 PROVE  /\ (\E h \in GroupHandles : m_hash'[h] = d) => cleared'[d] = 0
                        /\ ~(\E h \in GroupHandles : m_hash'[h] = d) => cleared'[d] = 1
                        /\ late'[d] \subseteq {"E"}
      BY <2>0 DEF GroupsCleared
    <3>1. CASE d = c
      <4>1. cleared[c] = 0 /\ c # 0 /\ late[c] \subseteq {"E"} /\ c \notin killed
        BY <1>0, <2>0, <3>1 DEF GroupsCleared
      <4>2. \A h \in GroupHandles : m_hash'[h] # d
        BY <2>2, <3>1, <4>1
      <4>3. QED
        BY <2>3, <3>1, <4>1, <4>2
    <3>2. CASE d # c
      <4>1. \A h \in GroupHandles : m_hash'[h] = d <=> m_hash[h] = d
        BY <2>2, <3>2
      <4>2. d \in 1 .. MaxGroups
        BY <1>0
      <4>3. QED
        BY <1>0, <2>3, <3>2, <4>1, <4>2 DEF GroupsCleared
    <3>3. QED
      BY <3>1, <3>2
  <2>10. QED
    BY <2>4, <2>5, <2>6, <2>7, <2>8, <2>9 DEF GroupsInv
<1>7. ASSUME NEW t \in Services, Groups!Unlock(t) PROVE GroupsInv'
  <2>0. /\ at[t] = "unlock" /\ m_lock' = FALSE
        /\ UNCHANGED <<m_hash, creations, effect, sent, cleared, late, killed, ctx>>
    BY <1>7 DEF Groups!Unlock, Groups!table, Groups!queues
  <2>1. CASE ctx[t] # 0
    <3>0. at' = [at EXCEPT ![t] = "use"] /\ at'[t] = "use" /\ UNCHANGED <<cmd, group>>
      BY <1>0, <1>7, <2>1 DEF Groups!Unlock, Groups!Goto, Groups!call, GroupsTypes
    <3>1. \A u \in Services \ {t} : at'[u] = at[u]
      BY <1>0, <3>0 DEF GroupsTypes
    <3>2. GroupsTypes'
      BY <1>0, <2>0, <3>0, <3>1 DEF GroupsTypes
    <3>3. GroupsLock'
      BY <1>0, <2>0, <3>0, <3>1 DEF GroupsLock, Locking
    <3>4. GroupsOwner'
      BY <1>0, <2>0, <2>1, <3>0, <3>1 DEF GroupsOwner
    <3>5. GroupsQuiet
      BY <2>0, <3>0, <3>1 DEF GroupsQuiet, Entering
    <3>6. QED
      BY <3>2, <3>3, <3>4, <3>5, GroupsQuietStep DEF GroupsInv
  <2>2. CASE ctx[t] = 0
    <3>0. /\ at' = [at EXCEPT ![t] = "idle"] /\ at'[t] = "idle"
          /\ cmd' = [cmd EXCEPT ![t] = "none"] /\ group' = [group EXCEPT ![t] = NoGroup]
      BY <1>0, <1>7, <2>2 DEF Groups!Unlock, Groups!Return, Groups!Goto, GroupsTypes
    <3>1. \A u \in Services \ {t} : at'[u] = at[u] /\ cmd'[u] = cmd[u] /\ group'[u] = group[u]
      BY <1>0, <3>0 DEF GroupsTypes
    <3>2. GroupsTypes'
      BY <1>0, <2>0, <3>0, <3>1 DEF GroupsTypes
    <3>3. GroupsLock'
      BY <1>0, <2>0, <3>0, <3>1 DEF GroupsLock, Locking
    <3>4. GroupsOwner'
      BY <1>0, <2>0, <2>2, <3>0, <3>1 DEF GroupsOwner
    <3>5. UNCHANGED <<m_hash, creations, effect, sent, cleared, late, killed>> /\ GroupsQueues' /\ GroupsCleared'
      BY <1>0, <2>0 DEF GroupsQueues, GroupsCleared, GroupCommands
    <3>6. GroupsTold'
      <4> SUFFICES ASSUME NEW g \in GroupHandles, NEW u \in Services, m_hash[g] # 0, m_hash[g] \notin killed
                   PROVE  effect[g][u] = IF Entering(u)' /\ ctx'[u] = m_hash[g] THEN Append(sent[m_hash[g]][u], "E")
                                         ELSE sent[m_hash[g]][u]
        BY <3>5 DEF GroupsTold
      <4>1. effect[g][u] = IF Entering(u) /\ ctx[u] = m_hash[g] THEN Append(sent[m_hash[g]][u], "E")
                           ELSE sent[m_hash[g]][u]
        BY <1>0 DEF GroupsTold
      <4>2. CASE u = t
        BY <2>0, <2>2, <4>1, <4>2
      <4>3. CASE u # t
        <5>1. (Entering(u)' <=> Entering(u)) /\ ctx'[u] = ctx[u]
          BY <2>0, <3>1, <4>3 DEF Entering
        <5>2. QED
          BY <4>1, <5>1
      <4>4. QED
        BY <4>2, <4>3
    <3>7. QED
      BY <3>2, <3>3, <3>4, <3>5, <3>6 DEF GroupsInv
  <2>3. QED
    BY <2>1, <2>2
<1>8. ASSUME NEW t \in Services, Groups!Use(t) PROVE GroupsInv'
  <2> DEFINE c == ctx[t]
  <2>0. /\ at[t] = "use" /\ c # 0 /\ cmd[t] \in {"QUERY", "ENTER"}
        /\ UNCHANGED <<m_hash, creations, effect, m_lock, killed>>
        /\ ctx' = [ctx EXCEPT ![t] = 0] /\ at' = [at EXCEPT ![t] = "idle"]
        /\ cmd' = [cmd EXCEPT ![t] = "none"] /\ group' = [group EXCEPT ![t] = NoGroup]
        /\ at'[t] = "idle" /\ ctx'[t] = 0 /\ group[t] \in GroupHandles
        /\ c \in 1 .. creations /\ c \in 1 .. MaxGroups
    BY <1>0, <1>8 DEF Groups!Use, Groups!Return, Groups!Goto, Groups!table, GroupsTypes, GroupsOwner
  <2>1. \A u \in Services \ {t} : at'[u] = at[u] /\ cmd'[u] = cmd[u] /\ group'[u] = group[u] /\ ctx'[u] = ctx[u]
    BY <1>0, <2>0 DEF GroupsTypes
  <2>2. GroupsTypes'
    BY <1>0, <2>0, <2>1 DEF GroupsTypes
  <2>3. GroupsLock'
    BY <1>0, <2>0, <2>1 DEF GroupsLock, Locking
  <2>4. GroupsOwner'
    BY <1>0, <2>0, <2>1 DEF GroupsOwner
  <2>5. CASE cmd[t] = "QUERY"
    <3>1. UNCHANGED <<sent, cleared, late>>
      BY <1>8, <2>5 DEF Groups!Use, Groups!queues
    <3>2. GroupsQuiet
      BY <2>0, <2>1, <2>5, <3>1 DEF GroupsQuiet, Entering
    <3>3. QED
      BY <2>2, <2>3, <2>4, <3>2, GroupsQuietStep DEF GroupsInv
  <2>6. CASE cmd[t] = "ENTER"
    <3>1. Groups!SendCommand(c, t, "E") /\ "E" \in GroupCommands
      BY <1>8, <2>6 DEF Groups!Use, GroupCommands
    <3> HIDE DEF c
    <3>2. /\ UNCHANGED cleared
          /\ sent' \in [1 .. MaxGroups -> [Services -> Seq(GroupCommands)]]
          /\ \A d \in 1 .. MaxGroups : d # c => sent'[d] = sent[d]
          /\ \A u \in Services : u # t => sent'[c][u] = sent[c][u]
          /\ c \notin killed => sent'[c][t] = Append(sent[c][t], "E")
          /\ late' \in [1 .. MaxGroups -> SUBSET {"E", "L", "C"}]
          /\ \A d \in 1 .. MaxGroups : d # c => late'[d] = late[d]
          /\ late'[c] \subseteq late[c] \cup {"E"}
          /\ cleared[c] = 0 => late' = late
      BY <1>0, <2>0, <3>1, Sending
    <3>3. GroupsQueues'
      <4>1. \A d \in 1 .. MaxGroups : d > creations => d # c
        BY <1>0, <2>0
      <4>2. \A d \in 1 .. MaxGroups :
              d > creations' => cleared'[d] = 0 /\ late'[d] = {} /\ \A u \in Services : sent'[d][u] = <<>>
        <5>1. creations' = creations
          BY <2>0
        <5> SUFFICES ASSUME NEW d \in 1 .. MaxGroups, d > creations
                     PROVE  cleared'[d] = 0 /\ late'[d] = {} /\ \A u \in Services : sent'[d][u] = <<>>
          BY <5>1
        <5>2. d # c
          BY <4>1
        <5>3. sent'[d] = sent[d] /\ late'[d] = late[d] /\ cleared'[d] = cleared[d]
          BY <3>2, <5>2
        <5>4. QED
          BY <1>0, <5>3 DEF GroupsQueues
      <4>3. cleared' \in [1 .. MaxGroups -> Nat] /\ effect' \in [GroupHandles -> [Services -> Seq(GroupCommands)]]
        BY <1>0, <2>0, <3>2 DEF GroupsQueues
      <4>4. QED
        BY <3>2, <4>2, <4>3 DEF GroupsQueues, GroupCommands
    <3>4. GroupsTold'
      <4> SUFFICES ASSUME NEW h \in GroupHandles, NEW u \in Services, m_hash[h] # 0, m_hash[h] \notin killed
                   PROVE  effect[h][u] = IF Entering(u)' /\ ctx'[u] = m_hash[h] THEN Append(sent'[m_hash[h]][u], "E")
                                         ELSE sent'[m_hash[h]][u]
        BY <2>0 DEF GroupsTold
      <4>1. effect[h][u] = IF Entering(u) /\ ctx[u] = m_hash[h] THEN Append(sent[m_hash[h]][u], "E")
                           ELSE sent[m_hash[h]][u]
        BY <1>0 DEF GroupsTold
      <4>2. m_hash[h] \in 1 .. MaxGroups
        BY <1>0 DEF GroupsTypes
      <4>3. CASE u = t /\ m_hash[h] = c
        <5>1. Entering(t) /\ ~Entering(t)' /\ ctx[t] = c
          BY <2>0, <2>6 DEF Entering, c
        <5>2. QED
          BY <3>2, <4>1, <4>3, <5>1
      <4>4. CASE u = t /\ m_hash[h] # c
        <5>1. ~Entering(t)' /\ ctx[t] # m_hash[h]
          BY <2>0, <4>4 DEF Entering, c
        <5>2. QED
          BY <3>2, <4>1, <4>2, <4>4, <5>1
      <4>5. CASE u # t
        <5>1. (Entering(u)' <=> Entering(u)) /\ ctx'[u] = ctx[u]
          BY <2>1, <4>5 DEF Entering
        <5>2. sent'[m_hash[h]][u] = sent[m_hash[h]][u]
          BY <3>2, <4>2, <4>5
        <5>3. QED
          BY <4>1, <5>1, <5>2
      <4>6. QED
        BY <4>3, <4>4, <4>5
    <3>5. GroupsCleared'
      <4>1. \A d \in 1 .. creations \ killed : late'[d] \subseteq late[d] \cup {"E"}
        BY <1>0, <3>2
      <4>2. QED
        BY <1>0, <2>0, <3>2, <4>1 DEF GroupsCleared
    <3>6. QED
      BY <2>2, <2>3, <2>4, <3>3, <3>4, <3>5 DEF GroupsInv
  <2>7. QED
    BY <2>0, <2>5, <2>6
<1>9. ASSUME NEW c \in 1 .. MaxGroups, Groups!Kill(c) PROVE GroupsInv'
  <2>0. /\ c \in 1 .. creations /\ killed' = killed \cup {c}
        /\ UNCHANGED <<m_hash, creations, effect, m_lock, sent, cleared, late, at, cmd, group, ctx>>
    BY <1>9 DEF Groups!Kill, Groups!table, Groups!call, Groups!queues
  <2>1. GroupsTypes' /\ GroupsQueues'
    BY <1>0, <2>0 DEF GroupsTypes, GroupsQueues, GroupCommands
  <2>2. GroupsLock' /\ GroupsOwner'
    BY <1>0, <2>0 DEF GroupsLock, GroupsOwner, Locking
  <2>3. GroupsTold'
    BY <1>0, <2>0 DEF GroupsTold, Entering
  <2>4. GroupsCleared'
    BY <1>0, <2>0 DEF GroupsCleared
  <2>5. QED
    BY <2>1, <2>2, <2>3, <2>4 DEF GroupsInv
<1>10. QED
  BY <1>1, <1>2, <1>3, <1>4, <1>5, <1>6, <1>7, <1>8, <1>9 DEF Groups!Next

\* The context of a group that lives has been sent every command that took effect on the
\* group under the table's lock, each service's in their order, and no other's; and a
\* context whose group is gone is told so once, and after that is sent an ENTER at most:
\* for any services, groups and contexts (group_mgr.h:57-104).
THEOREM GroupsCorrect == Spec => []GroupsAgree
<1>1. Init => GroupsInv
  BY GroupsInit DEF Init
<1>2. ASSUME GroupsInv, [Next]_vars PROVE GroupsInv'
  <2>1. CASE Groups!Next
    BY <1>2, <2>1, GroupsStep
  <2>2. CASE UNCHANGED groups
    <3>1. UNCHANGED <<m_hash, m_lock, sent, cleared, late, killed, creations, at, cmd, group, ctx, effect>>
      BY <2>2 DEF groups
    <3>2. GroupsTypes' /\ GroupsQueues' /\ GroupsLock' /\ GroupsOwner'
      BY <1>2, <3>1 DEF GroupsInv, GroupsTypes, GroupsQueues, GroupsLock, GroupsOwner, Locking, GroupCommands
    <3>3. GroupsTold' /\ GroupsCleared'
      BY <1>2, <3>1 DEF GroupsInv, GroupsTold, GroupsCleared, Entering
    <3>4. QED
      BY <3>2, <3>3 DEF GroupsInv
  <2>3. QED
    BY <1>2, <2>1, <2>2 DEF Next, vars
<1>3. ASSUME GroupsInv PROVE GroupsAgree
  <2>1. /\ GroupsOwner /\ GroupsTold /\ GroupsCleared
        /\ \A t : Groups!Pending(t) <=> Entering(t)
    BY <1>3 DEF GroupsInv, Groups!Pending, Entering
  <2>2. \A g \in GroupHandles, t \in Services :
          m_hash[g] # 0 /\ m_hash[g] \notin killed =>
             effect[g][t] = IF Groups!Pending(t) /\ ctx[t] = m_hash[g] THEN Append(sent[m_hash[g]][t], "E")
                            ELSE sent[m_hash[g]][t]
    BY <2>1 DEF GroupsTold
  <2>3. \A g, h \in GroupHandles : m_hash[g] = m_hash[h] /\ m_hash[g] # 0 => g = h
    BY <2>1 DEF GroupsOwner
  <2>4. \A c \in 1 .. creations \ killed :
          /\ cleared[c] = IF \E g \in GroupHandles : m_hash[g] = c THEN 0 ELSE 1
          /\ late[c] \subseteq {"E"}
    BY <2>1 DEF GroupsCleared
  <2>5. QED
    BY <2>2, <2>3, <2>4 DEF GroupsAgree, Groups!GroupsAgree
<1>4. QED
  BY <1>1, <1>2, <1>3, PTL DEF Spec
-----------------------------------------------------------------------------
(* combine_queue: the two loops that merge and the two that remove, each with its *)
(* invariant *)

\* qsort gives the same handles in order.
LEMMA SortedFacts ==
    ASSUME NEW q \in Seq(Handles)
    PROVE  /\ Multicast!Sorted(q) \in Seq(Handles)
           /\ Len(Multicast!Sorted(q)) = Len(q)
           /\ \A h : (\E k \in 1 .. Len(q) : Multicast!Sorted(q)[k] = h) <=> (\E k \in 1 .. Len(q) : q[k] = h)
           /\ \A j, l \in 1 .. Len(q) : j < l => Multicast!Sorted(q)[j] <= Multicast!Sorted(q)[l]
<1> DEFINE n == Len(q)
           Good(p) == /\ \A l \in DOMAIN q : \E j \in DOMAIN q : p[j] = l
                      /\ \A j, l \in DOMAIN q : j < l => q[p[j]] <= q[p[l]]
           p0 == CHOOSE p \in [DOMAIN q -> DOMAIN q] : Good(p)
           r == [j \in DOMAIN q |-> q[p0[j]]]
<1>1. n \in Nat /\ DOMAIN q = 1 .. n /\ q \in [1 .. n -> Handles]
  OBVIOUS
<1>a. \A p : Good(p) <=> /\ \A l \in 1 .. n : \E j \in 1 .. n : p[j] = l
                         /\ \A j, l \in 1 .. n : j < l => q[p[j]] <= q[p[l]]
  BY <1>1
<1>2. \E p \in [1 .. n -> 1 .. n] : Good(p)
  <2>1. q \in [1 .. n -> Nat]
    BY <1>1, HandlesAssumption
  <2> HIDE DEF Good, n
  <2>2. \E p \in [1 .. n -> 1 .. n] : /\ \A l \in 1 .. n : \E j \in 1 .. n : p[j] = l
                                     /\ \A j, l \in 1 .. n : j < l => q[p[j]] <= q[p[l]]
    BY <1>1, <2>1, Sortable
  <2>3. QED
    BY <1>a, <2>2
<1>3. p0 \in [1 .. n -> 1 .. n] /\ Good(p0)
  <2> HIDE DEF Good
  <2>1. QED
    BY <1>1, <1>2
<1>4. Multicast!Sorted(q) = r
  BY DEF Multicast!Sorted
<1> HIDE DEF p0
<1>5. /\ r \in [1 .. n -> Handles] /\ \A j \in 1 .. n : r[j] = q[p0[j]]
  BY <1>1, <1>3
<1>6. r \in Seq(Handles) /\ Len(r) = n
  BY <1>1, <1>5
<1>b. /\ \A l \in 1 .. n : \E j \in 1 .. n : p0[j] = l
      /\ \A j, l \in 1 .. n : j < l => q[p0[j]] <= q[p0[l]]
  <2> HIDE DEF Good
  <2>1. QED
    BY <1>a, <1>3
<1>7. \A h : (\E k \in 1 .. n : r[k] = h) <=> (\E k \in 1 .. n : q[k] = h)
  <2> HIDE DEF r, Good, n
  <2>1. ASSUME NEW k \in 1 .. n PROVE \E j \in 1 .. n : q[j] = r[k]
    BY <1>3, <1>5
  <2>2. ASSUME NEW k \in 1 .. n PROVE \E j \in 1 .. n : r[j] = q[k]
    <3>1. PICK j \in 1 .. n : p0[j] = k
      BY <1>b
    <3>2. QED
      BY <1>5, <3>1
  <2>3. QED
    BY <2>1, <2>2
<1>8. \A j, l \in 1 .. n : j < l => r[j] <= r[l]
  <2> HIDE DEF r, Good, n
  <2>1. QED
    BY <1>3, <1>5, <1>b
<1>9. QED
  BY <1>4, <1>6, <1>7, <1>8

Cells == Handles \cup {Junk}

\* The members of a group, as an array.
IsGroup(members, number) ==
    /\ number \in Nat
    /\ members \in [0 .. number - 1 -> Handles]
    /\ \A j, l \in 0 .. number - 1 : j < l => members[j] < members[l]

\* The entered or left handles, in order.
IsQueue(q) == q \in Seq(Handles) /\ \A j, l \in 1 .. Len(q) : j < l => q[j] <= q[l]

\* While entered handles are merged into members: what is written, from new + 1 on, is in
\* order, and with what is still to be taken it is everything there was; there is room
\* for all that is to come.
Merging(members, number, entered, a, k, old, new, last) ==
    LET size == number + Len(entered) IN
    /\ a \in [0 .. size - 1 -> Cells] /\ k \in 0 .. Len(entered) /\ old \in -1 .. number - 1
    /\ new \in -1 .. size - 1 /\ last \in {0} \cup Handles
    /\ new >= old + k
    /\ \A j \in 0 .. old : a[j] = members[j]
    /\ \A j \in new + 1 .. size - 1 :
          /\ a[j] \in Handles
          /\ (\E l \in 0 .. number - 1 : members[l] = a[j]) \/ (\E l \in 1 .. Len(entered) : entered[l] = a[j])
          /\ old >= 0 => members[old] < a[j]
          /\ k >= 1 => entered[k] < a[j] \/ (entered[k] = a[j] /\ last = a[j])
    /\ \A j, l \in new + 1 .. size - 1 : j < l => a[j] < a[l]
    /\ \A l \in old + 1 .. number - 1 : \E j \in new + 1 .. size - 1 : a[j] = members[l]
    /\ \A l \in k + 1 .. Len(entered) :
          (\E j \in new + 1 .. size - 1 : a[j] = entered[l]) \/ (\E j \in 0 .. old : members[j] = entered[l])
    /\ last # 0 => (\E j \in new + 1 .. size - 1 : a[j] = last) \/ (\E j \in 0 .. old : members[j] = last)

\* A member greater than all that is still to be entered is written.
LEMMA MergeMove ==
    ASSUME NEW members, NEW number, NEW entered, IsGroup(members, number), IsQueue(entered),
           NEW a, NEW k, NEW old, NEW new, NEW last,
           Merging(members, number, entered, a, k, old, new, last),
           old >= 0, k >= 1 => entered[k] < members[old]
    PROVE  Merging(members, number, entered, [a EXCEPT ![new] = a[old]], k, old - 1, new - 1, 0)
<1> DEFINE size == number + Len(entered)
           n == Len(entered)
           b == [a EXCEPT ![new] = a[old]]
<1>1. /\ number \in Nat /\ n \in Nat /\ size \in Nat /\ size = number + n
      /\ members \in [0 .. number - 1 -> Handles] /\ entered \in [1 .. n -> Handles]
      /\ \A j, l \in 0 .. number - 1 : j < l => members[j] < members[l]
      /\ \A h \in Handles : h \in Nat \ {0}
  BY HandlesAssumption DEF IsGroup, IsQueue
<1>2. /\ a \in [0 .. size - 1 -> Cells] /\ k \in 0 .. n /\ old \in 0 .. number - 1
      /\ new \in -1 .. size - 1 /\ new >= old + k
      /\ k \in Int /\ old \in Int /\ new \in Int
  BY <1>1 DEF Merging
<1>3. \A j \in 0 .. old : a[j] = members[j]
  BY DEF Merging
<1>4. \A j \in new + 1 .. size - 1 :
          /\ a[j] \in Handles
          /\ (\E l \in 0 .. number - 1 : members[l] = a[j]) \/ (\E l \in 1 .. n : entered[l] = a[j])
          /\ members[old] < a[j]
          /\ k >= 1 => entered[k] < a[j] \/ (entered[k] = a[j] /\ last = a[j])
  BY <1>2 DEF Merging
<1>5. \A j, l \in new + 1 .. size - 1 : j < l => a[j] < a[l]
  BY DEF Merging
<1>6. \A l \in old + 1 .. number - 1 : \E j \in new + 1 .. size - 1 : a[j] = members[l]
  BY DEF Merging
<1>7. \A l \in k + 1 .. n :
          (\E j \in new + 1 .. size - 1 : a[j] = entered[l]) \/ (\E j \in 0 .. old : members[j] = entered[l])
  BY DEF Merging
<1> HIDE DEF size, n
<1>8. /\ new \in 0 .. size - 1 /\ a[old] = members[old] /\ members[old] \in Handles
      /\ b \in [0 .. size - 1 -> Cells] /\ b[new] = members[old]
      /\ \A j \in 0 .. size - 1 : j # new => b[j] = a[j]
  BY <1>1, <1>2, <1>3 DEF Cells
<1>9. \A j \in new .. size - 1 : j = new \/ j \in new + 1 .. size - 1
  BY <1>1, <1>2
<1>10. \A j \in new + 1 .. size - 1 : b[j] = a[j] /\ j \in new .. size - 1
  BY <1>1, <1>2, <1>8
<1>11. new \in new .. size - 1
  BY <1>1, <1>8
<1> HIDE DEF b
<1>12. \A j \in 0 .. old - 1 : b[j] = members[j]
  BY <1>1, <1>2, <1>3, <1>8
<1>13. \A j \in new .. size - 1 :
          /\ b[j] \in Handles
          /\ (\E l \in 0 .. number - 1 : members[l] = b[j]) \/ (\E l \in 1 .. n : entered[l] = b[j])
          /\ old - 1 >= 0 => members[old - 1] < b[j]
          /\ k >= 1 => entered[k] < b[j]
  <2>1. old - 1 >= 0 => members[old - 1] < members[old] /\ members[old - 1] \in Nat
    BY <1>1, <1>2
  <2>2. members[old] \in Nat /\ old \in 0 .. number - 1 /\ (k >= 1 => entered[k] \in Nat)
    BY <1>1, <1>2
  <2> SUFFICES ASSUME NEW j \in new .. size - 1
               PROVE  /\ b[j] \in Handles
                      /\ (\E l \in 0 .. number - 1 : members[l] = b[j]) \/ (\E l \in 1 .. n : entered[l] = b[j])
                      /\ old - 1 >= 0 => members[old - 1] < b[j]
                      /\ k >= 1 => entered[k] < b[j]
    OBVIOUS
  <2>3. CASE j = new
    BY <1>8, <2>1, <2>2, <2>3
  <2>4. CASE j # new
    <3>1. j \in new + 1 .. size - 1 /\ b[j] = a[j] /\ a[j] \in Nat /\ members[old] < a[j] /\ a[j] \in Handles
      BY <1>1, <1>4, <1>9, <1>10, <2>4
    <3>2. (\E l \in 0 .. number - 1 : members[l] = a[j]) \/ (\E l \in 1 .. n : entered[l] = a[j])
      BY <1>4, <3>1
    <3>3. QED
      BY <2>1, <2>2, <3>1, <3>2
  <2>5. QED
    BY <2>3, <2>4
<1>14. \A j, l \in new .. size - 1 : j < l => b[j] < b[l]
  <2> SUFFICES ASSUME NEW j \in new .. size - 1, NEW l \in new .. size - 1, j < l PROVE b[j] < b[l]
    OBVIOUS
  <2>1. l \in new + 1 .. size - 1 /\ b[l] = a[l]
    BY <1>2, <1>9, <1>10
  <2>2. CASE j = new
    BY <1>4, <1>8, <2>1, <2>2
  <2>3. CASE j # new
    BY <1>5, <1>9, <1>10, <2>1, <2>3
  <2>4. QED
    BY <2>2, <2>3
<1>15. \A l \in old .. number - 1 : \E j \in new .. size - 1 : b[j] = members[l]
  <2>1. \A l \in old .. number - 1 : l = old \/ l \in old + 1 .. number - 1
    BY <1>1, <1>2
  <2>2. QED
    BY <1>6, <1>8, <1>10, <1>11, <2>1
<1>16. \A l \in k + 1 .. n :
          (\E j \in new .. size - 1 : b[j] = entered[l]) \/ (\E j \in 0 .. old - 1 : members[j] = entered[l])
  <2>1. \A j \in 0 .. old : j = old \/ j \in 0 .. old - 1
    BY <1>2
  <2>2. QED
    BY <1>7, <1>8, <1>10, <1>11, <2>1
<1>17. /\ old - 1 \in -1 .. number - 1 /\ new - 1 \in -1 .. size - 1 /\ new - 1 >= (old - 1) + k
       /\ (old - 1) + 1 = old /\ (new - 1) + 1 = new
  BY <1>1, <1>2, <1>8
<1>18. QED
  BY <1>2, <1>8, <1>12, <1>13, <1>14, <1>15, <1>16, <1>17 DEF Merging, size, n, b

\* An entered handle greater than the members left is written.
LEMMA MergeWrite ==
    ASSUME NEW members, NEW number, NEW entered, IsGroup(members, number), IsQueue(entered),
           NEW a, NEW k, NEW old, NEW new, NEW last,
           Merging(members, number, entered, a, k, old, new, last),
           k >= 1, entered[k] # last, old < 0 \/ entered[k] > members[old]
    PROVE  Merging(members, number, entered, [a EXCEPT ![new] = entered[k]], k - 1, old, new - 1, entered[k])
<1> DEFINE size == number + Len(entered)
           n == Len(entered)
           b == [a EXCEPT ![new] = entered[k]]
<1>1. /\ number \in Nat /\ n \in Nat /\ size \in Nat /\ size = number + n
      /\ members \in [0 .. number - 1 -> Handles] /\ entered \in [1 .. n -> Handles]
      /\ \A j, l \in 0 .. number - 1 : j < l => members[j] < members[l]
      /\ \A j, l \in 1 .. n : j < l => entered[j] <= entered[l]
      /\ \A h \in Handles : h \in Nat \ {0}
  BY HandlesAssumption DEF IsGroup, IsQueue
<1>2. /\ a \in [0 .. size - 1 -> Cells] /\ k \in 1 .. n /\ old \in -1 .. number - 1
      /\ new \in -1 .. size - 1 /\ last \in {0} \cup Handles /\ new >= old + k
      /\ k \in Int /\ old \in Int /\ new \in Int
  BY <1>1 DEF Merging
<1>3. \A j \in 0 .. old : a[j] = members[j]
  BY DEF Merging
<1>4. \A j \in new + 1 .. size - 1 :
          /\ a[j] \in Handles
          /\ (\E l \in 0 .. number - 1 : members[l] = a[j]) \/ (\E l \in 1 .. n : entered[l] = a[j])
          /\ old >= 0 => members[old] < a[j]
          /\ entered[k] < a[j] \/ (entered[k] = a[j] /\ last = a[j])
  BY <1>2 DEF Merging
<1>5. \A j, l \in new + 1 .. size - 1 : j < l => a[j] < a[l]
  BY DEF Merging
<1>6. \A l \in old + 1 .. number - 1 : \E j \in new + 1 .. size - 1 : a[j] = members[l]
  BY DEF Merging
<1>7. \A l \in k + 1 .. n :
          (\E j \in new + 1 .. size - 1 : a[j] = entered[l]) \/ (\E j \in 0 .. old : members[j] = entered[l])
  BY DEF Merging
<1>l. last # 0 => (\E j \in new + 1 .. size - 1 : a[j] = last) \/ (\E j \in 0 .. old : members[j] = last)
  BY DEF Merging
<1> HIDE DEF size, n
<1>e. /\ entered[k] \in Handles /\ entered[k] \in Nat \ {0} /\ k - 1 \in 0 .. n
      /\ k - 1 >= 1 => entered[k - 1] <= entered[k] /\ entered[k - 1] \in Nat
      /\ \A l \in (k - 1) + 1 .. n : l = k \/ l \in k + 1 .. n
  BY <1>1, <1>2
<1>8. /\ new \in 0 .. size - 1
      /\ b \in [0 .. size - 1 -> Cells] /\ b[new] = entered[k]
      /\ \A j \in 0 .. size - 1 : j # new => b[j] = a[j]
  BY <1>1, <1>2, <1>e DEF Cells
<1>9. \A j \in new .. size - 1 : j = new \/ j \in new + 1 .. size - 1
  BY <1>1, <1>2
<1>10. \A j \in new + 1 .. size - 1 : b[j] = a[j] /\ j \in new .. size - 1
  BY <1>1, <1>2, <1>8
<1>11. new \in new .. size - 1
  BY <1>1, <1>8
<1> HIDE DEF b
<1>12. \A j \in 0 .. old : b[j] = members[j]
  BY <1>1, <1>2, <1>3, <1>8
<1>x. \A j \in new + 1 .. size - 1 : entered[k] < a[j] /\ a[j] \in Nat
  BY <1>1, <1>4, <1>e
<1>13. \A j \in new .. size - 1 :
          /\ b[j] \in Handles
          /\ (\E l \in 0 .. number - 1 : members[l] = b[j]) \/ (\E l \in 1 .. n : entered[l] = b[j])
          /\ old >= 0 => members[old] < b[j]
          /\ k - 1 >= 1 => entered[k - 1] < b[j] \/ (entered[k - 1] = b[j] /\ entered[k] = b[j])
  <2> SUFFICES ASSUME NEW j \in new .. size - 1
               PROVE  /\ b[j] \in Handles
                      /\ (\E l \in 0 .. number - 1 : members[l] = b[j]) \/ (\E l \in 1 .. n : entered[l] = b[j])
                      /\ old >= 0 => members[old] < b[j]
                      /\ k - 1 >= 1 => entered[k - 1] < b[j] \/ (entered[k - 1] = b[j] /\ entered[k] = b[j])
    OBVIOUS
  <2>1. CASE j = new
    <3>1. old >= 0 => members[old] < entered[k]
      BY <1>1, <1>2, <1>e
    <3>2. QED
      BY <1>2, <1>8, <1>e, <2>1, <3>1
  <2>2. CASE j # new
    <3>1. j \in new + 1 .. size - 1 /\ b[j] = a[j] /\ a[j] \in Nat /\ entered[k] < a[j]
      BY <1>9, <1>10, <1>x, <2>2
    <3>2. /\ a[j] \in Handles /\ (old >= 0 => members[old] < a[j])
          /\ (\E l \in 0 .. number - 1 : members[l] = a[j]) \/ (\E l \in 1 .. n : entered[l] = a[j])
      BY <1>4, <3>1
    <3>3. QED
      BY <1>e, <3>1, <3>2
  <2>3. QED
    BY <2>1, <2>2
<1>14. \A j, l \in new .. size - 1 : j < l => b[j] < b[l]
  <2> SUFFICES ASSUME NEW j \in new .. size - 1, NEW l \in new .. size - 1, j < l PROVE b[j] < b[l]
    OBVIOUS
  <2>1. l \in new + 1 .. size - 1 /\ b[l] = a[l]
    BY <1>2, <1>9, <1>10
  <2>2. CASE j = new
    BY <1>x, <1>8, <2>1, <2>2
  <2>3. CASE j # new
    BY <1>5, <1>9, <1>10, <2>1, <2>3
  <2>4. QED
    BY <2>2, <2>3
<1>15. \A l \in old + 1 .. number - 1 : \E j \in new .. size - 1 : b[j] = members[l]
  BY <1>6, <1>10
<1>16. \A l \in (k - 1) + 1 .. n :
          (\E j \in new .. size - 1 : b[j] = entered[l]) \/ (\E j \in 0 .. old : members[j] = entered[l])
  BY <1>7, <1>8, <1>10, <1>11, <1>e
<1>17. /\ new - 1 \in -1 .. size - 1 /\ new - 1 >= old + (k - 1) /\ (new - 1) + 1 = new
  BY <1>1, <1>2, <1>8
<1>18. \E j \in new .. size - 1 : b[j] = entered[k]
  BY <1>8, <1>11
<1>19. QED
  BY <1>2, <1>e, <1>8, <1>12, <1>13, <1>14, <1>15, <1>16, <1>17, <1>18 DEF Merging, size, n, b

\* A handle that was entered before or is a member is written once.
LEMMA MergeSkip ==
    ASSUME NEW members, NEW number, NEW entered, IsGroup(members, number), IsQueue(entered),
           NEW a, NEW k, NEW old, NEW new, NEW last,
           Merging(members, number, entered, a, k, old, new, last),
           k >= 1, entered[k] = last \/ (old >= 0 /\ entered[k] = members[old])
    PROVE  Merging(members, number, entered, a, k - 1, old, new, entered[k])
<1> DEFINE size == number + Len(entered)
           n == Len(entered)
<1>1. /\ number \in Nat /\ n \in Nat /\ size \in Nat /\ size = number + n
      /\ members \in [0 .. number - 1 -> Handles] /\ entered \in [1 .. n -> Handles]
      /\ \A j, l \in 0 .. number - 1 : j < l => members[j] < members[l]
      /\ \A j, l \in 1 .. n : j < l => entered[j] <= entered[l]
      /\ \A h \in Handles : h \in Nat \ {0}
  BY HandlesAssumption DEF IsGroup, IsQueue
<1>2. /\ a \in [0 .. size - 1 -> Cells] /\ k \in 1 .. n /\ old \in -1 .. number - 1
      /\ new \in -1 .. size - 1 /\ last \in {0} \cup Handles /\ new >= old + k
      /\ k \in Int /\ old \in Int /\ new \in Int
  BY <1>1 DEF Merging
<1>3. \A j \in 0 .. old : a[j] = members[j]
  BY DEF Merging
<1>4. \A j \in new + 1 .. size - 1 :
          /\ a[j] \in Handles
          /\ (\E l \in 0 .. number - 1 : members[l] = a[j]) \/ (\E l \in 1 .. n : entered[l] = a[j])
          /\ old >= 0 => members[old] < a[j]
          /\ entered[k] < a[j] \/ (entered[k] = a[j] /\ last = a[j])
  BY <1>2 DEF Merging
<1>5. \A j, l \in new + 1 .. size - 1 : j < l => a[j] < a[l]
  BY DEF Merging
<1>6. \A l \in old + 1 .. number - 1 : \E j \in new + 1 .. size - 1 : a[j] = members[l]
  BY DEF Merging
<1>7. \A l \in k + 1 .. n :
          (\E j \in new + 1 .. size - 1 : a[j] = entered[l]) \/ (\E j \in 0 .. old : members[j] = entered[l])
  BY DEF Merging
<1>l. last # 0 => (\E j \in new + 1 .. size - 1 : a[j] = last) \/ (\E j \in 0 .. old : members[j] = last)
  BY DEF Merging
<1> HIDE DEF size, n
<1>e. /\ entered[k] \in Handles /\ entered[k] \in Nat \ {0} /\ k - 1 \in 0 .. n
      /\ k - 1 >= 1 => entered[k - 1] <= entered[k] /\ entered[k - 1] \in Nat
      /\ \A l \in (k - 1) + 1 .. n : l = k \/ l \in k + 1 .. n
  BY <1>1, <1>2
<1>8. (\E j \in new + 1 .. size - 1 : a[j] = entered[k]) \/ (\E j \in 0 .. old : members[j] = entered[k])
  <2>1. CASE entered[k] = last
    BY <1>l, <1>e, <2>1
  <2>2. CASE old >= 0 /\ entered[k] = members[old]
    <3>1. old \in 0 .. old
      BY <1>2, <2>2
    <3>2. QED
      BY <2>2, <3>1
  <2>3. QED
    BY <2>1, <2>2
<1>9. \A j \in new + 1 .. size - 1 :
          /\ a[j] \in Handles
          /\ (\E l \in 0 .. number - 1 : members[l] = a[j]) \/ (\E l \in 1 .. n : entered[l] = a[j])
          /\ old >= 0 => members[old] < a[j]
          /\ k - 1 >= 1 => entered[k - 1] < a[j] \/ (entered[k - 1] = a[j] /\ entered[k] = a[j])
  <2>1. ASSUME NEW j \in new + 1 .. size - 1 PROVE a[j] \in Nat /\ entered[k] <= a[j]
    <3>1. a[j] \in Handles /\ (entered[k] < a[j] \/ entered[k] = a[j])
      BY <1>4
    <3>2. a[j] \in Nat
      BY <1>1, <3>1
    <3>3. QED
      BY <1>e, <3>1, <3>2
  <2>2. QED
    BY <1>4, <1>e, <2>1
<1>10. \A l \in (k - 1) + 1 .. n :
          (\E j \in new + 1 .. size - 1 : a[j] = entered[l]) \/ (\E j \in 0 .. old : members[j] = entered[l])
  BY <1>7, <1>8, <1>e
<1>11. new >= old + (k - 1)
  BY <1>2
<1>12. QED
  BY <1>2, <1>e, <1>3, <1>5, <1>6, <1>8, <1>9, <1>10, <1>11 DEF Merging, size, n

\* A turn of merging, and what it leaves to do.
MergeRecords(number, entered) ==
    [a : [0 .. number + Len(entered) - 1 -> Cells], k : 0 .. Len(entered), old : -1 .. number - 1,
     new : -1 .. number + Len(entered) - 1, last : {0} \cup Handles]

MergeStates(members, number, entered) ==
    {s \in MergeRecords(number, entered) :
        Merging(members, number, entered, s.a, s.k, s.old, s.new, s.last)}

\* Every turn takes an entered handle or a member until none is left.
LEMMA MergeTurn ==
    ASSUME NEW members, NEW number, NEW entered, IsGroup(members, number), IsQueue(entered),
           NEW s \in MergeStates(members, number, entered)
    PROVE  /\ Multicast!MergeEntered(entered, s) \in MergeStates(members, number, entered)
           /\ s.k = 0 /\ s.old < 0 => Multicast!MergeEntered(entered, s) = s
           /\ ~(s.k = 0 /\ s.old < 0) =>
                Multicast!MergeEntered(entered, s).k + Multicast!MergeEntered(entered, s).old = s.k + s.old - 1
<1> DEFINE n == Len(entered)
           turn == Multicast!MergeEntered(entered, s)
<1>1. /\ s \in MergeRecords(number, entered)
      /\ Merging(members, number, entered, s.a, s.k, s.old, s.new, s.last)
  BY DEF MergeStates
<1>a. s.k \in 0 .. n /\ s.old \in -1 .. number - 1 /\ \A j \in 0 .. s.old : s.a[j] = members[j]
  BY <1>1 DEF Merging
<1>b. n \in Nat /\ number \in Nat /\ \A j \in 1 .. n : entered[j] \in Nat
  <2>1. entered \in [1 .. n -> Handles] /\ n \in Nat /\ number \in Nat
    BY DEF IsGroup, IsQueue
  <2>2. QED
    BY <2>1, HandlesAssumption
<1>c. \A j \in 0 .. number - 1 : members[j] \in Nat
  BY HandlesAssumption DEF IsGroup
<1> HIDE DEF n
<1>d. /\ s.k \in Int /\ s.old \in Int /\ (s.k # 0 => s.k >= 1 /\ entered[s.k] \in Nat)
      /\ s.old >= 0 => s.a[s.old] = members[s.old] /\ members[s.old] \in Nat
  BY <1>a, <1>b, <1>c
<1>3. ASSUME NEW a, NEW k, NEW old, NEW new, NEW last,
             Merging(members, number, entered, a, k, old, new, last),
             turn = [a |-> a, k |-> k, old |-> old, new |-> new, last |-> last]
      PROVE  turn \in MergeStates(members, number, entered)
  <2> HIDE DEF turn
  <2>1. turn \in MergeRecords(number, entered)
    <3>1. /\ a \in [0 .. number + Len(entered) - 1 -> Cells] /\ k \in 0 .. Len(entered) /\ old \in -1 .. number - 1
          /\ new \in -1 .. number + Len(entered) - 1 /\ last \in {0} \cup Handles
      <4>1. Merging(members, number, entered, a, k, old, new, last)
        BY <1>3
      <4>2. QED
        BY <1>b, <4>1 DEF Merging, n
    <3>2. QED
      BY <1>3, <3>1 DEF MergeRecords
  <2>2. Merging(members, number, entered, turn.a, turn.k, turn.old, turn.new, turn.last)
    BY <1>3
  <2>3. QED
    BY <2>1, <2>2 DEF MergeStates
<1>4. s = [a |-> s.a, k |-> s.k, old |-> s.old, new |-> s.new, last |-> s.last]
  BY <1>1 DEF MergeRecords
<1>5. CASE s.k = 0 /\ s.old < 0
  BY <1>5 DEF Multicast!MergeEntered
<1>6. CASE s.old >= 0 /\ (s.k >= 1 => entered[s.k] < members[s.old] /\ entered[s.k] # s.last)
  <2>1. s.a[s.old] = members[s.old]
    BY <1>d, <1>6
  <2>2. turn = Multicast!MoveRest(s)
    <3>1. CASE s.k = 0
      BY <1>d, <1>6, <3>1 DEF Multicast!MergeEntered
    <3>2. CASE s.k # 0
      <4>1. entered[s.k] # s.last /\ ~(s.old < 0) /\ ~(entered[s.k] > s.a[s.old]) /\ entered[s.k] # s.a[s.old]
        BY <1>d, <1>6, <2>1, <3>2
      <4>2. QED
        BY <3>2, <4>1 DEF Multicast!MergeEntered
    <3>3. QED
      BY <3>1, <3>2
  <2>3. turn = [a |-> [s.a EXCEPT ![s.new] = s.a[s.old]], k |-> s.k, old |-> s.old - 1, new |-> s.new - 1, last |-> 0]
    BY <1>4, <2>2 DEF Multicast!MoveRest
  <2>4. Merging(members, number, entered, [s.a EXCEPT ![s.new] = s.a[s.old]], s.k, s.old - 1, s.new - 1, 0)
    BY <1>1, <1>6, MergeMove
  <2>5. turn \in MergeStates(members, number, entered)
    BY <1>3, <2>3, <2>4
  <2>6. turn.k + turn.old = s.k + s.old - 1
    BY <1>d, <2>3
  <2>7. QED
    BY <1>d, <1>6, <2>5, <2>6
<1>7. CASE s.k >= 1 /\ entered[s.k] # s.last /\ (s.old < 0 \/ entered[s.k] > members[s.old])
  <2>1. s.old < 0 \/ entered[s.k] > s.a[s.old]
    BY <1>d, <1>7
  <2>2. turn = [a |-> [s.a EXCEPT ![s.new] = entered[s.k]], k |-> s.k - 1, old |-> s.old, new |-> s.new - 1,
                last |-> entered[s.k]]
    <3>1. turn = [s EXCEPT !.a = [s.a EXCEPT ![s.new] = entered[s.k]], !.k = s.k - 1, !.new = s.new - 1,
                           !.last = entered[s.k]]
      BY <1>d, <1>7, <2>1 DEF Multicast!MergeEntered
    <3>2. QED
      BY <1>4, <3>1
  <2>3. Merging(members, number, entered, [s.a EXCEPT ![s.new] = entered[s.k]], s.k - 1, s.old, s.new - 1, entered[s.k])
    BY <1>1, <1>7, MergeWrite
  <2>4. turn \in MergeStates(members, number, entered)
    BY <1>3, <2>2, <2>3
  <2>5. turn.k + turn.old = s.k + s.old - 1
    BY <1>d, <2>2
  <2>6. QED
    BY <1>7, <2>4, <2>5
<1>8. CASE s.k >= 1 /\ (entered[s.k] = s.last \/ (s.old >= 0 /\ entered[s.k] = members[s.old]))
  <2>1. turn = [a |-> s.a, k |-> s.k - 1, old |-> s.old, new |-> s.new, last |-> entered[s.k]]
    <3>1. CASE entered[s.k] = s.last
      <4>1. turn = [s EXCEPT !.k = s.k - 1]
        BY <1>d, <1>8, <3>1 DEF Multicast!MergeEntered
      <4>2. QED
        BY <1>4, <3>1, <4>1
    <3>2. CASE entered[s.k] # s.last
      <4>1. s.old >= 0 /\ s.a[s.old] = members[s.old] /\ entered[s.k] = members[s.old] /\ entered[s.k] \in Nat /\ s.k # 0
        BY <1>d, <1>8, <3>2
      <4>2. ~(s.old < 0 \/ entered[s.k] > s.a[s.old]) /\ entered[s.k] = s.a[s.old]
        BY <1>d, <4>1
      <4>3. turn = [s EXCEPT !.k = s.k - 1, !.last = entered[s.k]]
        BY <3>2, <4>1, <4>2 DEF Multicast!MergeEntered
      <4>4. QED
        BY <1>4, <4>3
    <3>3. QED
      BY <3>1, <3>2
  <2>2. Merging(members, number, entered, s.a, s.k - 1, s.old, s.new, entered[s.k])
    BY <1>1, <1>8, MergeSkip
  <2>3. turn \in MergeStates(members, number, entered)
    BY <1>3, <2>1, <2>2
  <2>4. turn.k + turn.old = s.k + s.old - 1
    BY <1>d, <2>1
  <2>5. QED
    BY <1>8, <2>3, <2>4
<1>9. \/ s.k = 0 /\ s.old < 0
      \/ s.old >= 0 /\ (s.k >= 1 => entered[s.k] < members[s.old] /\ entered[s.k] # s.last)
      \/ s.k >= 1 /\ entered[s.k] # s.last /\ (s.old < 0 \/ entered[s.k] > members[s.old])
      \/ s.k >= 1 /\ (entered[s.k] = s.last \/ (s.old >= 0 /\ entered[s.k] = members[s.old]))
  BY <1>d
<1>10. QED
  BY <1>5, <1>6, <1>7, <1>8, <1>9

MergeFirst(members, number, entered) ==
    LET size == number + Len(entered) IN
    [a    |-> [k \in 0 .. size - 1 |-> IF k < number THEN members[k] ELSE Junk],
     k    |-> Len(entered), old |-> number - 1, new |-> size - 1, last |-> 0]

\* Before the first turn nothing is written.
LEMMA MergeStart ==
    ASSUME NEW members, NEW number, NEW entered, IsGroup(members, number), IsQueue(entered)
    PROVE  MergeFirst(members, number, entered) \in MergeStates(members, number, entered)
<1> DEFINE n == Len(entered)
           size == number + n
           a == [k \in 0 .. size - 1 |-> IF k < number THEN members[k] ELSE Junk]
<1>1. /\ number \in Nat /\ n \in Nat /\ size \in Nat
      /\ members \in [0 .. number - 1 -> Handles]
  BY DEF IsGroup, IsQueue
<1>2. a \in [0 .. size - 1 -> Cells]
  BY <1>1 DEF Cells
<1>3. \A j \in 0 .. number - 1 : a[j] = members[j]
  BY <1>1
<1> HIDE DEF a
<1>4. Merging(members, number, entered, a, n, number - 1, size - 1, 0)
  BY <1>1, <1>2, <1>3 DEF Merging
<1>5. [a |-> a, k |-> n, old |-> number - 1, new |-> size - 1, last |-> 0] \in MergeRecords(number, entered)
  BY <1>1, <1>2 DEF MergeRecords
<1>6. [a |-> a, k |-> n, old |-> number - 1, new |-> size - 1, last |-> 0] \in MergeStates(members, number, entered)
  BY <1>4, <1>5 DEF MergeStates
<1>7. MergeFirst(members, number, entered) = [a |-> a, k |-> n, old |-> number - 1, new |-> size - 1, last |-> 0]
  BY DEF MergeFirst, a
<1>8. QED
  BY <1>6, <1>7

\* An array has as many cells as its number says.
LEMMA Sizes ==
    ASSUME NEW number \in Nat, NEW f, DOMAIN f = 0 .. number - 1
    PROVE  Multicast!Cardinality(DOMAIN f) = number
<1>1. Cardinality(0 .. number - 1) = number
  BY FS_Interval
<1>2. QED
  BY <1>1 DEF Multicast!Cardinality, Cardinality

\* Merging ends, with everything written.
LEMMA MergeEnds ==
    ASSUME NEW members, NEW number, NEW entered, IsGroup(members, number), IsQueue(entered)
    PROVE  /\ Multicast!MergeAll(members, entered) \in MergeStates(members, number, entered)
           /\ Multicast!MergeAll(members, entered).k = 0
           /\ Multicast!MergeAll(members, entered).old = -1
<1> DEFINE size == number + Len(entered)
           S == MergeStates(members, number, entered)
           first == MergeFirst(members, number, entered)
           F == [s \in S |-> Multicast!MergeEntered(entered, s)]
           turn == CHOOSE g : g = [n \in 0 .. size |-> IF n = 0 THEN first ELSE Multicast!MergeEntered(entered, g[n - 1])]
<1>1. /\ number \in Nat /\ Len(entered) \in Nat /\ size \in Nat
      /\ DOMAIN members = 0 .. number - 1
  BY DEF IsGroup, IsQueue
<1>2. Multicast!MergeAll(members, entered) = turn[size]
  <2>1. Multicast!Cardinality(DOMAIN members) = number
    BY <1>1, Sizes
  <2>2. QED
    BY <2>1 DEF Multicast!MergeAll, MergeFirst
<1>3. first \in S
  BY MergeStart
<1>4. F \in [S -> S]
  BY MergeTurn
<1>5. first.k + first.old = size - 1
  BY <1>1 DEF MergeFirst
<1> HIDE DEF first
<1>a. PICK f \in [0 .. size -> S] : Iterates(f, first, F, size)
  <2>1. size \in Nat
    BY <1>1
  <2> HIDE DEF S, F, size, turn
  <2>2. QED
    BY <2>1, <1>3, <1>4, Iterated
<1>6. f[0] = first /\ \A n \in 1 .. size : f[n] = F[f[n - 1]]
  BY <1>a DEF Iterates
<1>7. f = [n \in 0 .. size |-> IF n = 0 THEN first ELSE Multicast!MergeEntered(entered, f[n - 1])]
  <2>1. \A n \in 0 .. size : n # 0 => n \in 1 .. size /\ n - 1 \in 0 .. size
    BY <1>1
  <2>2. \A n \in 0 .. size : n # 0 => f[n] = Multicast!MergeEntered(entered, f[n - 1])
    <3> HIDE DEF S, size
    <3>1. QED
      BY <1>6, <2>1
  <2> HIDE DEF S, size
  <2>3. QED
    BY <1>6, <2>2
<1>8. turn = [n \in 0 .. size |-> IF n = 0 THEN first ELSE Multicast!MergeEntered(entered, turn[n - 1])]
  <2> HIDE DEF size
  <2>1. QED
    BY <1>7
<1> HIDE DEF turn
<1> DEFINE T == {n \in Nat : n <= size => turn[n] \in S /\ turn[n].k + turn[n].old = size - 1 - n}
<1>9. 0 \in T
  <2> HIDE DEF S
  <2>1. turn[0] = first
    <3> HIDE DEF size
    <3>1. 0 \in 0 .. size
      BY <1>1
    <3>2. QED
      BY <1>8, <3>1
  <2>2. QED
    BY <1>1, <1>3, <1>5, <2>1
<1>10. ASSUME NEW n \in T PROVE n + 1 \in T
  <2>1. n \in Nat
    OBVIOUS
  <2>2. SUFFICES ASSUME n + 1 <= size PROVE turn[n + 1] \in S /\ turn[n + 1].k + turn[n + 1].old = size - 1 - (n + 1)
    BY <2>1
  <2>3. turn[n] \in S /\ turn[n].k + turn[n].old = size - 1 - n
    BY <1>1, <2>1, <2>2
  <2>4. turn[n + 1] = Multicast!MergeEntered(entered, turn[n])
    <3>1. n + 1 \in 0 .. size /\ n + 1 # 0 /\ (n + 1) - 1 = n
      BY <1>1, <2>1, <2>2
    <3> HIDE DEF size
    <3>2. QED
      BY <1>8, <3>1
  <2>5. ~(turn[n].k = 0 /\ turn[n].old < 0)
    <3>1. turn[n].old \in -1 .. number - 1 /\ turn[n].k \in 0 .. Len(entered)
      BY <2>3 DEF MergeStates, MergeRecords
    <3>2. QED
      BY <1>1, <2>1, <2>2, <2>3, <3>1
  <2>6. /\ turn[n + 1] \in S
        /\ turn[n + 1].k + turn[n + 1].old = turn[n].k + turn[n].old - 1
    <3> DEFINE w == turn[n]
    <3>1. w \in MergeStates(members, number, entered) /\ ~(w.k = 0 /\ w.old < 0) /\ turn[n + 1] = Multicast!MergeEntered(entered, w)
      BY <2>3, <2>4, <2>5
    <3> HIDE DEF w
    <3>2. /\ Multicast!MergeEntered(entered, w) \in MergeStates(members, number, entered)
          /\ Multicast!MergeEntered(entered, w).k + Multicast!MergeEntered(entered, w).old = w.k + w.old - 1
      BY <3>1, MergeTurn
    <3>3. QED
      BY <3>1, <3>2 DEF w
  <2>7. turn[n].k \in Int /\ turn[n].old \in Int
    <3>1. turn[n].old \in -1 .. number - 1 /\ turn[n].k \in 0 .. Len(entered)
      BY <2>3 DEF MergeStates, MergeRecords
    <3>2. QED
      BY <1>1, <3>1
  <2>8. turn[n].k + turn[n].old - 1 = size - 1 - (n + 1)
    <3>1. size \in Nat /\ n \in Nat /\ turn[n].k + turn[n].old = size - 1 - n
      BY <1>1, <2>1, <2>3
    <3>2. \A a, b \in Int, s, l \in Nat : a + b = s - 1 - l => a + b - 1 = s - 1 - (l + 1)
      OBVIOUS
    <3> HIDE DEF size
    <3>3. QED
      BY <2>7, <3>1, <3>2
  <2> HIDE DEF size, S
  <2>9. QED
    BY <2>6, <2>8
<1>11. size \in T
  <2>0. T \subseteq Nat
    OBVIOUS
  <2> HIDE DEF T, size
  <2>1. QED
    BY <1>1, <2>0, <1>9, <1>10, SetInduction
<1>12. turn[size] \in S /\ turn[size].k + turn[size].old = -1
  BY <1>1, <1>11
<1>13. turn[size].old \in -1 .. number - 1 /\ turn[size].k \in 0 .. Len(entered)
  BY <1>12 DEF MergeStates, MergeRecords
<1>14. turn[size].k = 0 /\ turn[size].old = -1
  BY <1>1, <1>12, <1>13
<1>15. QED
  BY <1>2, <1>12, <1>14

\* What was merged: the handles from `from` on are in order.
IsMerged(merged, size, from) ==
    /\ size \in Nat /\ from \in 0 .. size
    /\ merged \in [0 .. size - 1 -> Cells]
    /\ \A j \in from .. size - 1 : merged[j] \in Handles
    /\ \A j, l \in from .. size - 1 : j < l => merged[j] < merged[l]

\* The merge of members and entered handles has what either has.
IsMergeOf(merged, size, from, members, number, entered) ==
    /\ IsMerged(merged, size, from)
    /\ \A h : (\E j \in from .. size - 1 : merged[j] = h)
                 <=> (\E l \in 0 .. number - 1 : members[l] = h) \/ (\E l \in 1 .. Len(entered) : entered[l] = h)

\* What has been merged is that.
LEMMA MergedFacts ==
    ASSUME NEW members, NEW number, NEW entered, IsGroup(members, number), IsQueue(entered)
    PROVE  IsMergeOf(Multicast!MergeAll(members, entered).a, number + Len(entered),
                     Multicast!MergeAll(members, entered).new + 1, members, number, entered)
<1> DEFINE r == Multicast!MergeAll(members, entered)
           n == Len(entered)
           a == r.a
           size == number + n
           from == r.new + 1
<1>1. Merging(members, number, entered, r.a, 0, -1, r.new, r.last)
  BY MergeEnds DEF MergeStates
<1>2. number \in Nat /\ n \in Nat /\ size \in Nat /\ size = number + n
  BY DEF IsGroup, IsQueue
<1> HIDE DEF r, size, a, from
<1>3. /\ a \in [0 .. size - 1 -> Cells] /\ r.new \in -1 .. size - 1
      /\ \A j \in r.new + 1 .. size - 1 :
            a[j] \in Handles /\ ((\E l \in 0 .. number - 1 : members[l] = a[j]) \/ (\E l \in 1 .. n : entered[l] = a[j]))
      /\ \A j, l \in r.new + 1 .. size - 1 : j < l => a[j] < a[l]
  BY <1>1, <1>2 DEF Merging, r, a, size, n
<1>4. /\ \A l \in 0 .. number - 1 : \E j \in r.new + 1 .. size - 1 : a[j] = members[l]
      /\ \A l \in 1 .. n : \E j \in r.new + 1 .. size - 1 : a[j] = entered[l]
  BY <1>1, <1>2 DEF Merging, r, a, size, n
<1>5. from = r.new + 1 /\ from \in 0 .. size
  BY <1>2, <1>3 DEF from
<1>6. ASSUME NEW h, NEW j \in from .. size - 1, a[j] = h
      PROVE  (\E l \in 0 .. number - 1 : members[l] = h) \/ (\E l \in 1 .. n : entered[l] = h)
  BY <1>3, <1>5, <1>6
<1>7. ASSUME NEW h, (\E l \in 0 .. number - 1 : members[l] = h) \/ (\E l \in 1 .. n : entered[l] = h)
      PROVE  \E j \in from .. size - 1 : a[j] = h
  BY <1>4, <1>5, <1>7
<1>8. /\ \A j \in from .. size - 1 : a[j] \in Handles
      /\ \A j, l \in from .. size - 1 : j < l => a[j] < a[l]
  BY <1>3, <1>5
<1>9. IsMerged(a, size, from)
  BY <1>2, <1>3, <1>5, <1>8 DEF IsMerged
<1>10. \A h : (\E j \in from .. size - 1 : a[j] = h)
               <=> (\E l \in 0 .. number - 1 : members[l] = h) \/ (\E l \in 1 .. n : entered[l] = h)
  BY <1>6, <1>7
<1>11. QED
  BY <1>9, <1>10 DEF IsMergeOf, a, size, from, r

\* While what was merged moves to the front without the handles that left: the front, before
\* new, has what of it was before old and is not to leave, in order; the rest is untouched.
Removing(merged, size, from, left, a, k, old, new, count) ==
    /\ a \in [0 .. size - 1 -> Cells] /\ k \in 1 .. Len(left) + 1 /\ old \in from .. size
    /\ new \in 0 .. old
    /\ \A j \in old .. size - 1 : a[j] = merged[j]
    /\ \A j \in 0 .. new - 1 :
          (\E l \in from .. old - 1 : merged[l] = a[j]) /\ (\A l \in 1 .. Len(left) : left[l] # a[j])
    /\ \A j, l \in 0 .. new - 1 : j < l => a[j] < a[l]
    /\ \A l \in from .. old - 1 :
          (\E j \in 0 .. new - 1 : a[j] = merged[l]) \/ (\E j \in 1 .. Len(left) : left[j] = merged[l])
    /\ old < size => \A j \in 1 .. k - 1 : left[j] < merged[old]
    /\ count = new + size - old \/ (k = Len(left) + 1 /\ old = size /\ count = 0)

\* A merged handle that is not to leave moves to the front.
LEMMA RemoveMove ==
    ASSUME NEW merged, NEW size, NEW from, NEW left, IsMerged(merged, size, from), IsQueue(left),
           NEW a, NEW k, NEW old, NEW new, NEW count,
           Removing(merged, size, from, left, a, k, old, new, count),
           old < size, k <= Len(left) => left[k] > merged[old]
    PROVE  Removing(merged, size, from, left, [a EXCEPT ![new] = a[old]], k, old + 1, new + 1, count)
<1> DEFINE n == Len(left)
           b == [a EXCEPT ![new] = a[old]]
<1>1. /\ size \in Nat /\ n \in Nat /\ from \in 0 .. size /\ left \in [1 .. n -> Handles]
      /\ \A h \in Handles : h \in Nat
      /\ \A j, l \in 1 .. n : j < l => left[j] <= left[l]
  BY HandlesAssumption DEF IsMerged, IsQueue
<1>2. /\ \A j \in from .. size - 1 : merged[j] \in Handles
      /\ \A j, l \in from .. size - 1 : j < l => merged[j] < merged[l]
  BY DEF IsMerged
<1>3. /\ a \in [0 .. size - 1 -> Cells] /\ k \in 1 .. n + 1 /\ old \in from .. size - 1 /\ new \in 0 .. old
      /\ k \in Int /\ old \in Int /\ new \in Int
      /\ count = new + size - old
  BY <1>1 DEF Removing
<1>4. \A j \in old .. size - 1 : a[j] = merged[j]
  BY DEF Removing
<1>5. \A j \in 0 .. new - 1 :
          (\E l \in from .. old - 1 : merged[l] = a[j]) /\ (\A l \in 1 .. n : left[l] # a[j])
  BY DEF Removing
<1>6. \A j, l \in 0 .. new - 1 : j < l => a[j] < a[l]
  BY DEF Removing
<1>7. \A l \in from .. old - 1 :
          (\E j \in 0 .. new - 1 : a[j] = merged[l]) \/ (\E j \in 1 .. n : left[j] = merged[l])
  BY DEF Removing
<1>8. \A j \in 1 .. k - 1 : left[j] < merged[old]
  BY <1>1, <1>3 DEF Removing
<1> HIDE DEF n
<1>9. /\ new \in 0 .. size - 1 /\ a[old] = merged[old] /\ merged[old] \in Handles /\ merged[old] \in Nat
      /\ b \in [0 .. size - 1 -> Cells] /\ b[new] = merged[old]
      /\ \A j \in 0 .. size - 1 : j # new => b[j] = a[j]
  BY <1>1, <1>2, <1>3, <1>4 DEF Cells
<1>10. /\ \A j \in 0 .. new : j = new \/ j \in 0 .. new - 1
       /\ \A j \in 0 .. new - 1 : b[j] = a[j] /\ j \in 0 .. new
       /\ new \in 0 .. new
  BY <1>3, <1>9
<1> HIDE DEF b
<1>11. \A j \in old + 1 .. size - 1 : b[j] = merged[j]
  BY <1>1, <1>3, <1>4, <1>9
<1>12. \A l \in 1 .. n : left[l] # merged[old]
  <2> SUFFICES ASSUME NEW l \in 1 .. n PROVE left[l] # merged[old]
    OBVIOUS
  <2>1. left[l] \in Nat
    BY <1>1
  <2>2. CASE l \in 1 .. k - 1
    BY <1>8, <1>9, <2>1, <2>2
  <2>3. CASE l \notin 1 .. k - 1
    <3>1. k \in 1 .. n /\ k <= l /\ left[k] > merged[old] /\ left[k] \in Nat
      BY <1>1, <1>3, <2>3 DEF n
    <3>2. left[k] <= left[l]
      BY <1>1, <2>1, <3>1
    <3>3. QED
      BY <1>9, <2>1, <3>1, <3>2
  <2>4. QED
    BY <2>2, <2>3
<1>13. /\ \A l \in from .. old : l = old \/ l \in from .. old - 1
       /\ \A l \in from .. old - 1 : l \in from .. old
       /\ old \in from .. old
  BY <1>1, <1>3
<1>14. \A j \in 0 .. new :
          (\E l \in from .. old : merged[l] = b[j]) /\ (\A l \in 1 .. n : left[l] # b[j])
  <2> SUFFICES ASSUME NEW j \in 0 .. new
               PROVE  (\E l \in from .. old : merged[l] = b[j]) /\ (\A l \in 1 .. n : left[l] # b[j])
    OBVIOUS
  <2>1. CASE j = new
    BY <1>9, <1>12, <1>13, <2>1
  <2>2. CASE j # new
    <3>1. j \in 0 .. new - 1 /\ b[j] = a[j]
      BY <1>10, <2>2
    <3>2. QED
      BY <1>5, <1>13, <3>1
  <2>3. QED
    BY <2>1, <2>2
<1>15. \A j, l \in 0 .. new : j < l => b[j] < b[l]
  <2> SUFFICES ASSUME NEW j \in 0 .. new, NEW l \in 0 .. new, j < l PROVE b[j] < b[l]
    OBVIOUS
  <2>1. j \in 0 .. new - 1 /\ b[j] = a[j]
    BY <1>3, <1>10
  <2>2. CASE l = new
    <3>1. PICK x \in from .. old - 1 : merged[x] = a[j]
      BY <1>5, <2>1
    <3>2. merged[x] < merged[old]
      BY <1>1, <1>2, <1>3, <3>1
    <3>3. QED
      BY <1>9, <2>1, <2>2, <3>1, <3>2
  <2>3. CASE l # new
    BY <1>6, <1>10, <2>1, <2>3
  <2>4. QED
    BY <2>2, <2>3
<1>16. \A l \in from .. old :
          (\E j \in 0 .. new : b[j] = merged[l]) \/ (\E j \in 1 .. n : left[j] = merged[l])
  BY <1>7, <1>9, <1>10, <1>13
<1>17. old + 1 < size => \A j \in 1 .. k - 1 : left[j] < merged[old + 1]
  <2> SUFFICES ASSUME old + 1 < size, NEW j \in 1 .. k - 1 PROVE left[j] < merged[old + 1]
    OBVIOUS
  <2>1. merged[old + 1] \in Nat /\ merged[old] < merged[old + 1]
    BY <1>1, <1>2, <1>3
  <2>2. left[j] \in Nat /\ left[j] < merged[old]
    BY <1>1, <1>3, <1>8
  <2>3. QED
    BY <1>9, <2>1, <2>2
<1>18. /\ old + 1 \in from .. size /\ new + 1 \in 0 .. old + 1
       /\ (old + 1) - 1 = old /\ (new + 1) - 1 = new
       /\ count = (new + 1) + size - (old + 1)
  BY <1>1, <1>3
<1>19. QED
  BY <1>3, <1>9, <1>11, <1>14, <1>15, <1>16, <1>17, <1>18 DEF Removing, n, b

\* A merged handle that is to leave is passed over.
LEMMA RemoveMatch ==
    ASSUME NEW merged, NEW size, NEW from, NEW left, IsMerged(merged, size, from), IsQueue(left),
           NEW a, NEW k, NEW old, NEW new, NEW count,
           Removing(merged, size, from, left, a, k, old, new, count),
           old < size, k <= Len(left), left[k] = merged[old]
    PROVE  Removing(merged, size, from, left, a, k + 1, old + 1, new, count - 1)
<1> DEFINE n == Len(left)
<1>1. /\ size \in Nat /\ n \in Nat /\ from \in 0 .. size /\ left \in [1 .. n -> Handles]
      /\ \A h \in Handles : h \in Nat
      /\ \A j, l \in 1 .. n : j < l => left[j] <= left[l]
  BY HandlesAssumption DEF IsMerged, IsQueue
<1>2. /\ \A j \in from .. size - 1 : merged[j] \in Handles
      /\ \A j, l \in from .. size - 1 : j < l => merged[j] < merged[l]
  BY DEF IsMerged
<1>3. /\ a \in [0 .. size - 1 -> Cells] /\ k \in 1 .. n /\ old \in from .. size - 1 /\ new \in 0 .. old
      /\ k \in Int /\ old \in Int /\ new \in Int
      /\ count = new + size - old
  BY <1>1 DEF Removing
<1>4. \A j \in old .. size - 1 : a[j] = merged[j]
  BY DEF Removing
<1>5. \A j \in 0 .. new - 1 :
          (\E l \in from .. old - 1 : merged[l] = a[j]) /\ (\A l \in 1 .. n : left[l] # a[j])
  BY DEF Removing
<1>6. \A j, l \in 0 .. new - 1 : j < l => a[j] < a[l]
  BY DEF Removing
<1>7. \A l \in from .. old - 1 :
          (\E j \in 0 .. new - 1 : a[j] = merged[l]) \/ (\E j \in 1 .. n : left[j] = merged[l])
  BY DEF Removing
<1>8. \A j \in 1 .. k - 1 : left[j] < merged[old]
  BY <1>1, <1>3 DEF Removing
<1> HIDE DEF n
<1>9. \A j \in old + 1 .. size - 1 : a[j] = merged[j]
  BY <1>1, <1>3, <1>4
<1>10. /\ \A l \in from .. old : l = old \/ l \in from .. old - 1
       /\ \A l \in from .. old - 1 : l \in from .. old
       /\ \A j \in 1 .. k : j = k \/ j \in 1 .. k - 1
  BY <1>1, <1>3
<1>11. \A j \in 0 .. new - 1 :
          (\E l \in from .. old : merged[l] = a[j]) /\ (\A l \in 1 .. n : left[l] # a[j])
  BY <1>5, <1>10
<1>12. \A l \in from .. old :
          (\E j \in 0 .. new - 1 : a[j] = merged[l]) \/ (\E j \in 1 .. n : left[j] = merged[l])
  BY <1>3, <1>7, <1>10
<1>13. old + 1 < size => \A j \in 1 .. k : left[j] < merged[old + 1]
  <2> SUFFICES ASSUME old + 1 < size, NEW j \in 1 .. k PROVE left[j] < merged[old + 1]
    OBVIOUS
  <2>1. merged[old] \in Nat /\ merged[old + 1] \in Nat /\ merged[old] < merged[old + 1]
    BY <1>1, <1>2, <1>3
  <2>2. left[j] \in Nat /\ left[j] <= merged[old]
    BY <1>1, <1>3, <1>8, <1>10, <2>1
  <2>3. QED
    BY <2>1, <2>2
<1>14. /\ old + 1 \in from .. size /\ new \in 0 .. old + 1 /\ k + 1 \in 1 .. n + 1
       /\ (old + 1) - 1 = old /\ (k + 1) - 1 = k
       /\ count - 1 = new + size - (old + 1)
  BY <1>1, <1>3
<1>15. QED
  BY <1>3, <1>6, <1>9, <1>11, <1>12, <1>13, <1>14 DEF Removing, n

\* A handle that is to leave and is no member is passed over.
LEMMA RemoveSkip ==
    ASSUME NEW merged, NEW size, NEW from, NEW left, IsMerged(merged, size, from), IsQueue(left),
           NEW a, NEW k, NEW old, NEW new, NEW count,
           Removing(merged, size, from, left, a, k, old, new, count),
           old < size, k <= Len(left), left[k] < merged[old]
    PROVE  Removing(merged, size, from, left, a, k + 1, old, new, count)
<1> DEFINE n == Len(left)
<1>1. /\ size \in Nat /\ n \in Nat /\ from \in 0 .. size
  BY DEF IsMerged, IsQueue
<1>2. k \in 1 .. n /\ k \in Int /\ old \in Int /\ k + 1 \in 1 .. n + 1 /\ (k + 1) - 1 = k
      /\ count = new + size - old
  BY <1>1 DEF Removing
<1>3. \A j \in 1 .. k - 1 : left[j] < merged[old]
  BY DEF Removing
<1>4. \A j \in 1 .. k : j = k \/ j \in 1 .. k - 1
  BY <1>2
<1>5. \A j \in 1 .. (k + 1) - 1 : left[j] < merged[old]
  BY <1>2, <1>3, <1>4
<1>6. /\ a \in [0 .. size - 1 -> Cells] /\ old \in from .. size /\ new \in 0 .. old
      /\ \A j \in old .. size - 1 : a[j] = merged[j]
      /\ \A j \in 0 .. new - 1 :
            (\E l \in from .. old - 1 : merged[l] = a[j]) /\ (\A l \in 1 .. n : left[l] # a[j])
      /\ \A j, l \in 0 .. new - 1 : j < l => a[j] < a[l]
      /\ \A l \in from .. old - 1 :
            (\E j \in 0 .. new - 1 : a[j] = merged[l]) \/ (\E j \in 1 .. n : left[j] = merged[l])
  BY DEF Removing
<1>7. QED
  BY <1>2, <1>5, <1>6 DEF Removing

\* Past the end of the array nothing is left to remove from.
LEMMA RemoveOver ==
    ASSUME NEW merged, NEW size, NEW from, NEW left, IsMerged(merged, size, from), IsQueue(left),
           NEW a, NEW k, NEW old, NEW new, NEW count,
           Removing(merged, size, from, left, a, k, old, new, count), old = size
    PROVE  Removing(merged, size, from, left, a, Len(left) + 1, old, new, 0)
<1>1. size \in Nat /\ Len(left) \in Nat
  BY DEF IsMerged, IsQueue
<1>2. Len(left) + 1 \in 1 .. Len(left) + 1 /\ ~(old < size)
  BY <1>1
<1>3. QED
  BY <1>2 DEF Removing

RemoveRecords(size, from, left) ==
    [a : [0 .. size - 1 -> Cells], k : 1 .. Len(left) + 1, old : from .. size, new : 0 .. size, count : Int]

RemoveStates(merged, size, from, left) ==
    {s \in RemoveRecords(size, from, left) :
        Removing(merged, size, from, left, s.a, s.k, s.old, s.new, s.count)}

\* Turns that removing still may take, at most.
ToRemove(s, size, left) == (Len(left) + 1 - s.k) + (size - s.old)

\* Every turn takes a handle to leave or a merged one until none is left.
LEMMA RemoveTurn ==
    ASSUME NEW merged, NEW size, NEW from, NEW left, IsMerged(merged, size, from), IsQueue(left),
           NEW s \in RemoveStates(merged, size, from, left)
    PROVE  /\ Multicast!RemoveLeft(left, s) \in RemoveStates(merged, size, from, left)
           /\ ToRemove(s, size, left) \in Nat
           /\ IF ToRemove(s, size, left) = 0
              THEN Multicast!RemoveLeft(left, s) = s
              ELSE ToRemove(Multicast!RemoveLeft(left, s), size, left) < ToRemove(s, size, left)
<1> DEFINE turn == Multicast!RemoveLeft(left, s)
           n == Len(left)
<1>1. Removing(merged, size, from, left, s.a, s.k, s.old, s.new, s.count) /\ s \in RemoveRecords(size, from, left)
  BY DEF RemoveStates
<1>2. /\ size \in Nat /\ n \in Nat /\ from \in 0 .. size /\ left \in [1 .. n -> Handles]
      /\ \A h \in Handles : h \in Nat
      /\ \A j \in from .. size - 1 : merged[j] \in Handles
  BY HandlesAssumption DEF IsMerged, IsQueue
<1>3. /\ s.a \in [0 .. size - 1 -> Cells] /\ s.k \in 1 .. n + 1 /\ s.old \in from .. size /\ s.new \in 0 .. s.old
      /\ \A j \in s.old .. size - 1 : s.a[j] = merged[j]
      /\ s.count = s.new + size - s.old \/ (s.k = n + 1 /\ s.old = size /\ s.count = 0)
  BY <1>1 DEF Removing
<1> HIDE DEF n
<1>4. /\ s.k \in Int /\ s.old \in Int /\ s.new \in Int /\ s.count \in Int
      /\ s.k <= n => left[s.k] \in Nat
      /\ s.old < size => s.a[s.old] = merged[s.old] /\ merged[s.old] \in Nat
      /\ s.old \notin DOMAIN s.a <=> s.old = size
      /\ s.k > n <=> s.k = n + 1
      /\ s.k > n => (s.new >= s.count <=> s.old = size)
  <2>1. s.k \in Int /\ s.old \in Int /\ s.new \in Int /\ s.count \in Int
    BY <1>2, <1>3
  <2>2. s.k <= n => left[s.k] \in Nat
    BY <1>2, <1>3
  <2>3. s.old < size => s.a[s.old] = merged[s.old] /\ merged[s.old] \in Nat
    <3>1. s.old < size => s.old \in s.old .. size - 1 /\ s.old \in from .. size - 1
      BY <1>2, <1>3
    <3>2. QED
      BY <1>2, <1>3, <3>1
  <2>4. s.old \notin DOMAIN s.a <=> s.old = size
    BY <1>2, <1>3
  <2>5. s.k > n <=> s.k = n + 1
    BY <1>2, <1>3
  <2>6. s.k > n => (s.new >= s.count <=> s.old = size)
    BY <1>2, <1>3, <2>1
  <2>7. QED
    BY <2>1, <2>2, <2>3, <2>4, <2>5, <2>6
<1>5. ASSUME NEW a, NEW k, NEW old, NEW new, NEW count,
             Removing(merged, size, from, left, a, k, old, new, count),
             turn = [a |-> a, k |-> k, old |-> old, new |-> new, count |-> count]
      PROVE  turn \in RemoveStates(merged, size, from, left)
  <2> HIDE DEF turn
  <2>0. Removing(merged, size, from, left, a, k, old, new, count)
    BY <1>5
  <2>1. /\ a \in [0 .. size - 1 -> Cells] /\ k \in 1 .. n + 1 /\ old \in from .. size /\ new \in 0 .. old
        /\ count = new + size - old \/ count = 0
    BY <2>0 DEF Removing, n
  <2>2. new \in 0 .. size /\ count \in Int
    BY <1>2, <2>1
  <2>3. turn \in RemoveRecords(size, from, left)
    BY <1>5, <2>1, <2>2 DEF RemoveRecords, n
  <2>4. Removing(merged, size, from, left, turn.a, turn.k, turn.old, turn.new, turn.count)
    BY <1>5
  <2>5. QED
    BY <2>3, <2>4 DEF RemoveStates
<1>6. s = [a |-> s.a, k |-> s.k, old |-> s.old, new |-> s.new, count |-> s.count]
  BY <1>1 DEF RemoveRecords
<1>7. ToRemove(s, size, left) \in Nat /\ (ToRemove(s, size, left) = 0 <=> s.k > n /\ s.old = size)
  <2>1. ToRemove(s, size, left) = (n + 1 - s.k) + (size - s.old)
    BY DEF ToRemove, n
  <2>2. n \in Nat /\ size \in Nat /\ from \in Nat /\ s.k \in 1 .. n + 1 /\ s.old \in from .. size
    BY <1>2, <1>3
  <2>3. /\ s.k \in Int /\ s.old \in Int /\ n + 1 - s.k \in Nat /\ size - s.old \in Nat
        /\ n + 1 - s.k = 0 <=> s.k > n
        /\ size - s.old = 0 <=> s.old = size
    BY <2>2
  <2>4. ASSUME NEW x \in Nat, NEW y \in Nat PROVE x + y \in Nat /\ (x + y = 0 <=> x = 0 /\ y = 0)
    OBVIOUS
  <2>5. QED
    BY <2>1, <2>3, <2>4
<1>8. CASE s.k > n /\ s.old = size
  <2>1. turn = s
    BY <1>4, <1>8 DEF Multicast!RemoveLeft, n
  <2>2. QED
    BY <1>7, <1>8, <2>1
<1>9. CASE s.old < size /\ (s.k <= n => left[s.k] > merged[s.old])
  <2>1. turn = Multicast!MoveUp(s)
    <3>1. CASE s.k > n
      BY <1>4, <1>9, <3>1 DEF Multicast!RemoveLeft, n
    <3>2. CASE ~(s.k > n)
      <4>1. s.old \in DOMAIN s.a /\ left[s.k] > s.a[s.old] /\ left[s.k] # s.a[s.old]
        BY <1>2, <1>4, <1>9, <3>2
      <4>2. QED
        BY <3>2, <4>1 DEF Multicast!RemoveLeft, n
    <3>3. QED
      BY <3>1, <3>2
  <2>2. turn = [a |-> [s.a EXCEPT ![s.new] = s.a[s.old]], k |-> s.k, old |-> s.old + 1, new |-> s.new + 1,
                count |-> s.count]
    BY <1>6, <2>1 DEF Multicast!MoveUp
  <2>3. Removing(merged, size, from, left, [s.a EXCEPT ![s.new] = s.a[s.old]], s.k, s.old + 1, s.new + 1, s.count)
    BY <1>1, <1>9, RemoveMove DEF n
  <2>4. turn \in RemoveStates(merged, size, from, left)
    BY <1>5, <2>2, <2>3
  <2>5. ToRemove(turn, size, left) < ToRemove(s, size, left)
    BY <1>2, <1>4, <2>2 DEF ToRemove, n
  <2>6. QED
    BY <1>2, <1>4, <1>7, <1>9, <2>4, <2>5
<1>10. CASE s.k <= n /\ s.old = size
  <2>1. turn = [a |-> s.a, k |-> n + 1, old |-> s.old, new |-> s.new, count |-> 0]
    <3>1. turn = [s EXCEPT !.k = n + 1, !.count = 0]
      BY <1>2, <1>4, <1>10 DEF Multicast!RemoveLeft, n
    <3>2. QED
      BY <1>6, <3>1
  <2>2. Removing(merged, size, from, left, s.a, n + 1, s.old, s.new, 0)
    BY <1>1, <1>10, RemoveOver DEF n
  <2>3. turn \in RemoveStates(merged, size, from, left)
    BY <1>5, <2>1, <2>2
  <2>4. ToRemove(turn, size, left) < ToRemove(s, size, left)
    BY <1>2, <1>4, <1>10, <2>1 DEF ToRemove, n
  <2>5. QED
    BY <1>2, <1>4, <1>7, <1>10, <2>3, <2>4
<1>11. CASE s.k <= n /\ s.old < size /\ left[s.k] = merged[s.old]
  <2>1. turn = [a |-> s.a, k |-> s.k + 1, old |-> s.old + 1, new |-> s.new, count |-> s.count - 1]
    <3>1. turn = [s EXCEPT !.k = s.k + 1, !.old = s.old + 1, !.count = s.count - 1]
      BY <1>2, <1>4, <1>11 DEF Multicast!RemoveLeft, n
    <3>2. QED
      BY <1>6, <3>1
  <2>2. Removing(merged, size, from, left, s.a, s.k + 1, s.old + 1, s.new, s.count - 1)
    BY <1>1, <1>11, RemoveMatch DEF n
  <2>3. turn \in RemoveStates(merged, size, from, left)
    BY <1>5, <2>1, <2>2
  <2>4. ToRemove(turn, size, left) < ToRemove(s, size, left)
    BY <1>2, <1>4, <2>1, SMTT(30) DEF ToRemove, n
  <2>5. QED
    BY <1>2, <1>4, <1>7, <1>11, <2>3, <2>4
<1>12. CASE s.k <= n /\ s.old < size /\ left[s.k] < merged[s.old]
  <2>1. turn = [a |-> s.a, k |-> s.k + 1, old |-> s.old, new |-> s.new, count |-> s.count]
    <3>0. /\ ~(s.k > n) /\ ~(s.old \notin DOMAIN s.a) /\ left[s.k] # s.a[s.old] /\ ~(left[s.k] > s.a[s.old])
      BY <1>2, <1>4, <1>12
    <3>1. turn = [s EXCEPT !.k = s.k + 1]
      BY <3>0 DEF Multicast!RemoveLeft, n
    <3>2. QED
      BY <1>6, <3>1
  <2>2. Removing(merged, size, from, left, s.a, s.k + 1, s.old, s.new, s.count)
    BY <1>1, <1>12, RemoveSkip DEF n
  <2>3. turn \in RemoveStates(merged, size, from, left)
    BY <1>5, <2>1, <2>2
  <2>4. ToRemove(turn, size, left) < ToRemove(s, size, left)
    BY <1>2, <1>4, <2>1 DEF ToRemove, n
  <2>5. QED
    BY <1>2, <1>4, <1>7, <1>12, <2>3, <2>4
<1>13. \/ s.k > n /\ s.old = size
       \/ s.old < size /\ (s.k <= n => left[s.k] > merged[s.old])
       \/ s.k <= n /\ s.old = size
       \/ s.k <= n /\ s.old < size /\ left[s.k] = merged[s.old]
       \/ s.k <= n /\ s.old < size /\ left[s.k] < merged[s.old]
  BY <1>2, <1>3, <1>4
<1>14. QED
  BY <1>8, <1>9, <1>10, <1>11, <1>12, <1>13

RemoveFirst(merged, size, from) == [a |-> merged, k |-> 1, old |-> from, new |-> 0, count |-> size - from]

\* Before the first turn nothing has moved.
LEMMA RemoveStart ==
    ASSUME NEW merged, NEW size, NEW from, NEW left, IsMerged(merged, size, from), IsQueue(left)
    PROVE  RemoveFirst(merged, size, from) \in RemoveStates(merged, size, from, left)
<1>1. /\ size \in Nat /\ Len(left) \in Nat /\ from \in 0 .. size /\ merged \in [0 .. size - 1 -> Cells]
  BY DEF IsMerged, IsQueue
<1>2. Removing(merged, size, from, left, merged, 1, from, 0, size - from)
  BY <1>1 DEF Removing
<1>3. RemoveFirst(merged, size, from) \in RemoveRecords(size, from, left)
  BY <1>1 DEF RemoveFirst, RemoveRecords
<1>4. QED
  BY <1>2, <1>3 DEF RemoveFirst, RemoveStates

\* Removing ends, with all of the merged handles looked at.
LEMMA RemoveEnds ==
    ASSUME NEW merged, NEW size, NEW from, NEW left, IsMerged(merged, size, from), IsQueue(left)
    PROVE  /\ Multicast!RemoveFrom(merged, from, left) \in RemoveStates(merged, size, from, left)
           /\ Multicast!RemoveFrom(merged, from, left).old = size
<1> DEFINE turns == size + Len(left)
           S == RemoveStates(merged, size, from, left)
           first == RemoveFirst(merged, size, from)
           F == [s \in S |-> Multicast!RemoveLeft(left, s)]
           turn == CHOOSE g : g = [n \in 0 .. turns |-> IF n = 0 THEN first ELSE Multicast!RemoveLeft(left, g[n - 1])]
           Todo(s) == ToRemove(s, size, left)
<1>1. /\ size \in Nat /\ Len(left) \in Nat /\ turns \in Nat /\ DOMAIN merged = 0 .. size - 1 /\ from \in 0 .. size
  BY DEF IsMerged, IsQueue
<1>2. Multicast!RemoveFrom(merged, from, left) = turn[turns]
  <2>1. Multicast!Cardinality(DOMAIN merged) = size
    BY <1>1, Sizes
  <2>2. QED
    BY <2>1 DEF Multicast!RemoveFrom, RemoveFirst
<1>3. first \in S
  BY RemoveStart
<1>4. F \in [S -> S]
  BY RemoveTurn
<1>5. Todo(first) \in Nat /\ Todo(first) <= turns
  BY <1>1 DEF RemoveFirst, ToRemove
<1> HIDE DEF first
<1>a. PICK f \in [0 .. turns -> S] : Iterates(f, first, F, turns)
  <2>1. turns \in Nat
    BY <1>1
  <2> HIDE DEF S, F, turns, turn
  <2>2. QED
    BY <2>1, <1>3, <1>4, Iterated
<1>6. f[0] = first /\ \A n \in 1 .. turns : f[n] = F[f[n - 1]]
  BY <1>a DEF Iterates
<1>7. f = [n \in 0 .. turns |-> IF n = 0 THEN first ELSE Multicast!RemoveLeft(left, f[n - 1])]
  <2>1. \A n \in 0 .. turns : n # 0 => n \in 1 .. turns /\ n - 1 \in 0 .. turns
    BY <1>1
  <2>2. \A n \in 0 .. turns : n # 0 => f[n] = Multicast!RemoveLeft(left, f[n - 1])
    <3> HIDE DEF S, turns
    <3>1. QED
      BY <1>6, <2>1
  <2> HIDE DEF S, turns
  <2>3. QED
    BY <1>6, <2>2
<1>8. turn = [n \in 0 .. turns |-> IF n = 0 THEN first ELSE Multicast!RemoveLeft(left, turn[n - 1])]
  <2> HIDE DEF turns
  <2>1. QED
    BY <1>7
<1> HIDE DEF turn
<1> DEFINE T == {n \in Nat : n <= turns => turn[n] \in S /\ Todo(turn[n]) \in Nat /\ Todo(turn[n]) <= turns - n}
<1>9. 0 \in T
  <2> HIDE DEF S, Todo
  <2>1. turn[0] = first
    <3> HIDE DEF turns
    <3>1. 0 \in 0 .. turns
      BY <1>1
    <3>2. QED
      BY <1>8, <3>1
  <2>2. QED
    BY <1>1, <1>3, <1>5, <2>1
<1>10. ASSUME NEW n \in T PROVE n + 1 \in T
  <2>1. n \in Nat
    OBVIOUS
  <2>2. SUFFICES ASSUME n + 1 <= turns
                 PROVE  turn[n + 1] \in S /\ Todo(turn[n + 1]) \in Nat /\ Todo(turn[n + 1]) <= turns - (n + 1)
    BY <2>1
  <2>3. turn[n] \in S /\ Todo(turn[n]) \in Nat /\ Todo(turn[n]) <= turns - n
    BY <1>1, <2>1, <2>2
  <2>4. turn[n + 1] = Multicast!RemoveLeft(left, turn[n])
    <3>1. n + 1 \in 0 .. turns /\ n + 1 # 0 /\ (n + 1) - 1 = n
      BY <1>1, <2>1, <2>2
    <3> HIDE DEF turns
    <3>2. QED
      BY <1>8, <3>1
  <2>5. turn[n + 1] \in S
    BY <2>3, <2>4, RemoveTurn
  <2>6. Todo(turn[n + 1]) \in Nat
    BY <2>5, RemoveTurn
  <2>7. IF Todo(turn[n]) = 0 THEN turn[n + 1] = turn[n] ELSE Todo(turn[n + 1]) < Todo(turn[n])
    BY <2>3, <2>4, RemoveTurn
  <2> HIDE DEF S, Todo
  <2>8. QED
    BY <1>1, <2>1, <2>2, <2>3, <2>5, <2>6, <2>7
<1>11. turns \in T
  <2>0. T \subseteq Nat
    OBVIOUS
  <2> HIDE DEF T, turns
  <2>1. QED
    BY <1>1, <2>0, <1>9, <1>10, SetInduction
<1>12. turn[turns] \in S /\ Todo(turn[turns]) = 0
  <2> HIDE DEF S, Todo
  <2>1. QED
    BY <1>1, <1>11
<1>13. turn[turns].old \in from .. size /\ turn[turns].k \in 1 .. Len(left) + 1
  BY <1>12 DEF RemoveStates, RemoveRecords
<1>14. turn[turns].old = size
  BY <1>1, <1>12, <1>13 DEF ToRemove
<1>15. QED
  BY <1>2, <1>12, <1>14

\* What combine_queue makes: the members that were or have entered, without those that left, in order.
IsCombined(combined, size, members, number, entered, left) ==
    /\ IsGroup(combined, size)
    /\ \A h : (\E j \in 0 .. size - 1 : combined[j] = h)
                 <=> /\ \/ \E l \in 0 .. number - 1 : members[l] = h
                        \/ \E l \in 1 .. Len(entered) : entered[l] = h
                     /\ ~\E l \in 1 .. Len(left) : left[l] = h

\* combine_queue makes the set union without those that left, in order and without duplicates.
LEMMA CombineFacts ==
    ASSUME NEW members, NEW number, NEW entered, NEW left,
           IsGroup(members, number), entered \in Seq(Handles), left \in Seq(Handles)
    PROVE  \E size \in Nat : IsCombined(Multicast!Combine(members, entered, left), size, members, number, entered, left)
<1> DEFINE e == Multicast!Sorted(entered)
           g == Multicast!Sorted(left)
           merged == Multicast!MergeAll(members, e)
           a == merged.a
           from == merged.new + 1
           size == number + Len(e)
           r == Multicast!RemoveFrom(a, from, g)
           c == Multicast!Combine(members, entered, left)
<1>1. IsQueue(e) /\ IsQueue(g) /\ Len(e) = Len(entered) /\ Len(g) = Len(left)
  BY SortedFacts DEF IsQueue
<1>2. /\ \A h : (\E l \in 1 .. Len(e) : e[l] = h) <=> (\E l \in 1 .. Len(entered) : entered[l] = h)
      /\ \A h : (\E l \in 1 .. Len(g) : g[l] = h) <=> (\E l \in 1 .. Len(left) : left[l] = h)
  <2>1. \A h : (\E l \in 1 .. Len(entered) : e[l] = h) <=> (\E l \in 1 .. Len(entered) : entered[l] = h)
    BY SortedFacts
  <2>2. \A h : (\E l \in 1 .. Len(left) : g[l] = h) <=> (\E l \in 1 .. Len(left) : left[l] = h)
    BY SortedFacts
  <2>3. QED
    BY <1>1, <2>1, <2>2
<1>3. c = [k \in 0 .. r.new - 1 |-> r.a[k]]
  BY DEF Multicast!Combine
<1>r. r = Multicast!RemoveFrom(a, from, g)
  OBVIOUS
<1> HIDE DEF r
<1> HIDE DEF e, g, c
<1>m. /\ size = number + Len(e)
      /\ a = Multicast!MergeAll(members, e).a /\ from = Multicast!MergeAll(members, e).new + 1
  OBVIOUS
<1> HIDE DEF merged, size, a, from
<1>4. IsMergeOf(a, size, from, members, number, e)
  BY <1>1, <1>m, MergedFacts
<1>5. /\ IsMerged(a, size, from)
      /\ size \in Nat /\ from \in 0 .. size
      /\ \A j \in from .. size - 1 : a[j] \in Handles
  BY <1>4 DEF IsMergeOf, IsMerged
<1>h. \A h : (\E j \in from .. size - 1 : a[j] = h)
               <=> (\E l \in 0 .. number - 1 : members[l] = h) \/ (\E l \in 1 .. Len(e) : e[l] = h)
  BY <1>4 DEF IsMergeOf
<1>6. r \in RemoveStates(a, size, from, g) /\ r.old = size
  BY <1>1, <1>5, <1>r, RemoveEnds
<1>7. Removing(a, size, from, g, r.a, r.k, size, r.new, r.count)
  BY <1>6 DEF RemoveStates
<1>8. /\ r.new \in 0 .. size
      /\ \A j \in 0 .. r.new - 1 :
            (\E l \in from .. size - 1 : a[l] = r.a[j]) /\ (\A l \in 1 .. Len(g) : g[l] # r.a[j])
      /\ \A j, l \in 0 .. r.new - 1 : j < l => r.a[j] < r.a[l]
      /\ \A l \in from .. size - 1 :
            (\E j \in 0 .. r.new - 1 : r.a[j] = a[l]) \/ (\E j \in 1 .. Len(g) : g[j] = a[l])
  BY <1>7 DEF Removing
<1>9. r.new \in Nat /\ \A j \in 0 .. r.new - 1 : c[j] = r.a[j] /\ r.a[j] \in Handles
  <2>1. r.new \in Nat
    BY <1>5, <1>8
  <2>2. \A j \in 0 .. r.new - 1 : c[j] = r.a[j]
    BY <1>3
  <2>3. \A j \in 0 .. r.new - 1 : \E l \in from .. size - 1 : a[l] = r.a[j]
    BY <1>8
  <2>4. \A j \in 0 .. r.new - 1 : r.a[j] \in Handles
    BY <1>5, <2>3
  <2>5. QED
    BY <2>1, <2>2, <2>4
<1>10. IsGroup(c, r.new)
  BY <1>3, <1>8, <1>9 DEF IsGroup
<1>11. ASSUME NEW h, NEW j \in 0 .. r.new - 1, c[j] = h
       PROVE  /\ \/ \E l \in 0 .. number - 1 : members[l] = h
                 \/ \E l \in 1 .. Len(entered) : entered[l] = h
              /\ ~\E l \in 1 .. Len(left) : left[l] = h
  <2>1. (\E l \in from .. size - 1 : a[l] = h) /\ ~\E l \in 1 .. Len(g) : g[l] = h
    BY <1>8, <1>9, <1>11
  <2>2. QED
    BY <1>2, <1>h, <2>1
<1>12. ASSUME NEW h,
              (\E l \in 0 .. number - 1 : members[l] = h) \/ (\E l \in 1 .. Len(entered) : entered[l] = h),
              ~\E l \in 1 .. Len(left) : left[l] = h
       PROVE  \E j \in 0 .. r.new - 1 : c[j] = h
  <2>1. (\E l \in from .. size - 1 : a[l] = h) /\ ~\E l \in 1 .. Len(g) : g[l] = h
    BY <1>2, <1>h, <1>12
  <2>2. PICK l \in from .. size - 1 : a[l] = h
    BY <2>1
  <2>3. \E j \in 0 .. r.new - 1 : r.a[j] = h
    BY <1>8, <2>1, <2>2
  <2>4. QED
    BY <1>9, <2>3
<1>13. QED
  <2>1. \A h : (\E j \in 0 .. r.new - 1 : c[j] = h)
                  <=> /\ \/ \E l \in 0 .. number - 1 : members[l] = h
                         \/ \E l \in 1 .. Len(entered) : entered[l] = h
                      /\ ~\E l \in 1 .. Len(left) : left[l] = h
    BY <1>11, <1>12
  <2>2. QED
    BY <1>9, <1>10, <2>1 DEF IsCombined, c

-----------------------------------------------------------------------------
(* Multicast *)

McTypes ==
    /\ IsGroup(data, Multicast!Number)
    /\ enter_queue \in Seq(Handles) /\ leave_queue \in Seq(Handles)
    /\ alive \subseteq Handles
    /\ mc_queued \in [1 .. MaxCasts -> SUBSET Handles]
    /\ \A k \in 1 .. MaxCasts : IsFiniteSet(mc_queued[k])
    /\ dropped \in [1 .. MaxCasts -> Nat]
    /\ m_ref \in [1 .. MaxCasts -> Int]
    /\ casts \in 0 .. MaxCasts
    /\ freed \subseteq 1 .. casts
    /\ mc_pc \in {"idle", "loop", "send"}
    /\ i \in 0 .. Multicast!Number
    /\ release \in Nat
    /\ mc_pc # "idle" => casts \in 1 .. MaxCasts
    /\ mc_pc = "send" => i < Multicast!Number

\* A message not yet cast has no receiver.
McFresh == \A k \in 1 .. MaxCasts : k > casts => mc_queued[k] = {} /\ dropped[k] = 0 /\ m_ref[k] = 0

\* Only a receiver without a callback tears a message, and no count does afterwards.
McTorn == torn \subseteq 1 .. casts /\ freed \cap torn = {} /\ (deaf = {} => torn = {})

\* The members that have the message of the current cast come before the one it is at.
McSent == mc_pc # "idle" => \A h \in mc_queued[casts] : \E k \in 0 .. i - 1 : data[k] = h

\* The count of one message.
McExact(k) ==
    IF k \in freed
    THEN mc_queued[k] = {} /\ dropped[k] = 0 /\ Multicast!Uncast(k) = 0
    ELSE k \in torn \/ m_ref[k] = Cardinality(mc_queued[k]) + dropped[k] + Multicast!Uncast(k)

MulticastInv == McTypes /\ McFresh /\ McTorn /\ McSent /\ \A k \in 1 .. MaxCasts : McExact(k)

\* Multicast counts as FiniteSets does.
LEMMA McCardinality == \A S : Multicast!Cardinality(S) = Cardinality(S)
BY DEF Multicast!Cardinality, Cardinality

\* Messages are numbers.
LEMMA McMessages == Multicast!Messages = 1 .. MaxCasts
BY DEF Multicast!Messages

\* The invariant says what is promised of the count.
LEMMA McCount == ASSUME MulticastInv PROVE CountIsExact
<1>1. freed \subseteq 1 .. MaxCasts
  BY CastsAssumption DEF MulticastInv, McTypes
<1>2. \A k \in 1 .. MaxCasts : McExact(k)
  BY DEF MulticastInv
<1>3. \A k \in (1 .. MaxCasts) \ (freed \cup torn) : m_ref[k] = Cardinality(mc_queued[k]) + dropped[k] + Multicast!Uncast(k)
  BY <1>2 DEF McExact
<1>4. \A k \in freed : mc_queued[k] = {} /\ dropped[k] = 0 /\ Multicast!Uncast(k) = 0
  BY <1>1, <1>2 DEF McExact
<1>5. Multicast!CountIsExact
  BY <1>3, McMessages, McCardinality DEF Multicast!CountIsExact
<1>6. Multicast!FreedIsDone
  BY <1>4 DEF Multicast!FreedIsDone, MulticastInv, McTorn
<1>7. QED
  BY <1>5, <1>6 DEF CountIsExact

\* Nothing has been cast.
LEMMA McInit == ASSUME Init PROVE MulticastInv
<1>1. Multicast!Init
  BY DEF Init
<1>2. /\ data = <<>> /\ enter_queue = <<>> /\ leave_queue = <<>> /\ alive = Handles
      /\ mc_queued = [k \in 1 .. MaxCasts |-> {}] /\ dropped = [k \in 1 .. MaxCasts |-> 0]
      /\ m_ref = [k \in 1 .. MaxCasts |-> 0] /\ freed = {} /\ torn = {} /\ casts = 0
      /\ mc_pc = "idle" /\ i = 0 /\ release = 0
  BY <1>1, McMessages DEF Multicast!Init
<1>3. Multicast!Number = 0
  BY <1>2, McCardinality, FS_EmptySet DEF Multicast!Number
<1>4. IsGroup(data, Multicast!Number)
  <2>1. data \in [0 .. 0 - 1 -> Handles]
    BY <1>2
  <2>2. QED
    BY <1>3, <2>1 DEF IsGroup
<1>5. McTypes
  BY <1>2, <1>3, <1>4, CastsAssumption, FS_EmptySet DEF McTypes
<1>6. \A k \in 1 .. MaxCasts : McExact(k)
  BY <1>2, FS_EmptySet DEF McExact, Multicast!Uncast
<1>7. QED
  BY <1>2, <1>5, <1>6 DEF MulticastInv, McFresh, McTorn, McSent

\* What the group is depends on data alone, what a message is on its own state.
LEMMA McUnchanged ==
    ASSUME MulticastInv, UNCHANGED multicast
    PROVE  MulticastInv'
<1>1. UNCHANGED <<data, enter_queue, leave_queue, alive, mc_queued, dropped, m_ref, freed, deaf, torn, casts, mc_pc, i, release, lost>>
  BY DEF multicast
<1>2. UNCHANGED Multicast!Number
  BY <1>1 DEF Multicast!Number
<1>3. \A k : UNCHANGED Multicast!Uncast(k)
  BY <1>1, <1>2 DEF Multicast!Uncast
<1>4. UNCHANGED McTypes
  BY <1>1, <1>2 DEF McTypes, IsGroup
<1>5. UNCHANGED <<McFresh, McTorn, McSent>>
  BY <1>1 DEF McFresh, McTorn, McSent
<1>6. \A k : McExact(k) => McExact(k)'
  BY <1>1, <1>3 DEF McExact
<1>7. QED
  BY <1>4, <1>5, <1>6 DEF MulticastInv

\* What is counted are natural numbers.
LEMMA McNumbers ==
    ASSUME McTypes
    PROVE  /\ Multicast!Number \in Nat
           /\ \A k : Multicast!Uncast(k) \in Nat
           /\ \A k \in 1 .. MaxCasts : Cardinality(mc_queued[k]) \in Nat
<1>1. Multicast!Number \in Nat /\ i \in 0 .. Multicast!Number /\ release \in Nat
  BY DEF McTypes, IsGroup
<1>2. \A k : Multicast!Uncast(k) \in Nat
  BY <1>1 DEF Multicast!Uncast
<1>3. \A k \in 1 .. MaxCasts : Cardinality(mc_queued[k]) \in Nat
  BY FS_CardinalityType DEF McTypes
<1>4. QED
  BY <1>1, <1>2, <1>3

\* enter and leave, while no cast runs.
LEMMA McCommand ==
    ASSUME MulticastInv, NEW h \in Handles, Multicast!Enter(h) \/ Multicast!Leave(h)
    PROVE  MulticastInv'
<1>1. /\ UNCHANGED <<data, alive, mc_queued, dropped, m_ref, freed, deaf, torn, casts, mc_pc, i, release>>
      /\ \/ enter_queue' = Append(enter_queue, h) /\ leave_queue' = leave_queue
         \/ leave_queue' = Append(leave_queue, h) /\ enter_queue' = enter_queue
  BY DEF Multicast!Enter, Multicast!Leave, Multicast!message, Multicast!local
<1>2. enter_queue' \in Seq(Handles) /\ leave_queue' \in Seq(Handles)
  <2>1. enter_queue \in Seq(Handles) /\ leave_queue \in Seq(Handles)
    BY DEF MulticastInv, McTypes
  <2>2. Append(enter_queue, h) \in Seq(Handles) /\ Append(leave_queue, h) \in Seq(Handles)
    BY <2>1
  <2>3. QED
    BY <1>1, <2>1, <2>2
<1>3. UNCHANGED Multicast!Number
  BY <1>1 DEF Multicast!Number
<1>4. \A k : UNCHANGED Multicast!Uncast(k)
  BY <1>1, <1>3 DEF Multicast!Uncast
<1>5. McTypes'
  BY <1>1, <1>2, <1>3 DEF MulticastInv, McTypes, IsGroup
<1>6. McFresh' /\ McTorn' /\ McSent'
  BY <1>1 DEF MulticastInv, McFresh, McTorn, McSent
<1>7. \A k \in 1 .. MaxCasts : McExact(k)'
  BY <1>1, <1>4 DEF MulticastInv, McExact
<1>8. QED
  BY <1>5, <1>6, <1>7 DEF MulticastInv

\* combine_queue keeps the members an increasing array, and they are the set union.
LEMMA McCombined ==
    ASSUME MulticastInv, Multicast!BeginCast
    PROVE  /\ IsGroup(data', Multicast!Number')
           /\ Multicast!Members' = (Multicast!Members \cup Multicast!Range(enter_queue)) \ Multicast!Range(leave_queue)
<1> DEFINE c == Multicast!Combine(data, enter_queue, leave_queue)
<1>1. data' = c
  BY DEF Multicast!BeginCast
<1>2. /\ IsGroup(data, Multicast!Number) /\ enter_queue \in Seq(Handles) /\ leave_queue \in Seq(Handles)
  BY DEF MulticastInv, McTypes
<1>c. PICK size \in Nat : IsCombined(c, size, data, Multicast!Number, enter_queue, leave_queue)
  BY <1>2, CombineFacts
<1>3. /\ IsGroup(c, size)
      /\ \A h : (\E j \in 0 .. size - 1 : c[j] = h)
                    <=> /\ \/ \E l \in 0 .. Multicast!Number - 1 : data[l] = h
                           \/ \E l \in 1 .. Len(enter_queue) : enter_queue[l] = h
                        /\ ~\E l \in 1 .. Len(leave_queue) : leave_queue[l] = h
  BY <1>c DEF IsCombined
<1> HIDE DEF c
<1>4. DOMAIN c = 0 .. size - 1 /\ DOMAIN data = 0 .. Multicast!Number - 1
  BY <1>2, <1>3 DEF IsGroup
<1>5. Multicast!Number' = size
  BY <1>1, <1>4, Sizes DEF Multicast!Number
<1>6. /\ \A h : h \in Multicast!Range(enter_queue) <=> \E l \in 1 .. Len(enter_queue) : enter_queue[l] = h
      /\ \A h : h \in Multicast!Range(leave_queue) <=> \E l \in 1 .. Len(leave_queue) : leave_queue[l] = h
  BY <1>2 DEF Multicast!Range
<1>7. /\ \A h : h \in Multicast!Members <=> \E l \in 0 .. Multicast!Number - 1 : data[l] = h
      /\ \A h : h \in Multicast!Members' <=> \E j \in 0 .. size - 1 : c[j] = h
  BY <1>1, <1>4 DEF Multicast!Members
<1>8. \A h : h \in Multicast!Members'
                <=> h \in (Multicast!Members \cup Multicast!Range(enter_queue)) \ Multicast!Range(leave_queue)
  BY <1>3, <1>6, <1>7
<1>9. Multicast!Members' = (Multicast!Members \cup Multicast!Range(enter_queue)) \ Multicast!Range(leave_queue)
  BY <1>8
<1>10. QED
  BY <1>1, <1>3, <1>5, <1>9

\* combine_queue, and a count for every member: the message is with none of them yet.
LEMMA McBegin ==
    ASSUME MulticastInv, Multicast!BeginCast
    PROVE  MulticastInv'
<1>1. /\ mc_pc = "idle" /\ casts < MaxCasts /\ casts' = casts + 1
      /\ enter_queue' = <<>> /\ leave_queue' = <<>>
      /\ m_ref' = [m_ref EXCEPT ![casts + 1] = Multicast!Cardinality(DOMAIN data')]
      /\ mc_pc' = "loop" /\ i' = 0 /\ release' = 0
      /\ UNCHANGED <<alive, mc_queued, dropped, freed, deaf, torn>>
  BY DEF Multicast!BeginCast
<1>2. /\ IsGroup(data', Multicast!Number') /\ Multicast!Number' \in Nat
      /\ Multicast!Cardinality(DOMAIN data') = Multicast!Number'
  BY McCombined DEF IsGroup, Multicast!Number
<1>3. /\ casts \in 0 .. MaxCasts /\ MaxCasts \in Nat /\ casts + 1 \in 1 .. MaxCasts
      /\ freed \subseteq 1 .. casts /\ freed \subseteq 1 .. casts + 1 /\ casts + 1 \notin freed
      /\ \A k \in 1 .. MaxCasts : k > casts + 1 => k > casts /\ k # casts + 1
      /\ casts + 1 > casts
  BY <1>1, CastsAssumption DEF MulticastInv, McTypes
<1>4. /\ m_ref' \in [1 .. MaxCasts -> Int] /\ m_ref'[casts + 1] = Multicast!Number'
      /\ \A k \in 1 .. MaxCasts : k # casts + 1 => m_ref'[k] = m_ref[k]
  BY <1>1, <1>2, <1>3 DEF MulticastInv, McTypes
<1>5. mc_queued[casts + 1] = {} /\ dropped[casts + 1] = 0
  BY <1>3 DEF MulticastInv, McFresh
<1>6. McTypes'
  <2>1. /\ mc_queued \in [1 .. MaxCasts -> SUBSET Handles] /\ dropped \in [1 .. MaxCasts -> Nat]
        /\ alive \subseteq Handles /\ \A k \in 1 .. MaxCasts : IsFiniteSet(mc_queued[k])
    BY DEF MulticastInv, McTypes
  <2>2. 0 \in 0 .. Multicast!Number'
    BY <1>2
  <2>3. QED
    BY <1>1, <1>2, <1>3, <1>4, <2>1, <2>2 DEF McTypes
<1>7. McFresh' /\ McTorn'
  <2>1. McFresh'
    BY <1>1, <1>3, <1>4 DEF MulticastInv, McFresh
  <2>2. torn \subseteq 1 .. casts + 1
    BY <1>3 DEF MulticastInv, McTorn
  <2>3. QED
    BY <1>1, <2>1, <2>2 DEF MulticastInv, McTorn
<1>8. McSent'
  BY <1>1, <1>5 DEF McSent
<1>9. /\ \A k : k # casts + 1 => Multicast!Uncast(k)' = 0
      /\ \A k : Multicast!Uncast(k) = 0
      /\ \A k : k = casts + 1 => Multicast!Uncast(k)' = Multicast!Number'
  <2>1. \A k : Multicast!Uncast(k)' = IF k = casts + 1 THEN Multicast!Number' - 0 + 0 ELSE 0
    BY <1>1 DEF Multicast!Uncast
  <2>2. \A k : Multicast!Uncast(k) = 0
    BY <1>1 DEF Multicast!Uncast
  <2>3. ASSUME NEW x \in Nat PROVE x - 0 + 0 = x
    OBVIOUS
  <2>4. Multicast!Number' - 0 + 0 = Multicast!Number'
    <3>1. Multicast!Number' \in Nat
      BY <1>2
    <3>2. QED
      BY <2>3, <3>1
  <2>5. \A k : k # casts + 1 => Multicast!Uncast(k)' = 0
    BY <2>1
  <2>6. \A k : k = casts + 1 => Multicast!Uncast(k)' = Multicast!Number'
    BY <2>1, <2>4
  <2>7. QED
    BY <2>2, <2>5, <2>6
<1>10. ASSUME NEW k \in 1 .. MaxCasts PROVE McExact(k)'
  <2>1. CASE k = casts + 1
    <3>1. k \notin freed' /\ mc_queued'[k] = {} /\ dropped'[k] = 0 /\ m_ref'[k] = Multicast!Number'
      BY <1>1, <1>3, <1>4, <1>5, <2>1
    <3>2. Multicast!Uncast(k)' = Multicast!Number'
      BY <1>9, <2>1
    <3>3. m_ref'[k] = Cardinality(mc_queued'[k]) + dropped'[k] + Multicast!Uncast(k)'
      BY <1>2, <3>1, <3>2, FS_EmptySet
    <3>4. QED
      BY <3>1, <3>3 DEF McExact
  <2>2. CASE k # casts + 1
    <3>1. McExact(k)
      BY DEF MulticastInv
    <3>2. Multicast!Uncast(k)' = Multicast!Uncast(k) /\ m_ref'[k] = m_ref[k]
      BY <1>4, <1>9, <2>2
    <3>3. QED
      BY <1>1, <3>1, <3>2 DEF McExact
  <2>3. QED
    BY <2>1, <2>2
<1>11. QED
  BY <1>6, <1>7, <1>8, <1>10 DEF MulticastInv

\* A member found dead has its count released later.
LEMMA McGrabFails ==
    ASSUME MulticastInv, Multicast!GrabFails
    PROVE  MulticastInv'
<1>1. /\ mc_pc = "loop" /\ i < Multicast!Number
      /\ leave_queue' = Append(leave_queue, data[i])
      /\ release' = release + 1 /\ i' = i + 1
      /\ UNCHANGED <<data, enter_queue, alive, mc_queued, dropped, m_ref, freed, deaf, torn, casts, mc_pc>>
  BY DEF Multicast!GrabFails, Multicast!message
<1>2. /\ IsGroup(data, Multicast!Number) /\ Multicast!Number \in Nat /\ i \in 0 .. Multicast!Number - 1
      /\ release \in Nat /\ leave_queue \in Seq(Handles)
  BY <1>1 DEF MulticastInv, McTypes, IsGroup
<1>3. leave_queue' \in Seq(Handles)
  BY <1>1, <1>2 DEF IsGroup
<1>4. UNCHANGED Multicast!Number
  BY <1>1 DEF Multicast!Number
<1>5. \A k : UNCHANGED Multicast!Uncast(k)
  BY <1>1, <1>2, <1>4 DEF Multicast!Uncast
<1>6. McTypes'
  <2>1. release' \in Nat /\ i' \in 0 .. Multicast!Number'
    BY <1>1, <1>2, <1>4
  <2>2. QED
    BY <1>1, <1>3, <1>4, <2>1 DEF MulticastInv, McTypes, IsGroup
<1>7. McFresh'
  BY <1>1 DEF MulticastInv, McFresh
<1>8. McSent'
  <2>1. \A k \in 0 .. i - 1 : k \in 0 .. i' - 1
    BY <1>1, <1>2
  <2>2. QED
    BY <1>1, <2>1 DEF MulticastInv, McSent
<1>9. \A k \in 1 .. MaxCasts : McExact(k)'
  BY <1>1, <1>5 DEF MulticastInv, McExact
<1>10. QED
  BY <1>1, <1>6, <1>7, <1>8, <1>9 DEF MulticastInv, McTorn

\* A member found alive has its count until it is sent the message.
LEMMA McGrab ==
    ASSUME MulticastInv, Multicast!Grab
    PROVE  MulticastInv'
<1>1. /\ mc_pc = "loop" /\ mc_pc' = "send" /\ i < Multicast!Number
      /\ UNCHANGED <<data, enter_queue, leave_queue, alive, mc_queued, dropped, m_ref, freed, deaf, torn, casts, i, release>>
  BY DEF Multicast!Grab, Multicast!group, Multicast!message
<1>2. UNCHANGED Multicast!Number
  BY <1>1 DEF Multicast!Number
<1>3. \A k : UNCHANGED Multicast!Uncast(k)
  BY <1>1, <1>2 DEF Multicast!Uncast
<1>4. McTypes'
  BY <1>1, <1>2 DEF MulticastInv, McTypes, IsGroup
<1>5. McFresh' /\ McSent'
  BY <1>1 DEF MulticastInv, McFresh, McSent
<1>6. \A k \in 1 .. MaxCasts : McExact(k)'
  BY <1>1, <1>3 DEF MulticastInv, McExact
<1>7. QED
  BY <1>1, <1>4, <1>5, <1>6 DEF MulticastInv, McTorn

\* A receiver more is a count given out: it had not got the message yet.
LEMMA McSend ==
    ASSUME MulticastInv, Multicast!Send
    PROVE  MulticastInv'
<1>1. /\ mc_pc = "send" /\ mc_pc' = "loop" /\ i' = i + 1
      /\ IF data[i] \in alive
         THEN mc_queued' = [mc_queued EXCEPT ![casts] = @ \cup {data[i]}] /\ UNCHANGED dropped
         ELSE dropped' = [dropped EXCEPT ![casts] = @ + 1] /\ UNCHANGED mc_queued
      /\ UNCHANGED <<data, enter_queue, leave_queue, alive, m_ref, freed, deaf, torn, casts, release>>
  BY DEF Multicast!Send, Multicast!group
<1>2. McTypes /\ McFresh /\ McSent /\ \A k \in 1 .. MaxCasts : McExact(k)
  BY DEF MulticastInv
<1>3. /\ IsGroup(data, Multicast!Number) /\ Multicast!Number \in Nat /\ i \in 0 .. Multicast!Number - 1
      /\ release \in Nat /\ casts \in 1 .. MaxCasts /\ i \in Int /\ i' \in 0 .. Multicast!Number
      /\ data[i] \in Handles
      /\ mc_queued \in [1 .. MaxCasts -> SUBSET Handles] /\ IsFiniteSet(mc_queued[casts])
      /\ dropped \in [1 .. MaxCasts -> Nat] /\ casts \in Int
  BY <1>1, <1>2, CastsAssumption DEF McTypes, IsGroup
<1>4. UNCHANGED Multicast!Number
  BY <1>1 DEF Multicast!Number
<1>5. /\ \A k : k # casts => Multicast!Uncast(k)' = Multicast!Uncast(k)
      /\ Multicast!Uncast(casts) = Multicast!Number - i + release
      /\ Multicast!Uncast(casts)' = Multicast!Number - (i + 1) + release
  BY <1>1, <1>4 DEF Multicast!Uncast
<1>6. data[i] \notin mc_queued[casts]
  <2>1. \A k \in 0 .. i - 1 : data[k] < data[i] /\ data[k] # data[i]
    <3>1. \A k \in 0 .. i - 1 : k \in 0 .. Multicast!Number - 1 /\ k < i
      BY <1>3
    <3>2. \A j, l \in 0 .. Multicast!Number - 1 : j < l => data[j] < data[l]
      BY <1>3 DEF IsGroup
    <3>3. \A j \in 0 .. Multicast!Number - 1 : data[j] \in Nat
      BY <1>3, HandlesAssumption DEF IsGroup
    <3>4. QED
      BY <1>3, <3>1, <3>2, <3>3
  <2>2. \A h \in mc_queued[casts] : \E k \in 0 .. i - 1 : data[k] = h
    BY <1>1, <1>2 DEF McSent
  <2>3. QED
    BY <2>1, <2>2
<1>7. /\ mc_queued' \in [1 .. MaxCasts -> SUBSET Handles] /\ dropped' \in [1 .. MaxCasts -> Nat]
      /\ \A k \in 1 .. MaxCasts : k # casts => mc_queued'[k] = mc_queued[k] /\ dropped'[k] = dropped[k]
      /\ \/ mc_queued'[casts] = mc_queued[casts] \cup {data[i]} /\ dropped'[casts] = dropped[casts]
         \/ mc_queued'[casts] = mc_queued[casts] /\ dropped'[casts] = dropped[casts] + 1
  <2>1. CASE data[i] \in alive
    BY <1>1, <1>3, <2>1
  <2>2. CASE data[i] \notin alive
    BY <1>1, <1>3, <2>2
  <2>3. QED
    BY <2>1, <2>2
<1>8. /\ IsFiniteSet(mc_queued'[casts])
      /\ Cardinality(mc_queued'[casts]) + dropped'[casts] = Cardinality(mc_queued[casts]) + dropped[casts] + 1
      /\ Cardinality(mc_queued[casts]) \in Nat /\ Cardinality(mc_queued'[casts]) \in Nat
      /\ dropped[casts] \in Nat /\ dropped'[casts] \in Nat
  <2>1. /\ Cardinality(mc_queued[casts] \cup {data[i]}) = Cardinality(mc_queued[casts]) + 1
        /\ IsFiniteSet(mc_queued[casts] \cup {data[i]})
        /\ Cardinality(mc_queued[casts]) \in Nat
    BY <1>3, <1>6, FS_AddElement, FS_CardinalityType
  <2>2. dropped[casts] \in Nat /\ dropped'[casts] \in Nat
    BY <1>3, <1>7
  <2>3. CASE mc_queued'[casts] = mc_queued[casts] \cup {data[i]} /\ dropped'[casts] = dropped[casts]
    BY <2>1, <2>2, <2>3
  <2>4. CASE mc_queued'[casts] = mc_queued[casts] /\ dropped'[casts] = dropped[casts] + 1
    BY <1>3, <2>1, <2>2, <2>4
  <2>5. QED
    BY <1>7, <2>3, <2>4
<1>9. McTypes'
  <2>1. \A k \in 1 .. MaxCasts : IsFiniteSet(mc_queued'[k])
    BY <1>2, <1>7, <1>8 DEF McTypes
  <2>2. QED
    BY <1>1, <1>2, <1>3, <1>4, <1>7, <2>1 DEF McTypes, IsGroup
<1>10. McFresh'
  BY <1>1, <1>2, <1>3, <1>7 DEF McFresh
<1>11. McSent'
  <2>1. /\ \A k \in 0 .. i - 1 : k \in 0 .. i' - 1
        /\ i \in 0 .. i' - 1
    BY <1>1, <1>3
  <2>2. \A h \in mc_queued'[casts] : h \in mc_queued[casts] \/ h = data[i]
    BY <1>7
  <2>3. QED
    BY <1>1, <1>2, <2>1, <2>2 DEF McSent
<1>12. casts \notin freed
  <2>1. Multicast!Uncast(casts) # 0
    BY <1>3, <1>5
  <2>2. QED
    BY <1>2, <1>3, <2>1 DEF McExact
<1>13. ASSUME NEW k \in 1 .. MaxCasts PROVE McExact(k)'
  <2>1. McExact(k)
    BY <1>2
  <2>2. CASE k = casts /\ casts \notin torn
    <3>1. m_ref[casts] = Cardinality(mc_queued[casts]) + dropped[casts] + Multicast!Uncast(casts)
      BY <1>12, <2>1, <2>2 DEF McExact
    <3>2. m_ref'[casts] = Cardinality(mc_queued'[casts]) + dropped'[casts] + Multicast!Uncast(casts)'
      BY <1>1, <1>3, <1>5, <1>8, <3>1
    <3>3. QED
      BY <1>1, <1>12, <2>2, <3>2 DEF McExact
  <2>3. CASE k # casts
    BY <1>1, <1>5, <1>7, <2>1, <2>3 DEF McExact
  <2>4. CASE k = casts /\ casts \in torn
    BY <1>1, <1>12, <2>4 DEF McExact
  <2>5. QED
    BY <2>2, <2>3, <2>4
<1>14. QED
  BY <1>1, <1>9, <1>10, <1>11, <1>13 DEF MulticastInv, McTorn

\* Without the counts of the members found dead, what is left is what the receivers have.
LEMMA McEndCast ==
    ASSUME MulticastInv, Multicast!EndCast
    PROVE  MulticastInv'
<1>1. /\ mc_pc = "loop" /\ mc_pc' = "idle" /\ i >= Multicast!Number /\ i' = 0 /\ release' = 0
      /\ UNCHANGED <<data, enter_queue, leave_queue, alive, mc_queued, dropped, deaf, torn, casts>>
  BY DEF Multicast!EndCast, Multicast!group
<1>2. McTypes /\ McFresh /\ McTorn /\ \A k \in 1 .. MaxCasts : McExact(k)
  BY DEF MulticastInv
<1>3. /\ Multicast!Number \in Nat /\ i \in 0 .. Multicast!Number /\ release \in Nat /\ casts \in 1 .. MaxCasts
      /\ casts \in Int /\ m_ref \in [1 .. MaxCasts -> Int] /\ freed \subseteq 1 .. casts
      /\ m_ref[casts] \in Int /\ dropped[casts] \in Nat /\ IsFiniteSet(mc_queued[casts])
  BY <1>1, <1>2, CastsAssumption DEF McTypes, IsGroup
<1>4. UNCHANGED Multicast!Number
  BY <1>1 DEF Multicast!Number
<1>5. /\ \A k : Multicast!Uncast(k)' = 0
      /\ \A k : k # casts => Multicast!Uncast(k) = 0
      /\ Multicast!Uncast(casts) = release
  <2>1. \A k : Multicast!Uncast(k)' = 0
    BY <1>1 DEF Multicast!Uncast
  <2>2. \A k : k # casts => Multicast!Uncast(k) = 0
    BY DEF Multicast!Uncast
  <2>3. Multicast!Uncast(casts) = Multicast!Number - i + release
    BY <1>1 DEF Multicast!Uncast
  <2>4. Multicast!Number - i + release = release
    BY <1>1, <1>3
  <2>5. QED
    BY <2>1, <2>2, <2>3, <2>4
<1>6. \/ casts \in freed \cup torn /\ UNCHANGED <<m_ref, freed>>
      \/ /\ casts \notin freed \cup torn
         /\ m_ref' = [m_ref EXCEPT ![casts] = @ + (-release)]
         /\ freed' = IF m_ref[casts] + (-release) = 0 THEN freed \cup {casts} ELSE freed
  BY DEF Multicast!EndCast, Multicast!Copy
<1>7. m_ref' \in [1 .. MaxCasts -> Int] /\ freed' \subseteq 1 .. casts
  <2>1. m_ref[casts] + (-release) \in Int /\ casts \in 1 .. casts
    BY <1>3
  <2>2. CASE UNCHANGED <<m_ref, freed>>
    BY <1>3, <2>2
  <2>3. CASE /\ m_ref' = [m_ref EXCEPT ![casts] = @ + (-release)]
             /\ freed' = IF m_ref[casts] + (-release) = 0 THEN freed \cup {casts} ELSE freed
    BY <1>3, <2>1, <2>3
  <2>4. QED
    BY <1>6, <2>2, <2>3
<1>8. McTypes'
  <2>1. IsGroup(data, Multicast!Number)' /\ 0 \in 0 .. Multicast!Number'
    BY <1>1, <1>2, <1>3, <1>4 DEF McTypes, IsGroup
  <2>2. QED
    BY <1>1, <1>2, <1>7, <2>1 DEF McTypes
<1>9. McFresh'
  <2>1. \A k \in 1 .. MaxCasts : k > casts => m_ref'[k] = m_ref[k]
    <3>1. \A k \in 1 .. MaxCasts : k > casts => k # casts
      BY <1>3
    <3>2. \A k \in 1 .. MaxCasts : k # casts => m_ref'[k] = m_ref[k]
      BY <1>3, <1>6
    <3>3. QED
      BY <3>1, <3>2
  <2>2. QED
    BY <1>1, <1>2, <2>1 DEF McFresh
<1>10. McSent'
  BY <1>1 DEF McSent
<1>11. ASSUME NEW k \in 1 .. MaxCasts PROVE McExact(k)'
  <2>1. McExact(k)
    BY <1>2
  <2>2. Multicast!Uncast(k)' = 0 /\ mc_queued'[k] = mc_queued[k] /\ dropped'[k] = dropped[k]
    BY <1>1, <1>5
  <2>3. CASE k # casts
    <3>1. Multicast!Uncast(k) = 0 /\ m_ref'[k] = m_ref[k] /\ (k \in freed' <=> k \in freed)
      BY <1>3, <1>5, <1>6, <2>3
    <3>2. QED
      BY <1>1, <2>1, <2>2, <3>1 DEF McExact
  <2>4. CASE k = casts /\ casts \in freed \cup torn
    <3>1. k \in freed \cup torn /\ freed' = freed /\ torn' = torn
      BY <1>1, <1>6, <2>4
    <3>2. QED
      BY <2>1, <2>2, <3>1 DEF McExact
  <2>5. CASE k = casts /\ casts \notin freed \cup torn
    <3> DEFINE n == Cardinality(mc_queued[casts])
               d == dropped[casts]
               r == m_ref[casts]
    <3>1. n \in Nat /\ d \in Nat /\ r \in Int /\ (n = 0 <=> mc_queued[casts] = {})
      BY <1>3, FS_CardinalityType, FS_EmptySet
    <3>2. r = n + d + release
      BY <1>5, <2>1, <2>5 DEF McExact
    <3>3. m_ref'[casts] = r - release /\ (casts \in freed' <=> r - release = 0)
      BY <1>3, <1>6, <2>5
    <3> HIDE DEF n, d, r
    <3>4. r - release = n + d
      BY <1>3, <3>1, <3>2
    <3>5. n + d = 0 => n = 0 /\ d = 0
      BY <3>1
    <3>6. CASE casts \in freed'
      <4>1. mc_queued[casts] = {} /\ dropped[casts] = 0
        BY <3>1, <3>3, <3>4, <3>5, <3>6 DEF d
      <4>2. QED
        BY <2>2, <2>5, <3>6, <4>1 DEF McExact
    <3>7. CASE casts \notin freed'
      <4>1. m_ref'[k] = n + d + 0
        BY <2>5, <3>1, <3>3, <3>4
      <4>2. QED
        BY <2>2, <2>5, <3>7, <4>1 DEF McExact, n, d
    <3>8. QED
      BY <3>6, <3>7
  <2>6. QED
    BY <2>3, <2>4, <2>5
<1>12. McTorn'
  <2>1. freed' \cap torn = {}
    BY <1>2, <1>6 DEF McTorn
  <2>2. QED
    BY <1>1, <1>2, <2>1 DEF McTorn
<1>13. QED
  BY <1>8, <1>9, <1>10, <1>11, <1>12 DEF MulticastInv

\* A receiver gives its count back, and the last one deletes the message.
LEMMA McDispatch ==
    ASSUME MulticastInv, NEW h \in Handles, NEW k \in 1 .. MaxCasts, Multicast!Dispatch(h, k), k \notin torn
    PROVE  MulticastInv'
<1>1. /\ h \in mc_queued[k] /\ mc_queued' = [mc_queued EXCEPT ![k] = @ \ {h}]
      /\ m_ref' = [m_ref EXCEPT ![k] = @ + (-1)]
      /\ freed' = IF m_ref[k] + (-1) = 0 THEN freed \cup {k} ELSE freed
      /\ UNCHANGED <<data, enter_queue, leave_queue, alive, dropped, deaf, torn, casts, mc_pc, i, release>>
  BY DEF Multicast!Dispatch, Multicast!Copy, Multicast!group, Multicast!local
<1>2. McTypes /\ McFresh /\ McTorn /\ McSent /\ \A l \in 1 .. MaxCasts : McExact(l)
  BY DEF MulticastInv
<1>3. /\ casts \in 0 .. MaxCasts /\ MaxCasts \in Nat /\ freed \subseteq 1 .. casts
      /\ mc_queued \in [1 .. MaxCasts -> SUBSET Handles] /\ IsFiniteSet(mc_queued[k])
      /\ m_ref \in [1 .. MaxCasts -> Int] /\ m_ref[k] \in Int /\ dropped[k] \in Nat
  BY <1>2, CastsAssumption DEF McTypes
<1>4. UNCHANGED Multicast!Number
  BY <1>1 DEF Multicast!Number
<1>5. \A l : UNCHANGED Multicast!Uncast(l)
  BY <1>1, <1>4 DEF Multicast!Uncast
<1>6. k <= casts /\ k \in 1 .. casts
  BY <1>1, <1>2, <1>3 DEF McFresh
<1>7. k \notin freed
  BY <1>1, <1>2 DEF McExact
<1>8. /\ mc_queued' \in [1 .. MaxCasts -> SUBSET Handles] /\ mc_queued'[k] = mc_queued[k] \ {h}
      /\ m_ref' \in [1 .. MaxCasts -> Int] /\ m_ref'[k] = m_ref[k] - 1
      /\ \A l \in 1 .. MaxCasts : l # k => mc_queued'[l] = mc_queued[l] /\ m_ref'[l] = m_ref[l]
      /\ freed' \subseteq 1 .. casts /\ (\A l : l # k => (l \in freed' <=> l \in freed))
      /\ k \in freed' <=> m_ref[k] - 1 = 0
  <2>1. /\ mc_queued' \in [1 .. MaxCasts -> SUBSET Handles] /\ mc_queued'[k] = mc_queued[k] \ {h}
        /\ m_ref' \in [1 .. MaxCasts -> Int] /\ m_ref'[k] = m_ref[k] - 1
    BY <1>1, <1>3
  <2>2. \A l \in 1 .. MaxCasts : l # k => mc_queued'[l] = mc_queued[l] /\ m_ref'[l] = m_ref[l]
    BY <1>1, <1>3
  <2>3. freed' \subseteq 1 .. casts /\ (\A l : l # k => (l \in freed' <=> l \in freed))
    BY <1>1, <1>3, <1>6
  <2>4. k \in freed' <=> m_ref[k] - 1 = 0
    BY <1>1, <1>3, <1>7
  <2>5. QED
    BY <2>1, <2>2, <2>3, <2>4
<1>9. /\ IsFiniteSet(mc_queued'[k]) /\ Cardinality(mc_queued'[k]) = Cardinality(mc_queued[k]) - 1
      /\ Cardinality(mc_queued[k]) \in Nat /\ Cardinality(mc_queued'[k]) \in Nat
      /\ Cardinality(mc_queued'[k]) = 0 <=> mc_queued'[k] = {}
  BY <1>1, <1>3, <1>8, FS_RemoveElement, FS_CardinalityType, FS_EmptySet
<1>10. McTypes'
  <2>1. IsGroup(data, Multicast!Number)'
    BY <1>1, <1>2, <1>4 DEF McTypes, IsGroup
  <2>2. \A l \in 1 .. MaxCasts : IsFiniteSet(mc_queued'[l])
    BY <1>2, <1>8, <1>9 DEF McTypes
  <2>3. QED
    BY <1>1, <1>2, <1>4, <1>8, <2>1, <2>2 DEF McTypes
<1>11. McFresh'
  <2>1. \A l \in 1 .. MaxCasts : l > casts => l # k
    BY <1>3, <1>6
  <2>2. QED
    BY <1>1, <1>2, <1>8, <2>1 DEF McFresh
<1>12. McSent'
  <2>1. mc_pc # "idle" => casts \in 1 .. MaxCasts
    BY <1>2 DEF McTypes
  <2>2. mc_pc # "idle" => mc_queued'[casts] \subseteq mc_queued[casts]
    BY <1>8, <2>1
  <2>3. QED
    BY <1>1, <1>2, <2>2 DEF McSent
<1>13. ASSUME NEW l \in 1 .. MaxCasts PROVE McExact(l)'
  <2>1. McExact(l) /\ Multicast!Uncast(l)' = Multicast!Uncast(l) /\ dropped'[l] = dropped[l]
    BY <1>1, <1>2, <1>5
  <2>2. CASE l # k
    BY <1>1, <1>8, <2>1, <2>2 DEF McExact
  <2>3. CASE l = k
    <3> DEFINE n == Cardinality(mc_queued'[k])
               d == dropped[k]
               u == Multicast!Uncast(k)
    <3>1. n \in Nat /\ d \in Nat /\ u \in Nat
      BY <1>2, <1>3, <1>9, McNumbers
    <3>2. m_ref[k] = Cardinality(mc_queued[k]) + d + u
      BY <1>7, <2>1, <2>3 DEF McExact
    <3> HIDE DEF n, d, u
    <3>3. m_ref[k] - 1 = n + d + u
      BY <1>9, <3>1, <3>2 DEF n
    <3>4. n + d + u = 0 => n = 0 /\ d = 0 /\ u = 0
      BY <3>1
    <3>5. CASE k \in freed'
      <4>1. n = 0 /\ d = 0 /\ u = 0
        BY <1>8, <3>3, <3>4, <3>5
      <4>2. mc_queued'[l] = {} /\ dropped'[l] = 0 /\ Multicast!Uncast(l)' = 0
        BY <1>9, <2>1, <2>3, <4>1 DEF n, d, u
      <4>3. QED
        BY <2>3, <3>5, <4>2 DEF McExact
    <3>6. CASE k \notin freed'
      <4>1. m_ref'[l] = Cardinality(mc_queued'[l]) + dropped'[l] + Multicast!Uncast(l)'
        BY <1>8, <2>1, <2>3, <3>3 DEF n, d, u
      <4>2. QED
        BY <2>3, <3>6, <4>1 DEF McExact
    <3>7. QED
      BY <3>5, <3>6
  <2>4. QED
    BY <2>2, <2>3
<1>14. McTorn'
  <2>1. freed' \cap torn = {}
    BY <1>1, <1>2 DEF McTorn
  <2>2. QED
    BY <1>1, <1>2, <2>1 DEF McTorn
<1>15. QED
  BY <1>10, <1>11, <1>12, <1>13, <1>14 DEF MulticastInv

\* A receiver without a callback frees the message, whose count nobody follows then;
\* whoever dispatches it afterwards changes nothing either.
LEMMA McTear ==
    ASSUME MulticastInv, NEW h \in Handles, NEW k \in 1 .. MaxCasts,
           Multicast!Discard(h, k) \/ (Multicast!Dispatch(h, k) /\ k \in torn)
    PROVE  MulticastInv'
<1>1. /\ h \in mc_queued[k] /\ mc_queued' = [mc_queued EXCEPT ![k] = @ \ {h}]
      /\ UNCHANGED <<data, enter_queue, leave_queue, alive, dropped, m_ref, freed, deaf, casts, mc_pc, i, release>>
  BY DEF Multicast!Discard, Multicast!Dispatch, Multicast!group, Multicast!local
<1>2. torn' = torn \cup {k} /\ (deaf = {} => torn' = torn)
  BY DEF Multicast!Discard, Multicast!Dispatch
<1>3. McTypes /\ McFresh /\ McTorn /\ McSent /\ \A l \in 1 .. MaxCasts : McExact(l)
  BY DEF MulticastInv
<1>4. /\ casts \in 0 .. MaxCasts /\ MaxCasts \in Nat /\ k \in Nat \ {0}
      /\ mc_queued \in [1 .. MaxCasts -> SUBSET Handles] /\ IsFiniteSet(mc_queued[k])
  BY <1>3, CastsAssumption DEF McTypes
<1>5. /\ mc_queued' \in [1 .. MaxCasts -> SUBSET Handles] /\ mc_queued'[k] = mc_queued[k] \ {h}
      /\ \A l \in 1 .. MaxCasts : l # k => mc_queued'[l] = mc_queued[l]
      /\ IsFiniteSet(mc_queued'[k])
  <2>1. IsFiniteSet(mc_queued[k] \ {h})
    BY <1>4, FS_RemoveElement
  <2>2. QED
    BY <1>1, <1>4, <2>1
<1>6. UNCHANGED Multicast!Number
  BY <1>1 DEF Multicast!Number
<1>7. \A l : UNCHANGED Multicast!Uncast(l)
  BY <1>1, <1>6 DEF Multicast!Uncast
<1>8. k \in 1 .. casts /\ k \notin freed
  <2>1. k <= casts
    BY <1>1, <1>3, <1>4 DEF McFresh
  <2>2. k \notin freed
    BY <1>1, <1>3 DEF McExact
  <2>3. QED
    BY <1>4, <2>1, <2>2
<1>9. McTypes'
  <2>1. IsGroup(data, Multicast!Number)'
    BY <1>1, <1>3, <1>6 DEF McTypes, IsGroup
  <2>2. \A l \in 1 .. MaxCasts : IsFiniteSet(mc_queued'[l])
    BY <1>3, <1>5 DEF McTypes
  <2>3. QED
    BY <1>1, <1>3, <1>5, <1>6, <2>1, <2>2 DEF McTypes
<1>10. McFresh'
  <2>1. \A l \in 1 .. MaxCasts : l > casts => l # k
    BY <1>4, <1>8
  <2>2. QED
    BY <1>1, <1>3, <1>5, <2>1 DEF McFresh
<1>11. McTorn'
  BY <1>1, <1>2, <1>3, <1>8 DEF McTorn
<1>12. McSent'
  <2>1. mc_pc # "idle" => casts \in 1 .. MaxCasts
    BY <1>3 DEF McTypes
  <2>2. mc_pc # "idle" => mc_queued'[casts] \subseteq mc_queued[casts]
    BY <1>5, <2>1
  <2>3. QED
    BY <1>1, <1>3, <2>2 DEF McSent
<1>13. ASSUME NEW l \in 1 .. MaxCasts PROVE McExact(l)'
  <2>1. McExact(l) /\ Multicast!Uncast(l)' = Multicast!Uncast(l) /\ dropped'[l] = dropped[l]
    BY <1>1, <1>3, <1>7
  <2>2. CASE l # k
    BY <1>1, <1>2, <1>5, <2>1, <2>2 DEF McExact
  <2>3. CASE l = k
    BY <1>1, <1>2, <1>8, <2>3 DEF McExact
  <2>4. QED
    BY <2>2, <2>3
<1>14. QED
  BY <1>9, <1>10, <1>11, <1>12, <1>13 DEF MulticastInv

\* What leaves the queue of a retired context is counted as dropped.
LEMMA McRetire ==
    ASSUME MulticastInv, NEW h \in Handles, Multicast!Retire(h)
    PROVE  MulticastInv'
<1>1. /\ alive' = alive \ {h}
      /\ mc_queued' = [k \in 1 .. MaxCasts |-> mc_queued[k] \ {h}]
      /\ dropped' = [k \in 1 .. MaxCasts |-> dropped[k] + Cardinality({h} \cap mc_queued[k])]
      /\ UNCHANGED <<data, enter_queue, leave_queue, m_ref, freed, deaf, torn, casts, mc_pc, i, release>>
  BY McMessages, McCardinality DEF Multicast!Retire, Multicast!group, Multicast!local
<1>2. McTypes /\ McFresh /\ McSent /\ \A k \in 1 .. MaxCasts : McExact(k)
  BY DEF MulticastInv
<1>3. UNCHANGED Multicast!Number
  BY <1>1 DEF Multicast!Number
<1>4. \A k : UNCHANGED Multicast!Uncast(k)
  BY <1>1, <1>3 DEF Multicast!Uncast
<1>5. /\ mc_queued \in [1 .. MaxCasts -> SUBSET Handles] /\ dropped \in [1 .. MaxCasts -> Nat]
      /\ \A k \in 1 .. MaxCasts : IsFiniteSet(mc_queued[k])
  BY <1>2 DEF McTypes
<1>6. ASSUME NEW k \in 1 .. MaxCasts
      PROVE  /\ mc_queued'[k] \subseteq mc_queued[k] /\ IsFiniteSet(mc_queued'[k]) /\ dropped'[k] \in Nat
             /\ dropped[k] \in Nat /\ Cardinality(mc_queued[k]) \in Nat /\ Cardinality(mc_queued'[k]) \in Nat
             /\ Cardinality(mc_queued'[k]) + dropped'[k] = Cardinality(mc_queued[k]) + dropped[k]
             /\ mc_queued[k] = {} => dropped'[k] = dropped[k]
  <2>1. /\ mc_queued'[k] = mc_queued[k] \ {h} /\ dropped'[k] = dropped[k] + Cardinality({h} \cap mc_queued[k])
        /\ dropped[k] \in Nat /\ IsFiniteSet(mc_queued[k])
    BY <1>1, <1>5
  <2>2. Cardinality(mc_queued[k]) \in Nat
    BY <2>1, FS_CardinalityType
  <2>3. CASE h \in mc_queued[k]
    <3>1. {h} \cap mc_queued[k] = {h} /\ Cardinality({h}) = 1
      BY <2>3, FS_Singleton
    <3>2. IsFiniteSet(mc_queued'[k]) /\ Cardinality(mc_queued'[k]) = Cardinality(mc_queued[k]) - 1
      BY <2>1, <2>3, FS_RemoveElement
    <3>3. Cardinality(mc_queued'[k]) \in Nat
      BY <3>2, FS_CardinalityType
    <3>4. dropped'[k] = dropped[k] + 1 /\ mc_queued[k] # {} /\ mc_queued'[k] \subseteq mc_queued[k]
      BY <2>1, <2>3, <3>1
    <3>5. Cardinality(mc_queued'[k]) + dropped'[k] = Cardinality(mc_queued[k]) + dropped[k] /\ dropped'[k] \in Nat
      <4>1. dropped[k] \in Nat
        BY <2>1
      <4>2. QED
        BY <2>2, <3>2, <3>3, <3>4, <4>1
    <3>6. QED
      BY <2>1, <2>2, <3>2, <3>3, <3>4, <3>5
  <2>4. CASE h \notin mc_queued[k]
    <3>1. {h} \cap mc_queued[k] = {} /\ mc_queued[k] \ {h} = mc_queued[k] /\ Cardinality({}) = 0
      BY <2>4, FS_EmptySet
    <3>2. QED
      BY <2>1, <2>2, <3>1
  <2>5. QED
    BY <2>3, <2>4
<1>7. McTypes'
  <2>1. IsGroup(data, Multicast!Number)'
    BY <1>1, <1>2, <1>3 DEF McTypes, IsGroup
  <2>2. /\ mc_queued' \in [1 .. MaxCasts -> SUBSET Handles] /\ dropped' \in [1 .. MaxCasts -> Nat]
        /\ alive' \subseteq Handles /\ \A k \in 1 .. MaxCasts : IsFiniteSet(mc_queued'[k])
    <3>1. \A k \in 1 .. MaxCasts : mc_queued[k] \ {h} \subseteq Handles
      BY <1>5
    <3>2. mc_queued' \in [1 .. MaxCasts -> SUBSET Handles]
      BY <1>1, <3>1
    <3>3. dropped' = [k \in 1 .. MaxCasts |-> dropped'[k]]
      BY <1>1
    <3>4. dropped' \in [1 .. MaxCasts -> Nat]
      BY <1>6, <3>3
    <3>5. alive' \subseteq Handles
      BY <1>1, <1>2 DEF McTypes
    <3>6. QED
      BY <1>6, <3>2, <3>4, <3>5
  <2>3. QED
    BY <1>1, <1>2, <1>3, <2>1, <2>2 DEF McTypes
<1>8. McFresh'
  <2>1. ASSUME NEW k \in 1 .. MaxCasts, k > casts PROVE mc_queued'[k] = {} /\ dropped'[k] = 0 /\ m_ref'[k] = 0
    <3>1. mc_queued[k] = {} /\ dropped[k] = 0 /\ m_ref[k] = 0
      BY <1>2, <2>1 DEF McFresh
    <3>2. QED
      BY <1>1, <1>6, <3>1
  <2>2. QED
    BY <1>1, <2>1 DEF McFresh
<1>9. McSent'
  <2>1. mc_pc # "idle" => mc_queued'[casts] \subseteq mc_queued[casts]
    BY <1>2, <1>6 DEF McTypes
  <2>2. QED
    BY <1>1, <1>2, <2>1 DEF McSent
<1>10. ASSUME NEW k \in 1 .. MaxCasts PROVE McExact(k)'
  <2>1. /\ McExact(k) /\ Multicast!Uncast(k)' = Multicast!Uncast(k) /\ m_ref'[k] = m_ref[k]
        /\ (k \in freed' <=> k \in freed) /\ (k \in torn' <=> k \in torn)
    BY <1>1, <1>2, <1>4
  <2>2. CASE k \in freed
    <3>1. mc_queued'[k] = {} /\ dropped'[k] = 0
      BY <1>6, <2>1, <2>2 DEF McExact
    <3>2. QED
      BY <2>1, <2>2, <3>1 DEF McExact
  <2>3. CASE k \in torn /\ k \notin freed
    BY <2>1, <2>3 DEF McExact
  <2>4. CASE k \notin freed /\ k \notin torn
    <3>1. m_ref[k] = Cardinality(mc_queued[k]) + dropped[k] + Multicast!Uncast(k)
      BY <2>1, <2>4 DEF McExact
    <3>2. m_ref'[k] = Cardinality(mc_queued'[k]) + dropped'[k] + Multicast!Uncast(k)'
      BY <1>6, <2>1, <3>1
    <3>3. QED
      BY <2>1, <2>4, <3>2 DEF McExact
  <2>5. QED
    BY <2>2, <2>3, <2>4
<1>11. QED
  BY <1>1, <1>7, <1>8, <1>9, <1>10 DEF MulticastInv, McTorn

\* Every step keeps the invariant.
LEMMA McStep == ASSUME MulticastInv, [Next]_vars PROVE MulticastInv'
<1>1. CASE part = "multicast" /\ Multicast!Next
  <2>1. CASE Multicast!BeginCast
    BY <2>1, McBegin
  <2>2. CASE Multicast!Cast
    BY <2>2, McGrabFails, McGrab, McSend, McEndCast DEF Multicast!Cast
  <2>3. CASE \E h \in Handles : Multicast!Enter(h) \/ Multicast!Leave(h) \/ Multicast!Retire(h)
    <3>1. PICK h \in Handles : Multicast!Enter(h) \/ Multicast!Leave(h) \/ Multicast!Retire(h)
      BY <2>3
    <3>2. QED
      BY <3>1, McCommand, McRetire
  <2>4. CASE \E h \in Handles, k \in Multicast!Messages : Multicast!Dispatch(h, k) \/ Multicast!Discard(h, k)
    <3>1. PICK h \in Handles, k \in 1 .. MaxCasts : Multicast!Dispatch(h, k) \/ Multicast!Discard(h, k)
      BY <2>4, McMessages
    <3>2. QED
      BY <3>1, McDispatch, McTear
  <2>5. QED
    BY <1>1, <2>1, <2>2, <2>3, <2>4 DEF Multicast!Next
<1>2. CASE UNCHANGED multicast
  BY <1>2, McUnchanged
<1>3. QED
  BY <1>1, <1>2 DEF Next, vars

\* The invariant holds.
LEMMA MulticastInvariant == Spec => []MulticastInv
<1>1. Init => MulticastInv
  BY McInit
<1>2. MulticastInv /\ [Next]_vars => MulticastInv'
  BY McStep
<1>3. QED
  BY <1>1, <1>2, PTL DEF Spec

\* A shared message's count is that of the receivers that still have it or are to get
\* it, also while dispatches overtake the cast, and what the count deleted nobody has or
\* gets (multicast.h:44-98).  The one exception is a message whose memory a member
\* without a callback has freed; a group without such members has none.
THEOREM CountCorrect == Spec => []CountIsExact
<1>1. MulticastInv => CountIsExact
  BY McCount
<1>2. QED
  BY <1>1, MulticastInvariant, PTL

\* What combine_queue does in place, from the back and then from the front, is the set
\* union without those that left, in increasing order: for every group and all queues,
\* also with handles entered twice, entered and left, or leaving unknown (multicast.h:108-189).
THEOREM CombineCorrect == Spec => CombineIsSetUnion
<1> DEFINE Union == /\ Multicast!Members' = (Multicast!Members \cup Multicast!Range(enter_queue)) \ Multicast!Range(leave_queue)
                    /\ \A k, l \in DOMAIN data' : k < l => data'[k] < data'[l]
<1>1. MulticastInv /\ Multicast!BeginCast => Union
  <2> SUFFICES ASSUME MulticastInv, Multicast!BeginCast PROVE Union
    OBVIOUS
  <2>1. IsGroup(data', Multicast!Number')
    BY McCombined
  <2>2. QED
    BY <2>1, McCombined DEF IsGroup
<1>2. MulticastInv /\ [Next]_vars => [Multicast!BeginCast => Union]_(Multicast!vars)
  BY <1>1
<1>3. Spec => [][Multicast!BeginCast => Union]_(Multicast!vars)
  <2> HIDE DEF Union
  <2>1. QED
    BY <1>2, MulticastInvariant, PTL DEF Spec
<1>4. QED
  BY <1>3 DEF CombineIsSetUnion, Multicast!CombineIsSetUnion

-----------------------------------------------------------------------------
(* Delivery *)

\* 1 if p, 0 if not.
Counted(p) == IF p THEN 1 ELSE 0

\* A callback has the buffer, a queue has it.
InCall(busy, x) == \E h \in Locals : x \in busy[h]
InBox(box, x)   == \E h \in Locals : \E k \in DOMAIN box[h] : box[h][k] = x

\* In how many kinds of places a buffer is.
Kinds(st, busy, x) ==
    Counted(x \in st.held) + Counted(x \in st.harbor) + Counted(x \in st.freed) + Counted(x \in st.leaked)
      + Counted(InCall(busy, x)) + Counted(InBox(st.box, x))

\* A buffer is in one callback and at one place of one queue, at most.
OneCall(busy, x) == \A g, h \in Locals : x \in busy[g] /\ x \in busy[h] => g = h
OneBox(box, x) ==
    \A g, h \in Locals : \A k \in DOMAIN box[g], l \in DOMAIN box[h] : box[g][k] = x /\ box[h][l] = x => g = h /\ k = l

\* The type of store.
Stores ==
    [made : Nat, held : SUBSET Int, box : [Locals -> Seq(Int)], harbor : SUBSET Int, freed : SUBSET Int,
     twice : SUBSET Int, leaked : SUBSET Int, logger : Int]

\* Every buffer made is in one place, but for those in the worker's hand, which are in none,
\* those that dangle, which are in two, and those that are not followed.
Placed(st, busy, dangle, lax, hand) ==
    /\ st \in Stores
    /\ busy \in [Locals -> SUBSET Int]
    /\ hand \subseteq 1 .. st.made /\ dangle \subseteq 1 .. st.made
    /\ hand \cap dangle = {}
    /\ st.twice \subseteq lax /\ lax \subseteq 1 .. st.made
    /\ \A x \in Int : x # Delivery!Shared /\ x \notin lax =>
          /\ OneCall(busy, x) /\ OneBox(st.box, x)
          /\ x \notin 1 .. st.made \/ x \in hand => Kinds(st, busy, x) = 0
          /\ x \in dangle => x \in st.held /\ x \in st.freed /\ Kinds(st, busy, x) = 2
          /\ x \in 1 .. st.made \ (hand \cup dangle) => Kinds(st, busy, x) = 1

\* Both are numbers.
LEMMA SharedIs == Delivery!Shared = -1 /\ Delivery!Nothing = 0
BY DEF Delivery!Shared, Delivery!Nothing

\* A buffer at hand is freed.
LEMMA PlacedFree ==
    ASSUME NEW st, NEW busy, NEW dangle, NEW lax, NEW hand, Placed(st, busy, dangle, lax, hand),
           NEW b \in 1 .. st.made, b \in hand \/ b \in lax
    PROVE  Placed(Delivery!Free(st, b), busy, dangle, lax, hand \ {b})
<1> DEFINE f == Delivery!Free(st, b)
<1>1. st \in Stores /\ b \in Int /\ b # Delivery!Shared
  BY SharedIs DEF Placed, Stores
<1>2. f = [st EXCEPT !.freed = @ \cup {b}, !.twice = @ \cup ({b} \cap st.freed)]
  BY <1>1 DEF Delivery!Free
<1>3. /\ f \in Stores /\ f.made = st.made /\ f.held = st.held /\ f.box = st.box /\ f.harbor = st.harbor
      /\ f.leaked = st.leaked /\ f.freed = st.freed \cup {b} /\ f.twice = st.twice \cup ({b} \cap st.freed)
  BY <1>1, <1>2, ZenonT(40) DEF Stores
<1> HIDE DEF f
<1>4. \A x : x # b => Kinds(f, busy, x) = Kinds(st, busy, x)
  BY <1>3 DEF Kinds
<1>5. b \notin lax => b \notin st.freed /\ Kinds(f, busy, b) = 1
  <2>1. b \notin lax => Kinds(st, busy, b) = 0
    BY <1>1 DEF Placed
  <2>2. Kinds(st, busy, b) = 0 => b \notin st.freed /\ Kinds(f, busy, b) = 1
    BY <1>3 DEF Kinds, Counted
  <2>3. QED
    BY <2>1, <2>2
<1>6. f.twice \subseteq lax
  BY <1>3, <1>5 DEF Placed
<1>7. b \in hand => b \notin dangle
  BY DEF Placed
<1>8. QED
  BY <1>1, <1>3, <1>4, <1>5, <1>6, <1>7 DEF Placed, f

\* A buffer is made.
LEMMA PlacedNew ==
    ASSUME NEW st, NEW busy, NEW dangle, NEW lax, NEW hand, Placed(st, busy, dangle, lax, hand),
           NEW logger \in Int
    PROVE  /\ Placed([st EXCEPT !.made = Delivery!New(st), !.logger = logger], busy, dangle, lax,
                     hand \cup {Delivery!New(st)})
           /\ Delivery!New(st) \in 1 .. Delivery!New(st) /\ Delivery!New(st) \notin hand
           /\ Delivery!New(st) \in Int
<1> DEFINE f == [st EXCEPT !.made = Delivery!New(st), !.logger = logger]
           n == Delivery!New(st)
<1>1. st \in Stores /\ st.made \in Nat /\ n = st.made + 1 /\ n \in Nat
  BY DEF Placed, Stores, Delivery!New
<1>2. /\ f \in Stores /\ f.made = n /\ f.held = st.held /\ f.box = st.box /\ f.harbor = st.harbor
      /\ f.leaked = st.leaked /\ f.freed = st.freed /\ f.twice = st.twice
  BY <1>1 DEF Stores
<1> HIDE DEF f, n
<1>3. \A x : Kinds(f, busy, x) = Kinds(st, busy, x)
  BY <1>2 DEF Kinds
<1>4. n \in Int /\ n \in 1 .. n /\ \A x : x \in 1 .. n <=> x \in 1 .. st.made \/ x = n
  BY <1>1
<1>5. n \notin 1 .. st.made
  BY <1>1
<1>6. n \notin hand /\ n \notin dangle /\ n \notin lax
  BY <1>5 DEF Placed
<1>7. Placed(f, busy, dangle, lax, hand \cup {n})
  BY <1>2, <1>3, <1>4, <1>5, <1>6 DEF Placed
<1>8. QED
  BY <1>4, <1>6, <1>7 DEF f, n

\* What an entry more changes in the queues.
HasMore(after, box, b) ==
    /\ \A x : x # b => (InBox(after, x) <=> InBox(box, x)) /\ (OneBox(box, x) => OneBox(after, x))
    /\ InBox(after, b)
    /\ ~InBox(box, b) => OneBox(after, b)

LEMMA AppendedBox ==
    ASSUME NEW box \in [Locals -> Seq(Int)], NEW h \in Locals, NEW b \in Int
    PROVE  /\ [box EXCEPT ![h] = Append(@, b)] \in [Locals -> Seq(Int)]
           /\ HasMore([box EXCEPT ![h] = Append(@, b)], box, b)
<1> DEFINE n == Len(box[h])
           after == [box EXCEPT ![h] = Append(@, b)]
<1>a. after[h] = Append(box[h], b) /\ box[h] \in Seq(Int) /\ after \in [Locals -> Seq(Int)]
  <2>1. Append(box[h], b) \in Seq(Int)
    OBVIOUS
  <2>2. QED
    BY <2>1
<1>b. /\ n \in Nat /\ DOMAIN after[h] = 1 .. n + 1 /\ DOMAIN box[h] = 1 .. n /\ after[h][n + 1] = b
      /\ \A k \in 1 .. n : after[h][k] = box[h][k]
  BY <1>a
<1>c. \A g \in Locals : g # h => after[g] = box[g]
  OBVIOUS
<1> HIDE DEF n, after
<1>1. ASSUME NEW g \in Locals, NEW k \in DOMAIN after[g], ~(g = h /\ k = n + 1)
      PROVE  k \in DOMAIN box[g] /\ after[g][k] = box[g][k]
  <2>1. CASE g = h
    <3>1. k \in 1 .. n + 1 /\ k # n + 1
      BY <1>1, <1>b, <2>1
    <3>2. k \in 1 .. n
      BY <1>b, <3>1
    <3>3. QED
      BY <1>b, <2>1, <3>2
  <2>2. CASE g # h
    BY <1>c, <2>2
  <2>3. QED
    BY <2>1, <2>2
<1>2. ASSUME NEW g \in Locals, NEW k \in DOMAIN box[g]
      PROVE  k \in DOMAIN after[g] /\ after[g][k] = box[g][k]
  BY <1>b, <1>c
<1>3. n + 1 \in DOMAIN after[h] /\ after[h][n + 1] = b
  BY <1>b
<1>4. ASSUME NEW x, x # b, InBox(after, x) PROVE InBox(box, x)
  <2>0. PICK g \in Locals : \E k \in DOMAIN after[g] : after[g][k] = x
    BY <1>4 DEF InBox
  <2>1. PICK k \in DOMAIN after[g] : after[g][k] = x
    BY <2>0
  <2>2. k \in DOMAIN box[g] /\ box[g][k] = x
    BY <1>1, <1>3, <1>4, <2>1
  <2>3. QED
    BY <2>2 DEF InBox
<1>5. ASSUME NEW x, InBox(box, x) PROVE InBox(after, x)
  BY <1>2, <1>5 DEF InBox
<1>6. ASSUME NEW x, x # b, OneBox(box, x) PROVE OneBox(after, x)
  <2>1. SUFFICES ASSUME NEW f \in Locals, NEW g \in Locals, NEW k \in DOMAIN after[f], NEW l \in DOMAIN after[g],
                        after[f][k] = x, after[g][l] = x
                 PROVE  f = g /\ k = l
    BY DEF OneBox
  <2>2. k \in DOMAIN box[f] /\ box[f][k] = x /\ l \in DOMAIN box[g] /\ box[g][l] = x
    BY <1>1, <1>3, <1>6, <2>1
  <2>3. QED
    BY <1>6, <2>2 DEF OneBox
<1>7. InBox(after, b)
  BY <1>3 DEF InBox
<1>8. ASSUME ~InBox(box, b) PROVE OneBox(after, b)
  <2>1. \A g \in Locals : \A k \in DOMAIN after[g] : after[g][k] = b => g = h /\ k = n + 1
    BY <1>1, <1>8 DEF InBox
  <2>2. QED
    BY <2>1 DEF OneBox
<1>9. QED
  BY <1>a, <1>4, <1>5, <1>6, <1>7, <1>8 DEF HasMore, after

\* A buffer at hand goes to the end of a queue.
LEMMA PlacedPush ==
    ASSUME NEW st, NEW busy, NEW dangle, NEW lax, NEW hand, Placed(st, busy, dangle, lax, hand),
           NEW b \in 1 .. st.made, b \in hand \/ b \in lax, NEW h \in Locals
    PROVE  Placed(Delivery!Push(st, h, b), busy, dangle, lax, hand \ {b})
<1> DEFINE f == Delivery!Push(st, h, b)
<1>1. st \in Stores /\ b \in Int /\ b # Delivery!Shared /\ st.box \in [Locals -> Seq(Int)]
  BY SharedIs DEF Placed, Stores
<1>2. f = [st EXCEPT !.box[h] = Append(@, b)]
  BY <1>1 DEF Delivery!Push
<1>3. /\ f \in Stores /\ f.made = st.made /\ f.held = st.held /\ f.harbor = st.harbor
      /\ f.leaked = st.leaked /\ f.freed = st.freed /\ f.twice = st.twice
      /\ f.box = [st.box EXCEPT ![h] = Append(@, b)]
  <2>1. [st.box EXCEPT ![h] = Append(@, b)] \in [Locals -> Seq(Int)]
    BY <1>1, AppendedBox
  <2>2. QED
    BY <1>1, <1>2, <2>1 DEF Stores
<1> HIDE DEF f
<1>5. /\ \A x : x # b => (InBox(f.box, x) <=> InBox(st.box, x)) /\ (OneBox(st.box, x) => OneBox(f.box, x))
      /\ InBox(f.box, b)
      /\ ~InBox(st.box, b) => OneBox(f.box, b)
  <2>1. HasMore([st.box EXCEPT ![h] = Append(@, b)], st.box, b)
    BY <1>1, AppendedBox
  <2>2. QED
    BY <1>3, <2>1 DEF HasMore
<1>6. \A x : x # b => Kinds(f, busy, x) = Kinds(st, busy, x)
  BY <1>3, <1>5 DEF Kinds, Counted
<1>7. \A x : x # b /\ OneBox(st.box, x) => OneBox(f.box, x)
  BY <1>5
<1>8. b \notin lax => Kinds(f, busy, b) = 1 /\ OneBox(f.box, b)
  <2>1. b \notin lax => Kinds(st, busy, b) = 0
    BY <1>1 DEF Placed
  <2>2. Kinds(st, busy, b) = 0 => Kinds(f, busy, b) = 1 /\ ~InBox(st.box, b)
    BY <1>3, <1>5 DEF Kinds, Counted
  <2>3. QED
    BY <1>5, <2>1, <2>2
<1>9. b \in hand => b \notin dangle
  BY DEF Placed
<1>10. QED
  BY <1>1, <1>3, <1>6, <1>7, <1>8, <1>9 DEF Placed, f

\* A buffer is made, and nothing else changes.
LEMMA PlacedCopy ==
    ASSUME NEW st, NEW busy, NEW dangle, NEW lax, NEW hand, Placed(st, busy, dangle, lax, hand)
    PROVE  Placed([st EXCEPT !.made = Delivery!New(st)], busy, dangle, lax, hand \cup {Delivery!New(st)})
<1>1. st \in Stores /\ st.logger \in Int
  BY DEF Placed, Stores
<1>2. [st EXCEPT !.made = Delivery!New(st)] = [st EXCEPT !.made = Delivery!New(st), !.logger = st.logger]
  BY <1>1 DEF Stores
<1>3. QED
  BY <1>1, <1>2, PlacedNew

\* A buffer at hand is held, goes to the harbor, or is forgotten.
LEMMA PlacedAdd ==
    ASSUME NEW st, NEW busy, NEW dangle, NEW lax, NEW hand, Placed(st, busy, dangle, lax, hand),
           NEW b \in 1 .. st.made, b \in hand \/ b \in lax,
           NEW f, \/ f = [st EXCEPT !.held = @ \cup {b}]
                  \/ f = [st EXCEPT !.harbor = @ \cup {b}]
                  \/ f = [st EXCEPT !.leaked = @ \cup {b}]
    PROVE  Placed(f, busy, dangle, lax, hand \ {b})
<1>1. st \in Stores /\ b \in Int /\ b # Delivery!Shared
  BY SharedIs DEF Placed, Stores
<1>2. /\ f \in Stores /\ f.made = st.made /\ f.box = st.box /\ f.freed = st.freed /\ f.twice = st.twice
      /\ \/ f.held = st.held \cup {b} /\ f.harbor = st.harbor /\ f.leaked = st.leaked
         \/ f.held = st.held /\ f.harbor = st.harbor \cup {b} /\ f.leaked = st.leaked
         \/ f.held = st.held /\ f.harbor = st.harbor /\ f.leaked = st.leaked \cup {b}
  BY <1>1, SMTT(30) DEF Stores
<1>3. \A x : x # b => Kinds(f, busy, x) = Kinds(st, busy, x) /\ (x \in f.held <=> x \in st.held)
  BY <1>2 DEF Kinds, Counted
<1>4. b \notin lax => Kinds(f, busy, b) = 1
  <2>1. b \notin lax => Kinds(st, busy, b) = 0
    BY <1>1 DEF Placed
  <2>2. Kinds(st, busy, b) = 0 => Kinds(f, busy, b) = 1
    BY <1>2 DEF Kinds, Counted
  <2>3. QED
    BY <2>1, <2>2
<1>5. b \in hand => b \notin dangle
  BY DEF Placed
<1>6. QED
  BY <1>1, <1>2, <1>3, <1>4, <1>5 DEF Placed

\* The facts about contexts that delivery depends on.
Contexts == registered \subseteq Locals /\ named \in Locals \cup {0}

\* The logger's copy is pushed or forgotten.
LEMMA PlacedLog ==
    ASSUME NEW st, NEW busy, NEW dangle, NEW lax, NEW hand, Placed(st, busy, dangle, lax, hand), Contexts
    PROVE  Placed(Delivery!Log(st), busy, dangle, lax, hand)
<1> DEFINE logger == IF st.logger < 0 THEN named ELSE st.logger
           n == Delivery!New(st)
           made == [st EXCEPT !.made = n, !.logger = logger]
<1>1. st \in Stores /\ logger \in Int
  BY LocalsAssumption DEF Placed, Stores, Contexts
<1>2. Delivery!Log(st) = IF logger \in registered THEN Delivery!Push(made, logger, n)
                         ELSE [made EXCEPT !.leaked = @ \cup {n}]
  BY DEF Delivery!Log
<1>3. made.made = n
  BY <1>1 DEF Stores
<1> HIDE DEF logger
<1>4. Placed(made, busy, dangle, lax, hand \cup {n}) /\ n \in 1 .. n /\ n \notin hand
  BY <1>1, PlacedNew
<1> HIDE DEF made, n
<1>5. n \in 1 .. made.made /\ n \in hand \cup {n} /\ (hand \cup {n}) \ {n} = hand
  BY <1>3, <1>4
<1>6. CASE logger \in registered
  <2>1. Placed(Delivery!Push(made, logger, n), busy, dangle, lax, (hand \cup {n}) \ {n})
    BY <1>4, <1>5, <1>6, PlacedPush DEF Contexts
  <2>2. QED
    BY <1>2, <1>5, <1>6, <2>1
<1>7. CASE logger \notin registered
  <2>1. Placed([made EXCEPT !.leaked = @ \cup {n}], busy, dangle, lax, (hand \cup {n}) \ {n})
    BY <1>4, <1>5, PlacedAdd
  <2>2. QED
    BY <1>2, <1>5, <1>7, <2>1
<1>8. QED
  BY <1>6, <1>7

\* A buffer at hand goes where a message is sent: to the harbor, to a context, or it is freed.
LEMMA PlacedDeliver ==
    ASSUME NEW st, NEW busy, NEW dangle, NEW lax, NEW hand, Placed(st, busy, dangle, lax, hand), Contexts,
           NEW b \in 1 .. st.made, b \in hand \/ b \in lax, NEW h
    PROVE  Placed(Delivery!Deliver(st, h, b), busy, dangle, lax, hand \ {b})
<1>1. CASE h = Remote
  <2>1. Placed([st EXCEPT !.harbor = @ \cup {b}], busy, dangle, lax, hand \ {b})
    BY PlacedAdd
  <2>2. QED
    BY <1>1, <2>1 DEF Delivery!Deliver, Delivery!ToHarbor
<1>2. CASE h # Remote /\ h \in registered
  BY <1>2, PlacedPush DEF Delivery!Deliver, Contexts
<1>3. CASE h # Remote /\ h \notin registered
  <2>1. Placed(Delivery!Free(st, b), busy, dangle, lax, hand \ {b})
    BY PlacedFree
  <2>2. Placed(Delivery!Log(Delivery!Free(st, b)), busy, dangle, lax, hand \ {b})
    BY <2>1, PlacedLog
  <2>3. QED
    BY <1>3, <2>2 DEF Delivery!Deliver
<1>4. QED
  BY <1>1, <1>2, <1>3

\* A caller hands its buffer over.
LEMMA PlacedTake ==
    ASSUME NEW st, NEW busy, NEW dangle, Placed(st, busy, dangle, {}, {}),
           NEW b \in st.held, b \notin dangle, b \in 1 .. st.made
    PROVE  Placed([st EXCEPT !.held = @ \ {b}], busy, dangle, {}, {b})
<1> DEFINE f == [st EXCEPT !.held = @ \ {b}]
<1>1. st \in Stores /\ b \in Int /\ b # Delivery!Shared
  BY SharedIs DEF Placed, Stores
<1>2. /\ f \in Stores /\ f.made = st.made /\ f.box = st.box /\ f.freed = st.freed /\ f.twice = st.twice
      /\ f.held = st.held \ {b} /\ f.harbor = st.harbor /\ f.leaked = st.leaked
  BY <1>1 DEF Stores
<1> HIDE DEF f
<1>3. \A x : x # b => Kinds(f, busy, x) = Kinds(st, busy, x) /\ (x \in f.held <=> x \in st.held)
  BY <1>2 DEF Kinds, Counted
<1>4. Kinds(f, busy, b) = 0
  <2>1. Kinds(st, busy, b) = 1
    BY <1>1 DEF Placed
  <2>2. QED
    BY <1>2, <2>1 DEF Kinds, Counted
<1>5. Placed(f, busy, dangle, {}, {b})
  BY <1>1, <1>2, <1>3, <1>4 DEF Placed
<1>6. QED
  BY <1>5 DEF f

\* What a caller still holds is freed under it.
LEMMA PlacedDangle ==
    ASSUME NEW st, NEW busy, NEW dangle, Placed(st, busy, dangle, {}, {}),
           NEW b \in st.held, b \notin dangle, b \in 1 .. st.made
    PROVE  Placed(Delivery!Free(st, b), busy, dangle \cup {b}, {}, {})
<1> DEFINE f == Delivery!Free(st, b)
<1>1. st \in Stores /\ b \in Int /\ b # Delivery!Shared
  BY SharedIs DEF Placed, Stores
<1>2. f = [st EXCEPT !.freed = @ \cup {b}, !.twice = @ \cup ({b} \cap st.freed)]
  BY <1>1 DEF Delivery!Free
<1>3. /\ f \in Stores /\ f.made = st.made /\ f.held = st.held /\ f.box = st.box /\ f.harbor = st.harbor
      /\ f.leaked = st.leaked /\ f.freed = st.freed \cup {b} /\ f.twice = st.twice \cup ({b} \cap st.freed)
  BY <1>1, <1>2, ZenonT(40) DEF Stores
<1> HIDE DEF f
<1>4. \A x : x # b => Kinds(f, busy, x) = Kinds(st, busy, x) /\ (x \in f.freed <=> x \in st.freed)
  BY <1>3 DEF Kinds, Counted
<1>5. Kinds(f, busy, b) = 2 /\ b \notin st.freed
  <2>1. Kinds(st, busy, b) = 1
    BY <1>1 DEF Placed
  <2>2. QED
    BY <1>3, <2>1 DEF Kinds, Counted
<1>6. f.twice \subseteq {}
  BY <1>3, <1>5 DEF Placed
<1>7. Placed(f, busy, dangle \cup {b}, {}, {})
  BY <1>1, <1>3, <1>4, <1>5, <1>6 DEF Placed
<1>8. QED
  BY <1>7 DEF f

\* What an entry less changes in the queues.
HasLess(after, box, b) ==
    /\ \A x : x # b => (InBox(after, x) <=> InBox(box, x))
    /\ \A x : OneBox(box, x) => OneBox(after, x)
    /\ InBox(box, b)
    /\ OneBox(box, b) => ~InBox(after, b)

LEMMA TailBox ==
    ASSUME NEW box \in [Locals -> Seq(Int)], NEW h \in Locals, box[h] # <<>>
    PROVE  /\ [box EXCEPT ![h] = Tail(@)] \in [Locals -> Seq(Int)]
           /\ HasLess([box EXCEPT ![h] = Tail(@)], box, Head(box[h]))
           /\ Head(box[h]) \in Int
           /\ Len(Tail(box[h])) <= Len(box[h])
<1> DEFINE n == Len(box[h])
           b == Head(box[h])
           after == [box EXCEPT ![h] = Tail(@)]
<1>a. after[h] = Tail(box[h]) /\ box[h] \in Seq(Int) /\ after \in [Locals -> Seq(Int)]
  <2>1. Tail(box[h]) \in Seq(Int)
    OBVIOUS
  <2>2. QED
    BY <2>1
<1>b. /\ n \in Nat /\ n > 0 /\ DOMAIN box[h] = 1 .. n /\ box[h][1] = b /\ b \in Int
      /\ Len(Tail(box[h])) = n - 1
      /\ DOMAIN after[h] = 1 .. n - 1
      /\ \A k \in 1 .. n - 1 : after[h][k] = box[h][k + 1]
  BY <1>a
<1>c. \A g \in Locals : g # h => after[g] = box[g]
  OBVIOUS
<1> HIDE DEF n, after, b
<1> DEFINE back(g, k) == IF g = h THEN k + 1 ELSE k
<1>1. ASSUME NEW g \in Locals, NEW k \in DOMAIN after[g]
      PROVE  back(g, k) \in DOMAIN box[g] /\ after[g][k] = box[g][back(g, k)] /\ ~(g = h /\ back(g, k) = 1)
  <2>1. CASE g = h
    <3>1. k \in 1 .. n - 1
      BY <1>b, <2>1
    <3>2. k + 1 \in 1 .. n /\ k + 1 # 1
      BY <1>b, <3>1
    <3>3. QED
      BY <1>b, <2>1, <3>1, <3>2
  <2>2. CASE g # h
    BY <1>c, <2>2
  <2>3. QED
    BY <2>1, <2>2
<1>2. ASSUME NEW g \in Locals, NEW k \in DOMAIN box[g], ~(g = h /\ k = 1)
      PROVE  \E l \in DOMAIN after[g] : after[g][l] = box[g][k]
  <2>1. CASE g = h
    <3>1. k \in 1 .. n /\ k # 1
      BY <1>2, <1>b, <2>1
    <3>2. k - 1 \in 1 .. n - 1 /\ (k - 1) + 1 = k
      BY <1>b, <3>1
    <3>3. QED
      BY <1>b, <2>1, <3>2
  <2>2. CASE g # h
    BY <1>c, <2>2
  <2>3. QED
    BY <2>1, <2>2
<1>3. 1 \in DOMAIN box[h] /\ box[h][1] = b
  BY <1>b
<1>4. ASSUME NEW x, x # b, InBox(box, x) PROVE InBox(after, x)
  <2>0. PICK g \in Locals : \E k \in DOMAIN box[g] : box[g][k] = x
    BY <1>4 DEF InBox
  <2>1. PICK k \in DOMAIN box[g] : box[g][k] = x
    BY <2>0
  <2>2. ~(g = h /\ k = 1)
    BY <1>3, <1>4, <2>1
  <2>3. \E l \in DOMAIN after[g] : after[g][l] = x
    BY <1>2, <2>1, <2>2
  <2>4. QED
    BY <2>3 DEF InBox
<1>5. ASSUME NEW x, InBox(after, x) PROVE InBox(box, x)
  <2>0. PICK g \in Locals : \E k \in DOMAIN after[g] : after[g][k] = x
    BY <1>5 DEF InBox
  <2>1. PICK k \in DOMAIN after[g] : after[g][k] = x
    BY <2>0
  <2>2. QED
    BY <1>1, <2>1 DEF InBox
<1>6. ASSUME NEW x, OneBox(box, x) PROVE OneBox(after, x)
  <2>1. SUFFICES ASSUME NEW f \in Locals, NEW g \in Locals, NEW k \in DOMAIN after[f], NEW l \in DOMAIN after[g],
                        after[f][k] = x, after[g][l] = x
                 PROVE  f = g /\ k = l
    BY DEF OneBox
  <2>2. /\ back(f, k) \in DOMAIN box[f] /\ box[f][back(f, k)] = x
        /\ back(g, l) \in DOMAIN box[g] /\ box[g][back(g, l)] = x
    BY <1>1, <2>1
  <2>3. f = g /\ back(f, k) = back(g, l)
    BY <1>6, <2>2 DEF OneBox
  <2>4. k \in Int /\ l \in Int
    <3>1. f = h => k \in 1 .. n - 1 /\ l \in 1 .. n - 1
      BY <1>b, <2>3
    <3>2. f # h => k \in 1 .. Len(box[f]) /\ l \in 1 .. Len(box[f])
      BY <1>c, <2>3
    <3>3. QED
      BY <3>1, <3>2
  <2>5. QED
    BY <2>3, <2>4
<1>7. InBox(box, b)
  BY <1>3 DEF InBox
<1>8. ASSUME OneBox(box, b), InBox(after, b) PROVE FALSE
  <2>0. PICK g \in Locals : \E k \in DOMAIN after[g] : after[g][k] = b
    BY <1>8 DEF InBox
  <2>1. PICK k \in DOMAIN after[g] : after[g][k] = b
    BY <2>0
  <2>2. back(g, k) \in DOMAIN box[g] /\ box[g][back(g, k)] = b /\ ~(g = h /\ back(g, k) = 1)
    BY <1>1, <2>1
  <2>3. QED
    BY <1>3, <1>8, <2>2 DEF OneBox
<1>9. Len(Tail(box[h])) <= Len(box[h])
  BY <1>a, <1>b DEF n
<1>10. QED
  BY <1>a, <1>b, <1>4, <1>5, <1>6, <1>7, <1>8, <1>9 DEF HasLess, after, b

\* A worker takes the first entry of a queue.
LEMMA PlacedPop ==
    ASSUME NEW st, NEW busy, NEW dangle, Placed(st, busy, dangle, {}, {}), NEW h \in Locals, st.box[h] # <<>>,
           NEW b, b = Head(st.box[h]), NEW f, f = [st EXCEPT !.box[h] = Tail(@)]
    PROVE  /\ Placed(f, busy, dangle, {}, {b} \ {Delivery!Shared})
           /\ f.made = st.made /\ f.box = [st.box EXCEPT ![h] = Tail(@)]
           /\ b \in Int /\ (b # Delivery!Shared => b \in 1 .. st.made)
<1>1. st \in Stores /\ st.box \in [Locals -> Seq(Int)]
  BY DEF Placed, Stores
<1>2. /\ [st.box EXCEPT ![h] = Tail(@)] \in [Locals -> Seq(Int)]
      /\ HasLess([st.box EXCEPT ![h] = Tail(@)], st.box, b) /\ b \in Int
  BY <1>1, TailBox
<1>3. /\ f \in Stores /\ f.made = st.made /\ f.held = st.held /\ f.harbor = st.harbor
      /\ f.leaked = st.leaked /\ f.freed = st.freed /\ f.twice = st.twice
      /\ f.box = [st.box EXCEPT ![h] = Tail(@)]
  BY <1>1, <1>2 DEF Stores
<1>4. /\ \A x : x # b => (InBox(f.box, x) <=> InBox(st.box, x))
      /\ \A x : OneBox(st.box, x) => OneBox(f.box, x)
      /\ InBox(st.box, b)
      /\ OneBox(st.box, b) => ~InBox(f.box, b)
  BY <1>2, <1>3 DEF HasLess
<1>5. \A x : x # b => Kinds(f, busy, x) = Kinds(st, busy, x)
  BY <1>3, <1>4 DEF Kinds, Counted
<1>6. ASSUME b # Delivery!Shared PROVE b \in 1 .. st.made /\ b \notin dangle /\ Kinds(f, busy, b) = 0
  <2>1. OneBox(st.box, b) /\ (b \notin 1 .. st.made => Kinds(st, busy, b) = 0)
    BY <1>2, <1>6 DEF Placed
  <2>2. b \in dangle => b \in st.held /\ b \in st.freed /\ Kinds(st, busy, b) = 2
    BY <1>2, <1>6 DEF Placed
  <2>3. Kinds(st, busy, b) # 0
    BY <1>4 DEF Kinds, Counted
  <2>4. b \in st.held /\ b \in st.freed => Kinds(st, busy, b) # 2
    BY <1>4 DEF Kinds, Counted
  <2>5. b \in 1 .. st.made /\ b \notin dangle
    BY <2>1, <2>2, <2>3, <2>4
  <2>6. Kinds(st, busy, b) = 1
    BY <1>2, <1>6, <2>5 DEF Placed
  <2>7. ~InBox(f.box, b)
    BY <1>4, <2>1
  <2>8. Kinds(f, busy, b) = 0
    BY <1>3, <1>4, <2>6, <2>7 DEF Kinds, Counted
  <2>9. QED
    BY <2>5, <2>8
<1>7. Placed(f, busy, dangle, {}, {b} \ {Delivery!Shared})
  BY <1>1, <1>2, <1>3, <1>4, <1>5, <1>6 DEF Placed
<1>8. QED
  BY <1>2, <1>3, <1>6, <1>7

\* A callback begins, for a buffer at hand or for a shared message.
LEMMA PlacedCall ==
    ASSUME NEW st, NEW busy, NEW dangle, NEW hand, Placed(st, busy, dangle, {}, hand), NEW h \in Locals,
           NEW b \in Int, b \in hand \/ b = Delivery!Shared
    PROVE  Placed(st, [busy EXCEPT ![h] = @ \cup {b}], dangle, {}, hand \ {b})
<1> DEFINE after == [busy EXCEPT ![h] = @ \cup {b}]
<1>1. st \in Stores /\ busy \in [Locals -> SUBSET Int]
  BY DEF Placed
<1>2. /\ after \in [Locals -> SUBSET Int]
      /\ \A x, g : g \in Locals => (x \in after[g] <=> x \in busy[g] \/ (g = h /\ x = b))
  BY <1>1
<1> HIDE DEF after
<1>3. \A x : x # b => (InCall(after, x) <=> InCall(busy, x)) /\ (OneCall(busy, x) => OneCall(after, x))
  BY <1>2 DEF InCall, OneCall
<1>4. InCall(after, b) /\ (~InCall(busy, b) => OneCall(after, b))
  BY <1>2 DEF InCall, OneCall
<1>5. \A x : x # b => Kinds(st, after, x) = Kinds(st, busy, x)
  BY <1>3 DEF Kinds, Counted
<1>6. b # Delivery!Shared => OneCall(after, b) /\ Kinds(st, after, b) = 1 /\ b \notin dangle
  <2>1. b # Delivery!Shared => Kinds(st, busy, b) = 0 /\ b \notin dangle
    BY DEF Placed
  <2>2. Kinds(st, busy, b) = 0 => ~InCall(busy, b) /\ Kinds(st, after, b) = 1
    BY <1>4 DEF Kinds, Counted
  <2>3. QED
    BY <1>4, <2>1, <2>2
<1>7. Placed(st, after, dangle, {}, hand \ {b})
  BY <1>1, <1>2, <1>3, <1>5, <1>6 DEF Placed
<1>8. QED
  BY <1>7 DEF after

\* A callback returns.
LEMMA PlacedDone ==
    ASSUME NEW st, NEW busy, NEW dangle, Placed(st, busy, dangle, {}, {}), NEW h \in Locals, NEW b \in busy[h]
    PROVE  /\ Placed(st, [busy EXCEPT ![h] = @ \ {b}], dangle, {}, {b} \ {Delivery!Shared})
           /\ b \in Int /\ (b # Delivery!Shared => b \in 1 .. st.made)
<1> DEFINE after == [busy EXCEPT ![h] = @ \ {b}]
<1>1. st \in Stores /\ busy \in [Locals -> SUBSET Int] /\ b \in Int
  BY DEF Placed
<1>2. /\ after \in [Locals -> SUBSET Int]
      /\ \A x, g : g \in Locals => (x \in after[g] <=> x \in busy[g] /\ ~(g = h /\ x = b))
  BY <1>1
<1> HIDE DEF after
<1>3. \A x : /\ x # b => (InCall(after, x) <=> InCall(busy, x))
             /\ OneCall(busy, x) => OneCall(after, x)
  BY <1>2 DEF InCall, OneCall
<1>4. InCall(busy, b) /\ (OneCall(busy, b) => ~InCall(after, b))
  BY <1>2 DEF InCall, OneCall
<1>5. \A x : x # b => Kinds(st, after, x) = Kinds(st, busy, x)
  BY <1>3 DEF Kinds, Counted
<1>6. ASSUME b # Delivery!Shared PROVE b \in 1 .. st.made /\ b \notin dangle /\ Kinds(st, after, b) = 0
  <2>1. OneCall(busy, b) /\ (b \notin 1 .. st.made => Kinds(st, busy, b) = 0)
    BY <1>1, <1>6 DEF Placed
  <2>2. b \in dangle => b \in st.held /\ b \in st.freed /\ Kinds(st, busy, b) = 2
    BY <1>1, <1>6 DEF Placed
  <2>3. Kinds(st, busy, b) # 0
    BY <1>4 DEF Kinds, Counted
  <2>4. b \in st.held /\ b \in st.freed => Kinds(st, busy, b) # 2
    BY <1>4 DEF Kinds, Counted
  <2>5. b \in 1 .. st.made /\ b \notin dangle
    BY <2>1, <2>2, <2>3, <2>4
  <2>6. Kinds(st, busy, b) = 1
    BY <1>1, <1>6, <2>5 DEF Placed
  <2>7. ~InCall(after, b)
    BY <1>4, <2>1
  <2>8. Kinds(st, after, b) = 0
    BY <1>4, <2>6, <2>7 DEF Kinds, Counted
  <2>9. QED
    BY <2>5, <2>8
<1>7. Placed(st, after, dangle, {}, {b} \ {Delivery!Shared})
  BY <1>1, <1>2, <1>3, <1>5, <1>6 DEF Placed
<1>8. QED
  BY <1>1, <1>6, <1>7 DEF after

\* A shared message goes to the end of a queue: no buffer is concerned.
LEMMA PlacedCast ==
    ASSUME NEW st, NEW busy, NEW dangle, NEW lax, NEW hand, Placed(st, busy, dangle, lax, hand), NEW h \in Locals
    PROVE  Placed(Delivery!Push(st, h, Delivery!Shared), busy, dangle, lax, hand)
<1> DEFINE b == Delivery!Shared
           f == Delivery!Push(st, h, b)
<1>1. st \in Stores /\ b \in Int /\ st.box \in [Locals -> Seq(Int)]
  BY SharedIs DEF Placed, Stores
<1> HIDE DEF b
<1>2. /\ [st.box EXCEPT ![h] = Append(@, b)] \in [Locals -> Seq(Int)]
      /\ HasMore([st.box EXCEPT ![h] = Append(@, b)], st.box, b)
  BY <1>1, AppendedBox
<1>3. /\ f \in Stores /\ f.made = st.made /\ f.held = st.held /\ f.harbor = st.harbor
      /\ f.leaked = st.leaked /\ f.freed = st.freed /\ f.twice = st.twice
      /\ f.box = [st.box EXCEPT ![h] = Append(@, b)]
  BY <1>1, <1>2 DEF Stores, Delivery!Push
<1> HIDE DEF f
<1>4. \A x : x # b => (InBox(f.box, x) <=> InBox(st.box, x)) /\ (OneBox(st.box, x) => OneBox(f.box, x))
  BY <1>2, <1>3 DEF HasMore
<1>5. \A x : x # b => Kinds(f, busy, x) = Kinds(st, busy, x)
  BY <1>3, <1>4 DEF Kinds, Counted
<1>6. Placed(f, busy, dangle, lax, hand)
  BY <1>3, <1>4, <1>5 DEF Placed, b
<1>7. QED
  BY <1>6 DEF f, b

\* A queue is deleted with the messages left in it.
LEMMA PlacedDrop ==
    ASSUME NEW st, NEW busy, NEW dangle, Placed(st, busy, dangle, {}, {}), NEW h \in Locals,
           NEW f, f = [st EXCEPT !.leaked = @ \cup (Delivery!ToSet(st.box[h]) \ {Delivery!Shared}), !.box[h] = <<>>]
    PROVE  Placed(f, busy, dangle, {}, {}) /\ f.box = [st.box EXCEPT ![h] = <<>>]
<1> DEFINE Left(x) == \E k \in DOMAIN st.box[h] : st.box[h][k] = x
<1>1. st \in Stores /\ st.box \in [Locals -> Seq(Int)] /\ st.box[h] \in Seq(Int)
  BY DEF Placed, Stores
<1>2. \A x : (x \in Delivery!ToSet(st.box[h]) <=> Left(x)) /\ (Left(x) => x \in Int)
  BY <1>1 DEF Delivery!ToSet
<1>3. [st.box EXCEPT ![h] = <<>>] \in [Locals -> Seq(Int)]
  BY <1>1
<1>4. /\ f \in Stores /\ f.made = st.made /\ f.held = st.held /\ f.harbor = st.harbor
      /\ f.freed = st.freed /\ f.twice = st.twice /\ f.box = [st.box EXCEPT ![h] = <<>>]
      /\ \A x : x \in f.leaked <=> x \in st.leaked \/ (Left(x) /\ x # Delivery!Shared)
  BY <1>1, <1>2, <1>3 DEF Stores
<1>5. f.box[h] = <<>> /\ \A g \in Locals : g # h => f.box[g] = st.box[g]
  BY <1>1, <1>4
<1>6. DOMAIN f.box[h] = {}
  BY <1>5
<1>7. \A x : /\ OneBox(st.box, x) => OneBox(f.box, x)
             /\ InBox(f.box, x) => InBox(st.box, x)
             /\ InBox(st.box, x) => InBox(f.box, x) \/ Left(x)
             /\ Left(x) => InBox(st.box, x)
  BY <1>5, <1>6 DEF OneBox, InBox
<1>8. ASSUME NEW x, OneBox(st.box, x), Left(x) PROVE ~InBox(f.box, x)
  <2>1. SUFFICES ASSUME InBox(f.box, x) PROVE FALSE
    OBVIOUS
  <2>2. PICK k \in DOMAIN st.box[h] : st.box[h][k] = x
    BY <1>8
  <2>3. PICK g \in Locals : \E l \in DOMAIN f.box[g] : f.box[g][l] = x
    BY <2>1 DEF InBox
  <2>4. g # h /\ \E l \in DOMAIN st.box[g] : st.box[g][l] = x
    BY <1>5, <1>6, <2>3
  <2>5. QED
    BY <1>8, <2>2, <2>4 DEF OneBox
<1> HIDE DEF Left
<1>9. ASSUME NEW x \in Int, x # Delivery!Shared, ~Left(x)
      PROVE  Kinds(f, busy, x) = Kinds(st, busy, x)
  BY <1>4, <1>7, <1>9 DEF Kinds, Counted
<1>10. ASSUME NEW x \in Int, x # Delivery!Shared, Left(x)
       PROVE  x \in 1 .. st.made /\ x \notin dangle /\ Kinds(f, busy, x) = 1
  <2>1. OneBox(st.box, x) /\ (x \notin 1 .. st.made => Kinds(st, busy, x) = 0)
    BY <1>10 DEF Placed
  <2>2. x \in dangle => x \in st.held /\ x \in st.freed /\ Kinds(st, busy, x) = 2
    BY <1>10 DEF Placed
  <2>3. InBox(st.box, x)
    BY <1>7, <1>10
  <2>4. Kinds(st, busy, x) # 0
    BY <2>3 DEF Kinds, Counted
  <2>5. x \in st.held /\ x \in st.freed => Kinds(st, busy, x) # 2
    BY <2>3 DEF Kinds, Counted
  <2>6. x \in 1 .. st.made /\ x \notin dangle
    BY <2>1, <2>2, <2>4, <2>5
  <2>7. Kinds(st, busy, x) = 1
    BY <1>10, <2>6 DEF Placed
  <2>8. ~InBox(f.box, x) /\ x \in f.leaked
    BY <1>4, <1>8, <1>10, <2>1
  <2>9. Kinds(f, busy, x) = 1
    BY <1>4, <2>3, <2>7, <2>8 DEF Kinds, Counted
  <2>10. QED
    BY <2>6, <2>9
<1>11. Placed(f, busy, dangle, {}, {})
  BY <1>4, <1>7, <1>9, <1>10 DEF Placed
<1>12. QED
  BY <1>4, <1>11

\* A buffer is not followed any longer.
LEMMA PlacedLax ==
    ASSUME NEW st, NEW busy, NEW dangle, Placed(st, busy, dangle, {}, {}), NEW b \in 1 .. st.made
    PROVE  Placed(st, busy, dangle, {b}, {})
BY DEF Placed

\* _filter_args leaves the buffer to send in the worker's hand.
LEMMA PlacedArgs ==
    ASSUME NEW st, NEW busy, NEW dangle, Placed(st, busy, dangle, {}, {}),
           NEW b \in st.held, b \notin dangle, b \in 1 .. st.made, NEW dontcopy,
           NEW args, args = Delivery!FilterArgs(st, b, dontcopy)
    PROVE  /\ Placed(args.st, busy, dangle, {}, {args.b})
           /\ args.b \in 1 .. args.st.made
<1>1. CASE dontcopy
  <2>1. args.st = [st EXCEPT !.held = @ \ {b}] /\ args.b = b
    BY <1>1 DEF Delivery!FilterArgs
  <2>2. args.st.made = st.made
    BY <2>1 DEF Placed, Stores
  <2>3. Placed([st EXCEPT !.held = @ \ {b}], busy, dangle, {}, {b})
    BY PlacedTake
  <2>4. QED
    BY <2>1, <2>2, <2>3
<1>2. CASE ~dontcopy
  <2>1. args.st = [st EXCEPT !.made = Delivery!New(st)] /\ args.b = Delivery!New(st)
    BY <1>2 DEF Delivery!FilterArgs
  <2>2. args.st.made = args.b /\ st.made \in Nat /\ args.b = st.made + 1
    BY <2>1 DEF Placed, Stores, Delivery!New
  <2>3. Placed([st EXCEPT !.made = Delivery!New(st)], busy, dangle, {}, {} \cup {Delivery!New(st)})
    BY PlacedCopy
  <2>4. {} \cup {Delivery!New(st)} = {args.b}
    BY <2>1
  <2>5. QED
    BY <2>1, <2>2, <2>3, <2>4
<1>3. QED
  BY <1>1, <1>2

\* send to a handle.
LEMMA PlacedSend ==
    ASSUME NEW st, NEW busy, NEW dangle, Placed(st, busy, dangle, {}, {}), Contexts,
           NEW b \in st.held, b \notin dangle, b \in 1 .. st.made, NEW dontcopy, NEW h
    PROVE  Placed(Delivery!SendTo(st, h, b, dontcopy), busy, dangle, {}, {})
<1> DEFINE args == Delivery!FilterArgs(st, b, dontcopy)
<1>1. Delivery!SendTo(st, h, b, dontcopy) =
        IF h = Delivery!Nothing THEN [args.st EXCEPT !.leaked = @ \cup {args.b}] ELSE Delivery!Deliver(args.st, h, args.b)
  BY DEF Delivery!SendTo
<1>2. Placed(args.st, busy, dangle, {}, {args.b}) /\ args.b \in 1 .. args.st.made
  BY PlacedArgs
<1> HIDE DEF args
<1>3. {args.b} \ {args.b} = {} /\ args.b \in {args.b}
  OBVIOUS
<1>4. CASE h = Delivery!Nothing
  <2>1. Placed([args.st EXCEPT !.leaked = @ \cup {args.b}], busy, dangle, {}, {args.b} \ {args.b})
    BY <1>2, <1>3, PlacedAdd
  <2>2. QED
    BY <1>1, <1>3, <1>4, <2>1
<1>5. CASE h # Delivery!Nothing
  <2>1. Placed(Delivery!Deliver(args.st, h, args.b), busy, dangle, {}, {args.b} \ {args.b})
    BY <1>2, <1>3, PlacedDeliver
  <2>2. QED
    BY <1>1, <1>3, <1>5, <2>1
<1>6. QED
  BY <1>4, <1>5

\* The inductive invariant of Delivery.
DeliveryInv ==
    /\ Placed(store, current, dangling, crossed, {})
    /\ Contexts
    /\ \A h \in Locals : Len(store.box[h]) <= MaxPending

\* What is left to show of a step that leaves the contexts alone.
LEMMA DeliveryStep ==
    ASSUME DeliveryInv, Delivery!Bounded, UNCHANGED Delivery!context,
           Placed(store', current', dangling', crossed', {})
    PROVE  DeliveryInv'
BY DEF DeliveryInv, Contexts, Delivery!context, Delivery!Bounded

\* What a caller can name.
LEMMA CallerFacts ==
    ASSUME DeliveryInv, crossed = {}, NEW b \in 1 .. MaxBuffers, b \in store.held \ dangling
    PROVE  /\ Placed(store, current, dangling, {}, {}) /\ Contexts
           /\ b \in store.held /\ b \notin dangling /\ b \in 1 .. store.made
<1>1. Placed(store, current, dangling, {}, {}) /\ Contexts
  BY DEF DeliveryInv
<1>2. b \in Int /\ b # Delivery!Shared /\ Kinds(store, current, b) # 0
  BY LocalsAssumption, SharedIs DEF Kinds, Counted
<1>3. QED
  BY <1>1, <1>2 DEF Placed

\* A caller makes a buffer.
LEMMA MallocStep == ASSUME DeliveryInv, crossed = {}, Delivery!Malloc PROVE DeliveryInv'
<1> DEFINE n == Delivery!New(store)
           made == [store EXCEPT !.made = n]
<1>1. Placed(store, current, dangling, {}, {}) /\ store \in Stores
  BY DEF DeliveryInv, Placed
<1>2. Placed(made, current, dangling, {}, {} \cup {n})
  BY <1>1, PlacedCopy
<1>3. n \in 1 .. made.made
  BY <1>1 DEF Stores, Delivery!New
<1>4. store' = [made EXCEPT !.held = @ \cup {n}]
  BY <1>1 DEF Delivery!Malloc, Stores
<1> HIDE DEF made, n
<1>5. n \in {} \cup {n} /\ ({} \cup {n}) \ {n} = {}
  OBVIOUS
<1>6. Placed([made EXCEPT !.held = @ \cup {n}], current, dangling, {}, ({} \cup {n}) \ {n})
  BY <1>2, <1>3, <1>5, PlacedAdd
<1>7. Placed(store', current', dangling', crossed', {})
  BY <1>4, <1>5, <1>6 DEF Delivery!Malloc, Delivery!callbacks
<1>8. QED
  BY <1>7, DeliveryStep DEF Delivery!Malloc

\* A command to the harbor is made and goes there.
LEMMA RegisterStep == ASSUME DeliveryInv, crossed = {}, Delivery!RegisterGlobal PROVE DeliveryInv'
<1> DEFINE n == Delivery!New(store)
           made == [store EXCEPT !.made = n]
<1>1. Placed(store, current, dangling, {}, {}) /\ store \in Stores
  BY DEF DeliveryInv, Placed
<1>2. Placed(made, current, dangling, {}, {} \cup {n})
  BY <1>1, PlacedCopy
<1>3. n \in 1 .. made.made
  BY <1>1 DEF Stores, Delivery!New
<1>4. store' = [made EXCEPT !.harbor = @ \cup {n}]
  BY DEF Delivery!RegisterGlobal, Delivery!ToHarbor
<1> HIDE DEF made, n
<1>5. n \in {} \cup {n} /\ ({} \cup {n}) \ {n} = {}
  OBVIOUS
<1>6. Placed([made EXCEPT !.harbor = @ \cup {n}], current, dangling, {}, ({} \cup {n}) \ {n})
  BY <1>2, <1>3, <1>5, PlacedAdd
<1>7. Placed(store', current', dangling', crossed', {})
  BY <1>4, <1>5, <1>6 DEF Delivery!RegisterGlobal, Delivery!callbacks
<1>8. QED
  BY <1>7, DeliveryStep DEF Delivery!RegisterGlobal

\* A caller frees what it holds.
LEMMA FreeOwnStep ==
    ASSUME DeliveryInv, crossed = {}, NEW b \in 1 .. MaxBuffers, Delivery!FreeOwn(b) PROVE DeliveryInv'
<1> DEFINE taken == [store EXCEPT !.held = @ \ {b}]
<1>1. /\ b \in store.held \ dangling
      /\ store' = Delivery!Free(taken, b)
      /\ UNCHANGED <<registered, cb, named, current, crossed, dangling>>
  BY DEF Delivery!FreeOwn, Delivery!context, Delivery!callbacks
<1>2. /\ Placed(store, current, dangling, {}, {}) /\ Contexts
      /\ b \in store.held /\ b \notin dangling /\ b \in 1 .. store.made
  BY <1>1, CallerFacts
<1>3. Placed(taken, current, dangling, {}, {b})
  BY <1>2, PlacedTake
<1>4. b \in 1 .. taken.made /\ taken.box = store.box
  BY <1>2 DEF Placed, Stores
<1>5. Delivery!Free(taken, b).box = taken.box
  <2>1. taken \in Stores
    BY <1>3 DEF Placed
  <2>2. QED
    BY <2>1 DEF Delivery!Free, Stores
<1> HIDE DEF taken
<1>6. Placed(Delivery!Free(taken, b), current, dangling, {}, {b} \ {b})
  BY <1>3, <1>4, PlacedFree
<1>7. Placed(store', current', dangling', crossed', {})
  BY <1>1, <1>6
<1>8. QED
  BY <1>1, <1>4, <1>5, <1>7 DEF DeliveryInv, Contexts

\* A caller sends to a handle.
LEMMA SendStep ==
    ASSUME DeliveryInv, crossed = {}, NEW b \in 1 .. MaxBuffers, NEW dontcopy, NEW h, Delivery!Send(h, b, dontcopy)
    PROVE  DeliveryInv'
<1>1. b \in store.held \ dangling /\ store' = Delivery!SendTo(store, h, b, dontcopy)
  BY DEF Delivery!Send
<1>2. /\ Placed(store, current, dangling, {}, {}) /\ Contexts
      /\ b \in store.held /\ b \notin dangling /\ b \in 1 .. store.made
  BY <1>1, CallerFacts
<1>3. Placed(Delivery!SendTo(store, h, b, dontcopy), current, dangling, {}, {})
  BY <1>2, PlacedSend
<1>4. Placed(store', current', dangling', crossed', {})
  BY <1>1, <1>3 DEF Delivery!Send, Delivery!callbacks
<1>5. QED
  BY <1>4, DeliveryStep DEF Delivery!Send

\* A caller sends to a local name: without one, the copy that was not made yet cannot be
\* freed, and the caller's own is.
LEMMA SendByNameStep ==
    ASSUME DeliveryInv, crossed = {}, NEW b \in 1 .. MaxBuffers, NEW dontcopy, Delivery!SendByName(b, dontcopy)
    PROVE  DeliveryInv'
<1> DEFINE taken == [store EXCEPT !.held = @ \ {b}]
<1>0. SUFFICES Placed(store', current', dangling', crossed', {})
  BY DeliveryStep DEF Delivery!SendByName
<1>1. b \in store.held \ dangling /\ UNCHANGED <<current, crossed>>
  BY DEF Delivery!SendByName, Delivery!callbacks
<1>2. /\ Placed(store, current, dangling, {}, {}) /\ Contexts
      /\ b \in store.held /\ b \notin dangling /\ b \in 1 .. store.made
  BY <1>1, CallerFacts
<1>3. CASE named # Delivery!Nothing
  <2>1. store' = Delivery!SendTo(store, named, b, dontcopy) /\ dangling' = dangling
    BY <1>3 DEF Delivery!SendByName
  <2>2. Placed(Delivery!SendTo(store, named, b, dontcopy), current, dangling, {}, {})
    BY <1>2, PlacedSend
  <2>3. QED
    BY <1>1, <2>1, <2>2
<1>4. CASE named = Delivery!Nothing /\ dontcopy
  <2>1. store' = Delivery!Log(Delivery!Free(taken, b)) /\ dangling' = dangling
    BY <1>4 DEF Delivery!SendByName
  <2>2. Placed(taken, current, dangling, {}, {b})
    BY <1>2, PlacedTake
  <2>3. b \in 1 .. taken.made
    BY <1>2 DEF Placed, Stores
  <2> HIDE DEF taken
  <2>4. Placed(Delivery!Free(taken, b), current, dangling, {}, {b} \ {b})
    BY <2>2, <2>3, PlacedFree
  <2>5. Placed(Delivery!Log(Delivery!Free(taken, b)), current, dangling, {}, {b} \ {b})
    BY <1>2, <2>4, PlacedLog
  <2>6. {b} \ {b} = {}
    OBVIOUS
  <2>7. QED
    BY <1>1, <2>1, <2>5, <2>6
<1>5. CASE named = Delivery!Nothing /\ ~dontcopy
  <2>1. store' = Delivery!Log(Delivery!Free(store, b)) /\ dangling' = dangling \cup {b}
    BY <1>5 DEF Delivery!SendByName
  <2>2. Placed(Delivery!Free(store, b), current, dangling \cup {b}, {}, {})
    BY <1>2, PlacedDangle
  <2>3. Placed(Delivery!Log(Delivery!Free(store, b)), current, dangling \cup {b}, {}, {})
    BY <1>2, <2>2, PlacedLog
  <2>4. QED
    BY <1>1, <2>1, <2>3
<1>6. QED
  BY <1>3, <1>4, <1>5

\* A caller sends to a name of any node.
LEMMA SendByGlobalNameStep ==
    ASSUME DeliveryInv, crossed = {}, NEW b \in 1 .. MaxBuffers, NEW dontcopy, Delivery!SendByGlobalName(b, dontcopy)
    PROVE  DeliveryInv'
<1> DEFINE args == Delivery!FilterArgs(store, b, dontcopy)
<1>1. b \in store.held \ dangling /\ store' = [args.st EXCEPT !.harbor = @ \cup {args.b}]
  BY DEF Delivery!SendByGlobalName, Delivery!ToHarbor
<1>2. /\ Placed(store, current, dangling, {}, {}) /\ Contexts
      /\ b \in store.held /\ b \notin dangling /\ b \in 1 .. store.made
  BY <1>1, CallerFacts
<1>3. Placed(args.st, current, dangling, {}, {args.b}) /\ args.b \in 1 .. args.st.made
  BY <1>2, PlacedArgs
<1> HIDE DEF args
<1>4. args.b \in {args.b} /\ {args.b} \ {args.b} = {}
  OBVIOUS
<1>5. Placed([args.st EXCEPT !.harbor = @ \cup {args.b}], current, dangling, {}, {args.b} \ {args.b})
  BY <1>3, <1>4, PlacedAdd
<1>6. Placed(store', current', dangling', crossed', {})
  BY <1>1, <1>4, <1>5 DEF Delivery!SendByGlobalName, Delivery!callbacks
<1>7. QED
  BY <1>6, DeliveryStep DEF Delivery!SendByGlobalName

\* A group sends a shared message.
LEMMA CastStep ==
    ASSUME DeliveryInv, crossed = {}, NEW h \in Locals, Delivery!Cast(h) PROVE DeliveryInv'
<1>1. Placed(store, current, dangling, {}, {})
  BY DEF DeliveryInv
<1>2. Placed(Delivery!Push(store, h, Delivery!Shared), current, dangling, {}, {})
  BY <1>1, PlacedCast
<1>3. Placed(store', current', dangling', crossed', {})
  BY <1>2 DEF Delivery!Cast, Delivery!callbacks
<1>4. QED
  BY <1>3, DeliveryStep DEF Delivery!Cast

\* What the worker has at hand is freed, a shared message too.
LEMMA PlacedFreed ==
    ASSUME NEW st, NEW busy, NEW dangle, NEW b, Placed(st, busy, dangle, {}, {b} \ {Delivery!Shared}),
           b # Delivery!Shared => b \in 1 .. st.made
    PROVE  Placed(Delivery!Free(st, b), busy, dangle, {}, {})
<1>1. CASE b = Delivery!Shared
  <2> DEFINE f == Delivery!Free(st, Delivery!Shared)
  <2>1. st \in Stores /\ Delivery!Shared \in Int /\ {b} \ {Delivery!Shared} = {}
    BY <1>1, SharedIs DEF Placed
  <2>2. f = [st EXCEPT !.freed = @ \cup {Delivery!Shared},
                       !.twice = @ \cup ({Delivery!Shared} \cap (st.freed \ {Delivery!Shared}))]
    BY DEF Delivery!Free
  <2>3. {Delivery!Shared} \cap (st.freed \ {Delivery!Shared}) = {}
    OBVIOUS
  <2>4. /\ f \in Stores /\ f.made = st.made /\ f.held = st.held /\ f.box = st.box /\ f.harbor = st.harbor
        /\ f.leaked = st.leaked /\ f.freed = st.freed \cup {Delivery!Shared} /\ f.twice = st.twice
    BY <2>1, <2>2, <2>3, ZenonT(40) DEF Stores
  <2> HIDE DEF f
  <2>5. \A x : x # Delivery!Shared => Kinds(f, busy, x) = Kinds(st, busy, x)
    BY <2>4 DEF Kinds
  <2>6. Placed(st, busy, dangle, {}, {})
    BY <2>1
  <2>7. Placed(f, busy, dangle, {}, {})
    BY <2>4, <2>5, <2>6 DEF Placed
  <2>8. QED
    BY <1>1, <2>7 DEF f
<1>2. CASE b # Delivery!Shared
  <2>1. {b} \ {Delivery!Shared} = {b} /\ {b} \ {b} = {} /\ b \in {b}
    BY <1>2
  <2>2. Placed(Delivery!Free(st, b), busy, dangle, {}, {b} \ {b})
    BY <1>2, <2>1, PlacedFree
  <2>3. QED
    BY <2>1, <2>2
<1>3. QED
  BY <1>1, <1>2

\* A worker drops a message to a context without a callback.
LEMMA DiscardStep ==
    ASSUME DeliveryInv, crossed = {}, NEW h \in Locals, Delivery!Discard(h) PROVE DeliveryInv'
<1> DEFINE b == Head(store.box[h])
           popped == Delivery!Pop(h)
<1>0. SUFFICES Placed(store', current', dangling', crossed', {})
  BY DeliveryStep DEF Delivery!Discard
<1>1. Placed(store, current, dangling, {}, {}) /\ Contexts /\ store.box[h] # <<>>
  BY DEF DeliveryInv, Delivery!Discard
<1>2. popped = [store EXCEPT !.box[h] = Tail(@)]
  BY DEF Delivery!Pop
<1>3. store' = Delivery!Log(Delivery!Free(popped, b)) /\ UNCHANGED <<current, dangling, crossed>>
  BY DEF Delivery!Discard, Delivery!callbacks
<1> HIDE DEF b, popped
<1>4. /\ Placed(popped, current, dangling, {}, {b} \ {Delivery!Shared})
      /\ popped.made = store.made
      /\ b # Delivery!Shared => b \in 1 .. store.made
  BY <1>1, <1>2, PlacedPop DEF b
<1>5. Placed(Delivery!Free(popped, b), current, dangling, {}, {})
  BY <1>4, PlacedFreed
<1>6. Placed(Delivery!Log(Delivery!Free(popped, b)), current, dangling, {}, {})
  BY <1>1, <1>5, PlacedLog
<1>7. QED
  BY <1>3, <1>6

\* A worker takes a message and begins its callback.
LEMMA DispatchStep ==
    ASSUME DeliveryInv, crossed = {}, NEW h \in Locals, Delivery!Dispatch(h) PROVE DeliveryInv'
<1> DEFINE b == Head(store.box[h])
           popped == Delivery!Pop(h)
           shared == Delivery!Shared
<1>1. Placed(store, current, dangling, {}, {}) /\ Contexts /\ store.box[h] # <<>>
  BY DEF DeliveryInv, Delivery!Dispatch
<1>2. popped = [store EXCEPT !.box[h] = Tail(@)]
  BY DEF Delivery!Pop
<1>3. /\ store' = popped /\ current' = [current EXCEPT ![h] = @ \cup {b}]
      /\ UNCHANGED <<registered, named, crossed, dangling>>
  BY DEF Delivery!Dispatch, Delivery!context
<1> HIDE DEF b, popped
<1>4. Placed(popped, current, dangling, {}, {b} \ {shared}) /\ b \in Int
  BY <1>1, <1>2, PlacedPop DEF b
<1>a. popped.box = [store.box EXCEPT ![h] = Tail(@)]
  BY <1>1, <1>2 DEF Placed, Stores
<1>5. b \in {b} \ {shared} \/ b = shared
  OBVIOUS
<1>6. Placed(popped, [current EXCEPT ![h] = @ \cup {b}], dangling, {}, ({b} \ {shared}) \ {b})
  <2> HIDE DEF shared
  <2>1. QED
    BY <1>4, <1>5, PlacedCall DEF shared
<1>7. ({b} \ {shared}) \ {b} = {}
  OBVIOUS
<1>8. Placed(store', current', dangling', crossed', {})
  BY <1>3, <1>6, <1>7
<1>9. \A g \in Locals : Len(store'.box[g]) <= MaxPending
  <2>1. store.box \in [Locals -> Seq(Int)] /\ \A g \in Locals : Len(store.box[g]) <= MaxPending
    BY <1>1 DEF Placed, Stores, DeliveryInv
  <2>2. Len(Tail(store.box[h])) <= Len(store.box[h])
    BY <1>1, <2>1, TailBox
  <2>3. Len(Tail(store.box[h])) \in Nat /\ Len(store.box[h]) \in Nat
    BY <1>1, <2>1
  <2>4. Len(Tail(store.box[h])) <= MaxPending
    BY <2>1, <2>2, <2>3, LocalsAssumption
  <2>5. QED
    BY <1>3, <1>a, <2>1, <2>4
<1>10. QED
  BY <1>1, <1>3, <1>8, <1>9 DEF DeliveryInv, Contexts

\* What a callback that returns leaves in the worker's hand.
LEMMA DoneFacts ==
    ASSUME DeliveryInv, crossed = {}, NEW h \in Locals, NEW b \in current[h], Delivery!Done(h, b)
    PROVE  /\ Placed(store, current', dangling, {}, {b} \ {Delivery!Shared})
           /\ b \in Int /\ (b # Delivery!Shared => b \in 1 .. store.made)
           /\ Contexts /\ dangling' = dangling
           /\ Placed(store', current', dangling, crossed', {}) => DeliveryInv'
<1>1. Placed(store, current, dangling, {}, {}) /\ Contexts
  BY DEF DeliveryInv
<1>2. current' = [current EXCEPT ![h] = @ \ {b}] /\ dangling' = dangling
  BY DEF Delivery!Done
<1>3. /\ Placed(store, [current EXCEPT ![h] = @ \ {b}], dangling, {}, {b} \ {Delivery!Shared})
      /\ b \in Int /\ (b # Delivery!Shared => b \in 1 .. store.made)
  BY <1>1, PlacedDone
<1>4. Placed(store', current', dangling, crossed', {}) => DeliveryInv'
  <2>1. SUFFICES ASSUME Placed(store', current', dangling, crossed', {}) PROVE DeliveryInv'
    OBVIOUS
  <2>2. Placed(store', current', dangling', crossed', {})
    BY <1>2, <2>1
  <2>3. QED
    BY <2>2, DeliveryStep DEF Delivery!Done
<1>5. QED
  BY <1>1, <1>2, <1>3, <1>4

\* A callback returns 0: the message is freed, or sent on.
LEMMA ReturnStep ==
    ASSUME DeliveryInv, crossed = {}, NEW h \in Locals, NEW b, Delivery!Return(h, b) PROVE DeliveryInv'
<1>1. /\ b \in current[h] /\ b # Delivery!Shared /\ Delivery!Done(h, b) /\ crossed' = {}
      /\ store' = IF forward[h] = Delivery!Nothing THEN Delivery!Free(store, b)
                  ELSE Delivery!Deliver(store, forward[h], b)
  BY DEF Delivery!Return, Delivery!Forwarding
<1>2. /\ Placed(store, current', dangling, {}, {b} \ {Delivery!Shared}) /\ b \in 1 .. store.made
      /\ Contexts /\ (Placed(store', current', dangling, crossed', {}) => DeliveryInv')
  BY <1>1, DoneFacts
<1>3. {b} \ {Delivery!Shared} = {b} /\ b \in {b} /\ {b} \ {b} = {}
  BY <1>1
<1>4. Placed(store, current', dangling, {}, {b})
  BY <1>2, <1>3
<1>5. Placed(Delivery!Free(store, b), current', dangling, {}, {b} \ {b})
  BY <1>2, <1>3, <1>4, PlacedFree
<1>6. Placed(Delivery!Deliver(store, forward[h], b), current', dangling, {}, {b} \ {b})
  BY <1>2, <1>3, <1>4, PlacedDeliver
<1>7. Placed(store', current', dangling, crossed', {})
  BY <1>1, <1>3, <1>5, <1>6
<1>8. QED
  BY <1>2, <1>7

\* A callback keeps its message, which another one's forward may send on as well.
LEMMA ReserveStep ==
    ASSUME DeliveryInv, crossed = {}, NEW h \in Locals, NEW b, Delivery!Reserve(h, b) PROVE DeliveryInv'
<1> DEFINE mine == [store EXCEPT !.held = @ \cup {b}]
<1>1. /\ b \in current[h] /\ b # Delivery!Shared /\ Delivery!Done(h, b)
      /\ store' = IF forward[h] = Delivery!Nothing THEN mine ELSE Delivery!Deliver(mine, forward[h], b)
      /\ crossed' = IF forward[h] = Delivery!Nothing THEN {} ELSE {b}
  BY DEF Delivery!Reserve, Delivery!Forwarding
<1>2. /\ Placed(store, current', dangling, {}, {b} \ {Delivery!Shared}) /\ b \in 1 .. store.made
      /\ Contexts /\ (Placed(store', current', dangling, crossed', {}) => DeliveryInv')
  BY <1>1, DoneFacts
<1>3. {b} \ {Delivery!Shared} = {b} /\ b \in {b} /\ {b} \ {b} = {} /\ {} \ {b} = {}
  BY <1>1
<1>4. Placed(store, current', dangling, {}, {b})
  BY <1>2, <1>3
<1>5. mine.made = store.made
  BY <1>4 DEF Placed, Stores
<1> HIDE DEF mine
<1>6. Placed(mine, current', dangling, {}, {b} \ {b})
  BY <1>2, <1>3, <1>4, PlacedAdd DEF mine
<1>7. Placed(mine, current', dangling, {}, {})
  BY <1>3, <1>6
<1>8. b \in 1 .. mine.made
  BY <1>2, <1>5
<1>9. Placed(mine, current', dangling, {b}, {})
  BY <1>7, <1>8, PlacedLax
<1>10. Placed(Delivery!Deliver(mine, forward[h], b), current', dangling, {b}, {} \ {b})
  BY <1>2, <1>3, <1>8, <1>9, PlacedDeliver
<1>11. Placed(store', current', dangling, crossed', {})
  BY <1>1, <1>3, <1>7, <1>10
<1>12. QED
  BY <1>2, <1>11

\* A callback of a shared message returns: a copy is sent on.
LEMMA ReturnSharedStep ==
    ASSUME DeliveryInv, crossed = {}, NEW h \in Locals, Delivery!ReturnShared(h) PROVE DeliveryInv'
<1> DEFINE n == Delivery!New(store)
           made == [store EXCEPT !.made = n]
           shared == Delivery!Shared
<1>1. /\ shared \in current[h] /\ Delivery!Done(h, shared) /\ crossed' = {}
      /\ store' = IF forward[h] = Delivery!Nothing THEN store ELSE Delivery!Deliver(made, forward[h], n)
  BY DEF Delivery!ReturnShared, Delivery!Forwarding
<1>2. /\ Placed(store, current', dangling, {}, {shared} \ {shared})
      /\ Contexts /\ (Placed(store', current', dangling, crossed', {}) => DeliveryInv')
  BY <1>1, DoneFacts
<1>3. {shared} \ {shared} = {} /\ n \in {} \cup {n} /\ ({} \cup {n}) \ {n} = {}
  OBVIOUS
<1>4. Placed(store, current', dangling, {}, {})
  BY <1>2, <1>3
<1>5. n \in 1 .. made.made
  BY <1>4 DEF Placed, Stores, Delivery!New
<1>6. Placed(made, current', dangling, {}, {} \cup {n})
  BY <1>4, PlacedCopy
<1> HIDE DEF made, n
<1>7. Placed(Delivery!Deliver(made, forward[h], n), current', dangling, {}, ({} \cup {n}) \ {n})
  BY <1>2, <1>3, <1>5, <1>6, PlacedDeliver
<1>8. Placed(store', current', dangling, crossed', {})
  BY <1>1, <1>3, <1>4, <1>7
<1>9. QED
  BY <1>2, <1>8

\* A queue is dropped.
LEMMA DropStep ==
    ASSUME DeliveryInv, crossed = {}, NEW h \in Locals, Delivery!Drop(h) PROVE DeliveryInv'
<1>1. Placed(store, current, dangling, {}, {}) /\ Contexts /\ \A g \in Locals : Len(store.box[g]) <= MaxPending
  BY DEF DeliveryInv
<1>2. /\ store' = [store EXCEPT !.leaked = @ \cup (Delivery!ToSet(store.box[h]) \ {Delivery!Shared}), !.box[h] = <<>>]
      /\ UNCHANGED <<registered, named, current, dangling, crossed>>
  BY DEF Delivery!Drop, Delivery!context, Delivery!callbacks
<1>3. Placed(store', current, dangling, {}, {}) /\ store'.box = [store.box EXCEPT ![h] = <<>>]
  BY <1>1, <1>2, PlacedDrop, ZenonT(40)
<1>4. \A g \in Locals : Len(store'.box[g]) <= MaxPending
  <2>1. store.box \in [Locals -> Seq(Int)]
    BY <1>1 DEF Placed, Stores
  <2>2. Len(<<>>) <= MaxPending
    BY LocalsAssumption
  <2>3. QED
    BY <1>1, <1>3, <2>1, <2>2
<1>5. QED
  BY <1>1, <1>2, <1>3, <1>4 DEF DeliveryInv, Contexts

\* Every step of Delivery keeps the invariant.
LEMMA DeliveryNext == ASSUME DeliveryInv, [Delivery!Next]_delivery PROVE DeliveryInv'
<1>1. CASE UNCHANGED delivery
  BY <1>1 DEF delivery, DeliveryInv, Contexts
<1>2. CASE Delivery!Next
  <2>1. crossed = {} /\ Delivery!Step
    BY <1>2 DEF Delivery!Next
  <2>2. CASE Delivery!Malloc \/ Delivery!RegisterGlobal
    BY <2>1, <2>2, MallocStep, RegisterStep
  <2>3. CASE \E b \in 1 .. MaxBuffers : Delivery!FreeOwn(b)
    BY <2>1, <2>3, FreeOwnStep
  <2>4. CASE \E b \in 1 .. MaxBuffers, dontcopy \in BOOLEAN :
               Delivery!SendByName(b, dontcopy) \/ Delivery!SendByGlobalName(b, dontcopy)
    BY <2>1, <2>4, SendByNameStep, SendByGlobalNameStep
  <2>5. CASE \E b \in 1 .. MaxBuffers, dontcopy \in BOOLEAN, h \in Locals \cup {Remote, Delivery!Nothing} :
               Delivery!Send(h, b, dontcopy)
    BY <2>1, <2>5, SendStep
  <2>6. CASE \E h \in Locals : Delivery!Cast(h) \/ Delivery!Discard(h) \/ Delivery!Dispatch(h) \/ Delivery!ReturnShared(h)
    BY <2>1, <2>6, CastStep, DiscardStep, DispatchStep, ReturnSharedStep
  <2>7. CASE \E h \in Locals : \E b : Delivery!Return(h, b) \/ Delivery!Reserve(h, b)
    BY <2>1, <2>7, ReturnStep, ReserveStep
  <2>8. CASE \E h \in Locals : \E b, d : Delivery!Forward(h, b, d)
    BY <2>8 DEF Delivery!Forward, Delivery!context, DeliveryInv, Contexts
  <2>9. CASE \E h \in Locals : Delivery!Name(h) \/ Delivery!Retire(h)
    BY <2>9, SharedIs DEF Delivery!Name, Delivery!Retire, Delivery!callbacks, DeliveryInv, Contexts
  <2>10. CASE \E h \in Locals : Delivery!Drop(h)
    BY <2>1, <2>10, DropStep
  <2>11. QED
    BY <2>1, <2>2, <2>3, <2>4, <2>5, <2>6, <2>7, <2>8, <2>9, <2>10 DEF Delivery!Step
<1>3. QED
  BY <1>1, <1>2

\* What is freed on the way of a message is the message.
LEMMA FreedByLog ==
    ASSUME NEW st, "freed" \in DOMAIN st
    PROVE  Delivery!Log(st).freed = st.freed /\ "freed" \in DOMAIN Delivery!Log(st)
BY DEF Delivery!Log, Delivery!Push

LEMMA FreedByFree ==
    ASSUME NEW st, "freed" \in DOMAIN st, NEW b
    PROVE  Delivery!Free(st, b).freed = st.freed \cup {b} /\ "freed" \in DOMAIN Delivery!Free(st, b)
BY DEF Delivery!Free

LEMMA FreedByDeliver ==
    ASSUME NEW st, "freed" \in DOMAIN st, NEW h, NEW b
    PROVE  Delivery!Deliver(st, h, b).freed \subseteq st.freed \cup {b}
<1>1. /\ Delivery!Free(st, b).freed = st.freed \cup {b}
      /\ Delivery!Log(Delivery!Free(st, b)).freed = Delivery!Free(st, b).freed
  BY FreedByFree, FreedByLog
<1>2. Delivery!ToHarbor(st, b).freed = st.freed /\ Delivery!Push(st, h, b).freed = st.freed
  BY DEF Delivery!ToHarbor, Delivery!Push
<1>3. QED
  BY <1>1, <1>2 DEF Delivery!Deliver

LEMMA FreedByFilter ==
    ASSUME NEW st, "freed" \in DOMAIN st, NEW b, NEW dontcopy
    PROVE  LET args == Delivery!FilterArgs(st, b, dontcopy) IN
           args.st.freed = st.freed /\ "freed" \in DOMAIN args.st /\ args.b \in {b, Delivery!New(st)}
BY DEF Delivery!FilterArgs

LEMMA FreedBySendTo ==
    ASSUME NEW st, "freed" \in DOMAIN st, NEW h, NEW b, NEW dontcopy
    PROVE  Delivery!SendTo(st, h, b, dontcopy).freed \subseteq st.freed \cup {b, Delivery!New(st)}
<1> DEFINE args == Delivery!FilterArgs(st, b, dontcopy)
<1>1. args.st.freed = st.freed /\ "freed" \in DOMAIN args.st /\ args.b \in {b, Delivery!New(st)}
  BY FreedByFilter
<1>2. Delivery!SendTo(st, h, b, dontcopy) =
        IF h = Delivery!Nothing THEN [args.st EXCEPT !.leaked = @ \cup {args.b}]
        ELSE Delivery!Deliver(args.st, h, args.b)
  BY DEF Delivery!SendTo
<1> HIDE DEF args
<1>3. Delivery!Deliver(args.st, h, args.b).freed \subseteq args.st.freed \cup {args.b}
  BY <1>1, FreedByDeliver
<1>4. [args.st EXCEPT !.leaked = @ \cup {args.b}].freed = args.st.freed
  BY <1>1
<1>5. QED
  BY <1>1, <1>2, <1>3, <1>4

LEMMA FreedByForwarding ==
    ASSUME NEW st, "freed" \in DOMAIN st, NEW h, NEW b
    PROVE  Delivery!Forwarding(st, h, b).freed \subseteq st.freed \cup {b}
BY FreedByDeliver DEF Delivery!Forwarding

\* A shared message is freed here by a context without a callback only.
SharedFreed == Delivery!Shared \in store.freed => cb # Locals

LEMMA SharedFreedNext ==
    ASSUME DeliveryInv, SharedFreed, [Delivery!Next]_delivery PROVE SharedFreed'
<1>1. /\ store \in Stores /\ "freed" \in DOMAIN store /\ Delivery!Shared = -1 /\ store.made \in Nat
      /\ Delivery!New(store) \in 1 .. store.made + 1 /\ Delivery!New(store) # Delivery!Shared
      /\ store.held \subseteq Int
  BY SharedIs DEF DeliveryInv, Placed, Stores, Delivery!New
<1>2. \A b \in 1 .. MaxBuffers : b # Delivery!Shared
  BY SharedIs
<1>3. CASE UNCHANGED delivery
  BY <1>3 DEF delivery, Delivery!context, SharedFreed
<1>4. ASSUME Delivery!Next PROVE UNCHANGED cb
  BY <1>4 DEF Delivery!Next, Delivery!Step, Delivery!Malloc, Delivery!RegisterGlobal, Delivery!FreeOwn,
              Delivery!SendByName, Delivery!SendByGlobalName, Delivery!Send, Delivery!Cast, Delivery!Discard,
              Delivery!Dispatch, Delivery!ReturnShared, Delivery!Return, Delivery!Reserve, Delivery!Forward,
              Delivery!Name, Delivery!Retire, Delivery!Drop, Delivery!Done, Delivery!context
<1>5. CASE Delivery!Malloc \/ Delivery!RegisterGlobal
  <2>1. store'.freed = store.freed
    BY <1>1, <1>5 DEF Delivery!Malloc, Delivery!RegisterGlobal, Delivery!ToHarbor
  <2>2. UNCHANGED cb
    BY <1>5 DEF Delivery!Malloc, Delivery!RegisterGlobal, Delivery!context
  <2>3. QED
    BY <2>1, <2>2 DEF SharedFreed
<1>6. ASSUME NEW b \in 1 .. MaxBuffers, Delivery!FreeOwn(b) PROVE Delivery!Shared \in store'.freed => Delivery!Shared \in store.freed
  <2> DEFINE st == [store EXCEPT !.held = @ \ {b}]
  <2>1. store' = Delivery!Free(st, b) /\ st.freed = store.freed /\ "freed" \in DOMAIN st
    BY <1>1, <1>6 DEF Delivery!FreeOwn
  <2> HIDE DEF st
  <2>2. QED
    BY <1>2, <2>1, FreedByFree
<1>7. ASSUME NEW b \in 1 .. MaxBuffers, NEW dontcopy \in BOOLEAN, NEW h, Delivery!Send(h, b, dontcopy)
      PROVE  Delivery!Shared \in store'.freed => Delivery!Shared \in store.freed
  BY <1>1, <1>2, <1>7, FreedBySendTo DEF Delivery!Send
<1>8. ASSUME NEW b \in 1 .. MaxBuffers, NEW dontcopy \in BOOLEAN, Delivery!SendByName(b, dontcopy)
      PROVE  Delivery!Shared \in store'.freed => Delivery!Shared \in store.freed
  <2> DEFINE st == IF dontcopy THEN [store EXCEPT !.held = @ \ {b}] ELSE store
  <2>1. store' = Delivery!SendTo(store, named, b, dontcopy) \/ store' = Delivery!Log(Delivery!Free(st, b))
    BY <1>8 DEF Delivery!SendByName
  <2>2. st.freed = store.freed /\ "freed" \in DOMAIN st
    BY <1>1
  <2> HIDE DEF st
  <2>3. Delivery!Log(Delivery!Free(st, b)).freed = st.freed \cup {b}
    BY <2>2, FreedByFree, FreedByLog
  <2>4. Delivery!SendTo(store, named, b, dontcopy).freed \subseteq store.freed \cup {b, Delivery!New(store)}
    BY <1>1, FreedBySendTo
  <2>5. QED
    BY <1>1, <1>2, <2>1, <2>2, <2>3, <2>4
<1>9. ASSUME NEW b \in 1 .. MaxBuffers, NEW dontcopy \in BOOLEAN, Delivery!SendByGlobalName(b, dontcopy)
      PROVE  Delivery!Shared \in store'.freed => Delivery!Shared \in store.freed
  <2> DEFINE args == Delivery!FilterArgs(store, b, dontcopy)
  <2>1. store' = Delivery!ToHarbor(args.st, args.b)
    BY <1>9 DEF Delivery!SendByGlobalName
  <2>2. args.st.freed = store.freed /\ "freed" \in DOMAIN args.st
    BY <1>1, FreedByFilter
  <2> HIDE DEF args
  <2>3. QED
    BY <2>1, <2>2 DEF Delivery!ToHarbor
<1>10. ASSUME NEW h \in Locals, Delivery!Cast(h) \/ Delivery!Dispatch(h) \/ Delivery!Drop(h)
       PROVE  Delivery!Shared \in store'.freed => Delivery!Shared \in store.freed
  BY <1>1, <1>10 DEF Delivery!Cast, Delivery!Dispatch, Delivery!Drop, Delivery!Push, Delivery!Pop
<1>11. ASSUME NEW h \in Locals, Delivery!ReturnShared(h)
       PROVE  Delivery!Shared \in store'.freed => Delivery!Shared \in store.freed
  <2> DEFINE st == [store EXCEPT !.made = Delivery!New(store)]
  <2>1. store' = store \/ store' = Delivery!Forwarding(st, h, Delivery!New(store))
    BY <1>11 DEF Delivery!ReturnShared
  <2>2. st.freed = store.freed /\ "freed" \in DOMAIN st
    BY <1>1
  <2> HIDE DEF st
  <2>3. Delivery!Forwarding(st, h, Delivery!New(store)).freed \subseteq st.freed \cup {Delivery!New(store)}
    BY <2>2, FreedByForwarding
  <2>4. QED
    BY <1>1, <2>1, <2>2, <2>3
<1>12. ASSUME NEW h \in Locals, NEW b, Delivery!Return(h, b) \/ Delivery!Reserve(h, b)
       PROVE  Delivery!Shared \in store'.freed => Delivery!Shared \in store.freed
  <2> DEFINE st == [store EXCEPT !.held = @ \cup {b}]
  <2>1. /\ b # Delivery!Shared
        /\ \/ store' = Delivery!Free(store, b) \/ store' = Delivery!Forwarding(store, h, b)
           \/ store' = Delivery!Forwarding(st, h, b)
    BY <1>12 DEF Delivery!Return, Delivery!Reserve
  <2>2. st.freed = store.freed /\ "freed" \in DOMAIN st
    BY <1>1
  <2> HIDE DEF st
  <2>3. /\ Delivery!Free(store, b).freed = store.freed \cup {b}
        /\ Delivery!Forwarding(store, h, b).freed \subseteq store.freed \cup {b}
        /\ Delivery!Forwarding(st, h, b).freed \subseteq st.freed \cup {b}
    BY <1>1, <2>2, FreedByFree, FreedByForwarding
  <2>4. QED
    BY <2>1, <2>2, <2>3
<1>13. ASSUME NEW h \in Locals, Delivery!Discard(h) PROVE cb' # Locals
  BY <1>13 DEF Delivery!Discard, Delivery!context
<1>14. ASSUME NEW h \in Locals, \/ Delivery!Name(h) \/ Delivery!Retire(h) \/ \E b, d : Delivery!Forward(h, b, d)
       PROVE  store' = store
  BY <1>14 DEF Delivery!Name, Delivery!Retire, Delivery!Forward
<1>15. CASE Delivery!Next
  <2>1. UNCHANGED cb
    BY <1>4, <1>15
  <2>2. Delivery!Step
    BY <1>15 DEF Delivery!Next
  <2>3. \/ SharedFreed' \/ cb' # Locals \/ store' = store
        \/ Delivery!Shared \in store'.freed => Delivery!Shared \in store.freed
    BY <2>2, <1>5, <1>6, <1>7, <1>8, <1>9, <1>10, <1>11, <1>12, <1>13, <1>14 DEF Delivery!Step
  <2>4. QED
    BY <2>1, <2>3 DEF SharedFreed
<1>16. QED
  BY <1>3, <1>15

\* It holds before the first buffer is made.
LEMMA DeliveryInit == ASSUME Delivery!Init PROVE DeliveryInv
<1>1. /\ store.made = 0 /\ store.held = {} /\ store.harbor = {} /\ store.freed = {} /\ store.twice = {}
      /\ store.leaked = {} /\ store.box = [h \in Locals |-> <<>>] /\ store \in Stores
  <2>1. [h \in Locals |-> <<>>] \in [Locals -> Seq(Int)]
    OBVIOUS
  <2>2. QED
    BY <2>1 DEF Delivery!Init, Stores
<1>2. current = [h \in Locals |-> {}] /\ dangling = {} /\ crossed = {} /\ registered = Locals /\ named = 0
  BY SharedIs DEF Delivery!Init
<1>3. \A x : ~InCall(current, x) /\ ~InBox(store.box, x) /\ OneCall(current, x) /\ OneBox(store.box, x)
  BY <1>1, <1>2 DEF InCall, InBox, OneCall, OneBox
<1>4. \A x : Kinds(store, current, x) = 0
  BY <1>1, <1>3 DEF Kinds, Counted
<1>5. current \in [Locals -> SUBSET Int] /\ 1 .. store.made = {}
  BY <1>1, <1>2
<1>6. Placed(store, current, dangling, crossed, {})
  BY <1>1, <1>2, <1>3, <1>4, <1>5 DEF Placed
<1>7. \A h \in Locals : Len(store.box[h]) <= MaxPending
  <2>1. Len(<<>>) <= MaxPending
    BY LocalsAssumption
  <2>2. QED
    BY <1>1, <2>1
<1>8. QED
  BY <1>2, <1>6, <1>7 DEF DeliveryInv, Contexts

\* Delivery counts as FiniteSets does.
LEMMA DeCardinality == \A S : Delivery!Cardinality(S) = Cardinality(S)
BY DEF Delivery!Cardinality, Cardinality

\* A set with at most one element is counted by its having one.
LEMMA CountedSet ==
    ASSUME NEW S, \A x, y \in S : x = y
    PROVE  Cardinality(S) = Counted(S # {})
<1>1. CASE S = {}
  BY <1>1, FS_EmptySet DEF Counted
<1>2. CASE S # {}
  <2>1. PICK x \in S : TRUE
    BY <1>2
  <2>2. S = {x}
    BY <2>1
  <2>3. Cardinality({x}) = 1
    BY FS_Singleton
  <2>4. QED
    BY <1>2, <2>2, <2>3 DEF Counted
<1>3. QED
  BY <1>1, <1>2

\* In the invariant's states a buffer has as many owners as kinds of places.
LEMMA OwnersAreKinds ==
    ASSUME DeliveryInv, NEW b \in Int, b # Delivery!Shared, b \notin crossed
    PROVE  Delivery!Owners(b) = Kinds(store, current, b)
<1> DEFINE Calls == {h \in Locals : b \in current[h]}
           Places == {p \in Locals \X (1 .. MaxPending) :
                        p[2] \in DOMAIN store.box[p[1]] /\ store.box[p[1]][p[2]] = b}
<1>1. /\ OneCall(current, b) /\ OneBox(store.box, b)
      /\ store.box \in [Locals -> Seq(Int)] /\ \A h \in Locals : Len(store.box[h]) <= MaxPending
  BY DEF DeliveryInv, Placed, Stores
<1>2. Cardinality(Calls) = Counted(InCall(current, b))
  <2>1. \A x, y \in Calls : x = y
    BY <1>1 DEF OneCall
  <2>2. Calls # {} <=> InCall(current, b)
    BY DEF InCall
  <2> HIDE DEF Calls
  <2>3. Cardinality(Calls) = Counted(Calls # {})
    BY <2>1, CountedSet
  <2>4. QED
    BY <2>2, <2>3 DEF Counted
<1>3. Cardinality(Places) = Counted(InBox(store.box, b))
  <2>1. ASSUME NEW p \in Places, NEW q \in Places PROVE p = q
    <3>1. /\ p \in Locals \X (1 .. MaxPending) /\ q \in Locals \X (1 .. MaxPending)
          /\ p[2] \in DOMAIN store.box[p[1]] /\ store.box[p[1]][p[2]] = b
          /\ q[2] \in DOMAIN store.box[q[1]] /\ store.box[q[1]][q[2]] = b
      BY <2>1
    <3>2. p[1] \in Locals /\ q[1] \in Locals /\ p = <<p[1], p[2]>> /\ q = <<q[1], q[2]>>
      BY <3>1
    <3>3. p[1] = q[1] /\ p[2] = q[2]
      BY <1>1, <3>1, <3>2 DEF OneBox
    <3>4. QED
      BY <3>2, <3>3
  <2>2. ASSUME NEW h \in Locals, NEW k \in DOMAIN store.box[h], store.box[h][k] = b PROVE <<h, k>> \in Places
    <3>1. store.box[h] \in Seq(Int) /\ Len(store.box[h]) <= MaxPending
      BY <1>1
    <3>2. k \in 1 .. Len(store.box[h]) /\ Len(store.box[h]) \in Nat
      BY <3>1
    <3>3. k \in 1 .. MaxPending
      BY <3>1, <3>2, LocalsAssumption
    <3>4. QED
      BY <2>2, <3>3
  <2>3. InBox(store.box, b) => Places # {}
    BY <2>2 DEF InBox
  <2>4. Places # {} => InBox(store.box, b)
    <3>1. SUFFICES ASSUME NEW p \in Places PROVE InBox(store.box, b)
      OBVIOUS
    <3>2. p[1] \in Locals /\ p[2] \in DOMAIN store.box[p[1]] /\ store.box[p[1]][p[2]] = b
      OBVIOUS
    <3>3. QED
      BY <3>2 DEF InBox
  <2> HIDE DEF Places
  <2>5. Cardinality(Places) = Counted(Places # {})
    BY <2>1, CountedSet
  <2>6. QED
    BY <2>3, <2>4, <2>5 DEF Counted
<1>4. Delivery!Owners(b) =
        Counted(b \in store.held) + Counted(b \in store.harbor) + Counted(b \in store.freed) + Counted(b \in store.leaked)
          + Delivery!Cardinality(Calls) + Delivery!Cardinality(Places)
  <2> HIDE DEF Calls, Places
  <2>1. QED
    BY DEF Delivery!Owners, Counted, Calls, Places
<1> HIDE DEF Calls, Places
<1>5. QED
  BY <1>2, <1>3, <1>4, DeCardinality DEF Kinds

\* The invariant says what is promised of the owners.
LEMMA DeliveryOwners == ASSUME DeliveryInv, SharedFreed PROVE OneOwner
<1>1. Placed(store, current, dangling, crossed, {})
  BY DEF DeliveryInv
<1>2. store.twice \subseteq crossed
  BY <1>1 DEF Placed
<1>3. ASSUME NEW b \in 1 .. store.made \ crossed PROVE Delivery!Owners(b) = IF b \in dangling THEN 2 ELSE 1
  <2>1. b \in Int /\ b # Delivery!Shared /\ b \notin crossed /\ b \in 1 .. store.made
    BY <1>1, SharedIs DEF Placed, Stores
  <2>2. Delivery!Owners(b) = Kinds(store, current, b)
    BY <2>1, OwnersAreKinds
  <2>3. Kinds(store, current, b) = IF b \in dangling THEN 2 ELSE 1
    BY <1>1, <2>1 DEF Placed
  <2>4. QED
    BY <2>2, <2>3
<1>4. QED
  BY <1>2, <1>3 DEF OneOwner, Delivery!OneOwner, SharedFreed

\* The invariant holds.
LEMMA DeliveryInvariant == Spec => [](DeliveryInv /\ SharedFreed)
<1>1. Init => DeliveryInv /\ SharedFreed
  BY DeliveryInit DEF Init, Delivery!Init, SharedFreed
<1>2. DeliveryInv /\ SharedFreed /\ [Next]_vars => DeliveryInv' /\ SharedFreed'
  BY DeliveryNext, SharedFreedNext DEF Next, vars
<1>3. QED
  BY <1>1, <1>2, PTL DEF Spec

\* Whatever is copied, forwarded, reserved, logged or dropped while contexts come and go, a
\* message's data has one owner at any time and is freed once, with the three exceptions the
\* property names, the last of them the multicast message that a context without a callback
\* frees: for any contexts, buffers and queues (dispatcher.h:40-43, 61-151, 182-230).
THEOREM OwnerCorrect == Spec => []OneOwner
<1>1. DeliveryInv /\ SharedFreed => OneOwner
  BY DeliveryOwners
<1>2. QED
  BY <1>1, DeliveryInvariant, PTL
=============================================================================
