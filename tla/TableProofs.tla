---------------------------- MODULE TableProofs ----------------------------
(***************************************************************************)
(* Tables: the read-write lock under which the threads look handles up     *)
(* (RWLock); the library's maps (Maps), of which the hash table holds the  *)
(* groups; and its long integers (LongIntegers), tables of components.     *)
(*                                                                         *)
(* The lock is proved for every finite set of threads: its types, the      *)
(* inductive invariant LockInv, mutual exclusion, and that it implements   *)
(* the abstract lock of ReadersWriters.                                    *)
(*                                                                         *)
(* A slot of the hash table holds the keys that hash to it, once each.  A  *)
(* search of the tree goes deeper with every turn and so ends; one of the  *)
(* skip list comes to the last node before its key on every level.         *)
(*                                                                         *)
(* What a loop over the components carries is what the components above    *)
(* still have to make up: Balanced says it once for the sum, the           *)
(* difference, the product and the quotient; Unbalanced says the same of   *)
(* what is too small, for the last borrow and the order.  A remainder is   *)
(* kept by every bit that is read, weighed with its power of two.          *)
(***************************************************************************)
EXTENDS RWLock, Maps, LongIntegers, Induction, FiniteSetTheorems

-----------------------------------------------------------------------------
(* The lock *)

\* The counted readers are a set of threads, so finite: their number is a
\* natural number, zero exactly when there are none.
LEMMA CountedFinite ==
    /\ IsFiniteSet(Counted)
    /\ Cardinality(Counted) \in Nat
    /\ Cardinality(Counted) = 0 <=> Counted = {}
<1>1. Counted \subseteq Threads
  BY DEF Counted
<1>2. IsFiniteSet(Counted)
  BY <1>1, ThreadsAssumption, FS_Subset
<1>3. QED
  BY <1>2, FS_CardinalityType, FS_EmptySet

\* Types and invariant hold before any thread calls.
LEMMA InitLockInv == LockInit => LockTypeOK /\ LockInv
<1> SUFFICES ASSUME LockInit PROVE LockTypeOK /\ LockInv
  OBVIOUS
<1>1. Counted = {} /\ Writers = {} /\ WritersIn = {}
  BY DEF LockInit, Counted, Writers, WritersIn
<1>2. Cardinality(Counted) = 0
  BY <1>1, FS_EmptySet
<1>3. QED
  BY <1>1, <1>2 DEF LockInit, LockTypeOK, LockInv, Labels

\* A reader that takes its count back was counted, so read stays a number.
LEMMA TypeStep == LockTypeOK /\ LockInv /\ [LockNext]_lockVars => LockTypeOK'
<1> SUFFICES ASSUME LockTypeOK, LockInv, [LockNext]_lockVars PROVE LockTypeOK'
  OBVIOUS
<1> USE DEF LockTypeOK, Labels, Goto
<1>1. ASSUME NEW t \in Threads, RBack(t) \/ RUnlock(t) PROVE LockTypeOK'
  <2>1. t \in Counted
    BY <1>1 DEF RBack, RUnlock, Counted
  <2>2. read \in Nat \ {0}
    BY <2>1, CountedFinite DEF LockInv
  <2>3. QED
    BY <1>1, <2>2 DEF RBack, RUnlock
<1>2. ASSUME NEW t \in Threads, Call(t) PROVE LockTypeOK'
  BY <1>2 DEF Call, CallRLock, CallWLock
<1>3. ASSUME NEW t \in Threads, RSpin(t) \/ RAdd(t) \/ RCheck(t) PROVE LockTypeOK'
  BY <1>3 DEF RSpin, RAdd, RCheck
<1>4. ASSUME NEW t \in Threads, WSet(t) \/ WDrain(t) \/ WUnlock(t) PROVE LockTypeOK'
  BY <1>4 DEF WSet, WDrain, WUnlock
<1>5. CASE UNCHANGED lockVars
  BY <1>5 DEF lockVars
<1>6. QED
  BY <1>1, <1>2, <1>3, <1>4, <1>5 DEF LockNext, Step

\* What each step does to the three sets the invariant speaks about.
LEMMA LockInvStep == LockTypeOK /\ LockInv /\ [LockNext]_lockVars => LockInv'
<1> SUFFICES ASSUME LockTypeOK, LockInv, [LockNext]_lockVars PROVE LockInv'
  OBVIOUS
<1> USE DEF LockTypeOK, Goto
<1>1. ASSUME Counted' = Counted, Writers' = Writers, WritersIn' = WritersIn,
             Readers' \subseteq Readers, read' = read, write' = write
      PROVE LockInv'
  BY <1>1 DEF LockInv
<1>2. ASSUME NEW t \in Threads, CallRLock(t) PROVE LockInv'
  BY <1>1, <1>2 DEF CallRLock, Counted, Writers, WritersIn, Readers
<1>3. ASSUME NEW t \in Threads, CallWLock(t) PROVE LockInv'
  BY <1>1, <1>3 DEF CallWLock, Counted, Writers, WritersIn, Readers
<1>4. ASSUME NEW t \in Threads, RSpin(t) PROVE LockInv'
  BY <1>1, <1>4 DEF RSpin, Counted, Writers, WritersIn, Readers
<1>5. ASSUME NEW t \in Threads, RAdd(t) PROVE LockInv'
  <2>1. /\ t \notin Counted
        /\ Counted' = Counted \cup {t}
        /\ Writers' = Writers /\ WritersIn' = WritersIn /\ Readers' = Readers
    BY <1>5 DEF RAdd, Counted, Writers, WritersIn, Readers
  <2>2. Cardinality(Counted') = Cardinality(Counted) + 1
    BY <2>1, CountedFinite, FS_AddElement
  <2>3. QED
    BY <1>5, <2>1, <2>2 DEF RAdd, LockInv
<1>6. ASSUME NEW t \in Threads, RCheck(t) PROVE LockInv'
  <2>1. Counted' = Counted /\ Writers' = Writers /\ WritersIn' = WritersIn
    BY <1>6 DEF RCheck, Counted, Writers, WritersIn
  <2>2. CASE write = 0
    <3>1. WritersIn = {}
      BY <2>2 DEF LockInv, Writers, WritersIn
    <3>2. QED
      BY <1>6, <2>1, <3>1 DEF RCheck, LockInv
  <2>3. CASE write # 0
    <3>1. Readers' = Readers
      BY <1>6, <2>3 DEF RCheck, Readers
    <3>2. QED
      BY <1>1, <1>6, <2>1, <3>1 DEF RCheck
  <2>4. QED
    BY <2>2, <2>3
<1>7. ASSUME NEW t \in Threads, RBack(t) \/ RUnlock(t) PROVE LockInv'
  <2>1. /\ t \in Counted
        /\ Counted' = Counted \ {t}
        /\ Writers' = Writers /\ WritersIn' = WritersIn
        /\ Readers' \subseteq Readers
    BY <1>7 DEF RBack, RUnlock, Counted, Writers, WritersIn, Readers
  <2>2. Cardinality(Counted') = Cardinality(Counted) - 1
    BY <2>1, CountedFinite, FS_RemoveElement
  <2>3. read' = read - 1 /\ write' = write
    BY <1>7 DEF RBack, RUnlock
  <2>4. QED
    BY <2>1, <2>2, <2>3 DEF LockInv
<1>8. ASSUME NEW t \in Threads, WSet(t) PROVE LockInv'
  <2>1. /\ Writers = {}
        /\ Writers' = {t}
        /\ Counted' = Counted /\ WritersIn' = WritersIn /\ Readers' = Readers
    BY <1>8 DEF WSet, LockInv, Counted, Writers, WritersIn, Readers
  <2>2. QED
    BY <1>8, <2>1 DEF WSet, LockInv
<1>9. ASSUME NEW t \in Threads, WDrain(t) PROVE LockInv'
  <2>1. Counted = {}
    BY <1>9, CountedFinite DEF WDrain, LockInv
  <2>2. Counted' = Counted /\ Writers' = Writers /\ Readers' = Readers
    BY <1>9 DEF WDrain, Counted, Writers, Readers
  <2>3. Readers' = {}
    BY <2>1, <2>2 DEF Counted, Readers
  <2>4. QED
    BY <1>9, <2>2, <2>3 DEF WDrain, LockInv
<1>10. ASSUME NEW t \in Threads, WUnlock(t) PROVE LockInv'
  <2>1. Writers = {t}
    BY <1>10 DEF WUnlock, LockInv, Writers
  <2>2. Writers' = {} /\ WritersIn' = {} /\ Counted' = Counted
    BY <1>10, <2>1 DEF WUnlock, Writers, WritersIn, Counted
  <2>3. QED
    BY <1>10, <2>2 DEF WUnlock, LockInv, Writers
<1>11. CASE UNCHANGED lockVars
  BY <1>1, <1>11 DEF lockVars, Counted, Writers, WritersIn, Readers
<1>12. QED
  BY <1>2, <1>3, <1>4, <1>5, <1>6, <1>7, <1>8, <1>9, <1>10, <1>11
  DEF LockNext, Step, Call

\* The counters always say what the threads do (rwlock.h:17-58).
THEOREM LockInvariant == LockSpec => [](LockTypeOK /\ LockInv)
<1>1. LockTypeOK /\ LockInv /\ [LockNext]_lockVars => (LockTypeOK /\ LockInv)'
  BY TypeStep, LockInvStep
<1>2. QED
  BY InitLockInv, <1>1, PTL DEF LockSpec

\* The variables of RWLock have their types: read never drops below zero.
THEOREM TypeCorrect == LockSpec => []LockTypeOK
BY LockInvariant, PTL

\* A thread inside a write section is alone, for any number of threads.
THEOREM MutualExclusion == LockSpec => []Exclusion
<1>1. LockInv => Exclusion
  BY DEF LockInv, Exclusion, Writers, WritersIn
<1>2. QED
  BY LockInvariant, <1>1, PTL

\* The invariant makes the step that enters a section an atomic acquisition.
LEMMA StepImplements ==
    LockInv /\ LockTypeOK /\ [LockNext]_lockVars => [RW!Next]_(RW!rwVars)
<1> SUFFICES ASSUME LockInv, LockTypeOK, [LockNext]_lockVars
             PROVE RW!Next \/ UNCHANGED <<Readers, WritersIn>>
  BY DEF RW!rwVars
<1> USE DEF LockTypeOK, Goto, Readers, WritersIn
<1>1. ASSUME NEW t \in Threads,
             \/ Call(t) \/ RSpin(t) \/ RAdd(t) \/ RBack(t) \/ WSet(t)
      PROVE UNCHANGED <<Readers, WritersIn>>
  BY <1>1 DEF Call, CallRLock, CallWLock, RSpin, RAdd, RBack, WSet
<1>2. ASSUME NEW t \in Threads, RCheck(t)
      PROVE RW!BeginRead(t) \/ UNCHANGED <<Readers, WritersIn>>
  <2>1. CASE write # 0
    BY <1>2, <2>1 DEF RCheck
  <2>2. CASE write = 0
    <3>1. WritersIn = {}
      BY <2>2 DEF LockInv, Writers
    <3>2. t \notin Readers /\ Readers' = Readers \cup {t} /\ WritersIn' = WritersIn
      BY <1>2, <2>2 DEF RCheck
    <3>3. QED
      BY <3>1, <3>2 DEF RW!BeginRead
  <2>3. QED
    BY <2>1, <2>2
<1>3. ASSUME NEW t \in Threads, RUnlock(t) PROVE RW!EndRead(t)
  BY <1>3 DEF RUnlock, RW!EndRead
<1>4. ASSUME NEW t \in Threads, WDrain(t) PROVE RW!BeginWrite(t)
  <2>1. Counted = {}
    BY <1>4, CountedFinite DEF WDrain, LockInv
  <2>2. Readers = {}
    BY <2>1 DEF Counted
  <2>3. Writers = {t}
    BY <1>4 DEF WDrain, LockInv, Writers
  <2>4. WritersIn = {}
    BY <1>4, <2>3 DEF WDrain, Writers
  <2>5. WritersIn' = {t} /\ Readers' = Readers
    BY <1>4, <2>4 DEF WDrain
  <2>6. QED
    BY <2>2, <2>4, <2>5 DEF RW!BeginWrite
<1>5. ASSUME NEW t \in Threads, WUnlock(t) PROVE RW!EndWrite(t)
  BY <1>5 DEF WUnlock, RW!EndWrite
<1>6. CASE UNCHANGED lockVars
  BY <1>6 DEF lockVars
<1>7. QED
  BY <1>1, <1>2, <1>3, <1>4, <1>5, <1>6 DEF LockNext, Step, RW!Next

\* RWLock implements the abstract lock: a caller may reason about the
\* sections alone.
THEOREM Implements == LockSpec => ImplementsRW
<1>1. LockInit => RW!Init
  BY DEF LockInit, RW!Init, Readers, WritersIn
<1>2. QED
  BY <1>1, LockInvariant, StepImplements, PTL DEF LockSpec, RW!Spec, ImplementsRW

-----------------------------------------------------------------------------
(* The hash table: every slot is a list of the keys that hash to it. *)

\* Maps, and what a change of one key leaves.
LEMMA BoundIs ==
    ASSUME NEW f, NEW k, NEW v
    PROVE  /\ DOMAIN Bound(f, k, v) = DOMAIN f \cup {k} /\ Bound(f, k, v)[k] = v
           /\ \A x \in DOMAIN f : x # k => Bound(f, k, v)[x] = f[x]
  BY DEF Bound

LEMMA UnboundIs ==
    ASSUME NEW f, NEW k
    PROVE  DOMAIN Unbound(f, k) = DOMAIN f \ {k} /\ \A x \in DOMAIN f : x # k => Unbound(f, k)[x] = f[x]
  BY DEF Unbound

\* A slot without its k-th entry.
LEMMA EntryRemoved ==
    ASSUME NEW S, NEW q \in Seq(S), NEW k \in 1 .. Len(q)
    PROVE  /\ RemoveAt(q, k) \in Seq(S) /\ Len(RemoveAt(q, k)) = Len(q) - 1
           /\ \A i \in 1 .. Len(q) - 1 : RemoveAt(q, k)[i] = IF i < k THEN q[i] ELSE q[i + 1]
  BY CutOut DEF RemoveAt

TableEntry == [key : TableKeys, value : TableValues]

\* q holds what m says of the keys in K, each once.
SlotHolds(q, m, K) ==
    /\ q \in Seq(TableEntry)
    /\ \A i, j \in 1 .. Len(q) : q[i].key = q[j].key => i = j
    /\ \A i \in 1 .. Len(q) : q[i].key \in K /\ q[i].key \in DOMAIN m /\ q[i].value = m[q[i].key]
    /\ \A k \in K : k \in DOMAIN m => \E j \in 1 .. Len(q) : q[j].key = k

LEMMA FirstStops ==
    ASSUME NEW q \in Seq(TableEntry), NEW k
    PROVE  \/ FirstOf(q, k) = 0 /\ \A i \in 1 .. Len(q) : q[i].key # k
           \/ FirstOf(q, k) \in 1 .. Len(q) /\ q[FirstOf(q, k)].key = k
<1> DEFINE I == {i \in 1 .. Len(q) : q[i].key = k}
<1>1. FirstOf(q, k) = IF I # {} THEN CHOOSE x \in I : \A y \in I : x <= y ELSE 0
  BY DEF FirstOf, SelectInSeq, Min
<1>2. CASE I = {}
  BY <1>1, <1>2
<1>3. CASE I # {}
  <2>1. I \in SUBSET Nat
    OBVIOUS
  <2> HIDE DEF I
  <2>2. \E x \in I : \A y \in I : x <= y
    BY <1>3, <2>1, LeastNumber
  <2>3. FirstOf(q, k) \in I
    BY <1>1, <1>3, <2>2
  <2>4. QED
    BY <2>3 DEF I
<1>4. QED
  BY <1>2, <1>3

\* What a look-up finds in the slot of a key.
LEMMA FirstIs ==
    ASSUME NEW q, NEW m, NEW K, SlotHolds(q, m, K), NEW k \in K
    PROVE  IF k \in DOMAIN m
           THEN FirstOf(q, k) \in 1 .. Len(q) /\ q[FirstOf(q, k)].key = k /\ q[FirstOf(q, k)].value = m[k]
           ELSE FirstOf(q, k) = 0
<1>1. /\ q \in Seq(TableEntry)
      /\ \A i \in 1 .. Len(q) : q[i].key \in DOMAIN m /\ q[i].value = m[q[i].key]
      /\ k \in DOMAIN m => \E j \in 1 .. Len(q) : q[j].key = k
  BY DEF SlotHolds
<1>2. \/ FirstOf(q, k) = 0 /\ \A i \in 1 .. Len(q) : q[i].key # k
      \/ FirstOf(q, k) \in 1 .. Len(q) /\ q[FirstOf(q, k)].key = k
  BY <1>1, FirstStops
<1>3. QED
  BY <1>1, <1>2

\* A slot is not concerned with keys that do not hash to it.
LEMMA OtherSlot ==
    ASSUME NEW q, NEW m, NEW w, NEW K, NEW k, SlotHolds(q, m, K), k \notin K,
           DOMAIN w \ {k} = DOMAIN m \ {k}, \A x \in DOMAIN m : x # k => w[x] = m[x]
    PROVE  SlotHolds(q, w, K)
<1>1. \A x \in K : x # k
  OBVIOUS
<1>2. \A x \in K : (x \in DOMAIN w <=> x \in DOMAIN m) /\ (x \in DOMAIN m => w[x] = m[x])
  BY <1>1
<1>3. QED
  BY <1>2 DEF SlotHolds

LEMMA SlotAssigned ==
    ASSUME NEW q, NEW m, NEW K, SlotHolds(q, m, K), NEW k \in K, k \in TableKeys, NEW v \in TableValues
    PROVE  SlotHolds(IF FirstOf(q, k) # 0 THEN [q EXCEPT ![FirstOf(q, k)].value = v]
                     ELSE <<[key |-> k, value |-> v]>> \o q, Bound(m, k, v), K)
<1> DEFINE f == FirstOf(q, k)
           w == Bound(m, k, v)
           e == [key |-> k, value |-> v]
<1>1. /\ q \in Seq(TableEntry) /\ \A i, j \in 1 .. Len(q) : q[i].key = q[j].key => i = j
      /\ \A i \in 1 .. Len(q) : q[i].key \in K /\ q[i].key \in DOMAIN m /\ q[i].value = m[q[i].key]
      /\ \A x \in K : x \in DOMAIN m => \E j \in 1 .. Len(q) : q[j].key = x
  BY DEF SlotHolds
<1>2. DOMAIN w = DOMAIN m \cup {k} /\ w[k] = v /\ \A x \in DOMAIN m : x # k => w[x] = m[x]
  BY DEF Bound
<1>3. e \in TableEntry /\ e.key = k /\ e.value = v
  BY DEF TableEntry
<1>4. \A i \in 1 .. Len(q) : q[i] \in TableEntry
  BY <1>1
<1> HIDE DEF w
<1>5. CASE f # 0
  <2> DEFINE p == [q EXCEPT ![f].value = v]
  <2>1. k \in DOMAIN m /\ f \in 1 .. Len(q) /\ q[f].key = k
    BY <1>5, FirstIs
  <2> HIDE DEF f
  <2>2. Len(p) = Len(q) /\ \A i \in 1 .. Len(q) : p[i] = IF i = f THEN [q[f] EXCEPT !.value = v] ELSE q[i]
    BY <1>1
  <2>3. [q[f] EXCEPT !.value = v] \in TableEntry /\ [q[f] EXCEPT !.value = v].key = k /\ [q[f] EXCEPT !.value = v].value = v
    BY <1>4, <2>1 DEF TableEntry
  <2>4. p \in Seq(TableEntry)
    BY <1>1, <1>4, <2>1, <2>3
  <2>5. \A i \in 1 .. Len(q) : p[i].key = q[i].key /\ p[i].value = IF i = f THEN v ELSE q[i].value
    BY <2>1, <2>2, <2>3
  <2> HIDE DEF p
  <2>6. \A i \in 1 .. Len(q) : p[i].value = w[p[i].key]
    <3> SUFFICES ASSUME NEW i \in 1 .. Len(q) PROVE p[i].value = w[p[i].key]
      OBVIOUS
    <3>1. CASE i = f
      BY <1>2, <2>1, <2>5, <3>1
    <3>2. CASE i # f
      <4>1. q[i].key # k
        BY <1>1, <2>1, <3>2
      <4>2. QED
        BY <1>1, <1>2, <2>5, <3>2, <4>1
    <3>3. QED
      BY <3>1, <3>2
  <2>7. SlotHolds(p, w, K)
    <3>1. \A x \in K : x \in DOMAIN w => \E j \in 1 .. Len(p) : p[j].key = x
      BY <1>1, <1>2, <2>1, <2>2, <2>5
    <3>2. \A i, j \in 1 .. Len(p) : p[i].key = p[j].key => i = j
      BY <1>1, <2>2, <2>5
    <3>3. \A i \in 1 .. Len(p) : p[i].key \in K /\ p[i].key \in DOMAIN w
      BY <1>1, <1>2, <2>2, <2>5
    <3>4. QED
      BY <2>2, <2>4, <2>6, <3>1, <3>2, <3>3 DEF SlotHolds
  <2>8. QED
    BY <1>5, <2>7 DEF f, p, w
<1>6. CASE f = 0
  <2> DEFINE p == <<e>> \o q
  <2>1. k \notin DOMAIN m
    BY <1>6, FirstIs
  <2>2. p \in Seq(TableEntry) /\ Len(p) = Len(q) + 1 /\ \A i \in 1 .. Len(q) + 1 : p[i] = IF i = 1 THEN e ELSE q[i - 1]
    <3> HIDE DEF e
    <3>1. QED
      BY <1>1, <1>3
  <2> HIDE DEF p, e, f
  <2>3. p[1] = e /\ \A i \in 1 .. Len(p) : i = 1 \/ (i - 1 \in 1 .. Len(q) /\ p[i] = q[i - 1])
    BY <1>1, <2>2
  <2>4. \A i \in 1 .. Len(q) : q[i].key # k /\ q[i].key \in DOMAIN w /\ q[i].value = w[q[i].key]
    BY <1>1, <1>2, <2>1
  <2>5. \A i \in 1 .. Len(p) : p[i].key \in K /\ p[i].key \in DOMAIN w /\ p[i].value = w[p[i].key]
    BY <1>1, <1>2, <1>3, <2>3, <2>4
  <2>6. \A i, j \in 1 .. Len(p) : p[i].key = p[j].key => i = j
    <3> SUFFICES ASSUME NEW i \in 1 .. Len(p), NEW j \in 1 .. Len(p), p[i].key = p[j].key PROVE i = j
      OBVIOUS
    <3>1. CASE i = 1 /\ j = 1
      BY <3>1
    <3>2. CASE i = 1 /\ j # 1
      BY <1>3, <2>3, <2>4, <3>2
    <3>3. CASE i # 1 /\ j = 1
      BY <1>3, <2>3, <2>4, <3>3
    <3>4. CASE i # 1 /\ j # 1
      <4>1. i - 1 \in 1 .. Len(q) /\ j - 1 \in 1 .. Len(q) /\ q[i - 1].key = q[j - 1].key
        BY <2>3, <3>4
      <4>2. i - 1 = j - 1
        BY <1>1, <4>1
      <4>3. QED
        BY <4>2
    <3>5. QED
      BY <3>1, <3>2, <3>3, <3>4
  <2>7. \A x \in K : x \in DOMAIN w => \E j \in 1 .. Len(p) : p[j].key = x
    <3> SUFFICES ASSUME NEW x \in K, x \in DOMAIN w PROVE \E j \in 1 .. Len(p) : p[j].key = x
      OBVIOUS
    <3>0. Len(p) = Len(q) + 1 /\ Len(q) \in Nat
      BY <1>1, <2>2
    <3>1. CASE x = k
      <4>1. 1 \in 1 .. Len(p)
        BY <3>0
      <4>2. QED
        BY <1>3, <2>3, <3>1, <4>1
    <3>2. CASE x # k
      <4>1. PICK j \in 1 .. Len(q) : q[j].key = x
        BY <1>1, <1>2, <3>2
      <4>2. j + 1 \in 1 .. Len(p) /\ j + 1 # 1 /\ (j + 1) - 1 = j
        BY <3>0
      <4>3. QED
        BY <2>3, <4>1, <4>2
    <3>3. QED
      BY <3>1, <3>2
  <2>8. SlotHolds(p, w, K)
    BY <2>2, <2>5, <2>6, <2>7 DEF SlotHolds
  <2>9. QED
    BY <1>6, <2>8 DEF p, w, e, f
<1>7. QED
  BY <1>5, <1>6

LEMMA SlotDeleted ==
    ASSUME NEW q, NEW m, NEW K, SlotHolds(q, m, K), NEW k \in K
    PROVE  SlotHolds(IF FirstOf(q, k) # 0 THEN RemoveAt(q, FirstOf(q, k)) ELSE q, Unbound(m, k), K)
<1> DEFINE f == FirstOf(q, k)
           w == Unbound(m, k)
<1>1. /\ q \in Seq(TableEntry) /\ \A i, j \in 1 .. Len(q) : q[i].key = q[j].key => i = j
      /\ \A i \in 1 .. Len(q) : q[i].key \in K /\ q[i].key \in DOMAIN m /\ q[i].value = m[q[i].key]
      /\ \A x \in K : x \in DOMAIN m => \E j \in 1 .. Len(q) : q[j].key = x
  BY DEF SlotHolds
<1>2. DOMAIN w = DOMAIN m \ {k} /\ \A x \in DOMAIN m : x # k => w[x] = m[x]
  BY UnboundIs
<1> HIDE DEF w
<1>3. CASE f = 0
  <2>1. k \notin DOMAIN m
    BY <1>3, FirstIs
  <2>2. SlotHolds(q, w, K)
    BY <1>1, <1>2, <2>1 DEF SlotHolds
  <2>3. QED
    BY <1>3, <2>2 DEF w
<1>4. CASE f # 0
  <2> DEFINE p == RemoveAt(q, f)
             From(i) == IF i < f THEN i ELSE i + 1
  <2>1. f \in 1 .. Len(q) /\ q[f].key = k
    BY <1>4, FirstIs
  <2> HIDE DEF f
  <2>2. p \in Seq(TableEntry) /\ Len(p) = Len(q) - 1 /\ \A i \in 1 .. Len(q) - 1 : p[i] = IF i < f THEN q[i] ELSE q[i + 1]
    BY <1>1, <2>1, EntryRemoved
  <2> HIDE DEF p
  <2>3. Len(q) \in Nat
    BY <1>1
  <2>4. \A i \in 1 .. Len(p) : From(i) \in 1 .. Len(q) /\ From(i) # f /\ p[i] = q[From(i)]
    BY <2>1, <2>2, <2>3
  <2>5. \A i, j \in 1 .. Len(p) : From(i) = From(j) => i = j
    BY <2>1, <2>2, <2>3
  <2>6. \A j \in 1 .. Len(q) : j # f => \E i \in 1 .. Len(p) : From(i) = j
    <3> SUFFICES ASSUME NEW j \in 1 .. Len(q), j # f PROVE \E i \in 1 .. Len(p) : From(i) = j
      OBVIOUS
    <3>1. CASE j < f
      <4>1. j \in 1 .. Len(p) /\ From(j) = j
        BY <2>1, <2>2, <2>3, <3>1
      <4>2. QED
        BY <4>1
    <3>2. CASE j > f
      <4>1. j - 1 \in 1 .. Len(p) /\ From(j - 1) = j
        BY <2>1, <2>2, <2>3, <3>2
      <4>2. QED
        BY <4>1
    <3>3. QED
      BY <2>1, <3>1, <3>2
  <2> HIDE DEF From
  <2>7. \A i \in 1 .. Len(p) : p[i].key \in K /\ p[i].key \in DOMAIN w /\ p[i].value = w[p[i].key]
    <3> SUFFICES ASSUME NEW i \in 1 .. Len(p) PROVE p[i].key \in K /\ p[i].key \in DOMAIN w /\ p[i].value = w[p[i].key]
      OBVIOUS
    <3>1. q[From(i)].key # k
      BY <1>1, <2>1, <2>4
    <3>2. QED
      BY <1>1, <1>2, <2>4, <3>1
  <2>8. \A i, j \in 1 .. Len(p) : p[i].key = p[j].key => i = j
    BY <1>1, <2>4, <2>5
  <2>9. \A x \in K : x \in DOMAIN w => \E j \in 1 .. Len(p) : p[j].key = x
    <3> SUFFICES ASSUME NEW x \in K, x \in DOMAIN w PROVE \E j \in 1 .. Len(p) : p[j].key = x
      OBVIOUS
    <3>1. PICK j \in 1 .. Len(q) : q[j].key = x
      BY <1>1, <1>2
    <3>2. j # f
      BY <1>2, <2>1, <3>1
    <3>3. PICK i \in 1 .. Len(p) : From(i) = j
      BY <2>6, <3>2
    <3>4. QED
      BY <2>4, <3>1, <3>3
  <2>10. SlotHolds(p, w, K)
    BY <2>2, <2>7, <2>8, <2>9 DEF SlotHolds
  <2>11. QED
    BY <1>4, <2>10 DEF p, w, f
<1>5. QED
  BY <1>3, <1>4

-----------------------------------------------------------------------------

\* Powers of two, as the loop of their definition makes them.
LEMMA TwoToIs ==
    /\ TwoTo[0] = 1 /\ \A n \in 0 .. BITWIDTH : TwoTo[n] \in Nat \ {0}
    /\ \A n \in 1 .. BITWIDTH : TwoTo[n] = 2 * TwoTo[n - 1]
<1> DEFINE S == Nat \ {0}
           F == [x \in S |-> 2 * x]
           first == 1
           G(g) == [n \in 0 .. BITWIDTH |-> IF n = 0 THEN 1 ELSE 2 * g[n - 1]]
<1>0. BITWIDTH \in Nat
  BY TableAssumption
<1>1. F \in [S -> S] /\ first \in S /\ \A x \in S : F[x] = 2 * x
  OBVIOUS
<1>2. PICK f \in [0 .. BITWIDTH -> S] : Iterates(f, first, F, BITWIDTH)
  <2> HIDE DEF S, F, first
  <2>1. QED
    BY <1>0, <1>1, Iterated
<1>3. f[0] = 1 /\ \A n \in 1 .. BITWIDTH : f[n] = F[f[n - 1]]
  BY <1>2 DEF Iterates
<1>4. \A n \in 0 .. BITWIDTH : n = 0 \/ (n \in 1 .. BITWIDTH /\ n - 1 \in 0 .. BITWIDTH)
  BY <1>0
<1>5. \A n \in 1 .. BITWIDTH : f[n] = 2 * f[n - 1]
  <2> HIDE DEF S, F, first
  <2>1. \A n \in 1 .. BITWIDTH : f[n - 1] \in S
    BY <1>0, <1>2
  <2>2. QED
    BY <1>1, <1>3, <2>1
<1>6. f = G(f)
  <2> HIDE DEF S, F, first
  <2>1. \A n \in 0 .. BITWIDTH : f[n] = IF n = 0 THEN 1 ELSE 2 * f[n - 1]
    BY <1>0, <1>3, <1>4, <1>5
  <2>2. QED
    BY <2>1
<1>7. TwoTo = CHOOSE g : g = G(g)
  BY DEF TwoTo
<1>8. TwoTo = G(TwoTo)
  <2> HIDE DEF G
  <2>1. QED
    BY <1>6, <1>7
<1>9. TwoTo[0] = 1 /\ \A n \in 1 .. BITWIDTH : TwoTo[n] = 2 * TwoTo[n - 1]
  BY <1>0, <1>4, <1>8
<1> DEFINE T == {n \in Nat : n <= BITWIDTH => TwoTo[n] \in Nat \ {0}}
<1>10. 0 \in T
  BY <1>9
<1>11. ASSUME NEW n \in T PROVE n + 1 \in T
  <2>1. n \in Nat /\ (n <= BITWIDTH => TwoTo[n] \in Nat \ {0})
    OBVIOUS
  <2>2. SUFFICES ASSUME n + 1 <= BITWIDTH PROVE TwoTo[n + 1] \in Nat \ {0}
    BY <2>1
  <2>3. n + 1 \in 1 .. BITWIDTH /\ (n + 1) - 1 = n /\ TwoTo[n] \in Nat \ {0}
    BY <1>0, <2>1, <2>2
  <2>4. TwoTo[n + 1] = 2 * TwoTo[n]
    BY <1>9, <2>3
  <2>5. QED
    BY <2>3, <2>4
<1>12. Nat \subseteq T
  <2>1. T \subseteq Nat
    OBVIOUS
  <2> HIDE DEF T
  <2>2. QED
    BY <1>10, <1>11, <2>1, SetInduction
<1>13. QED
  BY <1>0, <1>9, <1>12

LEMMA TwoToSum == ASSUME NEW r \in 0 .. BITWIDTH PROVE TwoTo[r] * TwoTo[BITWIDTH - r] = TwoTo[BITWIDTH]
<1> DEFINE T == {n \in Nat : n <= BITWIDTH => TwoTo[n] * TwoTo[BITWIDTH - n] = TwoTo[BITWIDTH]}
<1>0. BITWIDTH \in Nat
  BY TableAssumption
<1>1. 0 \in T
  BY <1>0, TwoToIs
<1>2. ASSUME NEW n \in T PROVE n + 1 \in T
  <2>1. n \in Nat /\ (n <= BITWIDTH => TwoTo[n] * TwoTo[BITWIDTH - n] = TwoTo[BITWIDTH])
    OBVIOUS
  <2>2. SUFFICES ASSUME n + 1 <= BITWIDTH PROVE TwoTo[n + 1] * TwoTo[BITWIDTH - (n + 1)] = TwoTo[BITWIDTH]
    BY <2>1
  <2> DEFINE a == TwoTo[n]
             b == TwoTo[BITWIDTH - (n + 1)]
  <2>3. n + 1 \in 1 .. BITWIDTH /\ BITWIDTH - n \in 1 .. BITWIDTH /\ (n + 1) - 1 = n
        /\ (BITWIDTH - n) - 1 = BITWIDTH - (n + 1) /\ n \in 0 .. BITWIDTH /\ BITWIDTH - (n + 1) \in 0 .. BITWIDTH
    BY <1>0, <2>1, <2>2
  <2>4. TwoTo[n + 1] = 2 * a /\ TwoTo[BITWIDTH - n] = 2 * b /\ a \in Nat /\ b \in Nat
    BY <2>3, TwoToIs
  <2>5. a * (2 * b) = TwoTo[BITWIDTH]
    BY <2>1, <2>3, <2>4
  <2> HIDE DEF a, b
  <2>6. (2 * a) * b = a * (2 * b)
    BY <2>4
  <2>7. QED
    BY <2>4, <2>5, <2>6 DEF b
<1>3. Nat \subseteq T
  <2>1. T \subseteq Nat
    OBVIOUS
  <2> HIDE DEF T
  <2>2. QED
    BY <1>1, <1>2, <2>1, SetInduction
<1>4. QED
  BY <1>0, <1>3

\* The hash of a key is the number of a slot.
LEMMA InTable ==
    ASSUME NEW r \in 0 .. BITWIDTH, NEW k \in Nat
    PROVE  MultiHash(r, k) \in 0 .. TwoTo[r] - 1
<1> DEFINE w == TwoTo[BITWIDTH]
           q == TwoTo[BITWIDTH - r]
           p == TwoTo[r]
           x == ((q + 1) * k) % w
<1>0. BITWIDTH \in Nat /\ BITWIDTH - r \in 0 .. BITWIDTH /\ BITWIDTH \in 0 .. BITWIDTH
  BY TableAssumption
<1>1. w \in Nat \ {0} /\ q \in Nat \ {0} /\ p \in Nat \ {0}
  BY <1>0, TwoToIs
<1>2. p * q = w
  BY TwoToSum
<1>3. MultiHash(r, k) = x \div q
  BY DEF MultiHash
<1> DEFINE y == (q + 1) * k
<1> HIDE DEF w, q, p
<1>4. y \in Nat
  BY <1>1
<1> HIDE DEF y
<1>5. y % w \in 0 .. w - 1
  BY <1>1, <1>4, Division
<1>6. x = y % w
  BY DEF y
<1> HIDE DEF x
<1>7. x \in Nat /\ x < q * p
  <2>1. q * p = w
    BY <1>1, <1>2
  <2>2. QED
    BY <1>1, <1>5, <1>6, <2>1
<1>8. x \div q < p
  BY <1>1, <1>7, DivisionBelow
<1>9. x \div q \in Nat
  BY <1>1, <1>7, Division
<1>10. QED
  BY <1>1, <1>3, <1>8, <1>9 DEF p

TableBits == HashBits(TableSize)
TableSlots == 0 .. TwoTo[TableBits] - 1
KeysOf(i) == {k \in TableKeys : MultiHash(TableBits, k) = i}

IsFunction(f) == f = [x \in DOMAIN f |-> f[x]]

HashInv(h, m) ==
    /\ h = [r |-> TableBits, slot |-> h.slot] /\ DOMAIN h.slot = TableSlots /\ IsFunction(h.slot)
    /\ DOMAIN m \subseteq TableKeys
    /\ \A i \in TableSlots : SlotHolds(h.slot[i], m, KeysOf(i))

LEMMA KeysOfIs ==
    ASSUME NEW k \in TableKeys
    PROVE  MultiHash(TableBits, k) \in TableSlots /\ \A i \in TableSlots : k \in KeysOf(i) <=> i = MultiHash(TableBits, k)
<1>1. k \in Nat
  BY TableKeysAssumption
<1>2. TableBits \in 0 .. BITWIDTH
  BY TableAssumption DEF TableBits
<1>3. QED
  BY <1>1, <1>2, InTable DEF KeysOf, TableSlots

\* A change of the slot of k to what the map is to hold there.
LEMMA SlotChanged ==
    ASSUME NEW h, NEW m, NEW w, NEW k \in TableKeys, NEW q, HashInv(h, m),
           DOMAIN w \ {k} = DOMAIN m \ {k}, \A x \in DOMAIN m : x # k => w[x] = m[x],
           SlotHolds(q, w, KeysOf(MultiHash(TableBits, k)))
    PROVE  HashInv([h EXCEPT !.slot[MultiHash(TableBits, k)] = q], w)
<1> DEFINE i == MultiHash(TableBits, k)
           g == [h EXCEPT !.slot[i] = q]
<1>1. /\ h = [r |-> TableBits, slot |-> h.slot] /\ DOMAIN h.slot = TableSlots
      /\ DOMAIN m \subseteq TableKeys /\ \A j \in TableSlots : SlotHolds(h.slot[j], m, KeysOf(j))
  BY DEF HashInv
<1>2. i \in TableSlots /\ \A j \in TableSlots : j # i => k \notin KeysOf(j)
  BY KeysOfIs
<1> HIDE DEF i
<1>3. g = [r |-> TableBits, slot |-> [h.slot EXCEPT ![i] = q]]
  BY <1>1
<1>4. g = [r |-> TableBits, slot |-> g.slot] /\ DOMAIN g.slot = TableSlots /\ \A j \in TableSlots : g.slot[j] = IF j = i THEN q ELSE h.slot[j]
  BY <1>1, <1>2, <1>3
<1>9. IsFunction(g.slot)
  <2>1. g.slot = [h.slot EXCEPT ![i] = q]
    BY <1>3
  <2> HIDE DEF g
  <2>2. QED
    BY <2>1 DEF IsFunction
<1>5. \A j \in TableSlots : SlotHolds(g.slot[j], w, KeysOf(j))
  <2> SUFFICES ASSUME NEW j \in TableSlots PROVE SlotHolds(g.slot[j], w, KeysOf(j))
    OBVIOUS
  <2> HIDE DEF g
  <2>1. CASE j = i
    BY <1>4, <2>1 DEF i
  <2>2. CASE j # i
    <3>1. SlotHolds(h.slot[j], m, KeysOf(j)) /\ k \notin KeysOf(j)
      BY <1>1, <1>2, <2>2
    <3>2. SlotHolds(h.slot[j], w, KeysOf(j))
      BY <3>1, OtherSlot
    <3>3. QED
      BY <1>4, <2>2, <3>2
  <2>3. QED
    BY <2>1, <2>2
<1>6. DOMAIN w \subseteq TableKeys
  BY <1>1
<1> HIDE DEF g
<1>7. HashInv(g, w)
  BY <1>4, <1>5, <1>6, <1>9 DEF HashInv
<1>8. QED
  BY <1>7 DEF g, i

LEMMA SlotFacts ==
    ASSUME NEW h, NEW m, HashInv(h, m), NEW k \in TableKeys
    PROVE  /\ SlotOf(h, k) = MultiHash(TableBits, k) /\ MultiHash(TableBits, k) \in TableSlots /\ k \in KeysOf(MultiHash(TableBits, k))
           /\ SlotHolds(h.slot[MultiHash(TableBits, k)], m, KeysOf(MultiHash(TableBits, k)))
<1>1. h.r = TableBits
  BY DEF HashInv
<1>2. MultiHash(TableBits, k) \in TableSlots /\ k \in KeysOf(MultiHash(TableBits, k))
  BY KeysOfIs
<1>3. QED
  BY <1>1, <1>2 DEF HashInv, SlotOf

LEMMA Assigning ==
    ASSUME NEW h, NEW m, HashInv(h, m), NEW k \in TableKeys, NEW v \in TableValues
    PROVE  HashInv(HashAssign(h, k, v), Bound(m, k, v))
<1> DEFINE i == MultiHash(TableBits, k)
           slot == h.slot[i]
           q == IF FirstOf(slot, k) # 0 THEN [slot EXCEPT ![FirstOf(slot, k)].value = v]
                ELSE <<[key |-> k, value |-> v]>> \o slot
           w == Bound(m, k, v)
<1>1. SlotOf(h, k) = i /\ i \in TableSlots /\ k \in KeysOf(i) /\ SlotHolds(slot, m, KeysOf(i))
  BY SlotFacts
<1>2. HashAssign(h, k, v) = [h EXCEPT !.slot[i] = q]
  BY <1>1 DEF HashAssign, HasKey
<1> HIDE DEF i
<1>3. SlotHolds(q, w, KeysOf(i))
  <2> HIDE DEF slot
  <2>1. QED
    BY <1>1, SlotAssigned
<1>4. DOMAIN w \ {k} = DOMAIN m \ {k} /\ \A x \in DOMAIN m : x # k => w[x] = m[x]
  BY DEF Bound
<1> HIDE DEF q, w
<1>5. HashInv([h EXCEPT !.slot[i] = q], w)
  BY <1>3, <1>4, SlotChanged DEF i
<1>6. QED
  BY <1>2, <1>5 DEF w

LEMMA Deleting ==
    ASSUME NEW h, NEW m, HashInv(h, m), NEW k \in TableKeys
    PROVE  HashInv(HashDelete(h, k), Unbound(m, k))
<1> DEFINE i == MultiHash(TableBits, k)
           slot == h.slot[i]
           q == IF FirstOf(slot, k) # 0 THEN RemoveAt(slot, FirstOf(slot, k)) ELSE slot
           w == Unbound(m, k)
<1>1. SlotOf(h, k) = i /\ i \in TableSlots /\ k \in KeysOf(i) /\ SlotHolds(slot, m, KeysOf(i))
  BY SlotFacts
<1>0. h = [r |-> TableBits, slot |-> h.slot] /\ DOMAIN h.slot = TableSlots /\ h.slot = [j \in DOMAIN h.slot |-> h.slot[j]]
  BY DEF HashInv, IsFunction
<1> HIDE DEF i
<1>2. HashDelete(h, k) = [h EXCEPT !.slot[i] = q]
  <2>1. CASE FirstOf(slot, k) # 0
    BY <1>1, <2>1 DEF HashDelete, HasKey
  <2>2. CASE FirstOf(slot, k) = 0
    <3>1. HashDelete(h, k) = h
      BY <1>1, <2>2 DEF HashDelete, HasKey
    <3>2. [h.slot EXCEPT ![i] = slot] = h.slot
      BY <1>0, <1>1
    <3>3. [h EXCEPT !.slot[i] = slot] = h
      BY <1>0, <3>2
    <3>4. QED
      BY <2>2, <3>1, <3>3
  <2>3. QED
    BY <2>1, <2>2
<1>3. SlotHolds(q, w, KeysOf(i))
  <2> HIDE DEF slot
  <2>1. QED
    BY <1>1, SlotDeleted
<1>4. DOMAIN w \ {k} = DOMAIN m \ {k} /\ \A x \in DOMAIN m : x # k => w[x] = m[x]
  BY DEF Unbound
<1> HIDE DEF q, w
<1>5. HashInv([h EXCEPT !.slot[i] = q], w)
  BY <1>3, <1>4, SlotChanged DEF i
<1>6. QED
  BY <1>2, <1>5 DEF w

\* A table with every slot empty holds nothing.
LEMMA NoneHeld ==
    ASSUME NEW h, h = [r |-> TableBits, slot |-> [i \in TableSlots |-> <<>>]]
    PROVE  HashInv(h, EmptyMap)
<1>1. DOMAIN EmptyMap = {}
  BY DEF EmptyMap
<1>2. \A K : SlotHolds(<<>>, EmptyMap, K)
  BY <1>1 DEF SlotHolds
<1>3. h.slot = [i \in TableSlots |-> <<>>]
  OBVIOUS
<1>4. DOMAIN h.slot = TableSlots /\ IsFunction(h.slot) /\ h = [r |-> TableBits, slot |-> h.slot]
  BY <1>3 DEF IsFunction
<1>5. QED
  BY <1>1, <1>2, <1>3, <1>4 DEF HashInv

LEMMA Clearing == ASSUME NEW h, NEW m, HashInv(h, m) PROVE HashInv(HashClear(h), EmptyMap)
<1>1. h = [r |-> TableBits, slot |-> h.slot] /\ DOMAIN h.slot = TableSlots
  BY DEF HashInv
<1>2. HashClear(h) = [r |-> TableBits, slot |-> [i \in TableSlots |-> <<>>]]
  BY <1>1 DEF HashClear
<1>3. QED
  BY <1>2, NoneHeld

LEMMA HashFinds ==
    ASSUME NEW h, NEW m, HashInv(h, m), NEW k \in TableKeys
    PROVE  HashFind(h, k) = IF k \in DOMAIN m THEN m[k] ELSE Absent
<1> DEFINE i == MultiHash(TableBits, k)
           slot == h.slot[i]
<1>1. SlotOf(h, k) = i /\ k \in KeysOf(i) /\ SlotHolds(slot, m, KeysOf(i))
  BY SlotFacts
<1>2. HashFind(h, k) = IF FirstOf(slot, k) # 0 THEN slot[FirstOf(slot, k)].value ELSE Absent
  BY <1>1 DEF HashFind, HasKey
<1> HIDE DEF i, slot
<1>3. IF k \in DOMAIN m THEN FirstOf(slot, k) \in 1 .. Len(slot) /\ slot[FirstOf(slot, k)].value = m[k]
      ELSE FirstOf(slot, k) = 0
  BY <1>1, FirstIs
<1>4. QED
  BY <1>2, <1>3

LEMMA SlotsInjective ==
    ASSUME NEW h, NEW m, HashInv(h, m), NEW i \in DOMAIN h.slot
    PROVE  IsInjective([j \in DOMAIN h.slot[i] |-> h.slot[i][j].key])
<1>1. SlotHolds(h.slot[i], m, KeysOf(i))
  BY DEF HashInv
<1> DEFINE q == h.slot[i]
<1>2. q \in Seq(TableEntry) /\ DOMAIN q = 1 .. Len(q) /\ \A j, l \in 1 .. Len(q) : q[j].key = q[l].key => j = l
  BY <1>1 DEF SlotHolds
<1> HIDE DEF q
<1>3. IsInjective([j \in DOMAIN q |-> q[j].key])
  BY <1>2 DEF IsInjective
<1>4. QED
  BY <1>3 DEF q
-----------------------------------------------------------------------------
(* The search tree: a search ends within as many turns as there are nodes,  *)
(* because every link leads deeper, and a search for a key of the tree ends  *)
(* at that key.                                                              *)

BstShape(t, m) ==
    /\ t = [root |-> t.root, value |-> m, left |-> t.left, right |-> t.right]
    /\ IsFiniteSet(DOMAIN m) /\ DOMAIN m \subseteq TableKeys
    /\ t.left \in [DOMAIN m -> DOMAIN m \cup {Nil}] /\ t.right \in [DOMAIN m -> DOMAIN m \cup {Nil}]
    /\ IF DOMAIN m = {} THEN t.root = Nil ELSE t.root \in DOMAIN m

\* d is a depth for every node.
Depths(t, m, d) ==
    /\ d \in [DOMAIN m -> Nat] /\ \A x \in DOMAIN m : d[x] < Cardinality(DOMAIN m)
    /\ \A x \in DOMAIN m : /\ t.left[x] # Nil => d[t.left[x]] > d[x]
                           /\ t.right[x] # Nil => d[t.right[x]] > d[x]

BstInv(t, m) ==
    /\ BstShape(t, m) /\ \E d : Depths(t, m, d)
    /\ \A k \in DOMAIN m : BstEnd(t, k) = k

\* The nodes of a search, turn by turn.
SearchTurns(t, k, f, size) == f[0] = t.root /\ \A n \in 1 .. size : f[n] = BstNext(t, f[n - 1], k)

LEMMA NodesAreKeys ==
    ASSUME NEW t, NEW m, BstShape(t, m)
    PROVE  Nil \notin DOMAIN m /\ Cardinality(DOMAIN m) \in Nat /\ DOMAIN t.value = DOMAIN m
<1>1. t = [root |-> t.root, value |-> m, left |-> t.left, right |-> t.right]
      /\ IsFiniteSet(DOMAIN m) /\ DOMAIN m \subseteq TableKeys
  BY DEF BstShape
<1>2. t.value = m
  BY <1>1
<1>3. QED
  BY <1>1, <1>2, FS_CardinalityType, TableKeysAssumption DEF Nil

LEMMA NextIsNode ==
    ASSUME NEW t, NEW m, BstShape(t, m), NEW x \in DOMAIN m, NEW k
    PROVE  BstNext(t, x, k) \in DOMAIN m
<1>1. t.left[x] \in DOMAIN m \cup {Nil} /\ t.right[x] \in DOMAIN m \cup {Nil}
  BY DEF BstShape
<1>2. QED
  BY <1>1 DEF BstNext, BstChild

LEMMA TurnsAreNodes ==
    ASSUME NEW t, NEW m, BstShape(t, m), DOMAIN m # {}, NEW k, NEW f, NEW size \in Nat, SearchTurns(t, k, f, size)
    PROVE  \A n \in 0 .. size : f[n] \in DOMAIN m
<1> DEFINE T == {n \in Nat : n <= size => f[n] \in DOMAIN m}
<1>1. f[0] = t.root /\ \A n \in 1 .. size : f[n] = BstNext(t, f[n - 1], k)
  BY DEF SearchTurns
<1>2. t.root \in DOMAIN m
  BY DEF BstShape
<1>3. 0 \in T
  BY <1>1, <1>2
<1>4. ASSUME NEW n \in T PROVE n + 1 \in T
  <2>1. n \in Nat /\ (n <= size => f[n] \in DOMAIN m)
    OBVIOUS
  <2>2. SUFFICES ASSUME n + 1 <= size PROVE f[n + 1] \in DOMAIN m
    BY <2>1
  <2>3. n + 1 \in 1 .. size /\ (n + 1) - 1 = n /\ f[n] \in DOMAIN m
    BY <2>1, <2>2
  <2>4. f[n + 1] = BstNext(t, f[n], k)
    BY <1>1, <2>3
  <2>5. QED
    BY <2>3, <2>4, NextIsNode
<1>5. Nat \subseteq T
  <2>1. T \subseteq Nat
    OBVIOUS
  <2> HIDE DEF T
  <2>2. QED
    BY <1>3, <1>4, <2>1, SetInduction
<1>6. QED
  BY <1>5

\* The search that BstEnd makes.
LEMMA BstTurns ==
    ASSUME NEW t, NEW m, BstShape(t, m), DOMAIN m # {}, NEW k
    PROVE  \E f : SearchTurns(t, k, f, Cardinality(DOMAIN m)) /\ BstEnd(t, k) = f[Cardinality(DOMAIN m)]
<1> DEFINE S == DOMAIN m
           size == Cardinality(DOMAIN m)
           F == [x \in S |-> BstNext(t, x, k)]
           first == t.root
           G(g) == [n \in 0 .. size |-> IF n = 0 THEN t.root ELSE BstNext(t, g[n - 1], k)]
           turn == CHOOSE g : g = G(g)
<1>0. size \in Nat /\ DOMAIN t.value = S
  BY NodesAreKeys
<1>1. F \in [S -> S] /\ first \in S /\ \A x \in S : F[x] = BstNext(t, x, k)
  <2>1. \A x \in S : BstNext(t, x, k) \in S
    BY NextIsNode
  <2>2. first \in S
    BY DEF BstShape
  <2>3. QED
    BY <2>1, <2>2
<1> HIDE DEF size
<1>2. PICK f \in [0 .. size -> S] : Iterates(f, first, F, size)
  <2> HIDE DEF S, F, first
  <2>1. QED
    BY <1>0, <1>1, Iterated
<1>3. f[0] = t.root /\ \A n \in 1 .. size : f[n] = F[f[n - 1]]
  BY <1>2 DEF Iterates
<1>4. \A n \in 0 .. size : n = 0 \/ (n \in 1 .. size /\ n - 1 \in 0 .. size)
  BY <1>0
<1>5. f = G(f)
  <2> HIDE DEF S, F, first
  <2>1. \A n \in 1 .. size : f[n - 1] \in S
    BY <1>0, <1>2
  <2>2. \A n \in 0 .. size : f[n] = IF n = 0 THEN t.root ELSE BstNext(t, f[n - 1], k)
    BY <1>0, <1>1, <1>3, <1>4, <2>1
  <2>3. QED
    BY <2>2
<1>6. turn = G(turn)
  <2> HIDE DEF G
  <2>1. QED
    BY <1>5
<1>7. BstEnd(t, k) = turn[size]
  BY <1>0 DEF BstEnd, size
<1> HIDE DEF turn
<1>8. turn[0] = t.root /\ \A n \in 1 .. size : turn[n] = BstNext(t, turn[n - 1], k)
  <2>1. 0 \in 0 .. size /\ \A n \in 1 .. size : n \in 0 .. size /\ n # 0
    BY <1>0
  <2>2. QED
    BY <1>6, <2>1
<1>9. QED
  BY <1>7, <1>8 DEF SearchTurns, size

\* It ends at a node where it stays.
LEMMA BstStops ==
    ASSUME NEW t, NEW m, BstShape(t, m), NEW d, Depths(t, m, d), DOMAIN m # {}, NEW k
    PROVE  BstEnd(t, k) \in DOMAIN m /\ BstNext(t, BstEnd(t, k), k) = BstEnd(t, k)
<1> DEFINE size == Cardinality(DOMAIN m)
<1>0. size \in Nat /\ Nil \notin DOMAIN m
  BY NodesAreKeys
<1> HIDE DEF size
<1>1. PICK f : SearchTurns(t, k, f, size) /\ BstEnd(t, k) = f[size]
  BY BstTurns DEF size
<1>2. \A n \in 0 .. size : f[n] \in DOMAIN m
  BY <1>0, <1>1, TurnsAreNodes
<1>3. \A n \in 1 .. size : f[n] = BstNext(t, f[n - 1], k)
  BY <1>1 DEF SearchTurns
<1>4. /\ \A x \in DOMAIN m : d[x] \in Nat /\ d[x] < size
      /\ \A x \in DOMAIN m : (t.left[x] # Nil => d[t.left[x]] > d[x]) /\ (t.right[x] # Nil => d[t.right[x]] > d[x])
  BY DEF Depths, size
<1>5. \A x \in DOMAIN m : BstNext(t, x, k) = x \/ d[BstNext(t, x, k)] > d[x]
  BY <1>4 DEF BstNext, BstChild
<1> DEFINE T == {n \in Nat : n <= size => (BstNext(t, f[n], k) = f[n] \/ d[f[n]] >= n)}
<1>6. 0 \in T
  BY <1>0, <1>2, <1>4
<1>7. ASSUME NEW n \in T PROVE n + 1 \in T
  <2>1. n \in Nat /\ (n <= size => (BstNext(t, f[n], k) = f[n] \/ d[f[n]] >= n))
    OBVIOUS
  <2>2. SUFFICES ASSUME n + 1 <= size PROVE BstNext(t, f[n + 1], k) = f[n + 1] \/ d[f[n + 1]] >= n + 1
    BY <2>1
  <2>3. n + 1 \in 1 .. size /\ (n + 1) - 1 = n /\ n \in 0 .. size /\ n + 1 \in 0 .. size
    BY <1>0, <2>1, <2>2
  <2>4. f[n + 1] = BstNext(t, f[n], k)
    BY <1>3, <2>3
  <2>5. CASE BstNext(t, f[n], k) = f[n]
    BY <2>4, <2>5
  <2>6. CASE BstNext(t, f[n], k) # f[n]
    <3>1. d[f[n]] >= n /\ d[f[n + 1]] > d[f[n]]
      BY <1>2, <1>5, <2>1, <2>2, <2>3, <2>4, <2>6
    <3>2. d[f[n]] \in Nat /\ d[f[n + 1]] \in Nat
      BY <1>2, <1>4, <2>3
    <3>3. QED
      BY <2>1, <3>1, <3>2
  <2>7. QED
    BY <2>5, <2>6
<1>8. Nat \subseteq T
  <2>1. T \subseteq Nat
    OBVIOUS
  <2> HIDE DEF T
  <2>2. QED
    BY <1>6, <1>7, <2>1, SetInduction
<1>9. size \in 0 .. size
  BY <1>0
<1>10. BstNext(t, f[size], k) = f[size] \/ d[f[size]] >= size
  BY <1>0, <1>8
<1>11. f[size] \in DOMAIN m /\ ~(d[f[size]] >= size)
  BY <1>0, <1>2, <1>4, <1>9
<1>12. QED
  BY <1>1, <1>10, <1>11

\* A node k hung below x, on the side where k belongs and nothing hangs.
BstHung(t, x, k, v) ==
    IF k < x THEN [BstNode(t, k, v) EXCEPT !.left[x] = k] ELSE [BstNode(t, k, v) EXCEPT !.right[x] = k]

LEMMA HungIs ==
    ASSUME NEW t, NEW m, BstShape(t, m), NEW x \in DOMAIN m, NEW k \in TableKeys, k \notin DOMAIN m, NEW v,
           NEW r, r = BstHung(t, x, k, v)
    PROVE  /\ BstShape(r, Bound(m, k, v)) /\ r.root = t.root
           /\ \A y \in DOMAIN m : r.left[y] = IF y = x /\ k < x THEN k ELSE t.left[y]
           /\ \A y \in DOMAIN m : r.right[y] = IF y = x /\ ~(k < x) THEN k ELSE t.right[y]
           /\ r.left[k] = Nil /\ r.right[k] = Nil
<1> DEFINE w == Bound(m, k, v)
           N == DOMAIN m
           lf == Bound(t.left, k, Nil)
           rt == Bound(t.right, k, Nil)
<1>1. /\ t = [root |-> t.root, value |-> m, left |-> t.left, right |-> t.right]
      /\ IsFiniteSet(N) /\ N \subseteq TableKeys
      /\ t.left \in [N -> N \cup {Nil}] /\ t.right \in [N -> N \cup {Nil}] /\ t.root \in N
  BY DEF BstShape
<1>2. DOMAIN w = N \cup {k}
  BY BoundIs
<1>3. lf \in [N \cup {k} -> N \cup {k} \cup {Nil}] /\ lf[k] = Nil /\ \A y \in N : lf[y] = t.left[y]
  BY <1>1 DEF Bound
<1>4. rt \in [N \cup {k} -> N \cup {k} \cup {Nil}] /\ rt[k] = Nil /\ \A y \in N : rt[y] = t.right[y]
  BY <1>1 DEF Bound
<1>5. BstNode(t, k, v) = [root |-> t.root, value |-> w, left |-> lf, right |-> rt]
  <2>1. t.value = m
    BY <1>1
  <2>2. BstNode(t, k, v) = [t EXCEPT !.value = w, !.left = lf, !.right = rt]
    BY <2>1 DEF BstNode
  <2> HIDE DEF w, lf, rt
  <2>3. QED
    BY <1>1, <2>2
<1>6. IsFiniteSet(DOMAIN w) /\ DOMAIN w \subseteq TableKeys /\ DOMAIN w # {}
  BY <1>1, <1>2, FS_AddElement
<1> HIDE DEF w, lf, rt
<1>7. CASE k < x
  <2>1. r = [root |-> t.root, value |-> w, left |-> [lf EXCEPT ![x] = k], right |-> rt]
    BY <1>5, <1>7 DEF BstHung
  <2>2. [lf EXCEPT ![x] = k] \in [N \cup {k} -> N \cup {k} \cup {Nil}]
        /\ \A y \in N \cup {k} : [lf EXCEPT ![x] = k][y] = IF y = x THEN k ELSE lf[y]
    BY <1>3
  <2>3. BstShape(r, w)
    BY <1>1, <1>2, <1>4, <1>6, <2>1, <2>2 DEF BstShape
  <2>4. QED
    BY <1>3, <1>4, <1>7, <2>1, <2>2, <2>3 DEF w
<1>8. CASE ~(k < x)
  <2>1. r = [root |-> t.root, value |-> w, left |-> lf, right |-> [rt EXCEPT ![x] = k]]
    BY <1>5, <1>8 DEF BstHung
  <2>2. [rt EXCEPT ![x] = k] \in [N \cup {k} -> N \cup {k} \cup {Nil}]
        /\ \A y \in N \cup {k} : [rt EXCEPT ![x] = k][y] = IF y = x THEN k ELSE rt[y]
    BY <1>4
  <2>3. BstShape(r, w)
    BY <1>1, <1>2, <1>3, <1>6, <2>1, <2>2 DEF BstShape
  <2>4. QED
    BY <1>3, <1>4, <1>8, <2>1, <2>2, <2>3 DEF w
<1>9. QED
  BY <1>7, <1>8

\* The new node is deeper than the one it hangs below.
LEMMA HungDepths ==
    ASSUME NEW t, NEW m, BstShape(t, m), NEW x \in DOMAIN m, NEW k \in TableKeys, k \notin DOMAIN m, NEW v,
           NEW r, r = BstHung(t, x, k, v), NEW d, Depths(t, m, d)
    PROVE  \E e : Depths(r, Bound(m, k, v), e)
<1> DEFINE w == Bound(m, k, v)
           N == DOMAIN m
           size == Cardinality(N)
           e == [y \in N \cup {k} |-> IF y = k THEN d[x] + 1 ELSE d[y]]
<1>0. size \in Nat /\ DOMAIN w = N \cup {k} /\ IsFiniteSet(N) /\ Nil \notin N
  <2>1. size \in Nat /\ DOMAIN w = N \cup {k} /\ Nil \notin N
    BY BoundIs, NodesAreKeys
  <2>2. QED
    BY <2>1 DEF BstShape
<1>1. Cardinality(N \cup {k}) = size + 1
  BY <1>0, FS_AddElement
<1>2. /\ \A y \in N : d[y] \in Nat /\ d[y] < size
      /\ \A y \in N : (t.left[y] # Nil => d[t.left[y]] > d[y]) /\ (t.right[y] # Nil => d[t.right[y]] > d[y])
  BY DEF Depths
<1>3. /\ \A y \in N : r.left[y] = IF y = x /\ k < x THEN k ELSE t.left[y]
      /\ \A y \in N : r.right[y] = IF y = x /\ ~(k < x) THEN k ELSE t.right[y]
      /\ r.left[k] = Nil /\ r.right[k] = Nil
  BY HungIs
<1>4. \A y \in N : t.left[y] \in N \cup {Nil} /\ t.right[y] \in N \cup {Nil}
  BY DEF BstShape
<1>5. e[k] = d[x] + 1 /\ \A y \in N : y # k /\ e[y] = d[y]
  OBVIOUS
<1>6. e \in [N \cup {k} -> Nat]
  BY <1>2
<1> HIDE DEF e, size
<1>7. \A y \in N \cup {k} : e[y] < size + 1
  BY <1>0, <1>2, <1>5
<1>8. \A y \in N : (r.left[y] # Nil => e[r.left[y]] > e[y]) /\ (r.right[y] # Nil => e[r.right[y]] > e[y])
  BY <1>2, <1>3, <1>4, <1>5
<1>9. Depths(r, w, e)
  <2> HIDE DEF w
  <2>1. Cardinality(DOMAIN w) = size + 1
    BY <1>0, <1>1
  <2>2. QED
    BY <1>0, <1>3, <1>6, <1>7, <1>8, <2>1 DEF Depths
<1>10. QED
  BY <1>9

\* A search for another key does not come to the new node: it would have stopped at x.
LEMMA OldIsFound ==
    ASSUME NEW t, NEW m, BstInv(t, m), NEW x \in DOMAIN m, NEW k \in TableKeys, k \notin DOMAIN m, NEW v,
           BstChild(t, x, k) = Nil, NEW r, r = BstHung(t, x, k, v), NEW j \in DOMAIN m
    PROVE  BstEnd(r, j) = j
<1> DEFINE w == Bound(m, k, v)
           N == DOMAIN m
           size == Cardinality(N)
<1>0. BstShape(t, m) /\ BstEnd(t, j) = j /\ DOMAIN m # {}
  BY DEF BstInv
<1>1. size \in Nat /\ DOMAIN w = N \cup {k} /\ IsFiniteSet(N) /\ Nil \notin N
  <2>1. size \in Nat /\ Nil \notin N
    BY <1>0, NodesAreKeys
  <2>2. DOMAIN w = N \cup {k}
    BY BoundIs
  <2>3. IsFiniteSet(N)
    BY <1>0 DEF BstShape
  <2>4. QED
    BY <2>1, <2>2, <2>3
<1>2. Cardinality(DOMAIN w) = size + 1 /\ DOMAIN w # {}
  BY <1>1, FS_AddElement
<1>3. /\ BstShape(r, w) /\ r.root = t.root
      /\ \A y \in N : r.left[y] = IF y = x /\ k < x THEN k ELSE t.left[y]
      /\ \A y \in N : r.right[y] = IF y = x /\ ~(k < x) THEN k ELSE t.right[y]
  BY <1>0, HungIs
<1> HIDE DEF w, size
<1>4. PICK f : SearchTurns(t, j, f, size) /\ f[size] = j
  BY <1>0, BstTurns DEF size
<1>5. PICK g : SearchTurns(r, j, g, size + 1) /\ BstEnd(r, j) = g[size + 1]
  BY <1>2, <1>3, BstTurns
<1>6. \A n \in 0 .. size : f[n] \in N
  BY <1>0, <1>1, <1>4, TurnsAreNodes
<1>7. f[0] = t.root /\ \A n \in 1 .. size : f[n] = BstNext(t, f[n - 1], j)
  BY <1>4 DEF SearchTurns
<1>8. g[0] = t.root /\ \A n \in 1 .. size + 1 : g[n] = BstNext(r, g[n - 1], j)
  BY <1>3, <1>5 DEF SearchTurns
<1>9. \A y \in N : BstNext(r, y, j) = BstNext(t, y, j) \/ (y = x /\ x # j /\ BstNext(t, x, j) = x)
  BY <1>3 DEF BstNext, BstChild
<1> DEFINE U == {n \in Nat : n <= size => (BstNext(t, x, j) = x /\ x # j => f[n] # x)}
           T == {n \in Nat : n <= size => g[n] = f[n]}
<1>10. ASSUME BstNext(t, x, j) = x, x # j, NEW i \in 0 .. size PROVE f[i] # x
  <2> DEFINE V == {n \in Nat : i + n <= size => f[i + n] = x}
  <2>1. SUFFICES ASSUME f[i] = x PROVE FALSE
    OBVIOUS
  <2>2. 0 \in V
    BY <1>1, <2>1
  <2>3. ASSUME NEW n \in V PROVE n + 1 \in V
    <3>1. n \in Nat /\ (i + n <= size => f[i + n] = x)
      OBVIOUS
    <3>2. SUFFICES ASSUME i + (n + 1) <= size PROVE f[i + (n + 1)] = x
      BY <3>1
    <3>3. i + (n + 1) \in 1 .. size /\ (i + (n + 1)) - 1 = i + n /\ i + n <= size
      BY <1>1, <3>1, <3>2
    <3>4. QED
      BY <1>7, <1>10, <3>1, <3>3
  <2>4. Nat \subseteq V
    <3>1. V \subseteq Nat
      OBVIOUS
    <3> HIDE DEF V
    <3>2. QED
      BY <2>2, <2>3, <3>1, SetInduction
  <2>5. size - i \in Nat /\ i + (size - i) = size
    BY <1>1
  <2>6. f[size] = x
    BY <2>4, <2>5
  <2>7. QED
    BY <1>4, <1>10, <2>6
<1>11. 0 \in T
  BY <1>7, <1>8
<1>12. ASSUME NEW n \in T PROVE n + 1 \in T
  <2>1. n \in Nat /\ (n <= size => g[n] = f[n])
    OBVIOUS
  <2>2. SUFFICES ASSUME n + 1 <= size PROVE g[n + 1] = f[n + 1]
    BY <2>1
  <2>3. n + 1 \in 1 .. size /\ n + 1 \in 1 .. size + 1 /\ (n + 1) - 1 = n /\ n \in 0 .. size
    BY <1>1, <2>1, <2>2
  <2>4. g[n + 1] = BstNext(r, f[n], j) /\ f[n + 1] = BstNext(t, f[n], j) /\ f[n] \in N
    BY <1>6, <1>7, <1>8, <2>1, <2>3
  <2>5. QED
    BY <1>9, <1>10, <2>3, <2>4
<1>13. Nat \subseteq T
  <2>1. T \subseteq Nat
    OBVIOUS
  <2> HIDE DEF T
  <2>2. QED
    BY <1>11, <1>12, <2>1, SetInduction
<1>14. g[size] = j
  BY <1>1, <1>4, <1>13
<1>15. g[size + 1] = BstNext(r, g[size], j)
  <2>1. size + 1 \in 1 .. size + 1 /\ (size + 1) - 1 = size
    BY <1>1
  <2>2. QED
    BY <1>8, <2>1
<1>16. QED
  BY <1>5, <1>14, <1>15 DEF BstNext

\* A search for the new key ends where one did before, or goes on from there to the new node.
LEMMA NewIsFound ==
    ASSUME NEW t, NEW m, BstInv(t, m), NEW k \in TableKeys, k \notin DOMAIN m, NEW v, DOMAIN m # {},
           NEW x, x = BstEnd(t, k), x \in DOMAIN m, BstChild(t, x, k) = Nil, NEW r, r = BstHung(t, x, k, v)
    PROVE  BstEnd(r, k) = k
<1> DEFINE w == Bound(m, k, v)
           N == DOMAIN m
           size == Cardinality(N)
<1>0. BstShape(t, m)
  BY DEF BstInv
<1>1. size \in Nat /\ DOMAIN w = N \cup {k} /\ IsFiniteSet(N) /\ Nil \notin N /\ k # Nil
  <2>1. size \in Nat /\ Nil \notin N
    BY <1>0, NodesAreKeys
  <2>2. DOMAIN w = N \cup {k}
    BY BoundIs
  <2>3. IsFiniteSet(N)
    BY <1>0 DEF BstShape
  <2>4. k # Nil
    BY TableKeysAssumption DEF Nil
  <2>5. QED
    BY <2>1, <2>2, <2>3, <2>4
<1>2. Cardinality(DOMAIN w) = size + 1 /\ DOMAIN w # {}
  BY <1>1, FS_AddElement
<1>3. /\ BstShape(r, w) /\ r.root = t.root
      /\ \A y \in N : r.left[y] = IF y = x /\ k < x THEN k ELSE t.left[y]
      /\ \A y \in N : r.right[y] = IF y = x /\ ~(k < x) THEN k ELSE t.right[y]
  BY <1>0, HungIs
<1> HIDE DEF w, size
<1>4. PICK f : SearchTurns(t, k, f, size) /\ f[size] = x
  BY <1>0, BstTurns DEF size
<1>5. PICK g : SearchTurns(r, k, g, size + 1) /\ BstEnd(r, k) = g[size + 1]
  BY <1>2, <1>3, BstTurns
<1>6. \A n \in 0 .. size : f[n] \in N
  BY <1>0, <1>1, <1>4, TurnsAreNodes
<1>7. f[0] = t.root /\ \A n \in 1 .. size : f[n] = BstNext(t, f[n - 1], k)
  BY <1>4 DEF SearchTurns
<1>8. g[0] = t.root /\ \A n \in 1 .. size + 1 : g[n] = BstNext(r, g[n - 1], k)
  BY <1>3, <1>5 DEF SearchTurns
<1>9. BstNext(r, k, k) = k
  BY DEF BstNext
<1>10. \A y \in N : BstNext(r, y, k) = IF y = x THEN k ELSE BstNext(t, y, k)
  BY <1>1, <1>3 DEF BstNext, BstChild
<1> DEFINE T == {n \in Nat : n <= size => g[n] \in {f[n], k}}
<1>11. 0 \in T
  BY <1>7, <1>8
<1>12. ASSUME NEW n \in T PROVE n + 1 \in T
  <2>1. n \in Nat /\ (n <= size => g[n] \in {f[n], k})
    OBVIOUS
  <2>2. SUFFICES ASSUME n + 1 <= size PROVE g[n + 1] \in {f[n + 1], k}
    BY <2>1
  <2>3. n + 1 \in 1 .. size /\ n + 1 \in 1 .. size + 1 /\ (n + 1) - 1 = n /\ n \in 0 .. size
    BY <1>1, <2>1, <2>2
  <2>4. g[n + 1] = BstNext(r, g[n], k) /\ f[n + 1] = BstNext(t, f[n], k) /\ f[n] \in N /\ g[n] \in {f[n], k}
    BY <1>6, <1>7, <1>8, <2>1, <2>2, <2>3
  <2>5. QED
    BY <1>9, <1>10, <2>4
<1>13. Nat \subseteq T
  <2>1. T \subseteq Nat
    OBVIOUS
  <2> HIDE DEF T
  <2>2. QED
    BY <1>11, <1>12, <2>1, SetInduction
<1>14. g[size] \in {x, k}
  BY <1>1, <1>4, <1>13
<1>15. g[size + 1] = BstNext(r, g[size], k)
  <2>1. size + 1 \in 1 .. size + 1 /\ (size + 1) - 1 = size
    BY <1>1
  <2>2. QED
    BY <1>8, <2>1
<1>16. QED
  BY <1>5, <1>9, <1>10, <1>14, <1>15

LEMMA BstInserting ==
    ASSUME NEW t, NEW m, BstInv(t, m), NEW k \in TableKeys, NEW v
    PROVE  BstInv(BstInsert(t, k, v), IF k \in DOMAIN m THEN m ELSE Bound(m, k, v))
<1> DEFINE N == DOMAIN m
           w == Bound(m, k, v)
           x == BstEnd(t, k)
<1>0. BstShape(t, m) /\ (\E d : Depths(t, m, d)) /\ \A j \in N : BstEnd(t, j) = j
  BY DEF BstInv
<1>1. t = [root |-> t.root, value |-> m, left |-> t.left, right |-> t.right]
      /\ t.left \in [N -> N \cup {Nil}] /\ t.right \in [N -> N \cup {Nil}]
      /\ IF N = {} THEN t.root = Nil ELSE t.root \in N
  BY <1>0 DEF BstShape
<1>2. Nil \notin N /\ k # Nil /\ DOMAIN w = N \cup {k}
  BY <1>0, NodesAreKeys, BoundIs, TableKeysAssumption DEF Nil
<1>3. CASE N = {}
  <2> DEFINE none == [j \in {k} |-> Nil]
             r == [root |-> k, value |-> w, left |-> none, right |-> none]
             e == [j \in {k} |-> 0]
  <2>1. t.root = Nil /\ k \notin N
    BY <1>1, <1>3
  <2>2. Bound(t.left, k, Nil) = none /\ Bound(t.right, k, Nil) = none /\ t.value = m
    BY <1>1, <1>3 DEF Bound
  <2>3. BstInsert(t, k, v) = r
    <3>1. BstInsert(t, k, v) = [[t EXCEPT !.value = w, !.left = none, !.right = none] EXCEPT !.root = k]
      BY <2>1, <2>2 DEF BstInsert, BstNode
    <3> HIDE DEF w, none
    <3>2. QED
      BY <1>1, <3>1
  <2> HIDE DEF w
  <2>4. IsFiniteSet({k}) /\ Cardinality({k}) = 1
    BY FS_Singleton
  <2>5. DOMAIN w = {k}
    BY <1>2, <1>3
  <2>6. BstShape(r, w)
    BY <2>4, <2>5 DEF BstShape
  <2>7. Depths(r, w, e)
    BY <2>4, <2>5 DEF Depths
  <2>8. r.root = k
    OBVIOUS
  <2> HIDE DEF r, e
  <2>9. PICK f : SearchTurns(r, k, f, 1) /\ BstEnd(r, k) = f[1]
    BY <2>4, <2>5, <2>6, BstTurns
  <2>10. f[1] = k
    BY <2>8, <2>9 DEF SearchTurns, BstNext
  <2>11. BstInv(r, w)
    BY <2>5, <2>6, <2>7, <2>9, <2>10 DEF BstInv
  <2>12. QED
    BY <2>1, <2>3, <2>11 DEF w
<1>4. CASE N # {} /\ k \in N
  <2>1. t.root # Nil /\ x = k
    BY <1>0, <1>1, <1>2, <1>4
  <2>2. BstInsert(t, k, v) = t
    BY <2>1 DEF BstInsert
  <2>3. QED
    BY <1>4, <2>2
<1>5. CASE N # {} /\ k \notin N
  <2> DEFINE r == BstHung(t, x, k, v)
  <2>1. x \in N /\ BstNext(t, x, k) = x
    BY <1>0, <1>5, BstStops
  <2>2. x # k /\ BstChild(t, x, k) = Nil
    <3>1. x # k
      BY <1>5, <2>1
    <3>2. t.left[x] # x /\ t.right[x] # x
      <4>1. PICK d : Depths(t, m, d)
        BY <1>0
      <4>2. d[x] \in Nat /\ (t.left[x] # Nil => d[t.left[x]] > d[x]) /\ (t.right[x] # Nil => d[t.right[x]] > d[x])
        BY <2>1, <4>1 DEF Depths
      <4>3. x # Nil /\ ~(d[x] > d[x])
        BY <1>2, <2>1, <4>2
      <4>4. QED
        BY <4>2, <4>3
    <3>3. QED
      BY <2>1, <3>1, <3>2 DEF BstNext, BstChild
  <2>3. BstInsert(t, k, v) = r
    <3>1. t.root # Nil
      BY <1>1, <1>2, <1>5
    <3>2. QED
      BY <2>2, <3>1 DEF BstInsert, BstHung
  <2> HIDE DEF x
  <2>4. BstShape(r, w)
    BY <1>0, <1>5, <2>1, HungIs
  <2>5. \E e : Depths(r, w, e)
    <3>1. PICK d : Depths(t, m, d)
      BY <1>0
    <3> HIDE DEF r, w
    <3>2. QED
      BY <1>0, <1>5, <2>1, <3>1, HungDepths DEF r, w
  <2>6. \A j \in N : BstEnd(r, j) = j
    <3> HIDE DEF r
    <3>1. QED
      BY <1>5, <2>1, <2>2, OldIsFound DEF r
  <2>7. BstEnd(r, k) = k
    <3> HIDE DEF r
    <3>1. QED
      BY <1>5, <2>1, <2>2, NewIsFound DEF r, x
  <2> HIDE DEF r, w
  <2>8. BstInv(r, w)
    BY <1>2, <2>4, <2>5, <2>6, <2>7 DEF BstInv
  <2>9. QED
    BY <1>5, <2>3, <2>8 DEF w
<1>6. QED
  BY <1>3, <1>4, <1>5

LEMMA BstFinds ==
    ASSUME NEW t, NEW m, BstInv(t, m), NEW k \in TableKeys
    PROVE  BstFind(t, k) = IF k \in DOMAIN m THEN m[k] ELSE Absent
<1>0. BstShape(t, m) /\ (\E d : Depths(t, m, d)) /\ \A j \in DOMAIN m : BstEnd(t, j) = j
  BY DEF BstInv
<1>1. t = [root |-> t.root, value |-> m, left |-> t.left, right |-> t.right]
      /\ IF DOMAIN m = {} THEN t.root = Nil ELSE t.root \in DOMAIN m
  BY <1>0 DEF BstShape
<1>2. t.value = m /\ Nil \notin DOMAIN m
  BY <1>0, <1>1, NodesAreKeys
<1>3. CASE DOMAIN m = {}
  BY <1>1, <1>3 DEF BstFind
<1>4. CASE DOMAIN m # {}
  <2>1. BstEnd(t, k) \in DOMAIN m
    BY <1>0, <1>4, BstStops
  <2>2. t.root # Nil
    BY <1>1, <1>2, <1>4
  <2>3. BstEnd(t, k) = k <=> k \in DOMAIN m
    BY <1>0, <2>1
  <2>4. QED
    BY <1>2, <2>2, <2>3 DEF BstFind
<1>5. QED
  BY <1>3, <1>4

LEMMA BstStarts == BstInv(EmptyBst, EmptyMap)
<1>1. DOMAIN EmptyMap = {} /\ EmptyMap \in [{} -> {Nil}]
  BY DEF EmptyMap
<1>2. IsFiniteSet({})
  BY FS_EmptySet
<1>3. EmptyBst = [root |-> Nil, value |-> EmptyMap, left |-> EmptyMap, right |-> EmptyMap]
  BY DEF EmptyBst, EmptyMap
<1>4. BstShape(EmptyBst, EmptyMap)
  BY <1>1, <1>2, <1>3 DEF BstShape
<1>5. Depths(EmptyBst, EmptyMap, [x \in {} |-> 0])
  BY <1>1 DEF Depths
<1>6. QED
  BY <1>1, <1>4, <1>5 DEF BstInv
-----------------------------------------------------------------------------
(* The skip list: on every level a node leads to the least greater one, so  *)
(* a search that starts on a higher level comes to the last node before its  *)
(* key on each level it goes down to.                                        *)

\* x is the last node of S before k.
LastBefore(x, k, S) == x \in S /\ x < k /\ \A y \in S : y < k => y <= x

\* y is what follows x in S.
Follows(y, x, S) ==
    IF y = Nil THEN \A z \in S : z <= x
    ELSE y \in S /\ x < y /\ \A z \in S : z <= x \/ y <= z

SkipShape(l, m) ==
    /\ l = [level |-> l.level, value |-> m, forward |-> l.forward]
    /\ l.level \in 0 .. SL_MAX_LEVEL /\ DOMAIN m \subseteq TableKeys
    /\ DOMAIN l.forward = DOMAIN m \cup {Header} /\ DOMAIN l.forward[Header] = 0 .. SL_MAX_LEVEL
    /\ \A x \in DOMAIN m : 0 \in DOMAIN l.forward[x] /\ DOMAIN l.forward[x] \subseteq 0 .. l.level
    /\ \A x \in DOMAIN m : \A i \in DOMAIN l.forward[x] : 0 .. i \subseteq DOMAIN l.forward[x]

SkipLinks(l) == \A i \in 0 .. SL_MAX_LEVEL : \A x \in OnLevel(l, i) : Follows(l.forward[x][i], x, OnLevel(l, i))

TopIsUsed(l) == l.level > 0 => l.forward[Header][l.level] # Nil

SkipInv(l, m) == SkipShape(l, m) /\ SkipLinks(l) /\ TopIsUsed(l)

LEMMA BeforeExists ==
    ASSUME NEW S \in SUBSET Nat, Header \in S, NEW k \in Nat \ {0}
    PROVE  \E x : LastBefore(x, k, S)
<1> DEFINE B == {y \in S : y < k}
<1>1. B \in SUBSET Int /\ (\A x \in B : x <= k) /\ k \in Int
  <2>1. B \subseteq Nat /\ \A x \in B : x \in Nat /\ x < k
    OBVIOUS
  <2> HIDE DEF B
  <2>2. QED
    BY <2>1
<1>2. Header \in B
  BY DEF Header
<1> HIDE DEF B
<1>3. B # {}
  BY <1>2
<1>4. \E x \in B : \A y \in B : y <= x
  BY <1>1, <1>3, GreatestNumber
<1>5. PICK x \in B : \A y \in B : y <= x
  BY <1>4
<1>6. QED
  BY <1>5 DEF B, LastBefore

LEMMA BeforeUnique ==
    ASSUME NEW S \in SUBSET Nat, NEW k \in Nat, NEW x, LastBefore(x, k, S), NEW y, LastBefore(y, k, S)
    PROVE  x = y
  BY DEF LastBefore

\* What a key's place on a level tells of the key.
LEMMA BeforeFinds ==
    ASSUME NEW S \in SUBSET Nat, NEW k \in Nat \ {0}, NEW b, LastBefore(b, k, S), NEW y, Follows(y, b, S)
    PROVE  y = k <=> k \in S
<1>1. b \in S /\ b \in Nat /\ b < k /\ \A z \in S : z \in Nat /\ (z < k => z <= b)
  BY DEF LastBefore
<1>2. CASE y = Nil
  <2>1. \A z \in S : z <= b
    BY <1>2 DEF Follows
  <2>2. k \notin S
    BY <1>1, <2>1
  <2>3. QED
    BY <1>2, <2>2 DEF Nil
<1>3. CASE y # Nil
  <2>1. y \in S /\ b < y /\ \A z \in S : z <= b \/ y <= z
    BY <1>3 DEF Follows
  <2>2. QED
    BY <1>1, <2>1
<1>4. QED
  BY <1>2, <1>3

LEMMA LinkedBehind ==
    ASSUME NEW S \in SUBSET Nat, NEW next, \A x \in S : Follows(next[x], x, S),
           NEW k \in Nat \ {0}, k \notin S, NEW b, LastBefore(b, k, S)
    PROVE  /\ Follows(next[b], k, S \cup {k}) /\ Follows(k, b, S \cup {k})
           /\ \A x \in S : x # b => Follows(next[x], x, S \cup {k})
<1>1. b \in S /\ b < k /\ \A y \in S : y < k => y <= b
  BY DEF LastBefore
<1>2. Follows(next[b], k, S \cup {k})
  <2> DEFINE y == next[b]
  <2>1. IF y = Nil THEN \A z \in S : z <= b ELSE y \in S /\ b < y /\ \A z \in S : z <= b \/ y <= z
    BY <1>1 DEF Follows
  <2>2. b \in Nat /\ \A z \in S : z \in Nat
    BY <1>1
  <2> HIDE DEF y
  <2>3. CASE y = Nil
    <3>1. \A z \in S \cup {k} : z <= k
      BY <1>1, <2>1, <2>2, <2>3
    <3>2. QED
      BY <2>3, <3>1 DEF Follows, y
  <2>4. CASE y # Nil
    <3>0. y \in S /\ y \in Nat /\ b < y
      BY <2>1, <2>2, <2>4
    <3>1. y \in S /\ k < y
      BY <1>1, <2>2, <3>0
    <3>2. \A z \in S \cup {k} : z <= k \/ y <= z
      BY <1>1, <2>1, <2>2, <2>4
    <3>3. QED
      BY <2>4, <3>1, <3>2 DEF Follows, y
  <2>5. QED
    BY <2>3, <2>4
<1>3. Follows(k, b, S \cup {k})
  BY <1>1 DEF Follows, Nil
<1>4. ASSUME NEW x \in S, x # b PROVE Follows(next[x], x, S \cup {k})
  <2> DEFINE y == next[x]
  <2>1. IF y = Nil THEN \A z \in S : z <= x ELSE y \in S /\ x < y /\ \A z \in S : z <= x \/ y <= z
    BY DEF Follows
  <2>2. b \in Nat /\ x \in Nat /\ \A z \in S : z \in Nat
    BY <1>1
  <2> HIDE DEF y
  <2>3. CASE y = Nil
    <3>1. \A z \in S \cup {k} : z <= x
      BY <1>1, <1>4, <2>1, <2>2, <2>3
    <3>2. QED
      BY <2>3, <3>1 DEF Follows, y
  <2>4. CASE y # Nil
    <3>0. y \in S /\ y \in Nat /\ x < y /\ (b <= x \/ y <= b)
      BY <1>1, <2>1, <2>2, <2>4
    <3>1. y \in S /\ x < y /\ (k <= x \/ y <= k)
      BY <1>1, <1>4, <2>2, <3>0
    <3>2. \A z \in S \cup {k} : z <= x \/ y <= z
      BY <2>1, <2>4, <3>1
    <3>3. QED
      BY <2>4, <3>1, <3>2 DEF Follows, y
  <2>5. QED
    BY <2>3, <2>4
<1>5. QED
  BY <1>2, <1>3, <1>4

LEMMA UnlinkedFrom ==
    ASSUME NEW S \in SUBSET Nat, NEW next, \A x \in S : Follows(next[x], x, S),
           NEW k \in S, k # 0, NEW b, LastBefore(b, k, S)
    PROVE  /\ Follows(next[k], b, S \ {k})
           /\ \A x \in S \ {k} : x # b => Follows(next[x], x, S \ {k})
<1>1. b \in S /\ b < k /\ \A y \in S : y < k => y <= b
  BY DEF LastBefore
<1>2. Follows(next[k], b, S \ {k})
  <2> DEFINE y == next[k]
  <2>1. IF y = Nil THEN \A z \in S : z <= k ELSE y \in S /\ k < y /\ \A z \in S : z <= k \/ y <= z
    BY <1>1 DEF Follows
  <2>2. b \in Nat /\ k \in Nat /\ \A z \in S : z \in Nat
    BY <1>1
  <2> HIDE DEF y
  <2>3. CASE y = Nil
    <3>1. \A z \in S \ {k} : z <= b
      BY <1>1, <2>1, <2>2, <2>3
    <3>2. QED
      BY <2>3, <3>1 DEF Follows, y
  <2>4. CASE y # Nil
    <3>0. y \in S /\ y \in Nat /\ k < y
      BY <2>1, <2>2, <2>4
    <3>1. y \in S \ {k} /\ b < y
      BY <1>1, <2>2, <3>0
    <3>2. \A z \in S \ {k} : z <= b \/ y <= z
      BY <1>1, <2>1, <2>2, <2>4
    <3>3. QED
      BY <2>4, <3>1, <3>2 DEF Follows, y
  <2>5. QED
    BY <2>3, <2>4
<1>4. ASSUME NEW x \in S \ {k}, x # b PROVE Follows(next[x], x, S \ {k})
  <2>1. Follows(next[x], x, S)
    OBVIOUS
  <2>2. QED
    BY <1>1, <1>4, <2>1 DEF Follows, Nil
<1>5. QED
  BY <1>2, <1>4

\* The nodes of a level.
LEMMA Levels ==
    ASSUME NEW l, NEW m, SkipShape(l, m)
    PROVE  /\ \A i \in Nat : OnLevel(l, i) \in SUBSET Nat
           /\ \A i \in 0 .. SL_MAX_LEVEL : Header \in OnLevel(l, i)
           /\ OnLevel(l, 0) = DOMAIN m \cup {Header} /\ Header \notin DOMAIN m
           /\ \A i \in 0 .. SL_MAX_LEVEL : i > l.level => OnLevel(l, i) = {Header}
           /\ \A i \in 0 .. SL_MAX_LEVEL : \A j \in 0 .. i : OnLevel(l, i) \subseteq OnLevel(l, j)
<1>1. /\ l.level \in 0 .. SL_MAX_LEVEL /\ DOMAIN m \subseteq TableKeys
      /\ DOMAIN l.forward = DOMAIN m \cup {Header} /\ DOMAIN l.forward[Header] = 0 .. SL_MAX_LEVEL
      /\ \A x \in DOMAIN m : 0 \in DOMAIN l.forward[x] /\ DOMAIN l.forward[x] \subseteq 0 .. l.level
      /\ \A x \in DOMAIN m : \A i \in DOMAIN l.forward[x] : 0 .. i \subseteq DOMAIN l.forward[x]
  BY DEF SkipShape
<1>2. SL_MAX_LEVEL \in Nat /\ DOMAIN m \subseteq Nat \ {0} /\ Header = 0
  BY <1>1, LevelAssumption, TableKeysAssumption DEF Header
<1>3. \A i \in 0 .. SL_MAX_LEVEL : Header \in OnLevel(l, i)
  BY <1>1 DEF OnLevel
<1>4. OnLevel(l, 0) = DOMAIN m \cup {Header} /\ Header \notin DOMAIN m
  BY <1>1, <1>2 DEF OnLevel
<1>5. \A i \in 0 .. SL_MAX_LEVEL : i > l.level => OnLevel(l, i) = {Header}
  BY <1>1, <1>2, <1>3 DEF OnLevel
<1>6. ASSUME NEW i \in 0 .. SL_MAX_LEVEL, NEW j \in 0 .. i, NEW x \in OnLevel(l, i) PROVE x \in OnLevel(l, j)
  <2>1. CASE x = Header
    BY <1>1, <1>2, <2>1 DEF OnLevel
  <2>2. CASE x # Header
    <3>1. x \in DOMAIN m /\ i \in DOMAIN l.forward[x]
      BY <1>1, <2>2 DEF OnLevel
    <3>2. QED
      BY <1>1, <3>1 DEF OnLevel
  <2>3. QED
    BY <2>1, <2>2
<1>7. QED
  <2>1. \A i \in Nat : OnLevel(l, i) \in SUBSET Nat
    BY <1>1, <1>2 DEF OnLevel
  <2>2. QED
    BY <1>3, <1>4, <1>5, <1>6, <2>1

\* Where a search comes to on one level, from a node before k.
LEMMA AdvanceIs ==
    ASSUME NEW l, NEW i, OnLevel(l, i) \in SUBSET Nat, NEW k \in Nat,
           \A y \in OnLevel(l, i) : Follows(l.forward[y][i], y, OnLevel(l, i)),
           NEW x \in OnLevel(l, i), x < k, NEW b, LastBefore(b, k, OnLevel(l, i))
    PROVE  Advance(l, x, i, k) = b
<1> DEFINE S == OnLevel(l, i)
           next == [y \in S |-> l.forward[y][i]]
           G(g) == [y \in S |-> IF l.forward[y][i] # Nil /\ l.forward[y][i] < k THEN g[l.forward[y][i]] ELSE y]
           stop == CHOOSE g : g = G(g)
           h == [y \in S |-> IF y < k THEN b ELSE y]
<1>1. Advance(l, x, i, k) = stop[x]
  BY DEF Advance
<1>2. \A y \in S : next[y] = l.forward[y][i] /\ Follows(next[y], y, S)
  OBVIOUS
<1>3. S \in SUBSET Nat /\ b \in S /\ b < k /\ \A y \in S : y < k => y <= b
  BY DEF LastBefore
<1> DEFINE Goes(y) == next[y] # Nil /\ next[y] < k
<1>4. \A y \in S : G(h)[y] = IF Goes(y) THEN h[next[y]] ELSE y
  <2> HIDE DEF h
  <2>1. QED
    OBVIOUS
<1> HIDE DEF S, next
<1>5. ASSUME NEW y \in S, Goes(y) PROVE next[y] \in S /\ y < next[y] /\ y < k
  <2>1. next[y] \in S /\ y < next[y] /\ next[y] < k
    BY <1>2, <1>5 DEF Follows
  <2>2. y \in Nat /\ next[y] \in Nat
    BY <1>3, <2>1
  <2>3. QED
    BY <2>1, <2>2
<1>6. ASSUME NEW y \in S, ~Goes(y), y < k PROVE y = b
  <2>0. y \in Nat /\ b \in Nat /\ y <= b
    BY <1>3, <1>6
  <2>1. CASE next[y] = Nil
    <3>1. b <= y
      BY <1>2, <1>3, <2>1 DEF Follows
    <3>2. QED
      BY <2>0, <3>1
  <2>2. CASE next[y] # Nil
    <3>1. next[y] \in S /\ (b <= y \/ next[y] <= b) /\ ~(next[y] < k)
      BY <1>2, <1>3, <1>6, <2>2 DEF Follows
    <3>2. next[y] \in Nat
      BY <1>3, <3>1
    <3>3. QED
      BY <1>3, <2>0, <3>1, <3>2
  <2>3. QED
    BY <2>1, <2>2
<1>7. h = G(h)
  <2>1. \A y \in S : h[y] = IF y < k THEN b ELSE y
    OBVIOUS
  <2>2. \A y \in S : h[y] = IF Goes(y) THEN h[next[y]] ELSE y
    BY <1>3, <1>5, <1>6, <2>1
  <2>3. \A y \in S : h[y] = G(h)[y]
    BY <1>4, <2>2
  <2>4. h = [y \in S |-> G(h)[y]]
    BY <2>3
  <2>5. G(h) = [y \in S |-> G(h)[y]]
    <3> HIDE DEF h, Goes
    <3>1. QED
      OBVIOUS
  <2>6. QED
    BY <2>4, <2>5
<1>8. stop = G(stop)
  <2> HIDE DEF G, h
  <2>1. QED
    BY <1>7
<1> HIDE DEF stop, h
<1>9. \A y \in S : stop[y] = IF Goes(y) THEN stop[next[y]] ELSE y
  <2>1. \A y \in S : G(stop)[y] = IF Goes(y) THEN stop[next[y]] ELSE y
    BY DEF next
  <2> HIDE DEF G
  <2>2. QED
    BY <1>8, <2>1
<1> DEFINE T == {n \in Nat : \A y \in S : y < k /\ k - y <= n => stop[y] = b}
<1>10. 0 \in T
  <2>1. ASSUME NEW y \in S, y < k PROVE ~(k - y <= 0)
    <3>1. y \in Nat
      BY <1>3
    <3>2. QED
      BY <2>1, <3>1
  <2>2. QED
    BY <2>1
<1>11. ASSUME NEW n \in T PROVE n + 1 \in T
  <2>1. n \in Nat /\ \A y \in S : y < k /\ k - y <= n => stop[y] = b
    OBVIOUS
  <2>2. SUFFICES ASSUME NEW y \in S, y < k, k - y <= n + 1 PROVE stop[y] = b
    BY <2>1
  <2>3. CASE Goes(y)
    <3>1. next[y] \in S /\ y < next[y] /\ next[y] < k
      BY <1>5, <2>3
    <3> HIDE DEF Goes
    <3>0. y \in Nat /\ next[y] \in Nat
      BY <1>3, <3>1
    <3>2. k - next[y] <= n
      BY <2>1, <2>2, <3>0, <3>1
    <3>3. stop[next[y]] = b
      BY <2>1, <3>1, <3>2
    <3>4. QED
      BY <1>9, <2>3, <3>3
  <2>4. CASE ~Goes(y)
    BY <1>6, <1>9, <2>2, <2>4
  <2>5. QED
    BY <2>3, <2>4
<1>12. Nat \subseteq T
  <2>1. T \subseteq Nat
    OBVIOUS
  <2> HIDE DEF T
  <2>2. QED
    BY <1>10, <1>11, <2>1, SetInduction
<1>13. x \in S /\ x < k /\ k - x \in Nat /\ k - x <= k - x
  BY <1>3 DEF S
<1>14. QED
  BY <1>1, <1>12, <1>13

\* On every level the search comes to the last node before k.
LEMMA UpdateIs ==
    ASSUME NEW l, NEW m, SkipInv(l, m), NEW k \in TableKeys
    PROVE  \A i \in 0 .. l.level : LastBefore(Update(l, k)[i], k, OnLevel(l, i))
<1> DEFINE top == l.level
           G(g) == [i \in 0 .. l.level |-> Advance(l, IF i = l.level THEN Header ELSE g[i + 1], i, k)]
           h == [i \in 0 .. l.level |-> CHOOSE x : LastBefore(x, k, OnLevel(l, i))]
           u == CHOOSE g : g = G(g)
<1>0. SkipShape(l, m) /\ SkipLinks(l) /\ top \in 0 .. SL_MAX_LEVEL /\ SL_MAX_LEVEL \in Nat /\ k \in Nat \ {0}
  BY LevelAssumption, TableKeysAssumption DEF SkipInv, SkipShape
<1>1. \A i \in 0 .. top : i \in 0 .. SL_MAX_LEVEL
  BY <1>0
<1>2. \A i \in 0 .. top : OnLevel(l, i) \in SUBSET Nat /\ Header \in OnLevel(l, i)
                          /\ \A y \in OnLevel(l, i) : Follows(l.forward[y][i], y, OnLevel(l, i))
  BY <1>0, <1>1, Levels DEF SkipLinks
<1>3. \A i \in 0 .. top : LastBefore(h[i], k, OnLevel(l, i))
  <2> SUFFICES ASSUME NEW i \in 0 .. top PROVE LastBefore(h[i], k, OnLevel(l, i))
    OBVIOUS
  <2>1. \E x : LastBefore(x, k, OnLevel(l, i))
    BY <1>0, <1>2, BeforeExists
  <2>2. h[i] = CHOOSE x : LastBefore(x, k, OnLevel(l, i))
    OBVIOUS
  <2> HIDE DEF h
  <2>3. QED
    BY <2>1, <2>2
<1> HIDE DEF h
<1>4. ASSUME NEW i \in 0 .. top, NEW x \in OnLevel(l, i), x < k PROVE Advance(l, x, i, k) = h[i]
  BY <1>0, <1>2, <1>3, <1>4, AdvanceIs
<1>5. ASSUME NEW i \in 0 .. top, i # top PROVE i + 1 \in 0 .. top /\ h[i + 1] \in OnLevel(l, i) /\ h[i + 1] < k
  <2>1. i + 1 \in 0 .. top /\ i \in 0 .. i + 1
    BY <1>0, <1>5
  <2>2. OnLevel(l, i + 1) \subseteq OnLevel(l, i)
    BY <1>0, <1>1, <2>1, Levels
  <2>3. LastBefore(h[i + 1], k, OnLevel(l, i + 1))
    BY <1>3, <2>1
  <2>4. QED
    BY <2>1, <2>2, <2>3 DEF LastBefore
<1>6. Header < k
  BY <1>0 DEF Header
<1>7. \A i \in 0 .. top : Advance(l, IF i = top THEN Header ELSE h[i + 1], i, k) = h[i]
  BY <1>2, <1>4, <1>5, <1>6
<1>8. h = G(h)
  BY <1>7 DEF h
<1>9. u = G(u)
  <2> HIDE DEF G
  <2>1. QED
    BY <1>8
<1>10. Update(l, k) = u
  BY DEF Update
<1> HIDE DEF u
<1>11. \A i \in 0 .. top : u[i] = Advance(l, IF i = top THEN Header ELSE u[i + 1], i, k)
  <2>1. \A i \in 0 .. top : G(u)[i] = Advance(l, IF i = top THEN Header ELSE u[i + 1], i, k)
    OBVIOUS
  <2> HIDE DEF G
  <2>2. QED
    BY <1>9, <2>1
<1> HIDE DEF top
<1> DEFINE T == {n \in Nat : n <= top => u[top - n] = h[top - n]}
<1>12. 0 \in T
  <2>1. top \in 0 .. top /\ top - 0 = top
    BY <1>0
  <2>2. u[top] = Advance(l, Header, top, k)
    BY <1>11, <2>1
  <2>3. QED
    BY <1>2, <1>4, <1>6, <2>1, <2>2
<1>13. ASSUME NEW n \in T PROVE n + 1 \in T
  <2>1. n \in Nat /\ (n <= top => u[top - n] = h[top - n])
    OBVIOUS
  <2>2. SUFFICES ASSUME n + 1 <= top PROVE u[top - (n + 1)] = h[top - (n + 1)]
    BY <2>1
  <2> DEFINE i == top - (n + 1)
  <2>3. i \in 0 .. top /\ i # top /\ i + 1 = top - n /\ u[top - n] = h[top - n]
    BY <1>0, <2>1, <2>2
  <2> HIDE DEF i
  <2>4. u[i] = Advance(l, h[i + 1], i, k)
    BY <1>11, <2>3
  <2>5. u[i] = h[i]
    BY <1>4, <1>5, <2>3, <2>4
  <2>6. QED
    BY <2>5 DEF i
<1>14. Nat \subseteq T
  <2>1. T \subseteq Nat
    OBVIOUS
  <2> HIDE DEF T
  <2>2. QED
    BY <1>12, <1>13, <2>1, SetInduction
<1>15. \A i \in 0 .. top : u[i] = h[i]
  <2> SUFFICES ASSUME NEW i \in 0 .. top PROVE u[i] = h[i]
    OBVIOUS
  <2>1. top - i \in Nat /\ top - i <= top /\ top - (top - i) = i
    BY <1>0
  <2>2. QED
    BY <1>14, <2>1
<1>16. QED
  BY <1>3, <1>10, <1>15 DEF top

\* What the search tells of k: the next node on the lowest level is k, if it is in the list.
LEMMA SearchEnds ==
    ASSUME NEW l, NEW m, SkipInv(l, m), NEW k \in TableKeys
    PROVE  l.forward[Update(l, k)[0]][0] = k <=> k \in DOMAIN m
<1> DEFINE b == Update(l, k)[0]
           S == OnLevel(l, 0)
<1>0. SkipShape(l, m) /\ SkipLinks(l) /\ l.level \in 0 .. SL_MAX_LEVEL /\ SL_MAX_LEVEL \in Nat /\ k \in Nat \ {0}
  BY LevelAssumption, TableKeysAssumption DEF SkipInv, SkipShape
<1>1. 0 \in 0 .. l.level /\ 0 \in 0 .. SL_MAX_LEVEL
  BY <1>0
<1>2. LastBefore(b, k, S)
  BY <1>1, UpdateIs
<1>3. S \in SUBSET Nat /\ S = DOMAIN m \cup {Header}
  BY <1>0, Levels
<1>4. Follows(l.forward[b][0], b, S)
  BY <1>0, <1>1, <1>2 DEF SkipLinks, LastBefore
<1> HIDE DEF S, b
<1>5. l.forward[b][0] = k <=> k \in S
  BY <1>0, <1>2, <1>3, <1>4, BeforeFinds
<1>6. QED
  BY <1>0, <1>3, <1>5 DEF b, Header

LEMMA SkipFinds ==
    ASSUME NEW l, NEW m, SkipInv(l, m), NEW k \in TableKeys
    PROVE  SkipFind(l, k) = IF k \in DOMAIN m THEN m[k] ELSE Absent
<1>1. l.forward[Update(l, k)[0]][0] = k <=> k \in DOMAIN m
  BY SearchEnds
<1>2. k # Nil
  BY TableKeysAssumption DEF Nil
<1>3. l.value = m
  BY DEF SkipInv, SkipShape
<1>4. QED
  BY <1>1, <1>2, <1>3 DEF SkipFind

\* A node linked in behind the last one before it, on its levels.
LEMMA SkipLinking ==
    ASSUME NEW l, NEW m, SkipInv(l, m), NEW k \in TableKeys, k \notin DOMAIN m, NEW v, NEW lvl \in 0 .. SL_MAX_LEVEL,
           NEW before, \A i \in 0 .. lvl : LastBefore(before[i], k, OnLevel(l, i))
    PROVE  SkipInv(SkipLinked(l, before, k, v, lvl), Bound(m, k, v))
<1> DEFINE r == SkipLinked(l, before, k, v, lvl)
           w == Bound(m, k, v)
           N == DOMAIN m
<1>0. SkipShape(l, m) /\ SkipLinks(l) /\ TopIsUsed(l) /\ SL_MAX_LEVEL \in Nat /\ k \in Nat \ {0} /\ Header = 0
  BY LevelAssumption, TableKeysAssumption DEF SkipInv, Header
<1>1. /\ l.value = m
      /\ l.level \in 0 .. SL_MAX_LEVEL /\ N \subseteq TableKeys
      /\ DOMAIN l.forward = N \cup {Header} /\ DOMAIN l.forward[Header] = 0 .. SL_MAX_LEVEL
      /\ \A x \in N : 0 \in DOMAIN l.forward[x] /\ DOMAIN l.forward[x] \subseteq 0 .. l.level
      /\ \A x \in N : \A i \in DOMAIN l.forward[x] : 0 .. i \subseteq DOMAIN l.forward[x]
  BY <1>0 DEF SkipShape
<1>2. DOMAIN w = N \cup {k}
  BY BoundIs
<1>3. r = [level |-> r.level, value |-> w, forward |-> r.forward] /\ r.level = IF lvl > l.level THEN lvl ELSE l.level
  BY <1>1 DEF SkipLinked
<1>4. /\ DOMAIN r.forward = N \cup {Header} \cup {k}
      /\ r.forward[k] = [i \in 0 .. lvl |-> l.forward[before[i]][i]]
      /\ \A x \in N \cup {Header} : r.forward[x] = [i \in DOMAIN l.forward[x] |->
                                       IF i <= lvl /\ before[i] = x THEN k ELSE l.forward[x][i]]
  <2>1. k \notin N \cup {Header}
    BY <1>0
  <2>2. QED
    BY <1>1, <2>1 DEF SkipLinked
<1> HIDE DEF r, w
<1>5. /\ DOMAIN r.forward[k] = 0 .. lvl /\ \A i \in 0 .. lvl : r.forward[k][i] = l.forward[before[i]][i]
      /\ \A x \in N \cup {Header} : /\ DOMAIN r.forward[x] = DOMAIN l.forward[x]
                                    /\ \A i \in DOMAIN l.forward[x] : r.forward[x][i] =
                                          IF i <= lvl /\ before[i] = x THEN k ELSE l.forward[x][i]
  <2>1. DOMAIN r.forward[k] = 0 .. lvl /\ \A i \in 0 .. lvl : r.forward[k][i] = l.forward[before[i]][i]
    BY <1>4
  <2>2. ASSUME NEW x \in N \cup {Header}
        PROVE  /\ DOMAIN r.forward[x] = DOMAIN l.forward[x]
               /\ \A i \in DOMAIN l.forward[x] : r.forward[x][i] =
                     IF i <= lvl /\ before[i] = x THEN k ELSE l.forward[x][i]
    <3> DEFINE f == l.forward[x]
    <3>1. r.forward[x] = [i \in DOMAIN f |-> IF i <= lvl /\ before[i] = x THEN k ELSE f[i]]
      BY <1>4
    <3> HIDE DEF f
    <3>2. DOMAIN r.forward[x] = DOMAIN f
          /\ \A i \in DOMAIN f : r.forward[x][i] = IF i <= lvl /\ before[i] = x THEN k ELSE f[i]
      BY <3>1
    <3>3. QED
      BY <3>2 DEF f
  <2>3. QED
    BY <2>1, <2>2
<1>6. r.level \in 0 .. SL_MAX_LEVEL /\ l.level <= r.level /\ lvl <= r.level /\ lvl \in Nat /\ l.level \in Nat
  BY <1>0, <1>1, <1>3
<1>7. SkipShape(r, w)
  <2>1. \A x \in N \cup {k} : 0 \in DOMAIN r.forward[x] /\ DOMAIN r.forward[x] \subseteq 0 .. r.level
    <3>1. 0 \in 0 .. lvl /\ 0 .. lvl \subseteq 0 .. r.level /\ 0 .. l.level \subseteq 0 .. r.level
      BY <1>6
    <3>2. QED
      BY <1>1, <1>5, <3>1
  <2>2. \A x \in N \cup {k} : \A i \in DOMAIN r.forward[x] : 0 .. i \subseteq DOMAIN r.forward[x]
    <3>1. \A i \in 0 .. lvl : 0 .. i \subseteq 0 .. lvl
      BY <1>6
    <3>2. QED
      BY <1>1, <1>5, <3>1
  <2>3. DOMAIN r.forward = N \cup {k} \cup {Header} /\ DOMAIN r.forward[Header] = 0 .. SL_MAX_LEVEL
    BY <1>1, <1>4, <1>5
  <2>4. DOMAIN w \subseteq TableKeys
    BY <1>1, <1>2
  <2>5. QED
    BY <1>2, <1>3, <1>6, <2>1, <2>2, <2>3, <2>4 DEF SkipShape
<1>8. \A i \in Nat : OnLevel(r, i) = OnLevel(l, i) \cup (IF i <= lvl THEN {k} ELSE {}) /\ k \notin OnLevel(l, i)
  <2> SUFFICES ASSUME NEW i \in Nat
               PROVE  OnLevel(r, i) = OnLevel(l, i) \cup (IF i <= lvl THEN {k} ELSE {}) /\ k \notin OnLevel(l, i)
    OBVIOUS
  <2>1. k \notin OnLevel(l, i) /\ k \notin N \cup {Header}
    BY <1>0, <1>1 DEF OnLevel
  <2>2. i \in DOMAIN r.forward[k] <=> i <= lvl
    BY <1>5, <1>6
  <2>3. \A x \in N \cup {Header} : i \in DOMAIN r.forward[x] <=> i \in DOMAIN l.forward[x]
    BY <1>5
  <2>4. QED
    BY <1>1, <1>4, <2>1, <2>2, <2>3 DEF OnLevel
<1>9. SkipLinks(r)
  <2> SUFFICES ASSUME NEW i \in 0 .. SL_MAX_LEVEL, NEW x \in OnLevel(r, i)
               PROVE  Follows(r.forward[x][i], x, OnLevel(r, i))
    BY DEF SkipLinks
  <2> DEFINE S == OnLevel(l, i)
             next == [y \in S |-> l.forward[y][i]]
  <2>1. i \in Nat /\ S \in SUBSET Nat
    BY <1>0, Levels
  <2>2. \A y \in S : Follows(next[y], y, S)
    BY <1>0 DEF SkipLinks
  <2>3. \A y \in S : y \in N \cup {Header} /\ i \in DOMAIN l.forward[y] /\ next[y] = l.forward[y][i]
    BY <1>1 DEF OnLevel
  <2> HIDE DEF next
  <2>4. CASE i <= lvl
    <3>1. OnLevel(r, i) = S \cup {k} /\ k \notin S /\ LastBefore(before[i], k, S) /\ before[i] \in S /\ i \in 0 .. lvl
      BY <1>6, <1>8, <2>1, <2>4 DEF LastBefore
    <3>2. /\ Follows(next[before[i]], k, S \cup {k}) /\ Follows(k, before[i], S \cup {k})
          /\ \A y \in S : y # before[i] => Follows(next[y], y, S \cup {k})
      <4> HIDE DEF S
      <4> DEFINE b == before[i]
      <4>1. LastBefore(b, k, S)
        BY <3>1
      <4> HIDE DEF b
      <4>2. /\ Follows(next[b], k, S \cup {k}) /\ Follows(k, b, S \cup {k})
            /\ \A y \in S : y # b => Follows(next[y], y, S \cup {k})
        BY <1>0, <2>1, <2>2, <3>1, <4>1, LinkedBehind
      <4>3. QED
        BY <4>2 DEF b
    <3>3. CASE x = k
      <4>1. r.forward[x][i] = next[before[i]]
        BY <1>5, <2>3, <3>1, <3>3
      <4>2. QED
        BY <3>1, <3>2, <3>3, <4>1
    <3>4. CASE x # k
      <4>1. x \in S
        BY <3>1, <3>4
      <4>2. r.forward[x][i] = IF before[i] = x THEN k ELSE next[x]
        BY <1>5, <2>3, <2>4, <4>1
      <4>3. QED
        BY <3>1, <3>2, <4>1, <4>2
    <3>5. QED
      BY <3>3, <3>4
  <2>5. CASE ~(i <= lvl)
    <3>1. OnLevel(r, i) = S
      BY <1>8, <2>1, <2>5
    <3>2. r.forward[x][i] = next[x]
      BY <1>5, <2>3, <2>5, <3>1
    <3>3. QED
      BY <2>2, <3>1, <3>2
  <2>6. QED
    BY <2>4, <2>5
<1>10. TopIsUsed(r)
  <2>0. Header \in N \cup {Header} /\ k # Nil
    BY <1>0 DEF Nil
  <2>1. CASE lvl > l.level
    <3>1. r.level = lvl /\ lvl \in 0 .. lvl /\ OnLevel(l, lvl) = {Header} /\ lvl \in DOMAIN l.forward[Header]
      BY <1>0, <1>1, <1>3, <1>6, <2>1, Levels
    <3>2. before[lvl] = Header
      BY <3>1 DEF LastBefore
    <3>3. r.forward[Header][lvl] = k
      BY <1>5, <1>6, <2>0, <3>1, <3>2
    <3>4. QED
      BY <2>0, <3>1, <3>3 DEF TopIsUsed
  <2>2. CASE ~(lvl > l.level)
    <3>1. r.level = l.level /\ l.level \in DOMAIN l.forward[Header]
      BY <1>1, <1>3, <2>2
    <3>2. r.forward[Header][l.level] \in {k, l.forward[Header][l.level]}
      BY <1>5, <2>0, <3>1
    <3>3. QED
      BY <1>0, <2>0, <3>1, <3>2 DEF TopIsUsed
  <2>3. QED
    BY <2>1, <2>2
<1>11. SkipInv(r, w)
  BY <1>7, <1>9, <1>10 DEF SkipInv
<1>12. QED
  BY <1>11 DEF r, w

LEMMA SkipInserting ==
    ASSUME NEW l, NEW m, SkipInv(l, m), NEW k \in TableKeys, NEW v, NEW lvl \in 0 .. SL_MAX_LEVEL
    PROVE  SkipInv(SkipInsert(l, k, v, lvl), IF k \in DOMAIN m THEN m ELSE Bound(m, k, v))
<1> DEFINE u == Update(l, k)
           before == [i \in 0 .. lvl |-> IF i <= l.level THEN u[i] ELSE Header]
<1>0. SkipShape(l, m) /\ l.level \in 0 .. SL_MAX_LEVEL /\ SL_MAX_LEVEL \in Nat /\ k \in Nat \ {0} /\ lvl \in Nat
  BY LevelAssumption, TableKeysAssumption DEF SkipInv, SkipShape
<1>1. l.forward[u[0]][0] = k <=> k \in DOMAIN m
  BY SearchEnds
<1>2. CASE k \in DOMAIN m
  BY <1>1, <1>2 DEF SkipInsert
<1>3. CASE k \notin DOMAIN m
  <2>1. SkipInsert(l, k, v, lvl) = SkipLinked(l, before, k, v, lvl)
    BY <1>1, <1>3 DEF SkipInsert
  <2>2. \A i \in 0 .. l.level : LastBefore(u[i], k, OnLevel(l, i))
    BY UpdateIs
  <2>3. \A i \in 0 .. lvl : LastBefore(before[i], k, OnLevel(l, i))
    <3> SUFFICES ASSUME NEW i \in 0 .. lvl PROVE LastBefore(before[i], k, OnLevel(l, i))
      OBVIOUS
    <3>1. CASE i <= l.level
      BY <2>2, <3>1
    <3>2. CASE ~(i <= l.level)
      <4>1. OnLevel(l, i) = {Header} /\ before[i] = Header
        <5>1. i \in 0 .. SL_MAX_LEVEL /\ i > l.level
          BY <1>0, <3>2
        <5>2. QED
          BY <1>0, <3>2, <5>1, Levels
      <4> HIDE DEF before
      <4>2. LastBefore(Header, k, {Header})
        BY <1>0 DEF LastBefore, Header
      <4>3. QED
        BY <4>1, <4>2
    <3>3. QED
      BY <3>1, <3>2
  <2> HIDE DEF before
  <2>4. SkipInv(SkipLinked(l, before, k, v, lvl), Bound(m, k, v))
    BY <1>3, <2>3, SkipLinking
  <2>5. QED
    BY <1>3, <2>1, <2>4
<1>4. QED
  BY <1>2, <1>3

\* A node unlinked on its levels.
LEMMA SkipUnlinking ==
    ASSUME NEW l, NEW m, SkipInv(l, m), NEW k \in DOMAIN m,
           NEW u, \A i \in 0 .. l.level : LastBefore(u[i], k, OnLevel(l, i))
    PROVE  SkipShape(SkipUnlinked(l, u, k), Unbound(m, k)) /\ SkipLinks(SkipUnlinked(l, u, k))
<1> DEFINE r == SkipUnlinked(l, u, k)
           w == Unbound(m, k)
           N == DOMAIN m
           Passed(x, i) == i <= l.level /\ u[i] = x /\ \A j \in 0 .. i : l.forward[u[j]][j] = k
           fwd == [x \in DOMAIN l.forward \ {k} |->
                      [i \in DOMAIN l.forward[x] |-> IF Passed(x, i) THEN l.forward[k][i] ELSE l.forward[x][i]]]
<1>0. SkipShape(l, m) /\ SkipLinks(l) /\ SL_MAX_LEVEL \in Nat /\ k \in TableKeys /\ k \in Nat \ {0} /\ Header = 0
  BY LevelAssumption, TableKeysAssumption DEF SkipInv, SkipShape, Header
<1>1. /\ l = [level |-> l.level, value |-> m, forward |-> l.forward]
      /\ l.level \in 0 .. SL_MAX_LEVEL /\ N \subseteq TableKeys
      /\ DOMAIN l.forward = N \cup {Header} /\ DOMAIN l.forward[Header] = 0 .. SL_MAX_LEVEL
      /\ \A x \in N : 0 \in DOMAIN l.forward[x] /\ DOMAIN l.forward[x] \subseteq 0 .. l.level
      /\ \A x \in N : \A i \in DOMAIN l.forward[x] : 0 .. i \subseteq DOMAIN l.forward[x]
  BY <1>0 DEF SkipShape
<1>2. DOMAIN w = N \ {k}
  BY UnboundIs
<1>3. r = [level |-> l.level, value |-> w, forward |-> fwd]
  <2>1. l.value = m
    BY <1>1
  <2>2. r = [l EXCEPT !.value = w, !.forward = fwd]
    BY <2>1 DEF SkipUnlinked
  <2> HIDE DEF w, fwd
  <2>3. QED
    BY <1>1, <2>2
<1>4. \A i \in Nat : OnLevel(l, i) \in SUBSET Nat
  BY <1>0, Levels
\* A level leads to k from the node before it just if k is on that level.
<1>5. ASSUME NEW i \in 0 .. l.level PROVE l.forward[u[i]][i] = k <=> k \in OnLevel(l, i)
  <2> DEFINE S == OnLevel(l, i)
             b == u[i]
  <2>1. i \in Nat /\ i \in 0 .. SL_MAX_LEVEL /\ LastBefore(b, k, S)
    BY <1>0, <1>1
  <2>2. S \in SUBSET Nat /\ Follows(l.forward[b][i], b, S)
    BY <1>0, <1>4, <2>1 DEF SkipLinks, LastBefore
  <2> DEFINE y == l.forward[b][i]
  <2> HIDE DEF S, b, y
  <2>3. y = k <=> k \in S
    <3>1. Follows(y, b, S)
      BY <2>2 DEF y
    <3>2. QED
      BY <1>0, <2>1, <2>2, <3>1, BeforeFinds
  <2>4. QED
    BY <2>3 DEF S, b, y
<1>6. ASSUME NEW i \in 0 .. SL_MAX_LEVEL, NEW x PROVE Passed(x, i) <=> (k \in OnLevel(l, i) /\ u[i] = x)
  <2>1. \A j \in 0 .. i : OnLevel(l, i) \subseteq OnLevel(l, j)
    BY <1>0, Levels
  <2>2. k \in OnLevel(l, i) => i <= l.level
    BY <1>0, <1>1 DEF OnLevel
  <2>3. i \in 0 .. i /\ (i <= l.level => \A j \in 0 .. i : j \in 0 .. l.level)
    BY <1>0, <1>1
  <2>4. QED
    BY <1>5, <2>1, <2>2, <2>3
<1> HIDE DEF Passed
<1>7. /\ DOMAIN fwd = (N \cup {Header}) \ {k}
      /\ \A x \in (N \cup {Header}) \ {k} : /\ DOMAIN fwd[x] = DOMAIN l.forward[x]
                                            /\ \A i \in DOMAIN l.forward[x] : fwd[x][i] =
                                                  IF Passed(x, i) THEN l.forward[k][i] ELSE l.forward[x][i]
  <2>1. DOMAIN fwd = (N \cup {Header}) \ {k}
    BY <1>1
  <2>2. ASSUME NEW x \in (N \cup {Header}) \ {k}
        PROVE  /\ DOMAIN fwd[x] = DOMAIN l.forward[x]
               /\ \A i \in DOMAIN l.forward[x] : fwd[x][i] = IF Passed(x, i) THEN l.forward[k][i] ELSE l.forward[x][i]
    <3> DEFINE f == l.forward[x]
    <3>1. fwd[x] = [i \in DOMAIN f |-> IF Passed(x, i) THEN l.forward[k][i] ELSE f[i]]
      BY <1>1
    <3> HIDE DEF f, fwd
    <3>2. DOMAIN fwd[x] = DOMAIN f /\ \A i \in DOMAIN f : fwd[x][i] = IF Passed(x, i) THEN l.forward[k][i] ELSE f[i]
      BY <3>1
    <3>3. QED
      BY <3>2 DEF f
  <2>3. QED
    BY <2>1, <2>2
<1> HIDE DEF fwd, r, w
<1>8. r.level = l.level /\ r.forward = fwd /\ r = [level |-> r.level, value |-> w, forward |-> r.forward]
  BY <1>3
<1>9. (N \cup {Header}) \ {k} = (N \ {k}) \cup {Header} /\ Header # k
  BY <1>0
<1>10. SkipShape(r, w)
  <2>1. \A x \in N \ {k} : 0 \in DOMAIN r.forward[x] /\ DOMAIN r.forward[x] \subseteq 0 .. r.level
    BY <1>1, <1>7, <1>8
  <2>2. \A x \in N \ {k} : \A i \in DOMAIN r.forward[x] : 0 .. i \subseteq DOMAIN r.forward[x]
    BY <1>1, <1>7, <1>8
  <2>3. DOMAIN r.forward = (N \ {k}) \cup {Header} /\ DOMAIN r.forward[Header] = 0 .. SL_MAX_LEVEL
    BY <1>1, <1>7, <1>8, <1>9
  <2>4. DOMAIN w \subseteq TableKeys /\ r.level \in 0 .. SL_MAX_LEVEL
    BY <1>1, <1>2, <1>8
  <2>5. QED
    BY <1>2, <1>8, <2>1, <2>2, <2>3, <2>4 DEF SkipShape
<1>11. \A i \in Nat : OnLevel(r, i) = OnLevel(l, i) \ {k}
  BY <1>1, <1>7, <1>8 DEF OnLevel
<1>12. SkipLinks(r)
  <2> SUFFICES ASSUME NEW i \in 0 .. SL_MAX_LEVEL, NEW x \in OnLevel(r, i)
               PROVE  Follows(r.forward[x][i], x, OnLevel(r, i))
    BY DEF SkipLinks
  <2> DEFINE S == OnLevel(l, i)
             next == [y \in S |-> l.forward[y][i]]
  <2>1. i \in Nat /\ S \in SUBSET Nat /\ OnLevel(r, i) = S \ {k} /\ x \in S /\ x # k
    BY <1>0, <1>4, <1>11
  <2>2. \A y \in S : Follows(next[y], y, S)
    BY <1>0 DEF SkipLinks
  <2>3. \A y \in S : y \in N \cup {Header} /\ i \in DOMAIN l.forward[y] /\ next[y] = l.forward[y][i]
    BY <1>1 DEF OnLevel
  <2> HIDE DEF next
  <2>4. CASE k \in S
    <3>1. i \in 0 .. l.level
      BY <1>0, <1>1, <2>3, <2>4
    <3> DEFINE b == u[i]
    <3>2. LastBefore(b, k, S)
      BY <3>1
    <3> HIDE DEF b, S
    <3>3. Follows(next[k], b, S \ {k}) /\ \A y \in S \ {k} : y # b => Follows(next[y], y, S \ {k})
      BY <1>0, <2>1, <2>2, <2>4, <3>2, UnlinkedFrom
    <3>4. r.forward[x][i] = IF Passed(x, i) THEN next[k] ELSE next[x]
      BY <1>7, <1>8, <2>1, <2>3, <2>4
    <3>5. Passed(x, i) <=> b = x
      BY <1>6, <2>4 DEF S, b
    <3>6. QED
      BY <2>1, <3>3, <3>4, <3>5
  <2>5. CASE k \notin S
    <3>1. S \ {k} = S
      BY <2>5
    <3>2. ~Passed(x, i)
      BY <1>6, <2>5
    <3>3. r.forward[x][i] = next[x]
      BY <1>7, <1>8, <2>1, <2>3, <3>2
    <3>4. QED
      BY <2>1, <2>2, <3>1, <3>3
  <2>6. QED
    BY <2>4, <2>5
<1>13. QED
  BY <1>10, <1>12 DEF r, w

\* The level that is left: no level above it leads anywhere.
LEMMA Lowering ==
    ASSUME NEW l, NEW m, SkipShape(l, m), SkipLinks(l)
    PROVE  SkipInv(Lowered(l), m)
<1> DEFINE top == l.level
           head == l.forward[Header]
           G(g) == [i \in 0 .. l.level |-> IF i > 0 /\ l.forward[Header][i] = Nil THEN g[i - 1] ELSE i]
           down == CHOOSE g : g = G(g)
           Is(i, e) == e \in 0 .. i /\ (e > 0 => head[e] # Nil) /\ \A j \in e + 1 .. i : head[j] = Nil
           h == [i \in 0 .. l.level |-> CHOOSE e : Is(i, e)]
<1>0. /\ l = [level |-> top, value |-> m, forward |-> l.forward] /\ top \in 0 .. SL_MAX_LEVEL /\ top \in Nat
      /\ SL_MAX_LEVEL \in Nat
  BY LevelAssumption DEF SkipShape
<1>1. Lowered(l) = [l EXCEPT !.level = down[top]]
  BY DEF Lowered
<1>2. h = [i \in 0 .. top |-> CHOOSE e : Is(i, e)] /\ \A g : G(g) = [i \in 0 .. top |-> IF i > 0 /\ head[i] = Nil THEN g[i - 1] ELSE i]
  OBVIOUS
<1> HIDE DEF top, head, h
<1>3. Is(0, 0)
  OBVIOUS
<1>4. ASSUME NEW i \in 1 .. top, head[i] = Nil, NEW e, Is(i - 1, e) PROVE Is(i, e)
  BY <1>0, <1>4
<1>5. ASSUME NEW i \in 1 .. top, head[i] # Nil PROVE Is(i, i)
  BY <1>0, <1>5
<1>6. ASSUME NEW i \in 0 .. top, NEW e, NEW f, Is(i, e), Is(i, f) PROVE e = f
  <2>1. e \in Nat /\ f \in Nat /\ e <= i /\ f <= i /\ i \in Nat
    BY <1>0, <1>6
  <2>2. ~(e < f) /\ ~(f < e)
    <3>1. e < f => f \in e + 1 .. i
      BY <2>1
    <3>2. f < e => e \in f + 1 .. i
      BY <2>1
    <3>3. QED
      BY <1>6, <2>1, <3>1, <3>2
  <2>3. QED
    BY <2>1, <2>2
<1> HIDE DEF Is
<1> DEFINE T == {n \in Nat : n <= top => \E e : Is(n, e)}
<1>7. 0 \in T
  BY <1>3
<1>8. ASSUME NEW n \in T PROVE n + 1 \in T
  <2>1. n \in Nat /\ (n <= top => \E e : Is(n, e))
    OBVIOUS
  <2>2. SUFFICES ASSUME n + 1 <= top PROVE \E e : Is(n + 1, e)
    BY <2>1
  <2>3. n + 1 \in 1 .. top /\ (n + 1) - 1 = n
    BY <1>0, <2>1, <2>2
  <2>4. \E e : Is(n, e)
    BY <1>0, <2>1, <2>2
  <2>5. QED
    BY <1>4, <1>5, <2>3, <2>4
<1>9. Nat \subseteq T
  <2>1. T \subseteq Nat
    OBVIOUS
  <2> HIDE DEF T
  <2>2. QED
    BY <1>7, <1>8, <2>1, SetInduction
<1>10. \A i \in 0 .. top : Is(i, h[i])
  <2> SUFFICES ASSUME NEW i \in 0 .. top PROVE Is(i, h[i])
    OBVIOUS
  <2>1. \E e : Is(i, e)
    BY <1>0, <1>9
  <2>2. h[i] = CHOOSE e : Is(i, e)
    BY <1>2
  <2>3. QED
    BY <2>1, <2>2
<1>11. \A i \in 0 .. top : h[i] = IF i > 0 /\ head[i] = Nil THEN h[i - 1] ELSE i
  <2> SUFFICES ASSUME NEW i \in 0 .. top PROVE h[i] = IF i > 0 /\ head[i] = Nil THEN h[i - 1] ELSE i
    OBVIOUS
  <2>1. CASE i = 0
    <3>1. h[0] = 0
      BY <1>3, <1>6, <1>10, <2>1
    <3>2. QED
      BY <2>1, <3>1
  <2>2. CASE i # 0
    <3>1. i \in 1 .. top /\ i - 1 \in 0 .. top /\ i > 0
      BY <1>0, <2>2
    <3>2. CASE head[i] = Nil
      <4>1. Is(i, h[i - 1])
        BY <1>4, <1>10, <3>1, <3>2
      <4>2. QED
        BY <1>6, <1>10, <3>1, <3>2, <4>1
    <3>3. CASE head[i] # Nil
      BY <1>5, <1>6, <1>10, <3>1, <3>3
    <3>4. QED
      BY <3>2, <3>3
  <2>3. QED
    BY <2>1, <2>2
<1>12. h = G(h)
  <2>1. h = [i \in 0 .. top |-> h[i]]
    BY <1>2
  <2> HIDE DEF G
  <2>2. G(h) = [i \in 0 .. top |-> IF i > 0 /\ head[i] = Nil THEN h[i - 1] ELSE i]
    BY <1>2
  <2>3. QED
    BY <1>11, <2>1, <2>2
<1>13. down = G(down)
  <2> HIDE DEF G
  <2>1. QED
    BY <1>12
<1> HIDE DEF down
<1>14. \A i \in 0 .. top : down[i] = IF i > 0 /\ head[i] = Nil THEN down[i - 1] ELSE i
  <2>1. G(down) = [i \in 0 .. top |-> IF i > 0 /\ head[i] = Nil THEN down[i - 1] ELSE i]
    BY <1>2
  <2> HIDE DEF G
  <2>2. QED
    BY <1>13, <2>1
<1> DEFINE U == {n \in Nat : n <= top => Is(n, down[n])}
<1>15. 0 \in U
  <2>1. 0 \in 0 .. top
    BY <1>0
  <2>2. down[0] = 0
    BY <1>14, <2>1
  <2>3. QED
    BY <1>3, <2>2
<1>16. ASSUME NEW n \in U PROVE n + 1 \in U
  <2>1. n \in Nat /\ (n <= top => Is(n, down[n]))
    OBVIOUS
  <2>2. SUFFICES ASSUME n + 1 <= top PROVE Is(n + 1, down[n + 1])
    BY <2>1
  <2>3. n + 1 \in 1 .. top /\ (n + 1) - 1 = n /\ n + 1 \in 0 .. top /\ n + 1 > 0 /\ Is(n, down[n])
    BY <1>0, <2>1, <2>2
  <2>4. down[n + 1] = IF head[n + 1] = Nil THEN down[n] ELSE n + 1
    BY <1>14, <2>3
  <2>5. QED
    BY <1>4, <1>5, <2>3, <2>4
<1>17. Nat \subseteq U
  <2>1. U \subseteq Nat
    OBVIOUS
  <2> HIDE DEF U
  <2>2. QED
    BY <1>15, <1>16, <2>1, SetInduction
<1>18. Is(top, down[top])
  BY <1>0, <1>17
<1> DEFINE low == down[top]
           r == Lowered(l)
<1> HIDE DEF low
<1>19. low \in 0 .. top /\ (low > 0 => head[low] # Nil) /\ \A j \in low + 1 .. top : head[j] = Nil
  BY <1>18 DEF Is, low
<1>20. r = [level |-> low, value |-> m, forward |-> l.forward]
  BY <1>0, <1>1 DEF low
<1> HIDE DEF r
<1>21. r.level = low /\ r.forward = l.forward /\ \A i : OnLevel(r, i) = OnLevel(l, i)
  BY <1>20 DEF OnLevel
\* A node above would follow the header there.
<1>22. ASSUME NEW x \in DOMAIN m, NEW i \in DOMAIN l.forward[x] PROVE i \in 0 .. low
  <2>1. i \in 0 .. top /\ x \in OnLevel(l, i) /\ x # Header /\ x \in Nat \ {0}
    BY TableKeysAssumption DEF SkipShape, OnLevel, top, Header
  <2>2. i \in 0 .. SL_MAX_LEVEL
    BY <1>0, <2>1
  <2>3. Header \in OnLevel(l, i)
    BY <2>2, Levels
  <2>4. SUFFICES ASSUME ~(i <= low) PROVE FALSE
    BY <1>0, <1>19, <2>1
  <2>5. head[i] = Nil
    <3>1. i \in low + 1 .. top
      BY <1>0, <1>19, <2>1, <2>4
    <3>2. QED
      BY <1>19, <3>1
  <2>6. Follows(Nil, Header, OnLevel(l, i))
    BY <2>2, <2>3, <2>5 DEF SkipLinks, head
  <2>7. x <= Header
    BY <2>1, <2>6 DEF Follows
  <2>8. QED
    BY <2>1, <2>7 DEF Header
<1>23. SkipShape(r, m)
  <2>1. r = [level |-> r.level, value |-> m, forward |-> r.forward] /\ r.level \in 0 .. SL_MAX_LEVEL
    BY <1>0, <1>19, <1>20, <1>21
  <2>2. \A x \in DOMAIN m : 0 \in DOMAIN r.forward[x] /\ DOMAIN r.forward[x] \subseteq 0 .. r.level
    BY <1>21, <1>22 DEF SkipShape
  <2>3. QED
    BY <1>21, <2>1, <2>2 DEF SkipShape
<1>24. SkipLinks(r)
  BY <1>21 DEF SkipLinks
<1>25. TopIsUsed(r)
  BY <1>19, <1>21 DEF TopIsUsed, head
<1>26. SkipInv(r, m)
  BY <1>23, <1>24, <1>25 DEF SkipInv
<1>27. QED
  BY <1>26 DEF r

LEMMA SkipDeleting ==
    ASSUME NEW l, NEW m, SkipInv(l, m), IsFunction(m), NEW k \in TableKeys
    PROVE  SkipInv(SkipDelete(l, k), Unbound(m, k))
<1> DEFINE u == Update(l, k)
           w == Unbound(m, k)
           r == SkipUnlinked(l, u, k)
<1>1. l.forward[u[0]][0] = k <=> k \in DOMAIN m
  BY SearchEnds
<1>2. CASE k \in DOMAIN m
  <2>1. SkipDelete(l, k) = Lowered(r)
    BY <1>1, <1>2 DEF SkipDelete
  <2>2. \A i \in 0 .. l.level : LastBefore(u[i], k, OnLevel(l, i))
    BY UpdateIs
  <2> HIDE DEF u
  <2>3. SkipShape(r, w) /\ SkipLinks(r)
    BY <1>2, <2>2, SkipUnlinking
  <2> HIDE DEF r, w
  <2>4. SkipInv(Lowered(r), w)
    BY <2>3, Lowering
  <2>5. QED
    BY <2>1, <2>4 DEF w
<1>3. CASE k \notin DOMAIN m
  <2>1. SkipDelete(l, k) = l
    BY <1>1, <1>3 DEF SkipDelete
  <2>2. Unbound(m, k) = m
    <3>1. DOMAIN m \ {k} = DOMAIN m
      BY <1>3
    <3>2. Unbound(m, k) = [x \in DOMAIN m |-> m[x]]
      BY <3>1 DEF Unbound
    <3>3. QED
      BY <3>2 DEF IsFunction
  <2>3. QED
    BY <2>1, <2>2
<1>4. QED
  BY <1>2, <1>3

LEMMA SkipStarts == SkipInv(EmptySkip, EmptyMap)
<1> DEFINE l == EmptySkip
<1>0. SL_MAX_LEVEL \in Nat /\ DOMAIN EmptyMap = {}
  BY LevelAssumption DEF EmptyMap
<1>1. /\ l = [level |-> l.level, value |-> EmptyMap, forward |-> l.forward] /\ l.level = 0
      /\ l.forward = [x \in {Header} |-> [i \in 0 .. SL_MAX_LEVEL |-> Nil]]
  BY DEF EmptySkip, EmptyMap
<1> HIDE DEF l
<1>2. DOMAIN l.forward = {Header} /\ l.forward[Header] = [i \in 0 .. SL_MAX_LEVEL |-> Nil]
  BY <1>1
<1>3. DOMAIN l.forward[Header] = 0 .. SL_MAX_LEVEL /\ \A i \in 0 .. SL_MAX_LEVEL : l.forward[Header][i] = Nil
  BY <1>2
<1>4. SkipShape(l, EmptyMap)
  BY <1>0, <1>1, <1>2, <1>3 DEF SkipShape
<1>5. SkipLinks(l)
  BY <1>2, <1>3 DEF SkipLinks, OnLevel, Follows, Header
<1>6. QED
  BY <1>1, <1>4, <1>5 DEF SkipInv, TopIsUsed, l
-----------------------------------------------------------------------------
(* Every sequence of operations on the maps. *)

\* A list whose header's cells were not zero is left alone.
MapsInv ==
    /\ kind \in MapKinds /\ IsFunction(model)
    /\ kind = "bst" => BstInv(s, model)
    /\ kind = "skip" => IsLost(s) \/ SkipInv(s, model)
    /\ kind = "hash" => HashInv(s, model)

LEMMA MapsStarts == ASSUME MapsInit PROVE MapsInv
<1>0. kind \in MapKinds /\ model = EmptyMap
  BY DEF MapsInit
<1>1. IsFunction(model)
  BY <1>0 DEF IsFunction, EmptyMap
<1>2. CASE kind = "bst"
  <2>1. s = EmptyBst
    BY <1>2 DEF MapsInit
  <2>2. BstInv(s, model)
    BY <1>0, <2>1, BstStarts
  <2>3. QED
    BY <1>0, <1>1, <1>2, <2>2 DEF MapsInv
<1>3. CASE kind = "skip"
  <2>1. s = EmptySkip \/ s = LostSkip
    BY <1>3 DEF MapsInit
  <2>2. CASE s = EmptySkip
    <3>1. SkipInv(s, model)
      BY <1>0, <2>2, SkipStarts
    <3>2. QED
      BY <1>0, <1>1, <1>3, <3>1 DEF MapsInv
  <2>3. CASE s = LostSkip
    <3>1. IsLost(s)
      BY <2>3 DEF IsLost, LostSkip, EmptySkip
    <3>2. QED
      BY <1>0, <1>1, <1>3, <3>1 DEF MapsInv
  <2>4. QED
    BY <2>1, <2>2, <2>3
<1>4. CASE kind = "hash"
  <2>1. s = EmptyTable(TableSize)
    BY <1>4 DEF MapsInit
  <2>2. s = [r |-> TableBits, slot |-> [i \in TableSlots |-> <<>>]]
    BY <2>1 DEF EmptyTable, TableBits, TableSlots
  <2>3. HashInv(s, model)
    BY <1>0, <2>2, NoneHeld
  <2>4. QED
    BY <1>0, <1>1, <1>4, <2>3 DEF MapsInv
<1>5. QED
  BY <1>0, <1>2, <1>3, <1>4 DEF MapKinds

LEMMA MapFunctions ==
    ASSUME NEW m, IsFunction(m), NEW k, NEW v
    PROVE  IsFunction(Bound(m, k, v)) /\ IsFunction(Unbound(m, k)) /\ IsFunction(EmptyMap)
           /\ IsFunction(IF k \in DOMAIN m THEN m ELSE Bound(m, k, v))
  BY DEF IsFunction, Bound, Unbound, EmptyMap

LEMMA MapsKeeps == ASSUME MapsInv, [MapsNext]_part PROVE MapsInv'
<1>0. /\ kind \in MapKinds /\ IsFunction(model) /\ (kind = "bst" => BstInv(s, model))
      /\ (kind = "skip" => IsLost(s) \/ SkipInv(s, model)) /\ (kind = "hash" => HashInv(s, model))
  BY DEF MapsInv
<1>1. ASSUME NEW k \in TableKeys, NEW v \in TableValues, InsertIntoBst(k, v) PROVE MapsInv'
  <2>1. kind = "bst" /\ kind' = kind /\ s' = BstInsert(s, k, v)
        /\ model' = IF k \in DOMAIN model THEN model ELSE Bound(model, k, v)
    BY <1>1 DEF InsertIntoBst, Becomes, MapWith
  <2>2. BstInv(s', model')
    <3>1. BstInv(BstInsert(s, k, v), IF k \in DOMAIN model THEN model ELSE Bound(model, k, v))
      BY <1>0, <2>1, BstInserting
    <3>2. QED
      BY <2>1, <3>1
  <2>3. IsFunction(model')
    <3>1. IsFunction(IF k \in DOMAIN model THEN model ELSE Bound(model, k, v))
      BY <1>0, MapFunctions
    <3>2. QED
      BY <2>1, <3>1
  <2>4. QED
    BY <1>0, <2>1, <2>2, <2>3 DEF MapsInv
<1>2. ASSUME NEW k \in TableKeys, NEW v \in TableValues, AssignInHash(k, v) PROVE MapsInv'
  <2>1. kind = "hash" /\ kind' = kind /\ s' = HashAssign(s, k, v) /\ model' = Bound(model, k, v)
    BY <1>2 DEF AssignInHash, Becomes
  <2>2. HashInv(s', model')
    <3>1. HashInv(HashAssign(s, k, v), Bound(model, k, v))
      BY <1>0, <2>1, Assigning
    <3>2. QED
      BY <2>1, <3>1
  <2>3. IsFunction(model')
    <3>1. IsFunction(Bound(model, k, v))
      BY <1>0, MapFunctions
    <3>2. QED
      BY <2>1, <3>1
  <2>4. QED
    BY <1>0, <2>1, <2>2, <2>3 DEF MapsInv
<1>3. ASSUME NEW k \in TableKeys, NEW v \in TableValues, NEW lvl \in 0 .. SL_MAX_LEVEL, InsertIntoSkip(k, v, lvl)
      PROVE  MapsInv'
  <2>1. kind = "skip" /\ kind' = kind /\ ~IsLost(s) /\ s' = SkipInsert(s, k, v, lvl)
        /\ model' = IF k \in DOMAIN model THEN model ELSE Bound(model, k, v)
    BY <1>3 DEF InsertIntoSkip, Becomes, MapWith
  <2>2. SkipInv(s', model')
    <3>1. SkipInv(SkipInsert(s, k, v, lvl), IF k \in DOMAIN model THEN model ELSE Bound(model, k, v))
      BY <1>0, <2>1, SkipInserting
    <3>2. QED
      BY <2>1, <3>1
  <2>3. IsFunction(model')
    <3>1. IsFunction(IF k \in DOMAIN model THEN model ELSE Bound(model, k, v))
      BY <1>0, MapFunctions
    <3>2. QED
      BY <2>1, <3>1
  <2>4. QED
    BY <1>0, <2>1, <2>2, <2>3 DEF MapsInv
<1>4. ASSUME NEW k \in TableKeys, DeleteFromSkip(k) PROVE MapsInv'
  <2>1. kind = "skip" /\ kind' = kind /\ ~IsLost(s) /\ s' = SkipDelete(s, k) /\ model' = Unbound(model, k)
    BY <1>4 DEF DeleteFromSkip, Becomes
  <2>2. SkipInv(s', model')
    <3>1. SkipInv(SkipDelete(s, k), Unbound(model, k))
      BY <1>0, <2>1, SkipDeleting
    <3>2. QED
      BY <2>1, <3>1
  <2>3. IsFunction(model')
    <3>1. IsFunction(Unbound(model, k))
      BY <1>0, MapFunctions
    <3>2. QED
      BY <2>1, <3>1
  <2>4. QED
    BY <1>0, <2>1, <2>2, <2>3 DEF MapsInv
<1>5. ASSUME NEW k \in TableKeys, DeleteFromHash(k) PROVE MapsInv'
  <2>1. kind = "hash" /\ kind' = kind /\ s' = HashDelete(s, k) /\ model' = Unbound(model, k)
    BY <1>5 DEF DeleteFromHash, Becomes
  <2>2. HashInv(s', model')
    <3>1. HashInv(HashDelete(s, k), Unbound(model, k))
      BY <1>0, <2>1, Deleting
    <3>2. QED
      BY <2>1, <3>1
  <2>3. IsFunction(model')
    <3>1. IsFunction(Unbound(model, k))
      BY <1>0, MapFunctions
    <3>2. QED
      BY <2>1, <3>1
  <2>4. QED
    BY <1>0, <2>1, <2>2, <2>3 DEF MapsInv
<1>6. ASSUME ClearHash PROVE MapsInv'
  <2>1. kind = "hash" /\ kind' = kind /\ s' = HashClear(s) /\ model' = EmptyMap
    BY <1>6 DEF ClearHash, Becomes
  <2>2. HashInv(s', model')
    <3>1. HashInv(HashClear(s), EmptyMap)
      BY <1>0, <2>1, Clearing
    <3>2. QED
      BY <2>1, <3>1
  <2>3. IsFunction(model')
    BY <2>1 DEF IsFunction, EmptyMap
  <2>4. QED
    BY <1>0, <2>1, <2>2, <2>3 DEF MapsInv
<1>7. CASE UNCHANGED part
  <2>1. kind' = kind /\ s' = s /\ model' = model
    BY <1>7 DEF part
  <2>2. QED
    BY <1>0, <2>1 DEF MapsInv
<1>8. QED
  BY <1>1, <1>2, <1>3, <1>4, <1>5, <1>6, <1>7 DEF MapsNext

LEMMA MapsHold == ASSUME MapsInv PROVE MapsAgree
<1> SUFFICES ASSUME kind = "skip" => ~IsLost(s) PROVE MapsAgree
  BY DEF MapsAgree
<1>0. /\ kind \in MapKinds /\ (kind = "bst" => BstInv(s, model))
      /\ (kind = "skip" => SkipInv(s, model)) /\ (kind = "hash" => HashInv(s, model))
  BY DEF MapsInv
<1>1. \A k \in TableKeys : LookUp(k) = IF k \in DOMAIN model THEN model[k] ELSE Absent
  <2> SUFFICES ASSUME NEW k \in TableKeys PROVE LookUp(k) = IF k \in DOMAIN model THEN model[k] ELSE Absent
    OBVIOUS
  <2>1. CASE kind = "bst"
    <3>1. LookUp(k) = BstFind(s, k)
      BY <2>1 DEF LookUp
    <3>2. QED
      BY <1>0, <2>1, <3>1, BstFinds
  <2>2. CASE kind = "skip"
    <3>1. LookUp(k) = SkipFind(s, k)
      BY <2>2 DEF LookUp
    <3>2. QED
      BY <1>0, <2>2, <3>1, SkipFinds
  <2>3. CASE kind = "hash"
    <3>1. LookUp(k) = HashFind(s, k)
      BY <2>3 DEF LookUp
    <3>2. QED
      BY <1>0, <2>3, <3>1, HashFinds
  <2>4. QED
    BY <1>0, <2>1, <2>2, <2>3 DEF MapKinds
<1>2. ASSUME kind = "skip"
      PROVE  /\ s.level > 0 => s.forward[Header][s.level] # Nil
             /\ \A x \in DOMAIN s.forward : \A i \in DOMAIN s.forward[x] : s.forward[x][i] \in DOMAIN model \cup {Nil}
  <2>1. SkipShape(s, model) /\ SkipLinks(s) /\ TopIsUsed(s)
    BY <1>0, <1>2 DEF SkipInv
  <2>2. ASSUME NEW x \in DOMAIN s.forward, NEW i \in DOMAIN s.forward[x]
        PROVE  s.forward[x][i] \in DOMAIN model \cup {Nil}
    <3>1. i \in 0 .. SL_MAX_LEVEL
      <4>1. 0 .. s.level \subseteq 0 .. SL_MAX_LEVEL
        BY <2>1, LevelAssumption DEF SkipShape
      <4>2. QED
        BY <2>1, <4>1 DEF SkipShape
    <3>2. x \in OnLevel(s, i)
      BY DEF OnLevel
    <3>3. s.forward[x][i] \in OnLevel(s, i) \cup {Nil}
      BY <2>1, <3>1, <3>2 DEF SkipLinks, Follows
    <3>4. OnLevel(s, i) \subseteq DOMAIN model \cup {Nil}
      BY <2>1 DEF SkipShape, OnLevel, Header, Nil
    <3>5. QED
      BY <3>3, <3>4
  <2>3. QED
    BY <2>1, <2>2 DEF TopIsUsed
<1>3. kind = "hash" => \A i \in DOMAIN s.slot : IsInjective([j \in DOMAIN s.slot[i] |-> s.slot[i][j].key])
  BY <1>0, SlotsInjective
<1>4. QED
  BY <1>1, <1>2, <1>3 DEF MapsAgree

\* After any sequence of operations on the search tree, the skip list or the hash table a
\* look-up finds what a map would hold (binary_search_tree.h, skip_list.h, hash_table.h):
\* for every number of levels, every set of keys and every table size within a word.
THEOREM MapsFind == MapsSpec => []MapsAgree
<1>1. MapsInit => MapsInv
  BY MapsStarts
<1>2. MapsInv /\ [MapsNext]_part => MapsInv'
  BY MapsKeeps
<1>3. MapsInv => MapsAgree
  BY MapsHold
<1>4. QED
  BY <1>1, <1>2, <1>3, PTL DEF MapsSpec

-----------------------------------------------------------------------------
(* Long integers *)

\* Powers, as the loop of their definition makes them.
LEMMA PowersAre ==
    ASSUME NEW b \in Nat \ {0}, NEW size \in Nat
    PROVE  /\ Powers(b, size) \in [0 .. size -> Nat \ {0}] /\ Powers(b, size)[0] = 1
           /\ \A n \in 1 .. size : Powers(b, size)[n] = b * Powers(b, size)[n - 1]
<1> DEFINE S == Nat \ {0}
           F == [x \in S |-> b * x]
           first == 1
           p == Powers(b, size)
           G(g) == [n \in 0 .. size |-> IF n = 0 THEN 1 ELSE b * g[n - 1]]
<1>1. F \in [S -> S] /\ first \in S /\ \A x \in S : F[x] = b * x /\ b * x \in S
  <2>1. \A x \in S : b * x \in S
    OBVIOUS
  <2>2. QED
    BY <2>1
<1>2. PICK f \in [0 .. size -> S] : Iterates(f, first, F, size)
  <2> HIDE DEF S, F, first
  <2>1. QED
    BY <1>1, Iterated
<1>3. f[0] = 1 /\ \A n \in 1 .. size : f[n] = F[f[n - 1]]
  BY <1>2 DEF Iterates
<1>4. \A n \in 0 .. size : n = 0 \/ (n \in 1 .. size /\ n - 1 \in 0 .. size)
  OBVIOUS
<1>5. \A n \in 1 .. size : f[n] = b * f[n - 1]
  <2> HIDE DEF S, F, first
  <2>1. \A n \in 1 .. size : f[n - 1] \in S
    BY <1>2
  <2>2. QED
    BY <1>1, <1>3, <2>1
<1>6. f = G(f)
  <2> HIDE DEF S, F, first
  <2>1. \A n \in 0 .. size : f[n] = IF n = 0 THEN 1 ELSE b * f[n - 1]
    BY <1>3, <1>4, <1>5
  <2>2. QED
    BY <2>1
<1>7. p = CHOOSE g : g = G(g)
  BY DEF Powers
<1> HIDE DEF p
<1>8. p = G(p)
  <2> HIDE DEF G
  <2>1. QED
    BY <1>6, <1>7
<1>9. p[0] = 1 /\ \A n \in 1 .. size : p[n] = b * p[n - 1]
  BY <1>4, <1>8
<1> DEFINE T == {n \in 0 .. size : p[n] \in S}
<1>10. 0 \in T
  BY <1>9
<1>11. ASSUME NEW n \in 1 .. size, n - 1 \in T PROVE n \in T
  <2>1. p[n - 1] \in S /\ n \in 0 .. size
    BY <1>11
  <2> HIDE DEF S
  <2>2. p[n] \in S
    BY <1>1, <1>9, <2>1
  <2>3. QED
    BY <2>1, <2>2
<1>12. 0 .. size \subseteq T
  <2> HIDE DEF T
  <2>1. QED
    BY <1>10, <1>11, UpTo
<1>13. p \in [0 .. size -> S]
  <2> HIDE DEF S
  <2>1. QED
    BY <1>8, <1>12
<1>14. QED
  BY <1>9, <1>13 DEF p

LEMMA PowerIs ==
    /\ PowerOfTwo[0] = 1 /\ \A n \in 0 .. COMPONENT_BITS : PowerOfTwo[n] \in Nat \ {0}
    /\ \A n \in 1 .. COMPONENT_BITS : PowerOfTwo[n] = 2 * PowerOfTwo[n - 1]
<1>1. COMPONENT_BITS \in Nat /\ 2 \in Nat \ {0}
  BY ComponentAssumption
<1>2. QED
  BY <1>1, PowersAre DEF PowerOfTwo

LEMMA BaseIs == BASE \in Nat /\ BASE >= 2
<1>1. COMPONENT_BITS \in 1 .. COMPONENT_BITS /\ COMPONENT_BITS - 1 \in 0 .. COMPONENT_BITS
  BY ComponentAssumption
<1>2. BASE = 2 * PowerOfTwo[COMPONENT_BITS - 1] /\ PowerOfTwo[COMPONENT_BITS - 1] \in Nat \ {0}
  BY <1>1, PowerIs DEF BASE
<1>3. QED
  BY <1>2

\* A function that is defined by the value before is its folding.
LEMMA LeadingIs ==
    ASSUME NEW x \in Seq(Nat)
    PROVE  /\ Leading(x) \in [0 .. Len(x) -> Nat] /\ Leading(x)[0] = 0
           /\ \A n \in 1 .. Len(x) : Leading(x)[n] = BASE * Leading(x)[n - 1] + x[Len(x) + 1 - n]
<1> DEFINE L == Len(x)
           F == [p \in (1 .. L) \X Nat |-> BASE * p[2] + x[L + 1 - p[1]]]
           first == 0
           G(g) == [n \in 0 .. L |-> IF n = 0 THEN 0 ELSE BASE * g[n - 1] + x[L + 1 - n]]
<1>0. L \in Nat /\ \A n \in 1 .. L : n \in Nat /\ L + 1 - n \in 1 .. L /\ x[L + 1 - n] \in Nat
  OBVIOUS
<1>1. \A a \in Nat : BASE * a \in Nat
  BY BaseIs
<1>2. /\ \A n \in 1 .. L, a \in Nat : BASE * a + x[L + 1 - n] \in Nat /\ F[<<n, a>>] = BASE * a + x[L + 1 - n]
      /\ F \in [(1 .. L) \X Nat -> Nat]
  <2> HIDE DEF L
  <2>1. ASSUME NEW n \in 1 .. L, NEW a \in Nat PROVE BASE * a + x[L + 1 - n] \in Nat
    <3>1. BASE * a \in Nat /\ x[L + 1 - n] \in Nat
      BY <1>0, <1>1
    <3> DEFINE b == BASE * a
               c == x[L + 1 - n]
    <3> HIDE DEF b, c
    <3>2. b + c \in Nat
      BY <3>1 DEF b, c
    <3>3. QED
      BY <3>2 DEF b, c
  <2>2. QED
    BY <2>1
<1>3. PICK f \in [0 .. L -> Nat] : Folds(f, first, F, L)
  <2> HIDE DEF F, L
  <2>1. first \in Nat
    OBVIOUS
  <2> HIDE DEF first
  <2>2. QED
    BY <1>0, <1>2, <2>1, Folded
<1>4. f[0] = 0 /\ \A n \in 1 .. L : f[n] = F[<<n, f[n - 1]>>]
  BY <1>3 DEF Folds
<1> HIDE DEF F, L
<1>5. \A n \in 1 .. L : f[n - 1] \in Nat /\ n - 1 \in 0 .. L
  BY <1>0, <1>3
<1>6. \A n \in 1 .. L : f[n] = BASE * f[n - 1] + x[L + 1 - n]
  BY <1>2, <1>4, <1>5
<1>7. \A n \in 0 .. L : n = 0 \/ n \in 1 .. L
  BY <1>0
<1>8. f = G(f)
  <2>1. \A n \in 0 .. L : f[n] = IF n = 0 THEN 0 ELSE BASE * f[n - 1] + x[L + 1 - n]
    BY <1>0, <1>4, <1>6, <1>7
  <2>2. QED
    BY <2>1
<1>9. Leading(x) = CHOOSE g : g = G(g)
  BY DEF Leading, L
<1>10. Leading(x) = G(Leading(x))
  <2> HIDE DEF G
  <2>1. QED
    BY <1>8, <1>9
<1>11. Leading(x)[0] = 0 /\ \A n \in 1 .. L : Leading(x)[n] = BASE * Leading(x)[n - 1] + x[L + 1 - n]
  <2>1. \A n \in 0 .. L : Leading(x)[n] = IF n = 0 THEN 0 ELSE BASE * Leading(x)[n - 1] + x[L + 1 - n]
    BY <1>10
  <2>2. 0 \in 0 .. L /\ \A n \in 1 .. L : n \in 0 .. L /\ n # 0
    BY <1>0
  <2>3. QED
    BY <2>1, <2>2
<1> DEFINE T == {n \in 0 .. L : Leading(x)[n] \in Nat}
<1>12. 0 \in T
  BY <1>0, <1>11
<1>13. ASSUME NEW n \in 1 .. L, n - 1 \in T PROVE n \in T
  <2>1. n \in 0 .. L /\ Leading(x)[n - 1] \in Nat
    BY <1>0, <1>13
  <2>2. BASE * Leading(x)[n - 1] + x[L + 1 - n] \in Nat
    BY <1>2, <2>1
  <2>3. QED
    BY <1>11, <2>1, <2>2
<1>14. 0 .. L \subseteq T
  <2> HIDE DEF T
  <2>1. QED
    BY <1>0, <1>12, <1>13, UpTo
<1>15. Leading(x) \in [0 .. L -> Nat]
  BY <1>10, <1>14
<1>16. QED
  BY <1>11, <1>15 DEF L

\* The sum of two sequences of numbers, and a multiple of one.
Plus(p, q) == [i \in 1 .. Len(p) |-> p[i] + q[i]]
Multiple(p, d) == [i \in 1 .. Len(p) |-> d * p[i]]

LEMMA Distributes ==
    ASSUME NEW a \in Nat, NEW b \in Nat, NEW c \in Nat
    PROVE  c * (a + b) = c * a + c * b /\ c * a \in Nat
OBVIOUS

LEMMA LeadingPlus ==
    ASSUME NEW p \in Seq(Nat), NEW q \in Seq(Nat), Len(q) = Len(p)
    PROVE  /\ Plus(p, q) \in Seq(Nat) /\ Len(Plus(p, q)) = Len(p)
           /\ \A n \in 0 .. Len(p) : Leading(Plus(p, q))[n] = Leading(p)[n] + Leading(q)[n]
<1> DEFINE L == Len(p)
           r == Plus(p, q)
           T == {n \in 0 .. L : Leading(r)[n] = Leading(p)[n] + Leading(q)[n]}
<1>1. L \in Nat /\ Len(q) = L /\ \A n \in 1 .. L : p[n] \in Nat /\ q[n] \in Nat
  OBVIOUS
<1>2. r \in Seq(Nat) /\ Len(r) = L /\ \A n \in 1 .. L : r[n] = p[n] + q[n]
  BY <1>1 DEF Plus
<1> HIDE DEF r, L
<1>3. /\ Leading(p)[0] = 0 /\ Leading(q)[0] = 0 /\ Leading(r)[0] = 0
      /\ \A n \in 0 .. L : Leading(p)[n] \in Nat /\ Leading(q)[n] \in Nat
      /\ \A n \in 1 .. L : /\ Leading(p)[n] = BASE * Leading(p)[n - 1] + p[L + 1 - n]
                          /\ Leading(q)[n] = BASE * Leading(q)[n - 1] + q[L + 1 - n]
                          /\ Leading(r)[n] = BASE * Leading(r)[n - 1] + r[L + 1 - n]
  BY <1>1, <1>2, LeadingIs DEF L
<1>4. 0 \in T
  BY <1>1, <1>3
<1>5. ASSUME NEW n \in 1 .. L, n - 1 \in T PROVE n \in T
  <2> DEFINE a == Leading(p)[n - 1]
             b == Leading(q)[n - 1]
             i == L + 1 - n
  <2>1. i \in 1 .. L /\ n \in 0 .. L /\ n - 1 \in 0 .. L /\ Leading(r)[n - 1] = a + b
    BY <1>1, <1>5
  <2>2. a \in Nat /\ b \in Nat /\ p[i] \in Nat /\ q[i] \in Nat /\ r[i] = p[i] + q[i]
    BY <1>1, <1>2, <1>3, <2>1
  <2>3. Leading(p)[n] = BASE * a + p[i] /\ Leading(q)[n] = BASE * b + q[i] /\ Leading(r)[n] = BASE * (a + b) + r[i]
    BY <1>3, <2>1
  <2> HIDE DEF a, b, i
  <2>4. BASE * (a + b) = BASE * a + BASE * b /\ BASE * a \in Nat /\ BASE * b \in Nat
    BY <2>2, BaseIs, Distributes
  <2>5. Leading(r)[n] = Leading(p)[n] + Leading(q)[n]
    <3> DEFINE c == BASE * a
               d == BASE * b
               e == p[i]
               f == q[i]
    <3>1. c \in Nat /\ d \in Nat /\ e \in Nat /\ f \in Nat
      BY <2>2, <2>4
    <3>2. Leading(p)[n] = c + e /\ Leading(q)[n] = d + f /\ Leading(r)[n] = (c + d) + (e + f)
      BY <2>2, <2>3, <2>4
    <3> HIDE DEF c, d, e, f
    <3>3. QED
      BY <3>1, <3>2
  <2>6. QED
    BY <2>1, <2>5
<1>6. 0 .. L \subseteq T
  <2> HIDE DEF T
  <2>1. QED
    BY <1>1, <1>4, <1>5, UpTo
<1>7. QED
  BY <1>2, <1>6 DEF L, r

LEMMA LeadingMultiple ==
    ASSUME NEW p \in Seq(Nat), NEW d \in Nat
    PROVE  /\ Multiple(p, d) \in Seq(Nat) /\ Len(Multiple(p, d)) = Len(p)
           /\ \A n \in 0 .. Len(p) : Leading(Multiple(p, d))[n] = d * Leading(p)[n]
<1> DEFINE L == Len(p)
           r == Multiple(p, d)
           T == {n \in 0 .. L : Leading(r)[n] = d * Leading(p)[n]}
<1>1. L \in Nat /\ \A n \in 1 .. L : p[n] \in Nat
  OBVIOUS
<1>2. r \in Seq(Nat) /\ Len(r) = L /\ \A n \in 1 .. L : r[n] = d * p[n]
  <2>1. \A n \in 1 .. L : d * p[n] \in Nat
    BY <1>1, Distributes
  <2>2. QED
    BY <1>1, <2>1 DEF Multiple
<1> HIDE DEF r, L
<1>3. /\ Leading(p)[0] = 0 /\ Leading(r)[0] = 0
      /\ \A n \in 0 .. L : Leading(p)[n] \in Nat
      /\ \A n \in 1 .. L : /\ Leading(p)[n] = BASE * Leading(p)[n - 1] + p[L + 1 - n]
                          /\ Leading(r)[n] = BASE * Leading(r)[n - 1] + r[L + 1 - n]
  BY <1>1, <1>2, LeadingIs DEF L
<1>4. 0 \in T
  BY <1>1, <1>3
<1>5. ASSUME NEW n \in 1 .. L, n - 1 \in T PROVE n \in T
  <2> DEFINE a == Leading(p)[n - 1]
             i == L + 1 - n
             ba == BASE * a
  <2>1. i \in 1 .. L /\ n \in 0 .. L /\ n - 1 \in 0 .. L /\ Leading(r)[n - 1] = d * a
    BY <1>1, <1>5
  <2>2. a \in Nat /\ p[i] \in Nat /\ r[i] = d * p[i]
    BY <1>1, <1>2, <1>3, <2>1
  <2>3. Leading(p)[n] = ba + p[i] /\ Leading(r)[n] = BASE * (d * a) + r[i]
    BY <1>3, <2>1
  <2>4. ba \in Nat /\ BASE * (d * a) = d * ba
    <3> HIDE DEF a
    <3>1. QED
      BY <2>2, BaseIs
  <2> HIDE DEF a, i, ba
  <2>5. d * (ba + p[i]) = d * ba + d * p[i]
    BY <2>2, <2>4, Distributes
  <2>6. Leading(r)[n] = d * Leading(p)[n]
    BY <2>2, <2>3, <2>4, <2>5
  <2>7. QED
    BY <2>1, <2>6
<1>6. 0 .. L \subseteq T
  <2> HIDE DEF T
  <2>1. QED
    BY <1>1, <1>4, <1>5, UpTo
<1>7. QED
  BY <1>2, <1>6 DEF L, r

\* One turn of a loop that carries, in equal and in unequal numbers.
LEMMA CarriedOn ==
    ASSUME NEW a \in Nat, NEW d \in Nat, NEW e \in Nat, NEW x \in Nat, NEW y \in Nat, e + x = y + BASE * d
    PROVE  BASE * a + x + e = BASE * (a + d) + y
<1> DEFINE f == BASE * a
           g == BASE * d
<1>1. BASE * (a + d) = f + g /\ f \in Nat /\ g \in Nat /\ e + x = y + g
  BY BaseIs, Distributes
<1> HIDE DEF f, g
<1>2. f + x + e = (f + g) + y
  BY <1>1
<1>3. QED
  BY <1>1, <1>2 DEF f

LEMMA CarriedLess ==
    ASSUME NEW a \in Nat, NEW b \in Nat, NEW d \in Nat, NEW e \in Nat, NEW x \in Nat, NEW y \in Nat,
           a < b + d, x + BASE * d <= e + y + (BASE - 1)
    PROVE  BASE * a + x < BASE * b + y + e
<1> DEFINE f == BASE * a
           g == BASE * b
           h == BASE * d
<1>1. BASE * (a + 1) <= BASE * (b + d)
  <2>1. a + 1 <= b + d
    OBVIOUS
  <2>2. QED
    BY <2>1, BaseIs
<1>2. /\ BASE * (a + 1) = f + BASE /\ BASE * (b + d) = g + h
      /\ f \in Nat /\ g \in Nat /\ h \in Nat /\ x + h <= e + y + (BASE - 1)
  BY BaseIs, Distributes
<1> HIDE DEF f, g, h
<1>3. f + BASE <= g + h
  BY <1>1, <1>2
<1>4. f + x < g + y + e
  BY <1>2, <1>3, BaseIs
<1>5. QED
  BY <1>4 DEF f, g

\* What a loop that carries computes: if at each of the n least significant components p and the
\* carry that comes in make q and the carry that goes out, and so they do above, then p and the
\* first carry make q.
LEMMA Balanced ==
    ASSUME NEW p \in Seq(Nat), NEW q \in Seq(Nat), Len(q) = Len(p), NEW n \in 0 .. Len(p), NEW c \in [0 .. n -> Nat],
           \A i \in 1 .. n : c[i - 1] + p[i] = q[i] + BASE * c[i],
           Leading(p)[Len(p) - n] + c[n] = Leading(q)[Len(p) - n]
    PROVE  Value(p) + c[0] = Value(q)
<1> DEFINE L == Len(p)
           u == Leading(p)
           v == Leading(q)
           T == {k \in 0 .. n : u[L - n + k] + c[n - k] = v[L - n + k]}
<1>1. L \in Nat /\ n \in Nat /\ n <= L /\ \A i \in 1 .. L : p[i] \in Nat /\ q[i] \in Nat
  OBVIOUS
<1>2. /\ \A k \in 0 .. L : u[k] \in Nat /\ v[k] \in Nat
      /\ \A k \in 1 .. L : u[k] = BASE * u[k - 1] + p[L + 1 - k] /\ v[k] = BASE * v[k - 1] + q[L + 1 - k]
  BY LeadingIs
<1>3. Value(p) = u[L] /\ Value(q) = v[L]
  BY DEF Value
<1>4. u[L - n] + c[n] = v[L - n]
  OBVIOUS
<1> HIDE DEF L, u, v
<1>5. 0 \in T
  BY <1>1, <1>4
<1>6. ASSUME NEW k \in 1 .. n, k - 1 \in T PROVE k \in T
  <2> DEFINE j == L - n + k
             i == n + 1 - k
             a == u[j - 1]
             b == v[j - 1]
             d == c[i]
             e == c[i - 1]
  <2>1. /\ j \in 1 .. L /\ j - 1 \in 0 .. L /\ i \in 1 .. n /\ L + 1 - j = i /\ n - k = i - 1 /\ i \in 0 .. n /\ i - 1 \in 0 .. n
        /\ n - (k - 1) = i /\ L - n + (k - 1) = j - 1 /\ i \in 1 .. L
    BY <1>1, <1>6
  <2>2. a + d = b
    BY <1>6, <2>1
  <2>3. a \in Nat /\ b \in Nat /\ d \in Nat /\ e \in Nat /\ p[i] \in Nat /\ q[i] \in Nat
    BY <1>1, <1>2, <2>1
  <2>4. u[j] = BASE * a + p[i] /\ v[j] = BASE * b + q[i]
    BY <1>2, <2>1
  <2>5. e + p[i] = q[i] + BASE * d
    BY <2>1
  <2>6. u[L - n + k] = u[j] /\ v[L - n + k] = v[j] /\ c[n - k] = e
    BY <2>1
  <2> HIDE DEF a, b, d, e, i, j
  <2>7. BASE * a + p[i] + e = BASE * (a + d) + q[i]
    <3> DEFINE x == p[i]
               y == q[i]
    <3>1. x \in Nat /\ y \in Nat /\ e + x = y + BASE * d
      BY <2>3, <2>5
    <3> HIDE DEF x, y
    <3>2. BASE * a + x + e = BASE * (a + d) + y
      BY <2>3, <3>1, CarriedOn
    <3>3. QED
      BY <3>2 DEF x, y
  <2>8. u[j] + e = v[j]
    BY <2>2, <2>4, <2>7
  <2>9. k \in 0 .. n /\ u[L - n + k] + c[n - k] = v[L - n + k]
    <3>1. k \in 0 .. n
      BY <1>1
    <3>2. QED
      BY <2>6, <2>8, <3>1
  <2>10. QED
    BY <2>9
<1>7. 0 .. n \subseteq T
  <2> HIDE DEF T
  <2>1. QED
    BY <1>1, <1>5, <1>6, UpTo
<1>8. n \in T /\ L - n + n = L /\ n - n = 0
  BY <1>1, <1>7
<1>9. QED
  BY <1>3, <1>8

\* The same for what is too small: what is less above stays less.
LEMMA Unbalanced ==
    ASSUME NEW p \in Seq(Nat), NEW q \in Seq(Nat), Len(q) = Len(p), NEW n \in 0 .. Len(p), NEW c \in [0 .. n -> Nat],
           \A i \in 1 .. n : p[i] + BASE * c[i] <= c[i - 1] + q[i] + (BASE - 1),
           Leading(p)[Len(p) - n] < Leading(q)[Len(p) - n] + c[n]
    PROVE  Value(p) < Value(q) + c[0]
<1> DEFINE L == Len(p)
           u == Leading(p)
           v == Leading(q)
           T == {k \in 0 .. n : u[L - n + k] < v[L - n + k] + c[n - k]}
<1>1. L \in Nat /\ n \in Nat /\ n <= L /\ \A i \in 1 .. L : p[i] \in Nat /\ q[i] \in Nat
  OBVIOUS
<1>2. /\ \A k \in 0 .. L : u[k] \in Nat /\ v[k] \in Nat
      /\ \A k \in 1 .. L : u[k] = BASE * u[k - 1] + p[L + 1 - k] /\ v[k] = BASE * v[k - 1] + q[L + 1 - k]
  BY LeadingIs
<1>3. Value(p) = u[L] /\ Value(q) = v[L]
  BY DEF Value
<1>4. u[L - n] < v[L - n] + c[n]
  OBVIOUS
<1> HIDE DEF L, u, v
<1>5. 0 \in T
  BY <1>1, <1>4
<1>6. ASSUME NEW k \in 1 .. n, k - 1 \in T PROVE k \in T
  <2> DEFINE j == L - n + k
             i == n + 1 - k
             a == u[j - 1]
             b == v[j - 1]
             d == c[i]
             e == c[i - 1]
  <2>1. /\ j \in 1 .. L /\ j - 1 \in 0 .. L /\ i \in 1 .. n /\ L + 1 - j = i /\ n - k = i - 1 /\ i \in 0 .. n /\ i - 1 \in 0 .. n
        /\ n - (k - 1) = i /\ L - n + (k - 1) = j - 1 /\ i \in 1 .. L
    BY <1>1, <1>6
  <2>2. a < b + d
    BY <1>6, <2>1
  <2>3. a \in Nat /\ b \in Nat /\ d \in Nat /\ e \in Nat /\ p[i] \in Nat /\ q[i] \in Nat
    BY <1>1, <1>2, <2>1
  <2>4. u[j] = BASE * a + p[i] /\ v[j] = BASE * b + q[i]
    BY <1>2, <2>1
  <2>5. p[i] + BASE * d <= e + q[i] + (BASE - 1)
    BY <2>1
  <2>6. u[L - n + k] = u[j] /\ v[L - n + k] = v[j] /\ c[n - k] = e
    BY <2>1
  <2> HIDE DEF a, b, d, e, i, j
  <2>7. BASE * a + p[i] < BASE * b + q[i] + e
    BY <2>2, <2>3, <2>5, CarriedLess
  <2>9. u[j] < v[j] + e
    BY <2>4, <2>7
  <2>10. k \in 0 .. n /\ u[L - n + k] < v[L - n + k] + c[n - k]
    <3>1. k \in 0 .. n
      BY <1>1
    <3>2. QED
      BY <2>6, <2>9, <3>1
  <2>11. QED
    BY <2>10
<1>7. 0 .. n \subseteq T
  <2> HIDE DEF T
  <2>1. QED
    BY <1>1, <1>5, <1>6, UpTo
<1>8. n \in T /\ L - n + n = L /\ n - n = 0
  BY <1>1, <1>7
<1>9. QED
  BY <1>3, <1>8

-----------------------------------------------------------------------------
\* Long integers, and what they are made up to.
LongInteger == Seq(0 .. BASE - 1) \ {<<>>}
Padded(x, m) == [i \in 1 .. m |-> Component(x, i)]

LEMMA ComponentsAre ==
    ASSUME NEW x \in LongInteger
    PROVE  /\ x \in Seq(Nat) /\ Len(x) \in Nat \ {0} /\ \A i \in 1 .. Len(x) : x[i] \in 0 .. BASE - 1
           /\ \A i \in 1 .. Len(x) : Component(x, i) = x[i]
           /\ \A i : i \notin 1 .. Len(x) => Component(x, i) = 0
           /\ \A i : Component(x, i) \in 0 .. BASE - 1
<1>1. x \in Seq(0 .. BASE - 1) /\ x # <<>> /\ 0 .. BASE - 1 \subseteq Nat /\ 0 \in 0 .. BASE - 1
  BY BaseIs DEF LongInteger
<1>2. Len(x) \in Nat \ {0} /\ DOMAIN x = 1 .. Len(x) /\ \A i \in 1 .. Len(x) : x[i] \in 0 .. BASE - 1
  <2> DEFINE D == 0 .. BASE - 1
  <2>1. x \in Seq(D) /\ x # <<>>
    BY <1>1
  <2> HIDE DEF D
  <2>2. Len(x) \in Nat /\ DOMAIN x = 1 .. Len(x) /\ \A i \in 1 .. Len(x) : x[i] \in D
    BY <2>1
  <2>3. Len(x) # 0
    BY <2>1
  <2>4. QED
    BY <2>2, <2>3 DEF D
<1>3. x \in Seq(Nat)
  BY <1>1, <1>2
<1>4. QED
  BY <1>1, <1>2, <1>3 DEF Component

\* Zeros above change nothing.
LEMMA ZerosAbove ==
    ASSUME NEW x \in Seq(Nat), NEW n \in 0 .. Len(x), \A i \in 1 .. Len(x) : i > n => x[i] = 0
    PROVE  Leading(x)[Len(x) - n] = 0
<1> DEFINE L == Len(x)
           u == Leading(x)
           T == {k \in 0 .. L - n : u[k] = 0}
<1>1. L \in Nat /\ n \in Nat /\ n <= L /\ L - n \in Nat
  OBVIOUS
<1>2. u[0] = 0 /\ \A k \in 1 .. L : u[k] = BASE * u[k - 1] + x[L + 1 - k]
  BY LeadingIs
<1> HIDE DEF L, u
<1>3. 0 \in T
  BY <1>1, <1>2
<1>4. ASSUME NEW k \in 1 .. L - n, k - 1 \in T PROVE k \in T
  <2>1. k \in 1 .. L /\ L + 1 - k \in 1 .. L /\ L + 1 - k > n /\ k \in 0 .. L - n /\ u[k - 1] = 0
    BY <1>1, <1>4
  <2>2. x[L + 1 - k] = 0
    BY <2>1 DEF L
  <2>3. u[k] = BASE * 0 + 0
    BY <1>2, <2>1, <2>2
  <2>4. QED
    BY <2>1, <2>3, BaseIs
<1>5. 0 .. L - n \subseteq T
  <2> HIDE DEF T
  <2>1. QED
    BY <1>1, <1>3, <1>4, UpTo
<1>6. QED
  BY <1>1, <1>5 DEF L, u

LEMMA PaddedIs ==
    ASSUME NEW x \in LongInteger, NEW m \in Nat, m >= Len(x)
    PROVE  /\ Padded(x, m) \in Seq(Nat) /\ Len(Padded(x, m)) = m /\ \A i \in 1 .. m : Padded(x, m)[i] = Component(x, i)
           /\ Value(Padded(x, m)) = Value(x)
<1> DEFINE L == Len(x)
           y == Padded(x, m)
           u == Leading(x)
           v == Leading(y)
           T == {k \in 0 .. L : v[m - L + k] = u[k]}
<1>1. x \in Seq(Nat) /\ L \in Nat \ {0} /\ L <= m /\ \A i : Component(x, i) \in 0 .. BASE - 1
  BY ComponentsAre
<1>2. /\ \A i \in 1 .. L : Component(x, i) = x[i] /\ x[i] \in Nat
      /\ \A i \in 1 .. m : i > L => Component(x, i) = 0
  BY ComponentsAre
<1>3. y \in Seq(Nat) /\ Len(y) = m /\ \A i \in 1 .. m : y[i] = Component(x, i)
  <2>1. \A i \in 1 .. m : Component(x, i) \in Nat
    BY <1>1, BaseIs
  <2>2. QED
    BY <2>1 DEF Padded
<1> HIDE DEF L, y
<1>4. v[m - L] = 0
  <2>1. L \in 0 .. Len(y) /\ \A i \in 1 .. Len(y) : i > L => y[i] = 0
    BY <1>1, <1>2, <1>3
  <2>2. v[Len(y) - L] = 0
    BY <1>3, <2>1, ZerosAbove
  <2>3. QED
    BY <1>3, <2>2
<1>5. u[0] = 0 /\ \A k \in 1 .. L : u[k] = BASE * u[k - 1] + x[L + 1 - k]
  BY <1>1, LeadingIs DEF L
<1>6. \A k \in 1 .. m : v[k] = BASE * v[k - 1] + y[m + 1 - k]
  BY <1>3, LeadingIs
<1>7. Value(y) = v[m] /\ Value(x) = u[L]
  BY <1>3 DEF Value, L
<1> HIDE DEF u, v
<1>8. 0 \in T
  BY <1>1, <1>4, <1>5
<1>9. ASSUME NEW k \in 1 .. L, k - 1 \in T PROVE k \in T
  <2> DEFINE j == m - L + k
             i == L + 1 - k
  <2>1. j \in 1 .. m /\ i \in 1 .. L /\ i \in 1 .. m /\ m + 1 - j = i /\ m - L + (k - 1) = j - 1 /\ k \in 0 .. L
    BY <1>1, <1>9
  <2>2. v[j] = BASE * v[j - 1] + y[i] /\ u[k] = BASE * u[k - 1] + x[i] /\ v[j - 1] = u[k - 1]
    BY <1>5, <1>6, <1>9, <2>1
  <2>3. y[i] = x[i]
    BY <1>2, <1>3, <2>1
  <2>4. v[j] = u[k]
    BY <2>2, <2>3
  <2>5. QED
    BY <2>1, <2>4
<1>10. 0 .. L \subseteq T
  <2> HIDE DEF T
  <2>1. QED
    BY <1>1, <1>8, <1>9, UpTo
<1>11. L \in T /\ m - L + L = m
  BY <1>1, <1>10
<1>12. QED
  BY <1>3, <1>7, <1>11 DEF y

-----------------------------------------------------------------------------
(* Addition *)

\* What SumOf carries.
Carries(x, y, m, c) ==
    /\ c = [i \in 0 .. m |-> IF i > 0 /\ c[i - 1] + Component(x, i) + Component(y, i) > BASE - 1 THEN 1 ELSE 0]
    /\ c = CHOOSE g : g = [i \in 0 .. m |-> IF i > 0 /\ g[i - 1] + Component(x, i) + Component(y, i) > BASE - 1 THEN 1 ELSE 0]

LEMMA CarryIs ==
    ASSUME NEW x \in LongInteger, NEW y \in LongInteger, NEW m \in Nat
    PROVE  \E c \in [0 .. m -> {0, 1}] : Carries(x, y, m, c)
<1> DEFINE S == {0, 1}
           F == [p \in (1 .. m) \X S |-> IF p[2] + Component(x, p[1]) + Component(y, p[1]) > BASE - 1 THEN 1 ELSE 0]
           first == 0
           G(g) == [i \in 0 .. m |-> IF i > 0 /\ g[i - 1] + Component(x, i) + Component(y, i) > BASE - 1 THEN 1 ELSE 0]
<1>1. F \in [(1 .. m) \X S -> S] /\ first \in S /\ \A i \in 1 .. m, a \in S :
          F[<<i, a>>] = IF a + Component(x, i) + Component(y, i) > BASE - 1 THEN 1 ELSE 0
  OBVIOUS
<1>2. PICK f \in [0 .. m -> S] : Folds(f, first, F, m)
  <2> HIDE DEF F, S, first
  <2>1. QED
    BY <1>1, Folded
<1>3. f[0] = 0 /\ \A i \in 1 .. m : f[i] = F[<<i, f[i - 1]>>]
  BY <1>2 DEF Folds
<1> HIDE DEF F
<1>4. f = G(f)
  <2>1. \A i \in 0 .. m : i = 0 \/ (i > 0 /\ i \in 1 .. m /\ i - 1 \in 0 .. m)
    OBVIOUS
  <2>2. \A i \in 1 .. m : f[i - 1] \in S
    BY <1>2
  <2>3. \A i \in 1 .. m : f[i] = IF f[i - 1] + Component(x, i) + Component(y, i) > BASE - 1 THEN 1 ELSE 0
    <3> HIDE DEF S
    <3>1. QED
      BY <1>1, <1>3, <2>2
  <2>4. \A i \in 0 .. m : f[i] = IF i > 0 /\ f[i - 1] + Component(x, i) + Component(y, i) > BASE - 1 THEN 1 ELSE 0
    BY <1>3, <2>1, <2>3
  <2>5. QED
    BY <1>2, <2>4
<1> DEFINE c == CHOOSE g : g = G(g)
<1>5. c = G(c)
  <2> HIDE DEF G
  <2>1. QED
    BY <1>4
<1>6. c \in [0 .. m -> {0, 1}]
  BY <1>5
<1>7. QED
  BY <1>5, <1>6 DEF Carries

\* A number that is at most one turn too large.
LEMMA Wraps == ASSUME NEW b \in Nat \ {0}, NEW n \in Nat, n < 2 * b PROVE n % b = IF n > b - 1 THEN n - b ELSE n
  BY Z3

\* One component of a sum.
LEMMA Carried ==
    ASSUME NEW c \in {0, 1}, NEW a \in 0 .. BASE - 1, NEW b \in 0 .. BASE - 1
    PROVE  /\ (c + a + b) % BASE \in 0 .. BASE - 1
           /\ c + (a + b) = ((c + a + b) % BASE) + BASE * (IF c + a + b > BASE - 1 THEN 1 ELSE 0)
<1> DEFINE n == c + a + b
<1>1. n \in Nat /\ n < 2 * BASE /\ c + (a + b) = n
  BY BaseIs
<1> HIDE DEF n
<1>2. n % BASE = IF n > BASE - 1 THEN n - BASE ELSE n
  <2>1. BASE \in Nat \ {0}
    BY BaseIs
  <2>2. QED
    BY <1>1, <2>1, Wraps
<1>3. QED
  BY <1>1, <1>2, BaseIs DEF n

\* The first number that Horner's scheme makes.
LEMMA LeadingStarts == ASSUME NEW p \in Seq(Nat) PROVE Leading(p)[0] = 0 /\ Leading(p)[Len(p) - Len(p)] = 0
BY LeadingIs

LEMMA ValueIs == ASSUME NEW p \in Seq(Nat) PROVE Value(p) \in Nat
<1>1. Len(p) \in 0 .. Len(p)
  OBVIOUS
<1>2. QED
  BY <1>1, LeadingIs DEF Value

\* A sum holds both numbers.
LEMMA SumIsExact ==
    ASSUME NEW x \in LongInteger, NEW y \in LongInteger
    PROVE  SumOf(x, y) \in LongInteger /\ Value(SumOf(x, y)) = Value(x) + Value(y)
<1> DEFINE m == Larger(Len(x), Len(y)) + 1
           X == Padded(x, m)
           Y == Padded(y, m)
           P == Plus(X, Y)
           Q == SumOf(x, y)
<1>1. /\ Len(x) \in Nat /\ Len(y) \in Nat /\ m \in Nat \ {0} /\ m >= Len(x) /\ m >= Len(y)
      /\ m \notin 1 .. Len(x) /\ m \notin 1 .. Len(y)
  BY ComponentsAre DEF Larger
<1>2. PICK c \in [0 .. m -> {0, 1}] : Carries(x, y, m, c)
  <2> HIDE DEF m
  <2>1. m \in Nat
    BY <1>1
  <2>2. QED
    BY <2>1, CarryIs
<1>3. Q = [i \in 1 .. m |-> (c[i - 1] + Component(x, i) + Component(y, i)) % BASE]
  BY <1>2 DEF SumOf, Carries
<1>4. c[0] = 0 /\ \A i \in 1 .. m : c[i] = IF c[i - 1] + Component(x, i) + Component(y, i) > BASE - 1 THEN 1 ELSE 0
  <2> HIDE DEF m
  <2>1. 0 \in 0 .. m /\ \A i \in 1 .. m : i \in 0 .. m /\ i > 0
    BY <1>1
  <2>2. \A i \in 0 .. m : c[i] = IF i > 0 /\ c[i - 1] + Component(x, i) + Component(y, i) > BASE - 1 THEN 1 ELSE 0
    BY <1>2 DEF Carries
  <2>3. QED
    BY <2>1, <2>2
<1> HIDE DEF m, Q
<1>5. /\ X \in Seq(Nat) /\ Len(X) = m /\ Y \in Seq(Nat) /\ Len(Y) = m
      /\ \A i \in 1 .. m : X[i] = Component(x, i) /\ Y[i] = Component(y, i)
      /\ Value(X) = Value(x) /\ Value(Y) = Value(y)
  BY <1>1, PaddedIs
<1>6. \A i \in 1 .. m : i - 1 \in 0 .. m /\ Component(x, i) \in 0 .. BASE - 1 /\ Component(y, i) \in 0 .. BASE - 1
  BY <1>1, ComponentsAre
<1>7. \A i \in 1 .. m : Q[i] \in 0 .. BASE - 1 /\ c[i - 1] + (Component(x, i) + Component(y, i)) = Q[i] + BASE * c[i]
  <2>1. TAKE i \in 1 .. m
  <2> DEFINE a == Component(x, i)
             b == Component(y, i)
             e == c[i - 1]
  <2>2. a \in 0 .. BASE - 1 /\ b \in 0 .. BASE - 1 /\ e \in {0, 1}
    BY <1>2, <1>6
  <2>3. Q[i] = (e + a + b) % BASE /\ c[i] = IF e + a + b > BASE - 1 THEN 1 ELSE 0
    BY <1>3, <1>4
  <2> HIDE DEF a, b, e
  <2>4. (e + a + b) % BASE \in 0 .. BASE - 1 /\ e + (a + b) = ((e + a + b) % BASE) + BASE * (IF e + a + b > BASE - 1 THEN 1 ELSE 0)
    BY <2>2, Carried
  <2>5. Q[i] \in 0 .. BASE - 1 /\ e + (a + b) = Q[i] + BASE * c[i]
    BY <2>3, <2>4
  <2>6. QED
    BY <2>5 DEF a, b, e
<1>8. Q \in Seq(0 .. BASE - 1) /\ Len(Q) = m
  <2> DEFINE D == 0 .. BASE - 1
             r(i) == (c[i - 1] + Component(x, i) + Component(y, i)) % BASE
  <2>1. Q = [i \in 1 .. m |-> r(i)] /\ m \in Nat
    BY <1>1, <1>3
  <2>2. \A i \in 1 .. m : r(i) \in D
    BY <1>3, <1>7
  <2> HIDE DEF D, r
  <2>3. Q \in Seq(D) /\ Len(Q) = m
    BY <2>1, <2>2
  <2>4. QED
    BY <2>3 DEF D
<1>9. Q \in LongInteger
  BY <1>1, <1>8 DEF LongInteger
<1>10. Q \in Seq(Nat)
  BY <1>9, ComponentsAre
<1>11. P \in Seq(Nat) /\ Len(P) = m /\ \A n \in 0 .. m : Leading(P)[n] = Leading(X)[n] + Leading(Y)[n]
  <2> HIDE DEF X, Y
  <2>1. QED
    BY <1>5, LeadingPlus
<1>12. \A i \in 1 .. m : P[i] = Component(x, i) + Component(y, i)
  <2> HIDE DEF X, Y
  <2>1. QED
    BY <1>5 DEF Plus
<1>13. Value(P) = Value(X) + Value(Y)
  BY <1>1, <1>5, <1>11 DEF Value
<1> HIDE DEF P, X, Y
<1>14. c[m] = 0
  <2>1. m \in 1 .. m /\ Component(x, m) = 0 /\ Component(y, m) = 0
    BY <1>1, ComponentsAre
  <2>2. c[m - 1] \in {0, 1}
    BY <1>2, <1>6, <2>1
  <2>3. QED
    BY <1>4, <2>1, <2>2, BaseIs
<1>15. Value(P) + c[0] = Value(Q)
  <2>1. m \in 0 .. Len(P) /\ Len(Q) = Len(P) /\ c \in [0 .. m -> Nat]
    BY <1>1, <1>2, <1>8, <1>11
  <2>2. \A i \in 1 .. m : c[i - 1] + P[i] = Q[i] + BASE * c[i]
    BY <1>7, <1>12
  <2>3. Leading(P)[Len(P) - m] + c[m] = Leading(Q)[Len(P) - m]
    BY <1>8, <1>10, <1>11, <1>14, LeadingStarts
  <2>4. QED
    BY <1>10, <1>11, <2>1, <2>2, <2>3, Balanced
<1>16. Value(Q) = Value(x) + Value(y)
  <2>1. Value(P) \in Nat
    BY <1>11, ValueIs
  <2>2. QED
    BY <1>4, <1>5, <1>13, <1>15, <2>1
<1>17. QED
  BY <1>9, <1>16 DEF Q

-----------------------------------------------------------------------------
(* Subtraction *)

\* What Difference borrows.
Borrows(x, y, c) ==
    /\ c = [i \in 0 .. Len(x) |-> IF i > 0 /\ Component(x, i) < Component(y, i) + c[i - 1] THEN 1 ELSE 0]
    /\ c = CHOOSE g : g = [i \in 0 .. Len(x) |-> IF i > 0 /\ Component(x, i) < Component(y, i) + g[i - 1] THEN 1 ELSE 0]

LEMMA BorrowIs ==
    ASSUME NEW x \in LongInteger, NEW y \in LongInteger
    PROVE  \E c \in [0 .. Len(x) -> {0, 1}] : Borrows(x, y, c)
<1> DEFINE S == {0, 1}
           m == Len(x)
           F == [p \in (1 .. m) \X S |-> IF Component(x, p[1]) < Component(y, p[1]) + p[2] THEN 1 ELSE 0]
           first == 0
           G(g) == [i \in 0 .. m |-> IF i > 0 /\ Component(x, i) < Component(y, i) + g[i - 1] THEN 1 ELSE 0]
<1>0. m \in Nat
  BY ComponentsAre
<1>1. F \in [(1 .. m) \X S -> S] /\ first \in S /\ \A i \in 1 .. m, a \in S :
          F[<<i, a>>] = IF Component(x, i) < Component(y, i) + a THEN 1 ELSE 0
  OBVIOUS
<1>2. PICK f \in [0 .. m -> S] : Folds(f, first, F, m)
  <2> HIDE DEF F, S, first, m
  <2>1. QED
    BY <1>0, <1>1, Folded
<1>3. f[0] = 0 /\ \A i \in 1 .. m : f[i] = F[<<i, f[i - 1]>>]
  BY <1>2 DEF Folds
<1> HIDE DEF F, m
<1>4. f = G(f)
  <2>1. \A i \in 0 .. m : i = 0 \/ (i > 0 /\ i \in 1 .. m /\ i - 1 \in 0 .. m)
    BY <1>0
  <2>2. \A i \in 1 .. m : f[i - 1] \in S
    BY <1>0, <1>2
  <2>3. \A i \in 1 .. m : f[i] = IF Component(x, i) < Component(y, i) + f[i - 1] THEN 1 ELSE 0
    <3> HIDE DEF S
    <3>1. QED
      BY <1>1, <1>3, <2>2
  <2>4. \A i \in 0 .. m : f[i] = IF i > 0 /\ Component(x, i) < Component(y, i) + f[i - 1] THEN 1 ELSE 0
    BY <1>3, <2>1, <2>3
  <2>5. QED
    BY <1>2, <2>4
<1> DEFINE c == CHOOSE g : g = G(g)
<1>5. c = G(c)
  <2> HIDE DEF G
  <2>1. QED
    BY <1>4
<1>6. c \in [0 .. m -> {0, 1}]
  BY <1>5
<1>7. QED
  BY <1>5, <1>6 DEF Borrows, m

\* A number that may be negative, by less than one turn.
LEMMA WrapsBelow == ASSUME NEW b \in Nat \ {0}, NEW n \in Int, n < b, 0 <= n + b PROVE n % b = IF n < 0 THEN n + b ELSE n
  BY Z3

\* One component of a difference.
LEMMA Borrowed ==
    ASSUME NEW c \in {0, 1}, NEW a \in 0 .. BASE - 1, NEW b \in 0 .. BASE - 1
    PROVE  /\ (a - b - c) % BASE \in 0 .. BASE - 1
           /\ c + (b + ((a - b - c) % BASE)) = a + BASE * (IF a < b + c THEN 1 ELSE 0)
<1> DEFINE n == a - b - c
<1>1. BASE \in Nat \ {0}
  BY BaseIs
<1>2. n \in Int /\ n < BASE /\ 0 <= n + BASE /\ (a < b + c <=> n < 0)
  BY <1>1
<1>3. c + (b + n) = a /\ c + (b + (n + BASE)) = a + BASE
  BY <1>1
<1>4. BASE * 1 = BASE /\ BASE * 0 = 0
  BY <1>1
<1> HIDE DEF n
<1>5. n % BASE = IF n < 0 THEN n + BASE ELSE n
  BY <1>1, <1>2, WrapsBelow
<1>6. n % BASE \in 0 .. BASE - 1
  BY <1>1, <1>2, <1>5
<1>7. c + (b + (n % BASE)) = a + BASE * (IF n < 0 THEN 1 ELSE 0)
  BY <1>1, <1>2, <1>3, <1>4, <1>5
<1>8. QED
  BY <1>2, <1>6, <1>7 DEF n

\* A difference holds the components x has, so it is exact when x is not the smaller.
LEMMA DifferenceIsExact ==
    ASSUME NEW x \in LongInteger, NEW y \in LongInteger, Value(x) >= Value(y)
    PROVE  Difference(x, y) \in LongInteger /\ Value(Difference(x, y)) = Value(x) - Value(y)
<1> DEFINE L == Len(x)
           m == Larger(L, Len(y))
           X == Padded(x, m)
           Y == Padded(y, m)
           Q == Difference(x, y)
           P == Plus(Y, Q)
<1>1. L \in Nat \ {0} /\ Len(y) \in Nat /\ m \in Nat \ {0} /\ m >= L /\ m >= Len(y)
  BY ComponentsAre DEF Larger
<1>2. PICK c \in [0 .. L -> {0, 1}] : Borrows(x, y, c)
  BY BorrowIs
<1>3. Q = [i \in 1 .. m |-> IF i > L THEN 0 ELSE (x[i] - Component(y, i) - c[i - 1]) % BASE]
  <2>1. c = CHOOSE g : g = [i \in 0 .. Len(x) |-> IF i > 0 /\ Component(x, i) < Component(y, i) + g[i - 1] THEN 1 ELSE 0]
    BY <1>2 DEF Borrows
  <2>2. QED
    BY <2>1 DEF Difference
<1>4. c[0] = 0 /\ \A i \in 1 .. L : c[i] = IF Component(x, i) < Component(y, i) + c[i - 1] THEN 1 ELSE 0
  <2> HIDE DEF L
  <2>1. 0 \in 0 .. L /\ \A i \in 1 .. L : i \in 0 .. L /\ i > 0
    BY <1>1
  <2>2. \A i \in 0 .. L : c[i] = IF i > 0 /\ Component(x, i) < Component(y, i) + c[i - 1] THEN 1 ELSE 0
    BY <1>2 DEF Borrows, L
  <2>3. QED
    BY <2>1, <2>2
<1>5. /\ \A i \in 1 .. L : x[i] = Component(x, i)
      /\ \A i : Component(x, i) \in 0 .. BASE - 1 /\ Component(y, i) \in 0 .. BASE - 1
      /\ \A i : i \notin 1 .. L => Component(x, i) = 0
  BY ComponentsAre
<1> HIDE DEF m, Q, L
<1>6. /\ X \in Seq(Nat) /\ Len(X) = m /\ Y \in Seq(Nat) /\ Len(Y) = m
      /\ \A i \in 1 .. m : X[i] = Component(x, i) /\ Y[i] = Component(y, i)
      /\ Value(X) = Value(x) /\ Value(Y) = Value(y)
  BY <1>1, PaddedIs DEF L
<1>7. \A i \in 1 .. L : i \in 1 .. m /\ i - 1 \in 0 .. L /\ i \in 0 .. L /\ ~(i > L)
  BY <1>1
<1>8. \A i \in 1 .. L : Q[i] \in 0 .. BASE - 1 /\ c[i - 1] + (Component(y, i) + Q[i]) = Component(x, i) + BASE * c[i]
  <2>1. TAKE i \in 1 .. L
  <2> DEFINE a == Component(x, i)
             b == Component(y, i)
             e == c[i - 1]
  <2>2. a \in 0 .. BASE - 1 /\ b \in 0 .. BASE - 1 /\ e \in {0, 1}
    BY <1>2, <1>5, <1>7
  <2>3. Q[i] = (a - b - e) % BASE /\ c[i] = IF a < b + e THEN 1 ELSE 0
    BY <1>3, <1>4, <1>5, <1>7
  <2> HIDE DEF a, b, e
  <2>4. (a - b - e) % BASE \in 0 .. BASE - 1 /\ e + (b + ((a - b - e) % BASE)) = a + BASE * (IF a < b + e THEN 1 ELSE 0)
    BY <2>2, Borrowed
  <2>5. Q[i] \in 0 .. BASE - 1 /\ e + (b + Q[i]) = a + BASE * c[i]
    BY <2>3, <2>4
  <2>6. QED
    BY <2>5 DEF a, b, e
<1>9. \A i \in 1 .. m : i > L => Q[i] = 0 /\ X[i] = 0
  BY <1>1, <1>3, <1>5, <1>6
<1>10. \A i \in 1 .. m : Q[i] \in 0 .. BASE - 1
  <2>1. \A i \in 1 .. m : i > L \/ i \in 1 .. L
    BY <1>1
  <2>2. 0 \in 0 .. BASE - 1
    BY BaseIs
  <2>3. QED
    BY <1>8, <1>9, <2>1, <2>2
<1>11. Q \in Seq(0 .. BASE - 1) /\ Len(Q) = m
  <2> DEFINE D == 0 .. BASE - 1
             r(i) == IF i > L THEN 0 ELSE (x[i] - Component(y, i) - c[i - 1]) % BASE
  <2>1. Q = [i \in 1 .. m |-> r(i)] /\ m \in Nat
    BY <1>1, <1>3
  <2>2. \A i \in 1 .. m : r(i) \in D
    BY <1>3, <1>10
  <2> HIDE DEF D, r
  <2>3. Q \in Seq(D) /\ Len(Q) = m
    BY <2>1, <2>2
  <2>4. QED
    BY <2>3 DEF D
<1>12. Q \in LongInteger
  BY <1>1, <1>11 DEF LongInteger
<1>13. Q \in Seq(Nat)
  BY <1>12, ComponentsAre
<1>14. P \in Seq(Nat) /\ Len(P) = m /\ \A n \in 0 .. m : Leading(P)[n] = Leading(Y)[n] + Leading(Q)[n]
  <2> HIDE DEF Y
  <2>1. QED
    BY <1>6, <1>11, <1>13, LeadingPlus
<1>15. \A i \in 1 .. m : P[i] = Component(y, i) + Q[i]
  <2> HIDE DEF Y
  <2>1. QED
    BY <1>6 DEF Plus
<1>16. Value(P) = Value(Y) + Value(Q)
  BY <1>1, <1>6, <1>11, <1>14 DEF Value
<1> HIDE DEF P, X, Y
<1>17. L \in 0 .. m /\ m - L \in 0 .. m /\ c \in [0 .. L -> Nat]
  BY <1>1, <1>2
<1>18. Leading(X)[m - L] = 0 /\ Leading(Q)[m - L] = 0
  BY <1>6, <1>9, <1>11, <1>13, <1>17, ZerosAbove
<1>19. c[L] \in {0, 1} /\ Leading(Y)[m - L] \in Nat
  <2>1. L \in 0 .. L
    BY <1>1
  <2>2. Leading(Y) \in [0 .. m -> Nat]
    BY <1>6, LeadingIs
  <2>3. QED
    BY <1>2, <1>17, <2>1, <2>2
<1>20. ~(0 < Leading(Y)[m - L] + c[L])
  <2>1. SUFFICES ASSUME 0 < Leading(Y)[m - L] + c[L] PROVE FALSE
    OBVIOUS
  <2>2. \A i \in 1 .. L : X[i] + BASE * c[i] <= c[i - 1] + Y[i] + (BASE - 1)
    <3>1. TAKE i \in 1 .. L
    <3> DEFINE a == Component(x, i)
               b == Component(y, i)
               e == c[i - 1]
               d == BASE * c[i]
    <3>2. /\ a \in 0 .. BASE - 1 /\ b \in 0 .. BASE - 1 /\ e \in {0, 1}
          /\ Q[i] \in 0 .. BASE - 1 /\ e + (b + Q[i]) = a + d
      BY <1>2, <1>5, <1>7, <1>8
    <3>3. c[i] \in Nat
      BY <1>7, <1>17
    <3>4. d \in Nat
      <4> DEFINE k == c[i]
      <4>1. k \in Nat
        BY <3>3
      <4> HIDE DEF k
      <4>2. BASE * k \in Nat
        BY <4>1, BaseIs
      <4>3. QED
        BY <4>2 DEF k
    <3>5. X[i] = a /\ Y[i] = b
      BY <1>6, <1>7
    <3> HIDE DEF a, b, e, d
    <3>6. a + d <= e + b + (BASE - 1)
      BY <3>2, <3>4, BaseIs
    <3>7. QED
      BY <3>5, <3>6 DEF d, e
  <2>3. Leading(X)[Len(X) - L] < Leading(Y)[Len(X) - L] + c[L]
    BY <1>6, <1>18, <2>1
  <2>4. Value(X) < Value(Y) + c[0]
    <3>1. L \in 0 .. Len(X) /\ Len(Y) = Len(X)
      BY <1>6, <1>17
    <3>2. QED
      BY <1>6, <1>17, <2>2, <2>3, <3>1, Unbalanced
  <2>5. Value(X) \in Nat /\ Value(Y) \in Nat
    BY <1>6, ValueIs
  <2>6. QED
    BY <1>4, <1>6, <2>4, <2>5
<1>21. Leading(Y)[m - L] = 0 /\ c[L] = 0
  BY <1>19, <1>20
<1>22. Value(P) + c[0] = Value(X)
  <2>1. L \in 0 .. Len(P) /\ Len(X) = Len(P)
    BY <1>6, <1>14, <1>17
  <2>2. \A i \in 1 .. L : c[i - 1] + P[i] = X[i] + BASE * c[i]
    BY <1>6, <1>7, <1>8, <1>15
  <2>3. Leading(P)[Len(P) - L] + c[L] = Leading(X)[Len(P) - L]
    BY <1>14, <1>17, <1>18, <1>21
  <2>4. QED
    BY <1>6, <1>14, <1>17, <2>1, <2>2, <2>3, Balanced
<1>23. Value(Q) = Value(x) - Value(y)
  <2>1. Value(P) \in Nat /\ Value(Q) \in Nat /\ Value(Y) \in Nat /\ Value(X) \in Nat
    BY <1>6, <1>13, <1>14, ValueIs
  <2>2. QED
    BY <1>4, <1>6, <1>16, <1>22, <2>1
<1>24. QED
  BY <1>12, <1>23 DEF Q

-----------------------------------------------------------------------------
(* Multiplication *)

\* One component times another and a carry that was below BASE: so is the next.
LEMMA CarryBelow ==
    ASSUME NEW c \in 0 .. BASE - 1, NEW a \in 0 .. BASE - 1, NEW d \in 0 .. BASE - 1
    PROVE  /\ c + a * d \in Nat /\ (c + a * d) \div BASE \in 0 .. BASE - 1 /\ (c + a * d) % BASE \in 0 .. BASE - 1
           /\ c + d * a = ((c + a * d) % BASE) + BASE * ((c + a * d) \div BASE)
<1>0. BASE \in Nat \ {0} /\ c \in Nat /\ a \in Nat /\ d \in Nat
  BY BaseIs
<1> DEFINE n == c + a * d
<1>1. a * d \in Nat /\ a * d <= (BASE - 1) * d /\ d * a = a * d
  BY <1>0
<1>2. (BASE - 1) * d = BASE * d - d
  BY <1>0
<1>3. BASE * d \in Nat /\ BASE * (d + 1) = BASE * d + BASE
  BY <1>0
<1>4. BASE * (d + 1) <= BASE * BASE
  BY <1>0
<1>5. n \in Nat /\ n < BASE * BASE /\ c + d * a = n
  <2> DEFINE e == a * d
             f == BASE * d
             g == BASE * BASE
             h == (BASE - 1) * d
  <2>1. /\ e \in Nat /\ e <= h /\ h = f - d /\ f \in Nat /\ f + BASE <= g /\ n = c + e
        /\ d * a = e /\ g \in Nat
    BY <1>0, <1>1, <1>2, <1>3, <1>4
  <2> HIDE DEF e, f, g, h, n
  <2>2. n \in Nat /\ n < g /\ c + d * a = n
    BY <1>0, <2>1
  <2>3. QED
    BY <2>2 DEF g
<1> HIDE DEF n
<1>6. n \div BASE < BASE
  BY <1>0, <1>5, DivisionBelow
<1>7. n \div BASE \in Nat /\ n % BASE \in 0 .. BASE - 1 /\ n = BASE * (n \div BASE) + (n % BASE)
  BY <1>0, <1>5, Division
<1>8. n \div BASE \in 0 .. BASE - 1
  BY <1>0, <1>6, <1>7
<1>9. n = (n % BASE) + BASE * (n \div BASE)
  <2> DEFINE e == n % BASE
             f == BASE * (n \div BASE)
  <2>1. e \in Nat /\ f \in Nat /\ n = f + e
    BY <1>0, <1>7
  <2> HIDE DEF e, f
  <2>2. n = e + f
    BY <2>1
  <2>3. QED
    BY <2>2 DEF e, f
<1>10. QED
  BY <1>5, <1>7, <1>8, <1>9 DEF n

\* What TimesComponent carries.
CarriesTimes(x, d, c) ==
    /\ c = [i \in 0 .. Len(x) + 1 |-> IF i = 0 THEN 0 ELSE (c[i - 1] + Component(x, i) * d) \div BASE]
    /\ c = CHOOSE g : g = [i \in 0 .. Len(x) + 1 |-> IF i = 0 THEN 0 ELSE (g[i - 1] + Component(x, i) * d) \div BASE]

LEMMA CarryTimesIs ==
    ASSUME NEW x \in LongInteger, NEW d \in 0 .. BASE - 1
    PROVE  \E c \in [0 .. Len(x) + 1 -> 0 .. BASE - 1] : CarriesTimes(x, d, c)
<1> DEFINE S == 0 .. BASE - 1
           m == Len(x) + 1
           Turn(i, a) == (a + Component(x, i) * d) \div BASE
           F == [p \in (1 .. m) \X S |-> Turn(p[1], p[2])]
           first == 0
           G(g) == [i \in 0 .. m |-> IF i = 0 THEN 0 ELSE (g[i - 1] + Component(x, i) * d) \div BASE]
<1>0. m \in Nat /\ \A i : Component(x, i) \in S
  BY ComponentsAre
<1>1. \A i \in 1 .. m, a \in S : Turn(i, a) \in S
  <2>1. TAKE i \in 1 .. m, a \in S
  <2> DEFINE b == Component(x, i)
  <2>2. a \in 0 .. BASE - 1 /\ b \in 0 .. BASE - 1
    BY <1>0
  <2> HIDE DEF b
  <2>3. (a + b * d) \div BASE \in 0 .. BASE - 1
    BY <2>2, CarryBelow
  <2>4. QED
    BY <2>3 DEF b
<1>2. F \in [(1 .. m) \X S -> S] /\ first \in S /\ \A i \in 1 .. m, a \in S : F[<<i, a>>] = Turn(i, a)
  <2>1. first \in S
    BY BaseIs
  <2> HIDE DEF Turn, S, m, first
  <2>2. QED
    BY <1>1, <2>1
<1>3. PICK f \in [0 .. m -> S] : Folds(f, first, F, m)
  <2> HIDE DEF F, S, first, m
  <2>1. QED
    BY <1>0, <1>2, Folded
<1>4. f[0] = 0 /\ \A i \in 1 .. m : f[i] = F[<<i, f[i - 1]>>]
  BY <1>3 DEF Folds
<1> HIDE DEF F, m
<1>5. f = G(f)
  <2> HIDE DEF S, Turn
  <2>1. \A i \in 0 .. m : i = 0 \/ (i # 0 /\ i \in 1 .. m /\ i - 1 \in 0 .. m)
    BY <1>0
  <2>2. \A i \in 1 .. m : f[i - 1] \in S /\ i # 0
    BY <1>0, <1>3
  <2>3. \A i \in 1 .. m : f[i] = Turn(i, f[i - 1])
    BY <1>2, <1>4, <2>2
  <2>4. \A i \in 0 .. m : f[i] = IF i = 0 THEN 0 ELSE Turn(i, f[i - 1])
    BY <1>4, <2>1, <2>3
  <2>5. QED
    BY <1>3, <2>4 DEF Turn
<1> DEFINE c == CHOOSE g : g = G(g)
<1>6. c = G(c)
  <2> HIDE DEF G
  <2>1. QED
    BY <1>5
<1> HIDE DEF c, Turn
<1>7. c[0] = 0 /\ \A i \in 1 .. m : c[i] = Turn(i, c[i - 1])
  <2>1. 0 \in 0 .. m /\ \A i \in 1 .. m : i \in 0 .. m /\ i # 0
    BY <1>0
  <2>2. QED
    BY <1>6, <2>1 DEF Turn
<1> DEFINE T == {i \in 0 .. m : c[i] \in S}
<1>8. 0 .. m \subseteq T
  <2>1. 0 \in T
    BY <1>0, <1>2, <1>7
  <2>2. ASSUME NEW i \in 1 .. m, i - 1 \in T PROVE i \in T
    <3>1. c[i - 1] \in S /\ i \in 0 .. m
      BY <1>0, <2>2
    <3> HIDE DEF S
    <3>2. c[i] \in S
      BY <1>1, <1>7, <3>1
    <3>3. QED
      BY <3>1, <3>2
  <2> HIDE DEF T
  <2>3. QED
    BY <1>0, <2>1, <2>2, UpTo
<1>9. c \in [0 .. m -> S]
  <2> HIDE DEF S
  <2>1. QED
    BY <1>6, <1>8
<1>10. QED
  <2>1. c = [i \in 0 .. Len(x) + 1 |-> IF i = 0 THEN 0 ELSE (c[i - 1] + Component(x, i) * d) \div BASE]
    BY <1>6 DEF m
  <2>2. c = CHOOSE g : g = [i \in 0 .. Len(x) + 1 |-> IF i = 0 THEN 0 ELSE (g[i - 1] + Component(x, i) * d) \div BASE]
    BY DEF c, m
  <2>3. QED
    BY <1>9, <2>1, <2>2 DEF CarriesTimes, m

\* A product with one component holds all of it.
LEMMA TimesIsExact ==
    ASSUME NEW x \in LongInteger, NEW d \in 0 .. BASE - 1
    PROVE  /\ TimesComponent(x, d) \in LongInteger /\ Len(TimesComponent(x, d)) = Len(x) + 1
           /\ Value(TimesComponent(x, d)) = Value(x) * d
<1> DEFINE m == Len(x) + 1
           X == Padded(x, m)
           P == Multiple(X, d)
           Q == TimesComponent(x, d)
<1>1. /\ Len(x) \in Nat /\ m \in Nat \ {0} /\ m >= Len(x) /\ m \notin 1 .. Len(x) /\ d \in Nat
      /\ \A i : Component(x, i) \in 0 .. BASE - 1
      /\ \A i : i \notin 1 .. Len(x) => Component(x, i) = 0
  BY ComponentsAre, BaseIs
<1>2. PICK c \in [0 .. m -> 0 .. BASE - 1] : CarriesTimes(x, d, c)
  BY CarryTimesIs
<1>3. Q = [i \in 1 .. m |-> (c[i - 1] + Component(x, i) * d) % BASE]
  <2> DEFINE w == CHOOSE g : g = [i \in 0 .. Len(x) + 1 |-> IF i = 0 THEN 0 ELSE (g[i - 1] + Component(x, i) * d) \div BASE]
  <2>1. c = w
    BY <1>2 DEF CarriesTimes
  <2>2. Q = [i \in 1 .. m |-> (w[i - 1] + Component(x, i) * d) % BASE]
    BY DEF TimesComponent
  <2> HIDE DEF w, Q
  <2>3. QED
    BY <2>1, <2>2
<1>4. c[0] = 0 /\ \A i \in 1 .. m : c[i] = (c[i - 1] + Component(x, i) * d) \div BASE
  <2>1. c = [i \in 0 .. m |-> IF i = 0 THEN 0 ELSE (c[i - 1] + Component(x, i) * d) \div BASE]
    BY <1>2 DEF CarriesTimes
  <2> HIDE DEF m
  <2>2. 0 \in 0 .. m /\ \A i \in 1 .. m : i \in 0 .. m /\ i # 0
    BY <1>1
  <2>3. QED
    BY <2>1, <2>2
<1>5. m \in 1 .. m /\ \A i \in 1 .. m : i - 1 \in 0 .. m
  BY <1>1
<1> HIDE DEF m, Q
<1>6. X \in Seq(Nat) /\ Len(X) = m /\ Value(X) = Value(x) /\ \A i \in 1 .. m : X[i] = Component(x, i)
  BY <1>1, PaddedIs
<1>7. \A i \in 1 .. m : Q[i] \in 0 .. BASE - 1 /\ c[i - 1] + d * Component(x, i) = Q[i] + BASE * c[i]
  <2>1. TAKE i \in 1 .. m
  <2> DEFINE a == Component(x, i)
             e == c[i - 1]
  <2>2. a \in 0 .. BASE - 1 /\ e \in 0 .. BASE - 1
    BY <1>1, <1>2, <1>5
  <2>3. Q[i] = (e + a * d) % BASE /\ c[i] = (e + a * d) \div BASE
    BY <1>3, <1>4
  <2> HIDE DEF a, e
  <2>4. (e + a * d) % BASE \in 0 .. BASE - 1 /\ e + d * a = ((e + a * d) % BASE) + BASE * ((e + a * d) \div BASE)
    BY <2>2, CarryBelow
  <2>5. Q[i] \in 0 .. BASE - 1 /\ e + d * a = Q[i] + BASE * c[i]
    BY <2>3, <2>4
  <2>6. QED
    BY <2>5 DEF a, e
<1>8. Q \in Seq(0 .. BASE - 1) /\ Len(Q) = m
  <2> DEFINE D == 0 .. BASE - 1
             r(i) == (c[i - 1] + Component(x, i) * d) % BASE
  <2>1. Q = [i \in 1 .. m |-> r(i)] /\ m \in Nat
    BY <1>1, <1>3
  <2>2. \A i \in 1 .. m : r(i) \in D
    BY <1>3, <1>7
  <2> HIDE DEF D, r
  <2>3. Q \in Seq(D) /\ Len(Q) = m
    BY <2>1, <2>2
  <2>4. QED
    BY <2>3 DEF D
<1>9. Q \in LongInteger
  BY <1>1, <1>8 DEF LongInteger
<1>10. Q \in Seq(Nat)
  BY <1>9, ComponentsAre
<1>11. P \in Seq(Nat) /\ Len(P) = m /\ \A n \in 0 .. m : Leading(P)[n] = d * Leading(X)[n]
  <2> HIDE DEF X
  <2>1. QED
    BY <1>1, <1>6, LeadingMultiple
<1>12. \A i \in 1 .. m : P[i] = d * Component(x, i)
  <2> HIDE DEF X
  <2>1. QED
    BY <1>6 DEF Multiple
<1>13. Value(P) = d * Value(X)
  BY <1>1, <1>6, <1>11 DEF Value
<1> HIDE DEF P, X
<1>14. c[m] = 0
  <2>1. Component(x, m) = 0
    BY <1>1
  <2> DEFINE e == c[m - 1]
  <2>2. e \in 0 .. BASE - 1
    BY <1>2, <1>5
  <2>3. c[m] = (e + 0 * d) \div BASE
    BY <1>4, <1>5, <2>1
  <2> HIDE DEF e
  <2>4. e + 0 * d = e /\ e \in Nat /\ BASE \in Nat \ {0} /\ e < BASE * 1
    BY <1>1, <2>2, BaseIs
  <2>5. e \div BASE < 1 /\ e \div BASE \in Nat
    BY <2>4, DivisionBelow, Division
  <2>6. QED
    BY <2>3, <2>4, <2>5
<1>15. Value(P) + c[0] = Value(Q)
  <2>1. m \in 0 .. Len(P) /\ Len(Q) = Len(P) /\ c \in [0 .. m -> Nat]
    BY <1>1, <1>2, <1>8, <1>11, BaseIs
  <2>2. \A i \in 1 .. m : c[i - 1] + P[i] = Q[i] + BASE * c[i]
    BY <1>7, <1>12
  <2>3. Leading(P)[Len(P) - m] + c[m] = Leading(Q)[Len(P) - m]
    BY <1>8, <1>10, <1>11, <1>14, LeadingStarts
  <2>4. QED
    BY <1>10, <1>11, <2>1, <2>2, <2>3, Balanced
<1>16. Value(Q) = Value(x) * d
  <2>1. Value(P) \in Nat /\ Value(X) \in Nat
    BY <1>6, <1>11, ValueIs
  <2>2. Value(Q) = d * Value(x)
    BY <1>4, <1>6, <1>13, <1>15, <2>1
  <2>3. QED
    BY <1>1, <1>6, <2>1, <2>2
<1>17. QED
  BY <1>8, <1>9, <1>16 DEF Q, m

\* So does the product of two numbers, where operator* multiplies at all.
LEMMA ProductIsExact ==
    ASSUME NEW x \in LongInteger, NEW y \in LongInteger, Convolves(x, y)
    PROVE  Product(x, y) \in LongInteger /\ Value(Product(x, y)) = Value(x) * Value(y)
<1> DEFINE d == y[1]
           m == 2 * Larger(Len(x), Len(y))
           z == TimesComponent(x, d)
           Q == Padded(z, m)
<1>1. /\ Len(x) \in Nat \ {0} /\ Len(y) \in Nat \ {0} /\ y \in Seq(Nat) /\ d \in 0 .. BASE - 1
      /\ m \in Nat \ {0} /\ m >= Len(x) + 1
  BY ComponentsAre DEF Larger
<1>2. z \in LongInteger /\ Len(z) = Len(x) + 1 /\ Value(z) = Value(x) * d
  <2> HIDE DEF d
  <2>1. QED
    BY <1>1, TimesIsExact
<1>3. Value(y) = d
  <2> DEFINE L == Len(y)
  <2>1. 1 \in 0 .. L /\ \A i \in 1 .. L : i > 1 => y[i] = 0
    BY <1>1 DEF Convolves
  <2>2. Leading(y)[L - 1] = 0
    BY <1>1, <2>1, ZerosAbove
  <2>3. L \in 1 .. L /\ L + 1 - L = 1
    BY <1>1
  <2>4. Leading(y)[L] = BASE * Leading(y)[L - 1] + d
    BY <1>1, <2>3, LeadingIs
  <2>5. QED
    BY <1>1, <2>2, <2>4, BaseIs DEF Value
<1>4. Product(x, y) = Q
  BY DEF Product, Padded
<1> HIDE DEF m, z, d
<1>5. Q \in Seq(Nat) /\ Len(Q) = m /\ Value(Q) = Value(z) /\ \A i \in 1 .. m : Q[i] = Component(z, i)
  BY <1>1, <1>2, PaddedIs
<1>6. Q \in LongInteger
  <2> DEFINE D == 0 .. BASE - 1
  <2>1. \A i \in 1 .. m : Component(z, i) \in D
    BY <1>2, ComponentsAre
  <2> HIDE DEF D
  <2>2. Q \in Seq(D)
    BY <1>1, <2>1 DEF Padded
  <2>3. Q # <<>>
    BY <1>1, <1>5
  <2>4. QED
    BY <2>2, <2>3 DEF LongInteger, D
<1>7. QED
  BY <1>2, <1>3, <1>4, <1>5, <1>6

-----------------------------------------------------------------------------
(* Division *)

\* A remainder and the next component make a dividend whose quotient is a component.
LEMMA DividendBelow ==
    ASSUME NEW d \in Nat \ {0}, NEW a \in Nat, NEW b \in 0 .. BASE - 1
    PROVE  b + (a % d) * BASE \in Nat /\ b + (a % d) * BASE < d * BASE
<1> DEFINE r == a % d
<1>1. r \in Nat /\ r + 1 <= d /\ d \in Nat /\ BASE \in Nat
  BY Division, BaseIs
<1> HIDE DEF r
<1>2. (r + 1) * BASE <= d * BASE /\ (r + 1) * BASE = r * BASE + BASE /\ r * BASE \in Nat /\ d * BASE \in Nat
  BY <1>1
<1> DEFINE e == r * BASE
           f == d * BASE
           g == (r + 1) * BASE
<1>3. g <= f /\ g = e + BASE /\ e \in Nat /\ f \in Nat
  BY <1>2
<1> HIDE DEF e, f, g
<1>4. b + e \in Nat /\ b + e < f
  BY <1>3, BaseIs
<1>5. QED
  BY <1>4 DEF e, f, r

\* What DividedBy divides at each component.
Dividends(x, d, h) ==
    /\ h = [i \in 1 .. Len(x) |-> x[i] + (IF i = Len(x) THEN 0 ELSE (h[i + 1] % d) * BASE)]
    /\ h = CHOOSE g : g = [i \in 1 .. Len(x) |-> x[i] + (IF i = Len(x) THEN 0 ELSE (g[i + 1] % d) * BASE)]

LEMMA DividendIs ==
    ASSUME NEW x \in LongInteger, NEW d \in Nat \ {0}
    PROVE  \E h \in [1 .. Len(x) -> Nat] : Dividends(x, d, h) /\ \A i \in 1 .. Len(x) : h[i] < d * BASE
<1> DEFINE L == Len(x)
           Turn(i, a) == x[i] + (a % d) * BASE
           F == [p \in (1 .. L) \X Nat |-> Turn(L + 1 - p[1], p[2])]
           first == 0
           G(g) == [i \in 1 .. L |-> x[i] + (IF i = L THEN 0 ELSE (g[i + 1] % d) * BASE)]
<1>0. L \in Nat \ {0} /\ \A i \in 1 .. L : x[i] \in 0 .. BASE - 1 /\ x[i] \in Nat
  BY ComponentsAre
<1> HIDE DEF L
<1>1. \A i \in 1 .. L, a \in Nat : Turn(i, a) \in Nat /\ Turn(i, a) < d * BASE
  <2>1. TAKE i \in 1 .. L, a \in Nat
  <2> DEFINE b == x[i]
  <2>2. b \in 0 .. BASE - 1
    BY <1>0
  <2> HIDE DEF b
  <2>3. b + (a % d) * BASE \in Nat /\ b + (a % d) * BASE < d * BASE
    BY <2>2, DividendBelow
  <2>4. QED
    BY <2>3 DEF b
<1>2. \A i \in 1 .. L : L + 1 - i \in 1 .. L
  BY <1>0
<1>3. /\ F \in [(1 .. L) \X Nat -> Nat] /\ first \in Nat
      /\ \A i \in 1 .. L, a \in Nat : F[<<i, a>>] = Turn(L + 1 - i, a)
  <2>1. first \in Nat
    OBVIOUS
  <2> HIDE DEF Turn, first
  <2>2. QED
    BY <1>1, <1>2, <2>1
<1>4. PICK f \in [0 .. L -> Nat] : Folds(f, first, F, L)
  <2> HIDE DEF F, first
  <2>1. L \in Nat
    BY <1>0
  <2>2. QED
    BY <1>3, <2>1, Folded
<1>5. f[0] = 0 /\ \A i \in 1 .. L : f[i] = F[<<i, f[i - 1]>>]
  BY <1>4 DEF Folds
<1> HIDE DEF F
<1>6. \A i \in 1 .. L : i - 1 \in 0 .. L /\ f[i - 1] \in Nat /\ f[i] = Turn(L + 1 - i, f[i - 1])
  <2> HIDE DEF Turn
  <2>1. \A i \in 1 .. L : i - 1 \in 0 .. L
    BY <1>0
  <2>2. \A i \in 1 .. L : f[i - 1] \in Nat
    BY <1>4, <2>1
  <2>3. QED
    BY <1>3, <1>5, <2>1, <2>2
<1> DEFINE h == [i \in 1 .. L |-> f[L + 1 - i]]
<1>7. ASSUME NEW i \in 1 .. L PROVE h[i] \in Nat /\ h[i] < d * BASE /\ h[i] = x[i] + (IF i = L THEN 0 ELSE (h[i + 1] % d) * BASE)
  <2> DEFINE k == L + 1 - i
  <2>1. k \in 1 .. L /\ L + 1 - k = i /\ h[i] = f[k]
    BY <1>0
  <2>2. f[k - 1] \in Nat /\ f[k] = Turn(i, f[k - 1])
    BY <1>6, <2>1
  <2>3. h[i] \in Nat /\ h[i] < d * BASE
    <3> HIDE DEF h, k, Turn
    <3>1. QED
      BY <1>1, <2>1, <2>2
  <2>4. CASE i = L
    <3>1. k - 1 = 0
      BY <1>0, <2>4
    <3>2. h[i] = x[i] + (0 % d) * BASE
      BY <1>5, <2>1, <2>2, <3>1
    <3>3. (0 % d) * BASE = 0 /\ x[i] \in Nat
      <4>1. 0 % d = 0
        OBVIOUS
      <4>2. 0 * BASE = 0
        BY BaseIs
      <4>3. QED
        BY <1>0, <4>1, <4>2
    <3> HIDE DEF h
    <3>4. QED
      BY <2>3, <2>4, <3>2, <3>3
  <2>5. CASE i # L
    <3>1. i + 1 \in 1 .. L /\ L + 1 - (i + 1) = k - 1
      BY <1>0, <2>5
    <3>2. h[i + 1] = f[k - 1]
      BY <3>1
    <3>3. h[i] = x[i] + (h[i + 1] % d) * BASE
      <4> HIDE DEF h, k
      <4>1. QED
        BY <2>1, <2>2, <3>2
    <3> HIDE DEF h
    <3>4. QED
      BY <2>3, <2>5, <3>3
  <2>6. QED
    BY <2>4, <2>5
<1>8. h = G(h)
  <2>1. \A i \in 1 .. L : h[i] = x[i] + (IF i = L THEN 0 ELSE (h[i + 1] % d) * BASE)
    BY <1>7
  <2> DEFINE w(i) == x[i] + (IF i = L THEN 0 ELSE (h[i + 1] % d) * BASE)
  <2>2. h = [i \in 1 .. L |-> h[i]] /\ \A i \in 1 .. L : h[i] = w(i)
    BY <2>1
  <2> HIDE DEF h, w
  <2>3. h = [i \in 1 .. L |-> w(i)]
    BY <2>2
  <2>4. QED
    BY <2>3 DEF w
<1> DEFINE c == CHOOSE g : g = G(g)
<1>9. c = G(c)
  <2> HIDE DEF G, h
  <2>1. QED
    BY <1>8
<1> HIDE DEF c
<1>10. \A i \in 1 .. L : c[i] = x[i] + (IF i = L THEN 0 ELSE (c[i + 1] % d) * BASE)
  BY <1>9
<1> DEFINE T == {k \in 0 .. L : k # 0 => c[L + 1 - k] = f[k]}
<1>11. 0 .. L \subseteq T
  <2>1. 0 \in T
    BY <1>0
  <2>2. ASSUME NEW k \in 1 .. L, k - 1 \in T PROVE k \in T
    <3> DEFINE i == L + 1 - k
    <3>1. i \in 1 .. L /\ k \in 0 .. L /\ L + 1 - i = k
      BY <1>0
    <3>2. h[i] = f[k] /\ h[i] = x[i] + (IF i = L THEN 0 ELSE (h[i + 1] % d) * BASE)
      BY <1>7, <3>1
    <3>3. i # L => c[i + 1] = h[i + 1]
      <4>1. SUFFICES ASSUME i # L PROVE c[i + 1] = h[i + 1]
        OBVIOUS
      <4>2. k - 1 # 0 /\ L + 1 - (k - 1) = i + 1 /\ i + 1 \in 1 .. L /\ L + 1 - (i + 1) = k - 1
        BY <1>0, <3>1, <4>1
      <4>3. c[i + 1] = f[k - 1]
        BY <2>2, <4>2
      <4>4. QED
        BY <4>2, <4>3
    <3>4. c[i] = x[i] + (IF i = L THEN 0 ELSE (c[i + 1] % d) * BASE)
      BY <1>10, <3>1
    <3> HIDE DEF i, h
    <3>5. c[i] = f[k]
      BY <3>2, <3>3, <3>4
    <3>6. QED
      BY <3>1, <3>5 DEF i
  <2> HIDE DEF T
  <2>3. QED
    BY <1>0, <2>1, <2>2, UpTo
<1>12. c = h
  <2>1. \A i \in 1 .. L : c[i] = h[i]
    <3>1. TAKE i \in 1 .. L
    <3>2. L + 1 - i \in T /\ L + 1 - i # 0 /\ L + 1 - (L + 1 - i) = i
      BY <1>0, <1>11
    <3>3. QED
      BY <3>2
  <2>2. c = [i \in 1 .. L |-> c[i]] /\ h = [i \in 1 .. L |-> h[i]]
    BY <1>9
  <2> HIDE DEF h
  <2>3. QED
    BY <2>1, <2>2
<1>13. h \in [1 .. L -> Nat] /\ \A i \in 1 .. L : h[i] < d * BASE
  BY <1>7
<1>14. Dividends(x, d, h)
  <2> HIDE DEF h
  <2>1. QED
    BY <1>8, <1>12 DEF Dividends, c, L
<1>15. QED
  <2> HIDE DEF h
  <2>1. QED
    BY <1>13, <1>14 DEF L

\* A quotient by a small number is exact.
LEMMA DividedIsExact ==
    ASSUME NEW x \in LongInteger, NEW d \in Nat \ {0}
    PROVE  DividedBy(x, d) \in LongInteger /\ Value(DividedBy(x, d)) = Value(x) \div d
<1> DEFINE L == Len(x)
           q == DividedBy(x, d)
           P == Multiple(q, d)
<1>1. /\ L \in Nat \ {0} /\ DOMAIN x = 1 .. L /\ x \in Seq(Nat) /\ Value(x) \in Nat
      /\ \A i \in 1 .. L : x[i] \in 0 .. BASE - 1 /\ x[i] \in Nat
  BY ComponentsAre, ValueIs
<1>2. PICK h \in [1 .. L -> Nat] : Dividends(x, d, h) /\ \A i \in 1 .. L : h[i] < d * BASE
  BY DividendIs
<1>3. q = [i \in 1 .. L |-> h[i] \div d]
  <2> DEFINE w == CHOOSE g : g = [i \in 1 .. Len(x) |-> x[i] + (IF i = Len(x) THEN 0 ELSE (g[i + 1] % d) * BASE)]
  <2>1. h = w
    BY <1>2 DEF Dividends
  <2>2. q = [i \in DOMAIN x |-> w[i] \div d]
    BY DEF DividedBy
  <2> HIDE DEF w, q, L
  <2>3. QED
    BY <1>1, <2>1, <2>2
<1>4. \A i \in 1 .. L : h[i] = x[i] + (IF i = L THEN 0 ELSE (h[i + 1] % d) * BASE)
  BY <1>2 DEF Dividends
<1> HIDE DEF L, q
<1>5. \A i \in 1 .. L : /\ q[i] \in Nat /\ q[i] < BASE /\ h[i] % d \in 0 .. d - 1
                        /\ h[i] = d * q[i] + (h[i] % d) /\ d * q[i] \in Nat
  <2>1. TAKE i \in 1 .. L
  <2> DEFINE a == h[i]
  <2>2. a \in Nat /\ a < d * BASE /\ q[i] = a \div d /\ BASE \in Nat \ {0}
    BY <1>2, <1>3, BaseIs
  <2> HIDE DEF a
  <2>3. a \div d \in Nat /\ a % d \in 0 .. d - 1 /\ a = d * (a \div d) + (a % d) /\ a \div d < BASE
    BY <2>2, Division, DivisionBelow
  <2>4. d * q[i] \in Nat
    <3> DEFINE b == q[i]
    <3>1. b \in Nat
      BY <2>2, <2>3
    <3> HIDE DEF b
    <3>2. d * b \in Nat
      BY <3>1
    <3>3. QED
      BY <3>2 DEF b
  <2>5. QED
    BY <2>2, <2>3, <2>4 DEF a
<1>6. q \in Seq(0 .. BASE - 1) /\ Len(q) = L
  <2> DEFINE D == 0 .. BASE - 1
             r(i) == h[i] \div d
  <2>1. q = [i \in 1 .. L |-> r(i)] /\ L \in Nat
    BY <1>1, <1>3
  <2>2. \A i \in 1 .. L : r(i) \in D
    BY <1>3, <1>5, BaseIs
  <2> HIDE DEF D, r
  <2>3. q \in Seq(D) /\ Len(q) = L
    BY <2>1, <2>2
  <2>4. QED
    BY <2>3 DEF D
<1>7. q \in LongInteger
  BY <1>1, <1>6 DEF LongInteger
<1>8. q \in Seq(Nat) /\ Value(q) \in Nat
  BY <1>7, ComponentsAre, ValueIs
<1>9. P \in Seq(Nat) /\ Len(P) = L /\ \A n \in 0 .. L : Leading(P)[n] = d * Leading(q)[n]
  BY <1>6, <1>8, LeadingMultiple
<1>10. \A i \in 1 .. L : P[i] = d * q[i]
  BY <1>6 DEF Multiple
<1>11. Value(P) = d * Value(q)
  BY <1>1, <1>6, <1>9 DEF Value
<1> HIDE DEF P
<1> DEFINE c == [i \in 0 .. L |-> IF i = L THEN 0 ELSE h[i + 1] % d]
<1>12. /\ c[L] = 0 /\ c[0] \in 0 .. d - 1 /\ c \in [0 .. L -> Nat]
       /\ \A i \in 1 .. L : c[i - 1] = h[i] % d
       /\ \A i \in 1 .. L : i # L => c[i] = h[i + 1] % d
  <2>1. \A i \in 0 .. L : i = L \/ i + 1 \in 1 .. L
    BY <1>1
  <2>2. L \in 0 .. L /\ 0 \in 0 .. L /\ 0 # L /\ 0 + 1 \in 1 .. L /\ \A i \in 1 .. L : i - 1 \in 0 .. L /\ i - 1 # L /\ (i - 1) + 1 = i
    BY <1>1
  <2>3. c \in [0 .. L -> Nat]
    BY <1>5, <2>1
  <2>4. \A i \in 1 .. L : c[i - 1] = h[i] % d
    BY <2>2
  <2>5. \A i \in 1 .. L : i # L => c[i] = h[i + 1] % d
    BY <1>1
  <2>6. c[L] = 0
    BY <2>2
  <2>7. c[0] \in 0 .. d - 1
    BY <1>5, <2>2
  <2>8. QED
    BY <2>3, <2>4, <2>5, <2>6, <2>7
<1> HIDE DEF c
<1>13. \A i \in 1 .. L : c[i - 1] + P[i] = x[i] + BASE * c[i]
  <2>1. TAKE i \in 1 .. L
  <2> DEFINE a == c[i]
             b == x[i]
             e == c[i - 1]
             f == d * q[i]
  <2>2. a \in Nat /\ e \in Nat /\ b \in Nat /\ f \in Nat /\ h[i] = f + e /\ P[i] = f
    <3>1. e = h[i] % d /\ i - 1 \in 0 .. L /\ i \in 0 .. L
      BY <1>1, <1>12
    <3>2. a \in Nat /\ e \in Nat
      BY <1>12, <3>1
    <3>3. b \in Nat /\ f \in Nat /\ P[i] = f
      BY <1>1, <1>5, <1>10
    <3>4. h[i] = d * q[i] + (h[i] % d)
      BY <1>5
    <3>5. h[i] = f + e
      BY <3>1, <3>4
    <3>6. QED
      BY <3>2, <3>3, <3>5
  <2>3. h[i] = b + a * BASE
    <3>1. CASE i = L
      <4>1. a = 0 /\ h[i] = b + 0
        BY <1>4, <1>12, <3>1
      <4> HIDE DEF a, b
      <4>2. QED
        BY <2>2, <4>1, BaseIs
    <3>2. CASE i # L
      BY <1>4, <1>12, <3>2
    <3>3. QED
      BY <3>1, <3>2
  <2> HIDE DEF a, b, e, f
  <2>4. a * BASE = BASE * a /\ BASE * a \in Nat
    BY <2>2, BaseIs
  <2>5. e + f = b + BASE * a
    BY <2>2, <2>3, <2>4
  <2>6. QED
    BY <2>2, <2>5 DEF a, b, e
<1>14. Value(P) + c[0] = Value(x)
  <2>1. L \in 0 .. Len(P) /\ Len(x) = Len(P) /\ Len(P) = L
    BY <1>1, <1>9 DEF L
  <2>2. Leading(P)[Len(P) - L] = 0 /\ Leading(x)[Len(P) - L] = 0
    <3>1. Len(P) - L = 0
      BY <1>1, <2>1
    <3>2. QED
      BY <1>1, <1>9, <3>1, LeadingStarts
  <2>3. Leading(P)[Len(P) - L] + c[L] = Leading(x)[Len(P) - L]
    BY <1>12, <2>2
  <2>4. x \in Seq(Nat) /\ P \in Seq(Nat) /\ c \in [0 .. L -> Nat]
    BY <1>1, <1>9, <1>12
  <2>5. QED
    <3>1. \A i \in 1 .. L : c[i - 1] + P[i] = x[i] + BASE * c[i]
      BY <1>13
    <3>2. L \in 0 .. Len(P) /\ Len(x) = Len(P)
      BY <2>1
    <3>3. QED
      BY <2>3, <2>4, <3>1, <3>2, Balanced
<1>15. Value(x) \div d = Value(q)
  <2> DEFINE a == Value(x)
             b == Value(q)
             r == c[0]
  <2>1. a = d * b + r /\ b \in Nat /\ r \in 0 .. d - 1
    BY <1>8, <1>11, <1>12, <1>14
  <2> HIDE DEF a, b, r
  <2>2. a \div d = b
    BY <2>1, QuotientIs
  <2>3. QED
    BY <2>2 DEF a, b
<1>16. QED
  BY <1>7, <1>15 DEF q

-----------------------------------------------------------------------------
(* Comparison *)

\* Equal components above make equal numbers.
LEMMA SameAbove ==
    ASSUME NEW p \in Seq(Nat), NEW q \in Seq(Nat), Len(q) = Len(p), NEW n \in 0 .. Len(p),
           \A i \in 1 .. Len(p) : i > n => p[i] = q[i]
    PROVE  Leading(p)[Len(p) - n] = Leading(q)[Len(p) - n]
<1> DEFINE L == Len(p)
           u == Leading(p)
           v == Leading(q)
           T == {k \in 0 .. L - n : u[k] = v[k]}
<1>1. L \in Nat /\ n \in Nat /\ n <= L /\ L - n \in Nat /\ \A i \in 1 .. L : i > n => p[i] = q[i]
  OBVIOUS
<1>2. /\ u[0] = 0 /\ \A k \in 1 .. L : u[k] = BASE * u[k - 1] + p[L + 1 - k]
      /\ v[0] = 0 /\ \A k \in 1 .. L : v[k] = BASE * v[k - 1] + q[L + 1 - k]
  BY LeadingIs
<1> HIDE DEF L, u, v
<1>3. 0 \in T
  BY <1>1, <1>2
<1>4. ASSUME NEW k \in 1 .. L - n, k - 1 \in T PROVE k \in T
  <2> DEFINE i == L + 1 - k
  <2>1. k \in 1 .. L /\ i \in 1 .. L /\ i > n /\ k \in 0 .. L - n /\ u[k - 1] = v[k - 1]
    BY <1>1, <1>4
  <2>2. p[i] = q[i] /\ u[k] = BASE * u[k - 1] + p[i] /\ v[k] = BASE * v[k - 1] + q[i]
    BY <1>1, <1>2, <2>1
  <2>3. QED
    BY <2>1, <2>2
<1>5. 0 .. L - n \subseteq T
  <2> HIDE DEF T
  <2>1. QED
    BY <1>1, <1>3, <1>4, UpTo
<1>6. u[L - n] = v[L - n]
  BY <1>1, <1>5
<1>7. QED
  BY <1>6 DEF L, u, v

\* The most significant component in which two numbers differ decides.
LEMMA LessAt ==
    ASSUME NEW p \in Seq(Nat), NEW q \in Seq(Nat), Len(q) = Len(p), NEW n \in 1 .. Len(p),
           \A i \in 1 .. Len(p) : p[i] \in 0 .. BASE - 1 /\ (i > n => p[i] = q[i]),
           p[n] < q[n]
    PROVE  Value(p) < Value(q)
<1> DEFINE L == Len(p)
           u == Leading(p)
           v == Leading(q)
           c == [i \in 0 .. n - 1 |-> 0]
           a == u[L - n]
<1>1. /\ L \in Nat /\ n \in Nat /\ n \in 1 .. L /\ n \in 0 .. L /\ n - 1 \in 0 .. L /\ L - n \in 0 .. L
      /\ L - (n - 1) \in 1 .. L /\ L - (n - 1) - 1 = L - n /\ L + 1 - (L - (n - 1)) = n
      /\ p[n] \in Nat /\ q[n] \in Nat /\ \A i \in 1 .. L : q[i] \in Nat
  OBVIOUS
<1>2. u[L - n] = v[L - n]
  BY <1>1, SameAbove
<1>3. /\ u \in [0 .. L -> Nat]
      /\ u[L - (n - 1)] = BASE * u[L - n] + p[n] /\ v[L - (n - 1)] = BASE * v[L - n] + q[n]
  <2>1. \A k \in 1 .. L : u[k] = BASE * u[k - 1] + p[L + 1 - k] /\ v[k] = BASE * v[k - 1] + q[L + 1 - k]
    BY LeadingIs
  <2>2. u \in [0 .. L -> Nat]
    BY LeadingIs
  <2> HIDE DEF L, u, v
  <2>3. QED
    BY <1>1, <2>1, <2>2
<1>4. u[L - (n - 1)] < v[L - (n - 1)]
  <2> HIDE DEF u, v
  <2>1. a \in Nat
    BY <1>1, <1>3
  <2>2. u[L - (n - 1)] = BASE * a + p[n] /\ v[L - (n - 1)] = BASE * a + q[n]
    BY <1>2, <1>3
  <2> HIDE DEF a, L
  <2>3. BASE * a \in Nat
    BY <2>1, BaseIs
  <2> DEFINE b == BASE * a
  <2> HIDE DEF b
  <2>4. b + p[n] < b + q[n]
    BY <1>1, <2>3 DEF b
  <2>5. QED
    BY <2>2, <2>4 DEF b
<1>5. /\ c \in [0 .. n - 1 -> Nat] /\ c[0] = 0 /\ c[n - 1] = 0
      /\ \A i \in 1 .. n - 1 : c[i] = 0 /\ c[i - 1] = 0 /\ i \in 1 .. L
  BY <1>1
<1> HIDE DEF c
<1>6. \A i \in 1 .. n - 1 : p[i] + BASE * c[i] <= c[i - 1] + q[i] + (BASE - 1)
  <2>1. TAKE i \in 1 .. n - 1
  <2>2. p[i] \in 0 .. BASE - 1 /\ q[i] \in Nat /\ c[i] = 0 /\ c[i - 1] = 0
    BY <1>1, <1>5
  <2>3. BASE * 0 = 0
    BY BaseIs
  <2>4. QED
    BY <2>2, <2>3, BaseIs
<1>7. Leading(q)[Len(p) - (n - 1)] \in Nat
  <2>1. Leading(q) \in [0 .. Len(p) -> Nat]
    BY LeadingIs
  <2>2. Len(p) - (n - 1) \in 0 .. Len(p)
    BY <1>1
  <2>3. QED
    BY <2>1, <2>2
<1>8. Value(p) < Value(q) + c[0]
  <2>1. Leading(p)[Len(p) - (n - 1)] < Leading(q)[Len(p) - (n - 1)] + c[n - 1]
    BY <1>4, <1>5, <1>7
  <2> DEFINE k == n - 1
  <2>2. k \in 0 .. Len(p) /\ c \in [0 .. k -> Nat]
    BY <1>1, <1>5
  <2>3. (\A i \in 1 .. k : p[i] + BASE * c[i] <= c[i - 1] + q[i] + (BASE - 1)) /\ Leading(p)[Len(p) - k] < Leading(q)[Len(p) - k] + c[k]
    BY <1>6, <2>1
  <2> HIDE DEF k
  <2>4. QED
    BY <2>2, <2>3, Unbalanced
<1>9. QED
  BY <1>5, <1>8, ValueIs

\* compare finds the order, and no answer when there is none.
LEMMA CompareIsExact ==
    ASSUME NEW x \in LongInteger, NEW y \in LongInteger
    PROVE  /\ Value(x) < Value(y) => Compare(x, y) = "less"
           /\ Value(x) > Value(y) => Compare(x, y) = "more"
           /\ Value(x) = Value(y) => Compare(x, y) = "forever"
<1> DEFINE m == Larger(Len(x), Len(y))
           X == Padded(x, m)
           Y == Padded(y, m)
           differ == {i \in 1 .. m : Component(x, i) # Component(y, i)}
           top == CHOOSE i \in differ : \A j \in differ : j <= i
<1>1. Compare(x, y) = IF differ = {} THEN "forever" ELSE IF Component(x, top) < Component(y, top) THEN "less" ELSE "more"
  BY DEF Compare
<1>2. /\ Len(x) \in Nat /\ Len(y) \in Nat /\ m \in Nat /\ m >= Len(x) /\ m >= Len(y)
      /\ \A i : Component(x, i) \in 0 .. BASE - 1 /\ Component(y, i) \in 0 .. BASE - 1
  BY ComponentsAre DEF Larger
<1> HIDE DEF m
<1>3. /\ X \in Seq(Nat) /\ Len(X) = m /\ Y \in Seq(Nat) /\ Len(Y) = m
      /\ \A i \in 1 .. m : X[i] = Component(x, i) /\ Y[i] = Component(y, i)
      /\ Value(X) = Value(x) /\ Value(Y) = Value(y) /\ Value(x) \in Nat /\ Value(y) \in Nat
  <2>1. X \in Seq(Nat) /\ Len(X) = m /\ Value(X) = Value(x) /\ \A i \in 1 .. m : X[i] = Component(x, i)
    BY <1>2, PaddedIs
  <2>2. Y \in Seq(Nat) /\ Len(Y) = m /\ Value(Y) = Value(y) /\ \A i \in 1 .. m : Y[i] = Component(y, i)
    BY <1>2, PaddedIs
  <2>3. Value(x) \in Nat /\ Value(y) \in Nat
    BY ComponentsAre, ValueIs
  <2>4. QED
    BY <2>1, <2>2, <2>3
<1>4. CASE differ = {}
  <2>1. X = Y
    BY <1>4 DEF Padded
  <2>2. QED
    BY <1>1, <1>3, <1>4, <2>1
<1>5. CASE differ # {}
  <2> HIDE DEF X, Y
  <2>1. \E i \in differ : \A j \in differ : j <= i
    <3>1. differ \in SUBSET Int /\ m \in Int /\ \A i \in differ : i <= m
      BY <1>2
    <3> HIDE DEF differ
    <3>2. QED
      BY <1>5, <3>1, GreatestNumber
  <2>2. top \in differ /\ \A j \in differ : j <= top
    <3> HIDE DEF differ
    <3>1. QED
      BY <2>1
  <2> HIDE DEF top
  <2>3. top \in 1 .. m /\ Component(x, top) # Component(y, top)
    BY <2>2
  <2>4. \A i \in 1 .. m : i > top => Component(x, i) = Component(y, i)
    <3>1. TAKE i \in 1 .. m
    <3>2. i \in differ => i <= top
      BY <2>2
    <3>3. i \in Nat /\ top \in Nat
      BY <1>2, <2>3
    <3>4. QED
      BY <3>2, <3>3
  <2>5. \A i \in 1 .. m : /\ X[i] \in 0 .. BASE - 1 /\ Y[i] \in 0 .. BASE - 1
                         /\ (i > top => X[i] = Y[i]) /\ (i > top => Y[i] = X[i])
    BY <1>2, <1>3, <2>4
  <2>6. X[top] = Component(x, top) /\ Y[top] = Component(y, top)
    BY <1>3, <2>3
  <2>7. CASE Component(x, top) < Component(y, top)
    <3>1. Value(X) < Value(Y)
      BY <1>3, <2>3, <2>5, <2>6, <2>7, LessAt
    <3>2. QED
      BY <1>1, <1>3, <1>5, <2>7, <3>1
  <2>8. CASE ~(Component(x, top) < Component(y, top))
    <3>1. Component(y, top) < Component(x, top)
      BY <1>2, <2>3, <2>8, BaseIs
    <3>2. Value(Y) < Value(X)
      BY <1>3, <2>3, <2>5, <2>6, <3>1, LessAt
    <3>3. QED
      BY <1>1, <1>3, <1>5, <2>8, <3>2
  <2>9. QED
    BY <2>7, <2>8
<1>6. QED
  BY <1>4, <1>5

-----------------------------------------------------------------------------
(* The remainder, bit by bit *)

\* Half a quotient is the quotient by twice as much.
LEMMA Halved ==
    ASSUME NEW n \in Nat, NEW p \in Nat \ {0}
    PROVE  n \div p = 2 * (n \div (2 * p)) + ((n \div p) % 2) /\ n \div (2 * p) \in Nat /\ (n \div p) % 2 \in {0, 1}
<1> DEFINE a == n \div p
           r == n % p
           e == a \div 2
           f == a % 2
<1>1. a \in Nat /\ r \in 0 .. p - 1 /\ n = p * a + r
  BY Division
<1> HIDE DEF a, r
<1>2. e \in Nat /\ f \in 0 .. 1 /\ a = 2 * e + f
  BY <1>1
<1> HIDE DEF e, f
<1>3. n = (2 * p) * e + (p * f + r)
  <2>1. p * (2 * e + f) = (2 * p) * e + p * f
    BY <1>2
  <2> DEFINE g == (2 * p) * e
             h == p * f
             i == p * a
  <2>2. i = g + h /\ g \in Nat /\ h \in Nat /\ n = i + r
    BY <1>1, <1>2, <2>1
  <2> HIDE DEF g, h, i
  <2>3. n = g + (h + r)
    BY <1>1, <2>2
  <2>4. QED
    BY <2>3 DEF g, h
<1>4. p * f + r \in 0 .. (2 * p) - 1 /\ 2 * p \in Nat \ {0}
  <2>1. f = 0 \/ f = 1
    BY <1>2
  <2>2. p * 0 = 0 /\ p * 1 = p
    OBVIOUS
  <2>3. QED
    BY <1>1, <2>1, <2>2
<1>5. n \div (2 * p) = e
  <2> DEFINE q == 2 * p
             h == p * f + r
  <2>1. q \in Nat \ {0} /\ h \in 0 .. q - 1 /\ n = q * e + h
    BY <1>3, <1>4
  <2> HIDE DEF q, h
  <2>2. n \div q = e
    BY <1>2, <2>1, QuotientIs
  <2>3. QED
    BY <2>2 DEF q
<1>6. e \in Nat /\ f \in {0, 1} /\ a = 2 * (n \div (2 * p)) + f /\ n \div (2 * p) \in Nat
  <2>1. f \in {0, 1}
    BY <1>2
  <2>2. QED
    BY <1>2, <1>5, <2>1
<1>7. QED
  BY <1>6 DEF a, f

\* Where a bit is, and where the next one is.
LEMMA Positions ==
    ASSUME NEW size \in Nat \ {0}, NEW k \in Nat, k < size * COMPONENT_BITS
    PROVE  /\ k \div COMPONENT_BITS \in 0 .. size - 1 /\ k % COMPONENT_BITS \in 0 .. COMPONENT_BITS - 1
           /\ k % COMPONENT_BITS < COMPONENT_BITS - 1 =>
                  /\ (k + 1) \div COMPONENT_BITS = k \div COMPONENT_BITS
                  /\ (k + 1) % COMPONENT_BITS = (k % COMPONENT_BITS) + 1
                  /\ k + 1 # size * COMPONENT_BITS
           /\ k % COMPONENT_BITS = COMPONENT_BITS - 1 =>
                  /\ (k + 1) \div COMPONENT_BITS = (k \div COMPONENT_BITS) + 1
                  /\ (k + 1) % COMPONENT_BITS = 0
                  /\ k + 1 = size * COMPONENT_BITS <=> (k \div COMPONENT_BITS) + 1 = size
<1> DEFINE B == COMPONENT_BITS
           j == k \div B
           b == k % B
<1>0. B \in Nat \ {0} /\ size * B = B * size
  BY ComponentAssumption
<1> HIDE DEF B
<1>1. j \in Nat /\ j < size /\ b \in 0 .. B - 1 /\ k = B * j + b
  <2>1. k < B * size
    BY <1>0 DEF B
  <2>2. QED
    BY <1>0, <2>1, Division, DivisionBelow
<1> HIDE DEF j, b
<1>2. B * j \in Nat /\ B * (j + 1) = B * j + B /\ B * (j + 1) <= B * size
  <2>1. j + 1 <= size /\ j + 1 \in Nat
    BY <1>1
  <2>2. QED
    BY <1>0, <1>1, <2>1
<1>3. CASE b < B - 1
  <2>1. k + 1 = B * j + (b + 1) /\ b + 1 \in 0 .. B - 1 /\ k + 1 < B * size
    <3> DEFINE e == B * j
               f == B * (j + 1)
               g == B * size
    <3>1. k = e + b /\ e \in Nat /\ f = e + B /\ f <= g /\ g \in Nat
      BY <1>0, <1>1, <1>2
    <3> HIDE DEF e, f, g
    <3>2. k + 1 = e + (b + 1) /\ b + 1 \in 0 .. B - 1 /\ k + 1 < g
      BY <1>0, <1>1, <1>3, <3>1
    <3>3. QED
      BY <3>2 DEF e, g
  <2>2. (k + 1) \div B = j /\ (k + 1) % B = b + 1
    <3> DEFINE a == k + 1
               r == b + 1
    <3>1. a = B * j + r /\ r \in 0 .. B - 1
      BY <2>1
    <3> HIDE DEF a, r
    <3>2. a \div B = j /\ a % B = r
      BY <1>0, <1>1, <3>1, QuotientIs
    <3>3. QED
      BY <3>2 DEF a, r
  <2>3. k + 1 # size * B
    BY <1>0, <2>1
  <2>4. QED
    BY <1>1, <1>3, <2>2, <2>3 DEF B, b, j
<1>4. CASE b = B - 1
  <2>1. k + 1 = B * (j + 1) + 0 /\ 0 \in 0 .. B - 1 /\ j + 1 \in Nat
    <3> DEFINE e == B * j
               f == B * (j + 1)
    <3>1. k = e + b /\ e \in Nat /\ f = e + B
      BY <1>1, <1>2
    <3> HIDE DEF e, f
    <3>2. k + 1 = f + 0 /\ 0 \in 0 .. B - 1 /\ j + 1 \in Nat
      BY <1>0, <1>1, <1>4, <3>1
    <3>3. QED
      BY <3>2 DEF f
  <2>2. (k + 1) \div B = j + 1 /\ (k + 1) % B = 0
    <3> DEFINE i == j + 1
               a == k + 1
    <3>1. i \in Nat /\ a = B * i + 0
      BY <2>1
    <3> HIDE DEF a, i
    <3>2. a \div B = i /\ a % B = 0
      BY <1>0, <2>1, <3>1, QuotientIs
    <3>3. QED
      BY <3>2 DEF a, i
  <2>3. k + 1 = size * B <=> j + 1 = size
    <3>1. (k + 1 = size * B) => (k + 1) \div B = size
      <4>1. SUFFICES ASSUME k + 1 = size * B PROVE (k + 1) \div B = size
        OBVIOUS
      <4>2. k + 1 = B * size + 0
        BY <1>0, <4>1
      <4>3. QED
        BY <1>0, <2>1, <4>2, QuotientIs
    <3>2. j + 1 = size => k + 1 = size * B
      BY <1>0, <2>1
    <3>3. QED
      BY <2>2, <3>1, <3>2
  <2>4. QED
    BY <1>1, <1>4, <2>2, <2>3 DEF B, b, j
<1>5. QED
  BY <1>1, <1>3, <1>4 DEF B, b, j

\* The bit that turn k + 1 reads, and the number that it and the more significant bits make.
BitAt(x, k) == Bit(x[k \div COMPONENT_BITS + 1], k % COMPONENT_BITS)

Unread(x, k) ==
    IF k = Len(x) * COMPONENT_BITS THEN 0
    ELSE Leading(x)[Len(x) - (k \div COMPONENT_BITS) - 1] * PowerOfTwo[COMPONENT_BITS - (k % COMPONENT_BITS)]
         + (x[(k \div COMPONENT_BITS) + 1] \div PowerOfTwo[k % COMPONENT_BITS])

LEMMA UnreadIs ==
    ASSUME NEW x \in LongInteger, NEW k \in Nat, k < Len(x) * COMPONENT_BITS
    PROVE  /\ Unread(x, k) \in Nat /\ Unread(x, k + 1) \in Nat /\ BitAt(x, k) \in {0, 1}
           /\ Unread(x, k) = 2 * Unread(x, k + 1) + BitAt(x, k)
<1> DEFINE L == Len(x)
           B == COMPONENT_BITS
           j == k \div B
           b == k % B
           n == x[j + 1]
           p == PowerOfTwo[b]
           a == Leading(x)[L - j - 1]
           w == PowerOfTwo[B - b]
<1>0. B \in Nat \ {0} /\ L \in Nat \ {0} /\ x \in Seq(Nat) /\ \A i \in 1 .. L : x[i] \in 0 .. BASE - 1 /\ x[i] \in Nat
  BY ComponentsAre, ComponentAssumption
<1>1. /\ j \in 0 .. L - 1 /\ b \in 0 .. B - 1
      /\ b < B - 1 => (k + 1) \div B = j /\ (k + 1) % B = b + 1 /\ k + 1 # L * B
      /\ b = B - 1 => (k + 1) \div B = j + 1 /\ (k + 1) % B = 0 /\ (k + 1 = L * B <=> j + 1 = L)
  BY <1>0, Positions
<1>2. Unread(x, k) = a * w + (n \div p)
  <2>1. k # L * B
    <3> DEFINE e == L * B
    <3>1. k < e
      OBVIOUS
    <3>2. e \in Nat
      BY <1>0
    <3> HIDE DEF e
    <3>3. k # e
      BY <3>1, <3>2
    <3>4. QED
      BY <3>3 DEF e
  <2>2. QED
    BY <2>1 DEF Unread
<1>3. BitAt(x, k) = (n \div p) % 2
  BY DEF BitAt, Bit
<1>4. Unread(x, k + 1) = IF k + 1 = L * B THEN 0
                         ELSE Leading(x)[L - ((k + 1) \div B) - 1] * PowerOfTwo[B - ((k + 1) % B)]
                              + (x[((k + 1) \div B) + 1] \div PowerOfTwo[(k + 1) % B])
  BY DEF Unread
<1> HIDE DEF L, B, j, b
<1>5. n \in 0 .. BASE - 1 /\ n \in Nat /\ j + 1 \in 1 .. L /\ L - j - 1 \in 0 .. L
  <2>1. j + 1 \in 1 .. L /\ L - j - 1 \in 0 .. L
    BY <1>0, <1>1
  <2>2. QED
    BY <1>0, <2>1
<1>6. \A i \in 0 .. B : PowerOfTwo[i] \in Nat \ {0}
  BY PowerIs DEF B
<1>7. b \in 0 .. B /\ B - b \in 0 .. B /\ B - b \in 1 .. B /\ (B - b) - 1 = B - (b + 1) /\ B \in 0 .. B /\ 0 \in 0 .. B
  BY <1>0, <1>1
<1>8. p \in Nat \ {0} /\ w \in Nat \ {0} /\ w = 2 * PowerOfTwo[B - (b + 1)]
  <2>1. w = 2 * PowerOfTwo[(B - b) - 1]
    BY <1>7, PowerIs DEF B
  <2>2. QED
    BY <1>6, <1>7, <2>1
<1>9. a \in Nat
  <2>1. Leading(x) \in [0 .. L -> Nat]
    BY <1>0, LeadingIs DEF L
  <2>2. QED
    BY <1>5, <2>1
<1> HIDE DEF a, w, p, n
<1>10. n \div p = 2 * (n \div (2 * p)) + ((n \div p) % 2) /\ n \div (2 * p) \in Nat /\ (n \div p) % 2 \in {0, 1}
  BY <1>5, <1>8, Halved
<1>11. CASE b < B - 1
  <2> DEFINE v == PowerOfTwo[B - (b + 1)]
  <2>1. b + 1 \in 1 .. B /\ (b + 1) - 1 = b /\ b + 1 \in 0 .. B /\ B - (b + 1) \in 0 .. B
    BY <1>0, <1>1, <1>11
  <2>2. PowerOfTwo[b + 1] = 2 * p
    BY <2>1, PowerIs DEF B, p
  <2>3. v \in Nat
    BY <1>6, <2>1
  <2>4. Unread(x, k + 1) = a * v + (n \div (2 * p))
    <3>1. Unread(x, k + 1) = Leading(x)[L - j - 1] * PowerOfTwo[B - (b + 1)] + (x[j + 1] \div PowerOfTwo[b + 1])
      BY <1>1, <1>4, <1>11
    <3>2. QED
      BY <2>2, <3>1 DEF a, n
  <2>5. w = 2 * v
    BY <1>8
  <2> HIDE DEF v
  <2>6. a * w = 2 * (a * v) /\ a * v \in Nat
    BY <1>9, <2>3, <2>5
  <2> DEFINE c == n \div (2 * p)
             d == n \div p
             f == d % 2
             g == a * v
             h == a * w
  <2>7. /\ Unread(x, k + 1) = g + c /\ Unread(x, k) = h + d /\ h = 2 * g /\ d = 2 * c + f /\ g \in Nat /\ c \in Nat
        /\ f \in {0, 1} /\ BitAt(x, k) = f
    BY <1>2, <1>3, <1>10, <2>4, <2>6
  <2> HIDE DEF c, d, f, g, h
  <2>8. QED
    BY <2>7
<1>12. CASE b = B - 1
  <2>1. B - (b + 1) = 0 /\ w = 2
    BY <1>0, <1>8, <1>12, PowerIs
  <2>2. n \div p < 2
    <3>1. BASE = p * 2
      <4>1. BASE = 2 * PowerOfTwo[B - 1] /\ PowerOfTwo[B - 1] = p
        BY <1>0, <1>7, <1>12, PowerIs DEF BASE, B, p
      <4>2. QED
        BY <1>8, <4>1
    <3>2. n < p * 2
      BY <1>5, <3>1, BaseIs
    <3> DEFINE c == 2
    <3>3. n \in Nat /\ p \in Nat \ {0} /\ c \in Nat \ {0} /\ n < p * c
      BY <1>5, <1>8, <3>2
    <3> HIDE DEF c, p
    <3>4. n \div p < c
      BY <3>3, DivisionBelow
    <3>5. QED
      BY <3>4 DEF c
  <2>3. n \div p = (n \div p) % 2 /\ n \div p \in Nat
    <3> DEFINE d == n \div p
    <3>1. d \in Nat /\ d < 2
      BY <1>5, <1>8, <2>2, Division
    <3> HIDE DEF d
    <3>2. d = d % 2
      BY <3>1
    <3>3. QED
      BY <3>1, <3>2 DEF d
  <2>4. Unread(x, k + 1) = a
    <3>1. CASE j + 1 = L
      <4>1. Unread(x, k + 1) = 0 /\ L - j - 1 = 0
        BY <1>0, <1>1, <1>4, <1>12, <3>1
      <4>2. a = 0
        BY <1>0, <4>1, LeadingIs DEF a
      <4>3. QED
        BY <4>1, <4>2
    <3>2. CASE j + 1 # L
      <4>1. Unread(x, k + 1) = Leading(x)[L - (j + 1) - 1] * PowerOfTwo[B - 0] + (x[(j + 1) + 1] \div PowerOfTwo[0])
        BY <1>1, <1>4, <1>12, <3>2
      <4> DEFINE i == L - j - 1
                 o == x[(j + 1) + 1]
                 u == Leading(x)[i - 1]
      <4>2. /\ i \in 1 .. L /\ L - (j + 1) - 1 = i - 1 /\ L + 1 - i = (j + 1) + 1 /\ i - 1 \in 0 .. L
            /\ (j + 1) + 1 \in 1 .. L /\ B - 0 = B
        BY <1>0, <1>1, <3>2
      <4>3. a = BASE * u + o
        <5>1. \A m \in 1 .. L : Leading(x)[m] = BASE * Leading(x)[m - 1] + x[L + 1 - m]
          BY <1>0, LeadingIs DEF L
        <5>2. Leading(x)[i] = BASE * Leading(x)[i - 1] + x[L + 1 - i]
          BY <4>2, <5>1
        <5>3. QED
          BY <4>2, <5>2 DEF a
      <4>4. PowerOfTwo[0] = 1 /\ PowerOfTwo[B] = BASE
        BY PowerIs DEF BASE, B
      <4>5. Unread(x, k + 1) = u * BASE + (o \div 1)
        BY <4>1, <4>2, <4>4
      <4>6. u \in Nat /\ o \in Nat
        <5>1. Leading(x) \in [0 .. L -> Nat]
          BY <1>0, LeadingIs DEF L
        <5>2. QED
          BY <1>0, <4>2, <5>1
      <4> HIDE DEF i, o, u
      <4>7. o \div 1 = o
        BY <4>6
      <4>8. u * BASE = BASE * u
        BY <4>6, BaseIs
      <4>9. QED
        BY <4>3, <4>5, <4>7, <4>8
    <3>3. QED
      BY <3>1, <3>2
  <2>5. a * w = 2 * a
    BY <1>9, <2>1
  <2> DEFINE d == n \div p
             h == a * w
             f == d % 2
  <2>6. Unread(x, k) = h + d /\ d = f /\ h = 2 * a /\ BitAt(x, k) = f /\ f \in {0, 1}
    BY <1>2, <1>3, <1>10, <2>3, <2>5
  <2> HIDE DEF d, h, f
  <2>7. QED
    BY <1>9, <2>4, <2>6
<1>13. QED
  BY <1>0, <1>1, <1>11, <1>12

\* One turn of Modulo: what is lost are multiples of the divisor.
LEMMA ReducedIs ==
    ASSUME NEW d \in Nat \ {0}, NEW n \in Nat, n <= 2 * d
    PROVE  /\ Reduced(n, d) \in 0 .. d /\ (n < 2 * d => Reduced(n, d) \in 0 .. d - 1)
           /\ \E t \in Nat : n = Reduced(n, d) + d * t
<1>1. Reduced(n, d) \in 0 .. d /\ (n < 2 * d => Reduced(n, d) \in 0 .. d - 1)
  BY DEF Reduced
<1>2. \E t \in Nat : n = Reduced(n, d) + d * t
  <2>1. CASE n >= d
    <3>1. n = Reduced(n, d) + d * 1
      BY <2>1 DEF Reduced
    <3>2. QED
      BY <3>1
  <2>2. CASE ~(n >= d)
    <3>1. n = Reduced(n, d) + d * 0
      BY <2>2 DEF Reduced
    <3>2. QED
      BY <3>1
  <2>3. QED
    BY <2>1, <2>2
<1>3. QED
  BY <1>1, <1>2

Turns(d, p, r, b, p2, r2) == p2 = Reduced(2 * p, d) /\ r2 = IF b = 0 THEN r ELSE Reduced(r + p, d)

Exceeds(d, a, b) == \E w \in Nat : a = d * w + b

LEMMA TurnReduces ==
    ASSUME NEW d \in Nat \ {0}, NEW p \in 0 .. d, NEW r \in 0 .. d - 1, NEW n \in Nat, NEW b \in {0, 1},
           NEW p2, NEW r2, Turns(d, p, r, b, p2, r2)
    PROVE  Exceeds(d, r + p * (2 * n + b), r2 + p2 * n)
<1>0. p2 = Reduced(2 * p, d) /\ r2 = IF b = 0 THEN r ELSE Reduced(r + p, d)
  BY DEF Turns
<1>1. 2 * p \in Nat /\ 2 * p <= 2 * d
  OBVIOUS
<1>2. p2 \in 0 .. d /\ \E t \in Nat : 2 * p = p2 + d * t
  <2> DEFINE m == 2 * p
  <2>1. m \in Nat /\ m <= 2 * d
    BY <1>1
  <2> HIDE DEF m
  <2>2. Reduced(m, d) \in 0 .. d /\ \E t \in Nat : m = Reduced(m, d) + d * t
    BY <2>1, ReducedIs
  <2>3. QED
    BY <1>0, <2>2 DEF m
<1>3. r2 \in 0 .. d - 1 /\ \E t \in Nat : r + p * b = r2 + d * t
  <2>1. CASE b = 0
    <3>1. r + p * b = r2 + d * 0 /\ r2 = r
      BY <1>0, <2>1
    <3>2. QED
      BY <3>1
  <2>2. CASE b = 1
    <3> DEFINE m == r + p
    <3>1. m \in Nat /\ m < 2 * d /\ m <= 2 * d /\ r + p * b = m /\ r2 = Reduced(m, d)
      BY <1>0, <2>2
    <3> HIDE DEF m
    <3>2. Reduced(m, d) \in 0 .. d - 1 /\ \E t \in Nat : m = Reduced(m, d) + d * t
      BY <3>1, ReducedIs
    <3>3. QED
      BY <3>1, <3>2
  <2>3. QED
    BY <2>1, <2>2
<1>4. PICK o \in Nat : 2 * p = p2 + d * o
  BY <1>2
<1>5. PICK t \in Nat : r + p * b = r2 + d * t
  BY <1>3
<1>6. p * (2 * n + b) = (2 * p) * n + p * b
  <2>1. p \in Nat /\ b \in Nat
    OBVIOUS
  <2>2. QED
    BY <2>1
<1>7. (p2 + d * o) * n = p2 * n + d * (o * n) /\ o * n \in Nat /\ p2 * n \in Nat /\ d * (o * n) \in Nat /\ d * t \in Nat
  <2>1. p2 \in Nat
    BY <1>2
  <2>2. QED
    BY <2>1
<1>8. d * (t + o * n) = d * t + d * (o * n) /\ t + o * n \in Nat
  BY <1>7
<1>9. r + p * (2 * n + b) = d * (t + o * n) + (r2 + p2 * n)
  <2> DEFINE pb == p * b
             dt == d * t
             dsn == d * (o * n)
             pn == p2 * n
             ppn == (2 * p) * n
             total == p * (2 * n + b)
             sum == d * (t + o * n)
  <2>1. total = ppn + pb /\ sum = dt + dsn /\ ppn = pn + dsn /\ r + pb = r2 + dt
    BY <1>4, <1>5, <1>6, <1>7, <1>8
  <2>2. pb \in Nat /\ dt \in Nat /\ dsn \in Nat /\ pn \in Nat /\ r \in Nat /\ r2 \in Nat
    BY <1>3, <1>7
  <2> HIDE DEF pb, dt, dsn, pn, ppn, total, sum
  <2>3. r + total = sum + (r2 + pn)
    BY <2>1, <2>2
  <2>4. QED
    BY <2>3 DEF total, sum, pn
<1>10. QED
  BY <1>8, <1>9 DEF Exceeds

\* What Modulo computes in its turns.
Remainders(x, d, r) ==
    /\ r = [k \in 0 .. Len(x) * COMPONENT_BITS |->
                IF k = 0 THEN [power |-> 1, result |-> 0]
                ELSE [power  |-> Reduced(2 * r[k - 1].power, d),
                      result |-> IF BitAt(x, k - 1) = 0 THEN r[k - 1].result
                                 ELSE Reduced(r[k - 1].result + r[k - 1].power, d)]]
    /\ Modulo(x, d) = r[Len(x) * COMPONENT_BITS].result

Residues(d) == [power : 0 .. d, result : 0 .. d - 1]

LEMMA RemaindersAre ==
    ASSUME NEW x \in LongInteger, NEW d \in Nat \ {0}
    PROVE  \E r \in [0 .. Len(x) * COMPONENT_BITS -> Residues(d)] : Remainders(x, d, r)
<1> DEFINE turns == Len(x) * COMPONENT_BITS
           S == Residues(d)
           Turn(k, a) == [power  |-> Reduced(2 * a.power, d),
                          result |-> IF BitAt(x, k - 1) = 0 THEN a.result ELSE Reduced(a.result + a.power, d)]
           F == [p \in (1 .. turns) \X S |-> Turn(p[1], p[2])]
           first == [power |-> 1, result |-> 0]
           G(g) == [k \in 0 .. turns |->
                        IF k = 0 THEN [power |-> 1, result |-> 0]
                        ELSE [power  |-> Reduced(2 * g[k - 1].power, d),
                              result |-> IF BitAt(x, k - 1) = 0 THEN g[k - 1].result
                                         ELSE Reduced(g[k - 1].result + g[k - 1].power, d)]]
<1>0. turns \in Nat
  <2>1. Len(x) \in Nat /\ COMPONENT_BITS \in Nat
    BY ComponentsAre, ComponentAssumption
  <2>2. QED
    BY <2>1
<1> HIDE DEF turns
<1>1. \A k \in 1 .. turns, a \in S : Turn(k, a) \in S
  <2>1. TAKE k \in 1 .. turns, a \in S
  <2> DEFINE p == a.power
             r == a.result
             p2 == Reduced(2 * p, d)
             r2 == Reduced(r + p, d)
  <2>2. p \in 0 .. d /\ r \in 0 .. d - 1
    BY DEF Residues
  <2> HIDE DEF p, r
  <2>3. p2 \in 0 .. d /\ r2 \in 0 .. d - 1
    BY <2>2 DEF Reduced
  <2> HIDE DEF p2, r2
  <2>4. QED
    BY <2>2, <2>3 DEF Residues, p, r, p2, r2
<1>2. F \in [(1 .. turns) \X S -> S] /\ first \in S /\ \A k \in 1 .. turns, a \in S : F[<<k, a>>] = Turn(k, a)
  <2>1. first \in S
    BY DEF Residues
  <2> HIDE DEF Turn, first, S
  <2>2. QED
    BY <1>1, <2>1
<1>3. PICK f \in [0 .. turns -> S] : Folds(f, first, F, turns)
  <2> HIDE DEF F, S, first
  <2>1. QED
    BY <1>0, <1>2, Folded
<1>4. f[0] = first /\ \A k \in 1 .. turns : f[k] = F[<<k, f[k - 1]>>]
  BY <1>3 DEF Folds
<1> HIDE DEF F, S
<1>5. f = G(f)
  <2> HIDE DEF Turn, first
  <2>1. \A k \in 0 .. turns : k = 0 \/ (k # 0 /\ k \in 1 .. turns)
    BY <1>0
  <2>2. \A k \in 1 .. turns : k - 1 \in 0 .. turns
    BY <1>0
  <2>3. \A k \in 1 .. turns : f[k] = Turn(k, f[k - 1])
    BY <1>2, <1>3, <1>4, <2>2
  <2> DEFINE w(k) == IF k = 0 THEN first ELSE Turn(k, f[k - 1])
  <2>4. \A k \in 0 .. turns : f[k] = w(k)
    BY <1>4, <2>1, <2>3
  <2> HIDE DEF w
  <2>5. f = [k \in 0 .. turns |-> w(k)]
    BY <1>3, <2>4
  <2>6. QED
    BY <2>5 DEF w, Turn, first
<1> DEFINE c == CHOOSE g : g = G(g)
<1>6. c = G(c)
  <2> HIDE DEF G
  <2>1. QED
    BY <1>5
<1>7. Modulo(x, d) = c[turns].result
  BY DEF Modulo, BitAt, turns
<1> HIDE DEF c, Turn
<1>8. c[0] = first /\ \A k \in 1 .. turns : c[k] = Turn(k, c[k - 1])
  <2>1. 0 \in 0 .. turns /\ \A k \in 1 .. turns : k \in 0 .. turns /\ k # 0
    BY <1>0
  <2>2. QED
    BY <1>6, <2>1 DEF Turn
<1> DEFINE T == {k \in 0 .. turns : c[k] \in S}
<1>9. 0 .. turns \subseteq T
  <2> HIDE DEF first
  <2>1. 0 \in T
    BY <1>0, <1>2, <1>8
  <2>2. ASSUME NEW k \in 1 .. turns, k - 1 \in T PROVE k \in T
    <3>1. c[k - 1] \in S /\ k \in 0 .. turns
      BY <1>0, <2>2
    <3>2. c[k] \in S
      BY <1>1, <1>8, <3>1
    <3>3. QED
      BY <3>1, <3>2
  <2> HIDE DEF T
  <2>3. QED
    BY <1>0, <2>1, <2>2, UpTo
<1>10. c \in [0 .. turns -> S]
  BY <1>6, <1>9
<1>11. Remainders(x, d, c)
  BY <1>6, <1>7 DEF Remainders, turns
<1>12. QED
  BY <1>10, <1>11 DEF S, turns

\* The bits that were read, weighed with their powers, make the remainder.
LEMMA ModuloIsExact ==
    ASSUME NEW x \in LongInteger, NEW d \in Nat \ {0}
    PROVE  Modulo(x, d) = Value(x) % d
<1> DEFINE turns == Len(x) * COMPONENT_BITS
<1>0. turns \in Nat /\ Len(x) \in Nat \ {0} /\ COMPONENT_BITS \in Nat \ {0} /\ x \in Seq(Nat) /\ turns # 0
  <2>1. Len(x) \in Nat \ {0} /\ COMPONENT_BITS \in Nat \ {0} /\ x \in Seq(Nat)
    BY ComponentsAre, ComponentAssumption
  <2>2. QED
    BY <2>1
<1>1. PICK r \in [0 .. turns -> Residues(d)] : Remainders(x, d, r)
  BY RemaindersAre
<1> DEFINE Power(k) == r[k].power
           Result(k) == r[k].result
<1>2. /\ Power(0) = 1 /\ Result(0) = 0 /\ Modulo(x, d) = Result(turns)
      /\ \A k \in 0 .. turns : Power(k) \in 0 .. d /\ Result(k) \in 0 .. d - 1
      /\ \A k \in 1 .. turns : /\ Power(k) = Reduced(2 * Power(k - 1), d)
                               /\ Result(k) = IF BitAt(x, k - 1) = 0 THEN Result(k - 1) ELSE Reduced(Result(k - 1) + Power(k - 1), d)
  <2> HIDE DEF turns
  <2>1. \A k \in 0 .. turns : Power(k) \in 0 .. d /\ Result(k) \in 0 .. d - 1
    BY DEF Residues
  <2>2. r = [k \in 0 .. turns |->
                IF k = 0 THEN [power |-> 1, result |-> 0]
                ELSE [power  |-> Reduced(2 * Power(k - 1), d),
                      result |-> IF BitAt(x, k - 1) = 0 THEN Result(k - 1) ELSE Reduced(Result(k - 1) + Power(k - 1), d)]]
    BY <1>1 DEF Remainders, turns
  <2>3. 0 \in 0 .. turns /\ \A k \in 1 .. turns : k \in 0 .. turns /\ k # 0
    BY <1>0
  <2>4. r[0] = [power |-> 1, result |-> 0]
    BY <2>2, <2>3
  <2>5. \A k \in 1 .. turns :
            r[k] = [power  |-> Reduced(2 * Power(k - 1), d),
                    result |-> IF BitAt(x, k - 1) = 0 THEN Result(k - 1) ELSE Reduced(Result(k - 1) + Power(k - 1), d)]
    BY <2>2, <2>3
  <2>6. Modulo(x, d) = Result(turns)
    BY <1>1 DEF Remainders, turns
  <2>7. Power(0) = 1 /\ Result(0) = 0
    BY <2>4
  <2>8. \A k \in 1 .. turns : /\ Power(k) = Reduced(2 * Power(k - 1), d)
                             /\ Result(k) = IF BitAt(x, k - 1) = 0 THEN Result(k - 1) ELSE Reduced(Result(k - 1) + Power(k - 1), d)
    <3>1. TAKE k \in 1 .. turns
    <3> DEFINE p == Reduced(2 * Power(k - 1), d)
               m == IF BitAt(x, k - 1) = 0 THEN Result(k - 1) ELSE Reduced(Result(k - 1) + Power(k - 1), d)
    <3>2. r[k] = [power |-> p, result |-> m]
      BY <2>5
    <3> HIDE DEF p, m
    <3>3. Power(k) = p /\ Result(k) = m
      BY <3>2
    <3>4. QED
      BY <3>3 DEF p, m
  <2> HIDE DEF Power, Result
  <2>9. QED
    BY <2>1, <2>6, <2>7, <2>8
<1> HIDE DEF Power, Result
<1> DEFINE v == Value(x)
           Left(k, u) == d * u + (Result(k) + Power(k) * Unread(x, k))
           T == {k \in 0 .. turns : \E u \in Nat : v = Left(k, u)}
<1>3. Unread(x, 0) = v /\ v \in Nat
  <2>1. /\ 0 \div COMPONENT_BITS = 0 /\ 0 % COMPONENT_BITS = 0 /\ COMPONENT_BITS - 0 = COMPONENT_BITS
        /\ Len(x) - 0 - 1 = Len(x) - 1 /\ Len(x) \in 1 .. Len(x) /\ Len(x) - 1 \in 0 .. Len(x)
        /\ Len(x) + 1 - Len(x) = 1 /\ 1 \in 1 .. Len(x) /\ 0 + 1 = 1
    BY <1>0
  <2> DEFINE a == Leading(x)[Len(x) - 1]
             b == x[1]
  <2>2. Unread(x, 0) = a * BASE + (b \div 1)
    <3>1. Unread(x, 0) = Leading(x)[Len(x) - (0 \div COMPONENT_BITS) - 1] * PowerOfTwo[COMPONENT_BITS - (0 % COMPONENT_BITS)]
              + (x[(0 \div COMPONENT_BITS) + 1] \div PowerOfTwo[0 % COMPONENT_BITS])
      BY <1>0 DEF Unread
    <3>2. PowerOfTwo[0] = 1 /\ PowerOfTwo[COMPONENT_BITS] = BASE
      BY PowerIs DEF BASE
    <3>3. QED
      BY <2>1, <3>1, <3>2
  <2>3. v = BASE * a + b /\ a \in Nat /\ b \in Nat
    <3>1. Leading(x) \in [0 .. Len(x) -> Nat]
      BY <1>0, LeadingIs
    <3>2. Leading(x)[Len(x)] = BASE * a + x[Len(x) + 1 - Len(x)]
      BY <1>0, <2>1, LeadingIs
    <3>3. b \in Nat
      BY <1>0, <2>1
    <3>4. QED
      BY <2>1, <3>1, <3>2, <3>3 DEF Value
  <2> HIDE DEF a, b
  <2>4. b \div 1 = b /\ a * BASE = BASE * a
    BY <2>3, BaseIs
  <2>5. v \in Nat
    BY <1>0, ValueIs
  <2>6. QED
    BY <2>2, <2>3, <2>4, <2>5
<1> HIDE DEF v
<1>4. 0 \in T
  <2>1. d * 0 = 0 /\ 1 * v = v
    BY <1>3
  <2>2. Left(0, 0) = v
    BY <1>2, <1>3, <2>1
  <2>3. QED
    BY <1>0, <2>2
<1> HIDE DEF turns
<1>5. ASSUME NEW k \in 1 .. turns, k - 1 \in T PROVE k \in T
  <2>0. k - 1 \in Nat /\ k - 1 < Len(x) * COMPONENT_BITS /\ (k - 1) + 1 = k /\ k - 1 \in 0 .. turns /\ k \in 0 .. turns
    BY <1>0 DEF turns
  <2> DEFINE i == k - 1
             p == Power(i)
             m == Result(i)
             p2 == Power(k)
             m2 == Result(k)
             n == Unread(x, k)
             b == BitAt(x, i)
  <2>1. Unread(x, i) = 2 * n + b /\ n \in Nat /\ b \in {0, 1}
    <3> HIDE DEF i
    <3>1. i \in Nat /\ i < Len(x) * COMPONENT_BITS /\ i + 1 = k
      BY <2>0 DEF i
    <3>2. Unread(x, i) = 2 * Unread(x, i + 1) + BitAt(x, i) /\ Unread(x, i + 1) \in Nat /\ BitAt(x, i) \in {0, 1}
      BY <3>1, UnreadIs
    <3>3. QED
      BY <3>1, <3>2
  <2>2. p \in 0 .. d /\ m \in 0 .. d - 1 /\ p2 \in 0 .. d /\ m2 \in 0 .. d - 1 /\ p2 = Reduced(2 * p, d) /\ m2 = IF b = 0 THEN m ELSE Reduced(m + p, d)
    BY <1>2, <2>0
  <2>3. PICK u \in Nat : v = d * u + (m + p * (2 * n + b))
    BY <1>5, <2>1
  <2> HIDE DEF i, p, m, p2, m2, n, b
  <2>4. PICK w \in Nat : m + p * (2 * n + b) = d * w + (m2 + p2 * n)
    <3>1. n \in Nat /\ b \in {0, 1} /\ p \in 0 .. d /\ m \in 0 .. d - 1
      BY <2>1, <2>2
    <3>2. Turns(d, p, m, b, p2, m2)
      BY <2>2 DEF Turns
    <3>3. Exceeds(d, m + p * (2 * n + b), m2 + p2 * n)
      BY <3>1, <3>2, TurnReduces
    <3>4. QED
      BY <3>3 DEF Exceeds
  <2>5. v = d * (u + w) + (m2 + p2 * n)
    <3> DEFINE du == d * u
               dw == d * w
               e == m2 + p2 * n
    <3>1. d * (u + w) = du + dw /\ du \in Nat /\ dw \in Nat
      OBVIOUS
    <3>2. p2 \in Nat /\ m2 \in Nat
      BY <2>2
    <3>3. e \in Nat
      BY <2>1, <3>2
    <3>4. v = du + (dw + e)
      BY <2>3, <2>4
    <3> HIDE DEF du, dw, e
    <3>5. v = (du + dw) + e
      BY <3>1, <3>3, <3>4
    <3>6. QED
      BY <3>1, <3>5 DEF e
  <2>6. u + w \in Nat /\ v = Left(k, u + w)
    BY <2>5 DEF m2, p2, n
  <2>7. QED
    BY <2>0, <2>6
<1>6. 0 .. turns \subseteq T
  <2> HIDE DEF T
  <2>1. QED
    BY <1>0, <1>4, <1>5, UpTo
<1>7. turns \in T
  <2>1. turns \in 0 .. turns
    BY <1>0
  <2> HIDE DEF T
  <2>2. QED
    BY <1>6, <2>1
<1>8. PICK u \in Nat : v = Left(turns, u)
  BY <1>7
<1>9. v = d * u + Result(turns)
  <2>1. Unread(x, turns) = 0
    BY DEF Unread, turns
  <2>2. Result(turns) \in Nat /\ Power(turns) \in Nat
    BY <1>0, <1>2
  <2> DEFINE p == Power(turns)
             m == Result(turns)
  <2>3. v = d * u + (m + p * 0)
    BY <1>8, <2>1
  <2>4. p \in Nat /\ m \in Nat
    BY <2>2
  <2> HIDE DEF p, m
  <2>5. v = d * u + m
    BY <2>3, <2>4
  <2>6. QED
    BY <2>5 DEF m
<1>10. v % d = Result(turns)
  <2> DEFINE m == Result(turns)
  <2>1. m \in 0 .. d - 1 /\ v = d * u + m
    BY <1>0, <1>2, <1>9
  <2> HIDE DEF m
  <2>2. v % d = m
    BY <2>1, QuotientIs
  <2>3. QED
    BY <2>2 DEF m
<1>11. QED
  BY <1>2, <1>10 DEF v

-----------------------------------------------------------------------------
(* Digits *)

\* A string's value, digit by digit.
Spells(str, v) ==
    /\ v \in [0 .. Len(str) -> Nat] /\ v[0] = 0 /\ \A n \in 1 .. Len(str) : v[n] = TEN * v[n - 1] + str[n]
    /\ StringValue(str) = v[Len(str)]

LEMMA StringValueIs ==
    ASSUME NEW str \in Seq(Nat)
    PROVE  \E v : Spells(str, v)
<1> DEFINE L == Len(str)
           Turn(n, a) == TEN * a + str[n]
           F == [p \in (1 .. L) \X Nat |-> Turn(p[1], p[2])]
           first == 0
           G(g) == [n \in 0 .. L |-> IF n = 0 THEN 0 ELSE TEN * g[n - 1] + str[n]]
<1>0. L \in Nat /\ \A n \in 1 .. L : str[n] \in Nat
  OBVIOUS
<1>1. \A n \in 1 .. L, a \in Nat : Turn(n, a) \in Nat
  <2>1. TAKE n \in 1 .. L, a \in Nat
  <2> DEFINE b == TEN * a
             c == str[n]
  <2>2. b \in Nat /\ c \in Nat
    BY <1>0, TenAssumption
  <2> HIDE DEF b, c
  <2>3. b + c \in Nat
    BY <2>2
  <2>4. QED
    BY <2>3 DEF b, c
<1> HIDE DEF L
<1>2. F \in [(1 .. L) \X Nat -> Nat] /\ first \in Nat /\ \A n \in 1 .. L, a \in Nat : F[<<n, a>>] = Turn(n, a)
  <2>1. first \in Nat
    OBVIOUS
  <2> HIDE DEF Turn, first
  <2>2. QED
    BY <1>1, <2>1
<1>3. PICK f \in [0 .. L -> Nat] : Folds(f, first, F, L)
  <2> HIDE DEF F, first
  <2>1. QED
    BY <1>0, <1>2, Folded
<1>4. f[0] = 0 /\ \A n \in 1 .. L : f[n] = F[<<n, f[n - 1]>>]
  BY <1>3 DEF Folds
<1> HIDE DEF F
<1>5. f = G(f)
  <2> HIDE DEF Turn
  <2>1. \A n \in 0 .. L : n = 0 \/ (n # 0 /\ n \in 1 .. L)
    BY <1>0
  <2>2. \A n \in 1 .. L : n - 1 \in 0 .. L
    BY <1>0
  <2>3. \A n \in 1 .. L : f[n] = Turn(n, f[n - 1])
    BY <1>2, <1>3, <1>4, <2>2
  <2> DEFINE w(n) == IF n = 0 THEN 0 ELSE Turn(n, f[n - 1])
  <2>4. \A n \in 0 .. L : f[n] = w(n)
    BY <1>4, <2>1, <2>3
  <2> HIDE DEF w
  <2>5. f = [n \in 0 .. L |-> w(n)]
    BY <1>3, <2>4
  <2>6. QED
    BY <2>5 DEF w, Turn
<1> DEFINE c == CHOOSE g : g = G(g)
<1>6. c = G(c)
  <2> HIDE DEF G
  <2>1. QED
    BY <1>5
<1>7. StringValue(str) = c[L]
  BY DEF StringValue, L
<1> HIDE DEF c, Turn
<1>8. c[0] = 0 /\ \A n \in 1 .. L : c[n] = Turn(n, c[n - 1])
  <2>1. 0 \in 0 .. L /\ \A n \in 1 .. L : n \in 0 .. L /\ n # 0
    BY <1>0
  <2>2. QED
    BY <1>6, <2>1 DEF Turn
<1> DEFINE T == {n \in 0 .. L : c[n] \in Nat}
<1>9. 0 .. L \subseteq T
  <2>1. 0 \in T
    BY <1>0, <1>8
  <2>2. ASSUME NEW n \in 1 .. L, n - 1 \in T PROVE n \in T
    <3>1. c[n - 1] \in Nat /\ n \in 0 .. L
      BY <1>0, <2>2
    <3>2. c[n] \in Nat
      BY <1>1, <1>8, <3>1
    <3>3. QED
      BY <3>1, <3>2
  <2> HIDE DEF T
  <2>3. QED
    BY <1>0, <2>1, <2>2, UpTo
<1>10. c \in [0 .. L -> Nat]
  BY <1>6, <1>9
<1>11. QED
  BY <1>7, <1>8, <1>10 DEF Spells, L, Turn

\* A long integer is zero when all of its components are.
LEMMA ZeroIs ==
    ASSUME NEW x \in LongInteger
    PROVE  IsZero(x) <=> Value(x) = 0
<1> DEFINE L == Len(x)
<1>1. /\ x \in Seq(Nat) /\ L \in Nat \ {0} /\ DOMAIN x = 1 .. L
      /\ \A i \in 1 .. L : Component(x, i) = x[i]
  BY ComponentsAre
<1>2. ASSUME IsZero(x) PROVE Value(x) = 0
  <2>1. \A i \in 1 .. Len(x) : x[i] = 0
    BY <1>1, <1>2 DEF IsZero
  <2>2. Leading(x)[Len(x) - 0] = 0
    <3>1. 0 \in 0 .. Len(x)
      BY <1>1
    <3>2. QED
      BY <1>1, <2>1, <3>1, ZerosAbove
  <2>3. Len(x) - 0 = Len(x)
    BY <1>1
  <2>4. QED
    BY <2>2, <2>3 DEF Value
<1>3. ASSUME Value(x) = 0 PROVE IsZero(x)
  <2> DEFINE zero == <<0>>
             m == Larger(Len(x), Len(zero))
             differ == {i \in 1 .. m : Component(x, i) # Component(zero, i)}
             top == CHOOSE i \in differ : \A j \in differ : j <= i
  <2>1. zero \in LongInteger
    BY BaseIs DEF LongInteger
  <2>2. \A i : Component(zero, i) = 0
    BY DEF Component
  <2>3. Value(zero) = 0
    <3>1. zero \in Seq(Nat) /\ Len(zero) = 1 /\ 1 + 1 - 1 = 1 /\ 1 - 1 = 0 /\ zero[1] = 0 /\ 1 \in 1 .. 1
      OBVIOUS
    <3> HIDE DEF zero
    <3>2. Leading(zero)[1] = BASE * Leading(zero)[0] + 0 /\ Leading(zero)[0] = 0
      <4>1. \A n \in 1 .. Len(zero) : Leading(zero)[n] = BASE * Leading(zero)[n - 1] + zero[Len(zero) + 1 - n]
        BY <3>1, LeadingIs
      <4>2. Leading(zero)[0] = 0
        BY <3>1, LeadingIs
      <4>3. QED
        BY <3>1, <4>1, <4>2
    <3>3. BASE * 0 + 0 = 0
      BY BaseIs
    <3>4. QED
      BY <3>1, <3>2, <3>3 DEF Value
  <2>4. Compare(x, zero) = "forever"
    <3> HIDE DEF zero
    <3>1. QED
      BY <1>3, <2>1, <2>3, CompareIsExact
  <2>5. Compare(x, zero) = IF differ = {} THEN "forever" ELSE IF Component(x, top) < Component(zero, top) THEN "less" ELSE "more"
    <3> HIDE DEF zero
    <3>1. QED
      BY DEF Compare
  <2> HIDE DEF top
  <2>6. differ = {}
    BY <2>4, <2>5
  <2>7. \A i \in 1 .. L : i \in 1 .. m
    BY <1>1 DEF Larger
  <2>8. \A i \in 1 .. L : x[i] = 0
    <3> HIDE DEF zero, m
    <3>1. QED
      BY <1>1, <2>2, <2>6, <2>7
  <2>9. QED
    BY <1>1, <2>8 DEF IsZero
<1>4. QED
  BY <1>2, <1>3

\* What the divisions by ten leave.
LeavesOf(x, left) ==
    /\ left[0] = x /\ \A n \in 1 .. Value(x) : left[n] = DividedBy(left[n - 1], TEN)
    /\ left = CHOOSE g : g = [n \in 0 .. Value(x) |-> IF n = 0 THEN x ELSE DividedBy(g[n - 1], TEN)]

LEMMA LeavesAre ==
    ASSUME NEW x \in LongInteger
    PROVE  \E left \in [0 .. Value(x) -> LongInteger] : LeavesOf(x, left)
<1> DEFINE N == Value(x)
           F == [y \in LongInteger |-> DividedBy(y, TEN)]
           G(g) == [n \in 0 .. N |-> IF n = 0 THEN x ELSE DividedBy(g[n - 1], TEN)]
<1>0. N \in Nat
  BY ComponentsAre, ValueIs
<1> HIDE DEF N
<1>1. F \in [LongInteger -> LongInteger] /\ \A y \in LongInteger : F[y] = DividedBy(y, TEN) /\ DividedBy(y, TEN) \in LongInteger
  <2>1. \A y \in LongInteger : DividedBy(y, TEN) \in LongInteger
    BY DividedIsExact, TenAssumption
  <2>2. QED
    BY <2>1
<1>2. PICK f \in [0 .. N -> LongInteger] : Iterates(f, x, F, N)
  <2> HIDE DEF F
  <2>1. QED
    BY <1>0, <1>1, Iterated
<1>3. f[0] = x /\ \A n \in 1 .. N : f[n] = F[f[n - 1]]
  BY <1>2 DEF Iterates
<1> HIDE DEF F
<1>4. f = G(f)
  <2>1. \A n \in 0 .. N : n = 0 \/ (n # 0 /\ n \in 1 .. N)
    BY <1>0
  <2>2. \A n \in 1 .. N : n - 1 \in 0 .. N
    BY <1>0
  <2>3. \A n \in 1 .. N : f[n] = DividedBy(f[n - 1], TEN)
    BY <1>1, <1>2, <1>3, <2>2
  <2> DEFINE w(n) == IF n = 0 THEN x ELSE DividedBy(f[n - 1], TEN)
  <2>4. \A n \in 0 .. N : f[n] = w(n)
    BY <1>3, <2>1, <2>3
  <2> HIDE DEF w
  <2>5. f = [n \in 0 .. N |-> w(n)]
    BY <1>2, <2>4
  <2>6. QED
    BY <2>5 DEF w
<1> DEFINE c == CHOOSE g : g = G(g)
<1>5. c = G(c)
  <2> HIDE DEF G
  <2>1. QED
    BY <1>4
<1>6. LeavesOf(x, c)
  <2>1. 0 \in 0 .. N /\ \A n \in 1 .. N : n \in 0 .. N /\ n # 0
    BY <1>0
  <2>2. c = CHOOSE g : g = [n \in 0 .. Value(x) |-> IF n = 0 THEN x ELSE DividedBy(g[n - 1], TEN)]
    BY DEF N
  <2> HIDE DEF c
  <2>3. c[0] = x /\ \A n \in 1 .. N : c[n] = DividedBy(c[n - 1], TEN)
    BY <1>5, <2>1
  <2>4. QED
    BY <2>2, <2>3 DEF LeavesOf, N
<1> HIDE DEF c
<1> DEFINE T == {n \in 0 .. N : c[n] \in LongInteger}
<1>7. 0 .. N \subseteq T
  <2>0. c[0] = x /\ \A n \in 1 .. N : c[n] = DividedBy(c[n - 1], TEN)
    BY <1>6 DEF LeavesOf, N
  <2>1. 0 \in T
    BY <1>0, <2>0
  <2>2. ASSUME NEW n \in 1 .. N, n - 1 \in T PROVE n \in T
    <3>1. c[n - 1] \in LongInteger /\ n \in 0 .. N
      BY <1>0, <2>2
    <3>2. c[n] \in LongInteger
      BY <1>1, <2>0, <3>1
    <3>3. QED
      BY <3>1, <3>2
  <2> HIDE DEF T
  <2>3. QED
    BY <1>0, <2>1, <2>2, UpTo
<1>8. c \in [0 .. N -> LongInteger]
  BY <1>5, <1>7
<1>9. QED
  BY <1>6, <1>8 DEF N

\* The digits of a number spell it, and the first is not zero.
LEMMA DigitsAreExact ==
    ASSUME NEW x \in LongInteger
    PROVE  /\ ToDigits(x) \in Seq(0 .. TEN - 1) /\ ToDigits(x) # <<>> /\ StringValue(ToDigits(x)) = Value(x)
           /\ ToDigits(x)[1] = 0 => IsZero(x)
<1> DEFINE N == Value(x)
<1>0. N \in Nat /\ TEN \in Nat \ {0} /\ TEN >= 2
  BY ComponentsAre, ValueIs, TenAssumption
<1> HIDE DEF N
<1>1. CASE IsZero(x)
  <2> DEFINE zero == <<0>>
  <2>1. ToDigits(x) = zero
    BY <1>1 DEF ToDigits
  <2>2. zero \in Seq(0 .. TEN - 1) /\ zero \in Seq(Nat) /\ Len(zero) = 1 /\ zero[1] = 0
    BY <1>0
  <2>3. N = 0
    BY <1>1, ZeroIs DEF N
  <2> HIDE DEF zero
  <2>4. PICK v : Spells(zero, v)
    BY <2>2, StringValueIs
  <2>5. v[1] = TEN * 0 + 0 /\ StringValue(zero) = v[1]
    <3>1. 1 \in 1 .. Len(zero) /\ 1 - 1 = 0
      BY <2>2
    <3>2. QED
      BY <2>2, <2>4, <3>1 DEF Spells
  <2>6. StringValue(zero) = N
    BY <1>0, <2>3, <2>5
  <2>7. zero # <<>>
    BY DEF zero
  <2>8. QED
    BY <1>1, <2>1, <2>2, <2>6, <2>7 DEF N
<1>2. CASE ~IsZero(x)
  <2>1. PICK left \in [0 .. N -> LongInteger] : LeavesOf(x, left)
    BY LeavesAre DEF N
  <2> DEFINE Worth(n) == Value(left[n])
             turns == CHOOSE n \in 0 .. N : IsZero(left[n]) /\ \A m \in 0 .. n - 1 : ~IsZero(left[m])
             str == [i \in 1 .. turns |-> Modulo(left[turns - i], TEN)]
  <2>2. ToDigits(x) = str
    <3> DEFINE w == CHOOSE g : g = [n \in 0 .. Value(x) |-> IF n = 0 THEN x ELSE DividedBy(g[n - 1], TEN)]
               end == CHOOSE n \in 0 .. N : IsZero(w[n]) /\ \A m \in 0 .. n - 1 : ~IsZero(w[m])
    <3>1. left = w
      BY <2>1 DEF LeavesOf
    <3>2. ToDigits(x) = [i \in 1 .. end |-> Modulo(w[end - i], TEN)]
      BY <1>2 DEF ToDigits, N
    <3> HIDE DEF w
    <3>3. QED
      BY <3>1, <3>2
  <2>3. /\ \A n \in 0 .. N : Worth(n) \in Nat /\ (IsZero(left[n]) <=> Worth(n) = 0) /\ Modulo(left[n], TEN) = Worth(n) % TEN
        /\ Worth(0) = N /\ \A n \in 1 .. N : n - 1 \in 0 .. N /\ Worth(n) = Worth(n - 1) \div TEN
    <3>1. ASSUME NEW n \in 0 .. N PROVE Worth(n) \in Nat /\ (IsZero(left[n]) <=> Worth(n) = 0) /\ Modulo(left[n], TEN) = Worth(n) % TEN
      <4> DEFINE y == left[n]
      <4>1. y \in LongInteger
        BY <2>1
      <4> HIDE DEF y
      <4>2. Value(y) \in Nat /\ (IsZero(y) <=> Value(y) = 0) /\ Modulo(y, TEN) = Value(y) % TEN
        BY <1>0, <4>1, ComponentsAre, ValueIs, ZeroIs, ModuloIsExact
      <4>3. QED
        BY <4>2 DEF y
    <3>2. Worth(0) = N
      BY <2>1 DEF LeavesOf, N
    <3>3. ASSUME NEW n \in 1 .. N PROVE n - 1 \in 0 .. N /\ Worth(n) = Worth(n - 1) \div TEN
      <4> DEFINE y == left[n - 1]
      <4>1. n - 1 \in 0 .. N /\ left[n] = DividedBy(y, TEN)
        BY <1>0, <2>1 DEF LeavesOf, N
      <4>2. y \in LongInteger
        BY <2>1, <4>1
      <4> HIDE DEF y
      <4>3. Value(DividedBy(y, TEN)) = Value(y) \div TEN
        BY <1>0, <4>2, DividedIsExact
      <4>4. QED
        BY <4>1, <4>3 DEF y
    <3> HIDE DEF Worth
    <3>4. QED
      BY <3>1, <3>2, <3>3
  <2> HIDE DEF Worth
  <2>4. \A n \in 1 .. N : /\ Worth(n - 1) % TEN \in 0 .. TEN - 1
                          /\ Worth(n - 1) = TEN * Worth(n) + (Worth(n - 1) % TEN)
                          /\ (Worth(n - 1) # 0 => Worth(n) < Worth(n - 1))
    <3>1. TAKE n \in 1 .. N
    <3> DEFINE a == Worth(n - 1)
               b == a \div TEN
               e == a % TEN
    <3>2. a \in Nat /\ Worth(n) = b
      BY <2>3
    <3>3. b \in Nat /\ e \in 0 .. TEN - 1 /\ a = TEN * b + e
      BY <1>0, <3>2, Division
    <3> HIDE DEF a, b, e
    <3>4. a # 0 => b < a
      <4>1. 2 * b <= TEN * b
        BY <1>0, <3>3
      <4> DEFINE f == TEN * b
      <4>2. f \in Nat /\ 2 * b <= f /\ a = f + e
        BY <1>0, <3>3, <4>1
      <4> HIDE DEF f
      <4>3. QED
        BY <1>0, <3>2, <3>3, <4>2
    <3>5. QED
      BY <3>2, <3>3, <3>4 DEF a, e
  <2> DEFINE T == {n \in 0 .. N : Worth(n) + n <= N \/ Worth(n) = 0}
  <2>5. 0 .. N \subseteq T
    <3>1. 0 \in T
      BY <1>0, <2>3
    <3>2. ASSUME NEW n \in 1 .. N, n - 1 \in T PROVE n \in T
      <4> DEFINE a == Worth(n - 1)
                 b == Worth(n)
      <4>1. n \in 0 .. N /\ a \in Nat /\ b \in Nat /\ (a + (n - 1) <= N \/ a = 0) /\ (a # 0 => b < a) /\ b = a \div TEN
        <5>1. n \in 0 .. N /\ n - 1 \in 0 .. N
          BY <1>0
        <5>2. a + (n - 1) <= N \/ a = 0
          BY <3>2
        <5>3. a \in Nat /\ b \in Nat /\ b = a \div TEN
          BY <2>3, <5>1
        <5>4. a # 0 => b < a
          BY <2>4
        <5> HIDE DEF a, b
        <5>5. QED
          BY <5>1, <5>2, <5>3, <5>4
      <4> HIDE DEF a, b
      <4>2. CASE a = 0
        <5>1. b = 0
          BY <1>0, <4>1, <4>2
        <5>2. QED
          BY <4>1, <5>1 DEF b
      <4>3. CASE a # 0
        <5>1. b + n <= N
          BY <1>0, <4>1, <4>3
        <5>2. QED
          BY <4>1, <5>1 DEF b
      <4>4. QED
        BY <4>2, <4>3
    <3> HIDE DEF T
    <3>3. QED
      BY <1>0, <3>1, <3>2, UpTo
  <2>6. \E n \in 0 .. N : IsZero(left[n]) /\ \A m \in 0 .. n - 1 : ~IsZero(left[m])
    <3> DEFINE S == {n \in 0 .. N : IsZero(left[n])}
    <3>1. N \in 0 .. N
      BY <1>0
    <3>2. Worth(N) = 0
      BY <1>0, <2>3, <2>5, <3>1
    <3>3. N \in S /\ S \in SUBSET Nat
      BY <2>3, <3>1, <3>2
    <3>4. \E n \in S : \A m \in S : n <= m
      <4> HIDE DEF S
      <4>1. S # {}
        BY <3>3
      <4>2. QED
        BY <3>3, <4>1, LeastNumber
    <3>5. PICK n \in S : \A m \in S : n <= m
      BY <3>4
    <3>6. \A m \in 0 .. n - 1 : m \in 0 .. N /\ ~(n <= m)
      BY <1>0, <3>3
    <3>7. QED
      BY <3>5, <3>6
  <2>7. turns \in 0 .. N /\ IsZero(left[turns]) /\ \A m \in 0 .. turns - 1 : ~IsZero(left[m])
    BY <2>6
  <2> HIDE DEF turns
  <2>8. turns \in 1 .. N
    <3>1. left[0] = x
      BY <2>1 DEF LeavesOf
    <3>2. turns # 0
      BY <1>2, <2>7, <3>1
    <3>3. QED
      BY <1>0, <2>7, <3>2
  <2>9. \A i \in 1 .. turns : turns - i \in 0 .. N /\ turns - i \in 0 .. turns - 1 /\ (turns - i) + 1 \in 1 .. N /\ ((turns - i) + 1) - 1 = turns - i
    BY <1>0, <2>8
  <2>10. \A i \in 1 .. turns : str[i] = Worth(turns - i) % TEN /\ str[i] \in 0 .. TEN - 1 /\ str[i] \in Nat
    <3>1. TAKE i \in 1 .. turns
    <3> DEFINE n == (turns - i) + 1
    <3>2. str[i] = Worth(turns - i) % TEN
      BY <2>3, <2>9
    <3>3. n \in 1 .. N /\ n - 1 = turns - i
      BY <2>9
    <3> HIDE DEF n, str
    <3>4. str[i] \in 0 .. TEN - 1
      BY <2>4, <3>2, <3>3
    <3>5. QED
      BY <1>0, <3>2, <3>4
  <2>11. str \in Seq(0 .. TEN - 1) /\ str \in Seq(Nat) /\ Len(str) = turns
    <3> DEFINE D == 0 .. TEN - 1
               w(i) == Modulo(left[turns - i], TEN)
    <3>1. \A i \in 1 .. turns : w(i) \in D /\ w(i) \in Nat
      BY <2>10
    <3>2. turns \in Nat
      BY <1>0, <2>8
    <3> HIDE DEF D, w
    <3>3. [i \in 1 .. turns |-> w(i)] \in Seq(D) /\ [i \in 1 .. turns |-> w(i)] \in Seq(Nat) /\ Len([i \in 1 .. turns |-> w(i)]) = turns
      BY <3>1, <3>2
    <3>4. QED
      BY <3>3 DEF D, w
  <2> HIDE DEF str
  <2>12. PICK v : Spells(str, v)
    BY <2>11, StringValueIs
  <2> DEFINE U == {n \in 0 .. turns : v[n] = Worth(turns - n)}
  <2>13. 0 .. turns \subseteq U
    <3>1. 0 \in U
      <4>1. v[0] = 0
        BY <2>12 DEF Spells
      <4>2. turns - 0 = turns /\ 0 \in 0 .. turns /\ Worth(turns) = 0
        BY <1>0, <2>3, <2>7, <2>8
      <4>3. QED
        BY <4>1, <4>2
    <3>2. ASSUME NEW n \in 1 .. turns, n - 1 \in U PROVE n \in U
      <4> DEFINE k == (turns - n) + 1
      <4>1. k \in 1 .. N /\ k - 1 = turns - n /\ n \in 0 .. turns
        BY <1>0, <2>8, <2>9
      <4>2. turns - (n - 1) = k
        BY <1>0, <2>8
      <4>3. v[n - 1] = Worth(k)
        BY <3>2, <4>2
      <4>4. v[n] = TEN * v[n - 1] + str[n]
        BY <2>11, <2>12 DEF Spells
      <4>5. str[n] = Worth(k - 1) % TEN
        BY <2>10, <4>1
      <4> HIDE DEF k
      <4>6. Worth(k - 1) = TEN * Worth(k) + (Worth(k - 1) % TEN)
        BY <2>4, <4>1
      <4>7. v[n] = Worth(turns - n)
        BY <4>1, <4>3, <4>4, <4>5, <4>6
      <4>8. QED
        BY <4>1, <4>7
    <3> HIDE DEF U
    <3>3. turns \in Nat
      BY <1>0, <2>8
    <3>4. QED
      BY <3>1, <3>2, <3>3, UpTo
  <2>14. StringValue(str) = N
    <3>1. turns \in 0 .. turns /\ turns - turns = 0
      BY <1>0, <2>8
    <3>2. v[turns] = Worth(0)
      BY <2>13, <3>1
    <3>3. QED
      BY <2>3, <2>11, <2>12, <3>2 DEF Spells
  <2>15. str[1] # 0
    <3>1. 1 \in 1 .. turns /\ turns \in 1 .. N /\ turns - 1 \in 0 .. N /\ turns - 1 \in 0 .. turns - 1 /\ turns \in 0 .. N
      BY <1>0, <2>8
    <3>2. str[1] = Worth(turns - 1) % TEN
      BY <2>10, <3>1
    <3>3. Worth(turns) = 0 /\ Worth(turns - 1) # 0
      BY <2>3, <2>7, <3>1
    <3>4. Worth(turns - 1) = TEN * 0 + (Worth(turns - 1) % TEN) /\ Worth(turns - 1) % TEN \in 0 .. TEN - 1
      BY <2>4, <3>1, <3>3
    <3> DEFINE e == Worth(turns - 1) % TEN
    <3> HIDE DEF e
    <3>5. e \in Nat /\ Worth(turns - 1) = TEN * 0 + e
      BY <1>0, <3>4 DEF e
    <3>6. e # 0
      BY <1>0, <3>3, <3>5
    <3>7. QED
      BY <3>2, <3>6 DEF e
  <2>16. str # <<>>
    BY <1>0, <2>8, <2>11
  <2>17. QED
    BY <2>2, <2>11, <2>14, <2>15, <2>16 DEF N
<1>3. QED
  BY <1>1, <1>2

-----------------------------------------------------------------------------
(* Strings *)

\* One turn of the loop that makes the powers of two bases, and of one that makes a number.
LEMMA ProductsGrow ==
    ASSUME NEW a \in Nat \ {0}, NEW b \in Nat, a <= b, NEW x \in Nat, NEW y \in Nat, x <= y
    PROVE  a * x <= b * y /\ x <= a * x
<1>1. a * x <= a * y /\ a * y <= b * y /\ x <= a * x
  OBVIOUS
<1>2. a * x \in Nat /\ a * y \in Nat /\ b * y \in Nat
  OBVIOUS
<1> DEFINE ax == a * x
           ay == a * y
           by == b * y
<1> HIDE DEF ax, ay, by
<1>3. ax <= by
  BY <1>1, <1>2 DEF ax, ay, by
<1>4. QED
  BY <1>1, <1>3 DEF ax, by

\* Powers grow with their exponent and with their base.
LEMMA PowersGrow ==
    ASSUME NEW a \in Nat \ {0}, NEW b \in Nat \ {0}, a <= b, NEW size \in Nat
    PROVE  /\ \A n \in 0 .. size : Powers(a, size)[n] <= Powers(b, size)[n]
           /\ \A n \in 0 .. size : Powers(a, size)[n] <= Powers(a, size)[size]
<1> DEFINE p == Powers(a, size)
           q == Powers(b, size)
           T == {n \in 0 .. size : p[n] <= q[n]}
           U == {n \in 0 .. size : \A k \in 0 .. n : p[k] <= p[n]}
<1>1. /\ p[0] = 1 /\ \A n \in 1 .. size : p[n] = a * p[n - 1]
      /\ q[0] = 1 /\ \A n \in 1 .. size : q[n] = b * q[n - 1]
      /\ \A n \in 0 .. size : p[n] \in Nat /\ q[n] \in Nat
  BY PowersAre
<1> HIDE DEF p, q
<1>2. 0 \in T /\ 0 \in U
  BY <1>1
<1>3. ASSUME NEW n \in 1 .. size, n - 1 \in T PROVE n \in T
  <2> DEFINE x == p[n - 1]
             y == q[n - 1]
  <2>1. n \in 0 .. size /\ x \in Nat /\ y \in Nat /\ x <= y
    BY <1>1, <1>3
  <2>2. p[n] = a * x /\ q[n] = b * y
    BY <1>1
  <2> HIDE DEF x, y
  <2>3. p[n] <= q[n]
    BY <2>1, <2>2, ProductsGrow
  <2>4. QED
    BY <2>1, <2>3
<1>4. ASSUME NEW n \in 1 .. size, n - 1 \in U PROVE n \in U
  <2> DEFINE x == p[n - 1]
  <2>1. n \in 0 .. size /\ x \in Nat /\ p[n] \in Nat /\ \A k \in 0 .. n - 1 : p[k] <= x /\ p[k] \in Nat
    BY <1>1, <1>4
  <2>2. p[n] = a * x
    BY <1>1
  <2> HIDE DEF x
  <2>3. x <= p[n]
    BY <2>1, <2>2, ProductsGrow
  <2>4. \A k \in 0 .. n : k = n \/ k \in 0 .. n - 1
    OBVIOUS
  <2>5. \A k \in 0 .. n : p[k] <= p[n]
    BY <2>1, <2>3, <2>4
  <2>6. QED
    BY <2>1, <2>5
<1>5. 0 .. size \subseteq T
  <2> HIDE DEF T
  <2>1. QED
    BY <1>2, <1>3, UpTo
<1>6. 0 .. size \subseteq U
  <2> HIDE DEF U
  <2>1. QED
    BY <1>2, <1>4, UpTo
<1>7. QED
  BY <1>5, <1>6 DEF p, q

\* A number below a power of the base has nothing above that many components.
LEMMA NothingAbove ==
    ASSUME NEW y \in Seq(Nat), NEW l \in Nat, l <= Len(y), NEW size \in Nat, l <= size,
           Value(y) < Powers(BASE, size)[l]
    PROVE  Leading(y)[Len(y) - l] = 0
<1> DEFINE m == Len(y)
           v == Leading(y)
           p == Powers(BASE, size)
           u == v[m - l]
           T == {k \in 0 .. l : p[k] * u <= v[m - l + k]}
<1>1. m \in Nat /\ m - l \in 0 .. m /\ BASE \in Nat \ {0} /\ \A n \in 1 .. m : y[m + 1 - n] \in Nat
  BY BaseIs
<1>2. Value(y) = v[m] /\ Value(y) < p[l]
  BY DEF Value
<1>3. /\ \A n \in 0 .. m : v[n] \in Nat
      /\ \A n \in 1 .. m : v[n] = BASE * v[n - 1] + y[m + 1 - n]
  BY LeadingIs
<1>4. p[0] = 1 /\ \A n \in 1 .. l : p[n] = BASE * p[n - 1] /\ p[n] \in Nat /\ p[n - 1] \in Nat
  <2>1. \A n \in 1 .. l : n \in 1 .. size /\ n \in 0 .. size /\ n - 1 \in 0 .. size
    OBVIOUS
  <2>2. QED
    BY <1>1, <2>1, PowersAre
<1> HIDE DEF v, p, m
<1>5. u \in Nat /\ m - l + 0 = m - l /\ m - l + l = m
  BY <1>1, <1>3
<1> HIDE DEF u
<1>6. 0 \in T
  <2>1. 1 * u <= u
    BY <1>5
  <2>2. v[m - l + 0] = u
    BY <1>5 DEF u
  <2>3. QED
    BY <1>4, <2>1, <2>2
<1>7. ASSUME NEW k \in 1 .. l, k - 1 \in T PROVE k \in T
  <2> DEFINE j == m - l + k
             a == p[k - 1]
             w == v[j - 1]
             z == y[m + 1 - j]
  <2>1. j \in 1 .. m /\ j - 1 \in 0 .. m /\ m - l + (k - 1) = j - 1 /\ k \in 0 .. l
    BY <1>1, <1>7
  <2>2. a \in Nat /\ w \in Nat /\ z \in Nat /\ p[k] = BASE * a /\ v[j] = BASE * w + z
    BY <1>1, <1>3, <1>4, <2>1
  <2>3. a * u <= w
    BY <1>7, <2>1
  <2> HIDE DEF a, w, z, j
  <2>4. BASE * a * u <= BASE * w + z
    <3> DEFINE e == a * u
    <3>1. e \in Nat /\ BASE * a * u = BASE * e
      BY <1>1, <1>5, <2>2
    <3> HIDE DEF e
    <3>2. BASE * e <= BASE * w /\ BASE * w \in Nat /\ BASE * e \in Nat
      BY <1>1, <2>2, <2>3, <3>1, ProductsGrow DEF e
    <3> DEFINE f == BASE * e
               g == BASE * w
    <3> HIDE DEF f, g
    <3>3. f <= g + z
      BY <2>2, <3>2 DEF f, g
    <3>4. QED
      BY <3>1, <3>3 DEF f, g
  <2>5. p[k] * u <= v[m - l + k]
    BY <2>2, <2>4 DEF j
  <2>6. QED
    BY <2>1, <2>5
<1>8. 0 .. l \subseteq T
  <2> HIDE DEF T
  <2>1. QED
    BY <1>6, <1>7, UpTo
<1>9. p[l] * u <= v[m] /\ v[m] < p[l] /\ v[m] \in Nat
  <2>1. l \in T /\ m \in 0 .. m
    BY <1>1, <1>8
  <2>2. QED
    BY <1>2, <1>3, <1>5, <2>1
<1>10. p[l] \in Nat
  <2>1. l = 0 \/ l \in 1 .. l
    OBVIOUS
  <2>2. QED
    BY <1>4, <2>1
<1>11. u = 0
  <2> DEFINE a == p[l]
             b == v[m]
  <2>1. a \in Nat /\ b \in Nat /\ b < a /\ a * u <= b
    BY <1>9, <1>10
  <2> HIDE DEF a, b
  <2>2. CASE u = 0
    BY <2>2
  <2>3. CASE u >= 1
    <3>1. a <= a * u
      BY <1>5, <2>1, <2>3
    <3>2. QED
      BY <1>5, <2>1, <3>1
  <2>4. QED
    BY <1>5, <2>2, <2>3
<1>12. QED
  BY <1>11 DEF u, v, m

\* A number that fits keeps its value when it is assigned.
LEMMA AssignedIs ==
    ASSUME NEW x \in LongInteger, NEW y \in LongInteger
    PROVE  /\ Assigned(x, y) \in LongInteger /\ Len(Assigned(x, y)) = Len(x)
           /\ \A size \in Nat : Len(x) <= size /\ Value(y) < Powers(BASE, size)[Len(x)] => Value(Assigned(x, y)) = Value(y)
<1> DEFINE L == Len(x)
           m == Len(y)
           z == Assigned(x, y)
<1>1. /\ L \in Nat \ {0} /\ m \in Nat \ {0} /\ DOMAIN x = 1 .. L /\ y \in Seq(Nat)
      /\ \A i : Component(y, i) \in 0 .. BASE - 1
      /\ \A i \in 1 .. m : Component(y, i) = y[i]
  BY ComponentsAre
<1>2. z = [i \in 1 .. L |-> Component(y, i)]
  BY <1>1 DEF Assigned
<1>3. z \in LongInteger /\ Len(z) = L /\ \A i \in 1 .. L : z[i] = Component(y, i)
  <2> HIDE DEF L, z
  <2> DEFINE D == 0 .. BASE - 1
  <2>1. \A i \in 1 .. L : Component(y, i) \in D
    BY <1>1
  <2> HIDE DEF D
  <2>2. z \in Seq(D) /\ Len(z) = L /\ \A i \in 1 .. L : z[i] = Component(y, i)
    BY <1>1, <1>2, <2>1
  <2>3. z # <<>>
    BY <1>1, <2>2
  <2>4. QED
    BY <2>2, <2>3 DEF LongInteger, D
<1>4. ASSUME NEW size \in Nat, L <= size, Value(y) < Powers(BASE, size)[L] PROVE Value(z) = Value(y)
  <2>1. CASE m <= L
    <3>1. z = Padded(y, L)
      BY <1>2 DEF Padded
    <3>2. QED
      BY <1>1, <2>1, <3>1, PaddedIs
  <2>2. CASE m > L
    <3> DEFINE p == Padded(z, m)
               c == [i \in 0 .. L |-> 0]
    <3>1. p \in Seq(Nat) /\ Len(p) = m /\ Value(p) = Value(z) /\ \A i \in 1 .. m : p[i] = Component(z, i)
      <4> HIDE DEF z, m
      <4>1. m >= Len(z) /\ m \in Nat
        BY <1>1, <1>3, <2>2
      <4>2. QED
        BY <1>3, <4>1, PaddedIs
    <3>2. /\ \A i \in 1 .. L : p[i] = y[i] /\ y[i] \in Nat
          /\ \A i \in 1 .. m : i > L => p[i] = 0
      <4> HIDE DEF z, p
      <4>1. \A i \in 1 .. L : Component(z, i) = z[i]
        BY <1>3, ComponentsAre
      <4>2. \A i \in 1 .. L : i \in 1 .. m
        BY <1>1, <2>2
      <4>3. \A i : i \notin 1 .. L => Component(z, i) = 0
        BY <1>3, ComponentsAre
      <4>4. \A i \in 1 .. L : y[i] \in Nat /\ z[i] = y[i]
        BY <1>1, <1>3, <4>2
      <4>5. \A i \in 1 .. m : i > L => i \notin 1 .. L
        BY <1>1
      <4> HIDE DEF L, m
      <4>6. \A i \in 1 .. L : p[i] = y[i] /\ y[i] \in Nat
        BY <3>1, <4>1, <4>2, <4>4
      <4>7. \A i \in 1 .. m : i > L => p[i] = 0
        BY <3>1, <4>3, <4>5
      <4>8. QED
        BY <4>6, <4>7
    <3>3. Leading(y)[m - L] = 0
      BY <1>1, <1>4, <2>2, NothingAbove
    <3> HIDE DEF z, p, m
    <3>4. Leading(p)[m - L] = 0
      <4>1. L \in 0 .. Len(p) /\ \A i \in 1 .. Len(p) : i > L => p[i] = 0
        BY <1>1, <2>2, <3>1, <3>2
      <4>2. Leading(p)[Len(p) - L] = 0
        BY <3>1, <4>1, ZerosAbove
      <4>3. QED
        BY <3>1, <4>2
    <3>5. c \in [0 .. L -> Nat] /\ c[0] = 0 /\ c[L] = 0 /\ \A i \in 1 .. L : c[i - 1] = 0 /\ c[i] = 0
      BY <1>1
    <3> HIDE DEF c, L
    <3>6. \A i \in 1 .. L : c[i - 1] + p[i] = y[i] + BASE * c[i]
      <4>1. BASE * 0 = 0
        BY BaseIs
      <4>2. QED
        BY <3>2, <3>5, <4>1
    <3>7. Leading(p)[Len(p) - L] + c[L] = Leading(y)[Len(p) - L]
      BY <3>1, <3>3, <3>4, <3>5
    <3>8. L \in 0 .. Len(p) /\ Len(y) = Len(p)
      BY <1>1, <2>2, <3>1 DEF m
    <3>9. Value(p) + c[0] = Value(y)
      <4>1. y \in Seq(Nat) /\ p \in Seq(Nat) /\ c \in [0 .. L -> Nat]
        BY <1>1, <3>1, <3>5
      <4>2. QED
        BY <3>6, <3>7, <3>8, <4>1, Balanced
    <3>10. Value(p) \in Nat
      BY <3>1, ValueIs
    <3>11. QED
      BY <3>1, <3>5, <3>9, <3>10
  <2>3. QED
    BY <1>1, <2>1, <2>2
<1>5. QED
  BY <1>3, <1>4 DEF L, z

\* The value of one component.
LEMMA OneIs ==
    ASSUME NEW d \in 0 .. BASE - 1
    PROVE  <<d>> \in LongInteger /\ Value(<<d>>) = d
<1> DEFINE one == <<d>>
<1>1. d \in Nat
  BY BaseIs
<1>2. one \in LongInteger /\ one \in Seq(Nat) /\ Len(one) = 1 /\ one[1] = d
  BY <1>1 DEF LongInteger
<1> HIDE DEF one
<1>3. 1 \in 1 .. 1 /\ 1 + 1 - 1 = 1 /\ 1 - 1 = 0
  OBVIOUS
<1>4. Leading(one)[0] = 0
  BY <1>2, LeadingIs
<1>5. \A n \in 1 .. 1 : Leading(one)[n] = BASE * Leading(one)[n - 1] + one[1 + 1 - n]
  BY <1>2, LeadingIs
<1>6. Leading(one)[1] = BASE * 0 + d
  BY <1>2, <1>3, <1>4, <1>5
<1>7. BASE * 0 + d = d
  BY <1>1, BaseIs
<1>8. QED
  BY <1>2, <1>6, <1>7 DEF Value, one

\* One turn of from_string: ten times what was read, and a digit.
Read(str, n, a) == Assigned(a, SumOf(Assigned(a, TimesComponent(a, TEN)), <<str[n]>>))

LEMMA ReadIs ==
    ASSUME NEW a \in LongInteger, NEW str \in Seq(0 .. TEN - 1), NEW n \in 1 .. Len(str),
           NEW size \in Nat, Len(a) <= size, TEN * Value(a) + str[n] < Powers(BASE, size)[Len(a)]
    PROVE  Value(Read(str, n, a)) = TEN * Value(a) + str[n]
<1> DEFINE d == str[n]
           v == Value(a)
           bound == Powers(BASE, size)[Len(a)]
           times == TimesComponent(a, TEN)
           tens == Assigned(a, times)
           one == <<d>>
           sum == SumOf(tens, one)
<1>1. TEN \in Nat /\ TEN >= 2 /\ TEN \in 0 .. BASE - 1 /\ d \in Nat /\ d \in 0 .. BASE - 1 /\ BASE \in Nat
  BY BaseIs, TenAssumption
<1>2. v \in Nat
  BY ComponentsAre, ValueIs
<1>3. times \in LongInteger /\ Value(times) = v * TEN
  BY <1>1, TimesIsExact
<1>4. bound \in Nat /\ TEN * v + d < bound
  <2>1. Len(a) \in 0 .. size /\ BASE \in Nat \ {0}
    BY BaseIs, ComponentsAre
  <2>2. QED
    BY <2>1, PowersAre
<1>5. one \in LongInteger /\ Value(one) = d
  BY <1>1, OneIs
<1> HIDE DEF times, one, v, bound, d
<1>6. v * TEN = TEN * v /\ TEN * v \in Nat
  BY <1>1, <1>2
<1> DEFINE t == TEN * v
<1> HIDE DEF t
<1>7. t \in Nat /\ t < bound /\ t + d < bound /\ Value(times) = t
  BY <1>1, <1>3, <1>4, <1>6 DEF t
<1>8. tens \in LongInteger /\ Len(tens) = Len(a) /\ Value(tens) = t
  <2>1. Value(times) < Powers(BASE, size)[Len(a)]
    BY <1>7 DEF bound
  <2>2. QED
    BY <1>3, <1>7, <2>1, AssignedIs
<1> HIDE DEF tens
<1>9. sum \in LongInteger /\ Value(sum) = t + d
  BY <1>5, <1>8, SumIsExact
<1> HIDE DEF sum
<1>10. Value(Assigned(a, sum)) = t + d
  <2>1. Value(sum) < Powers(BASE, size)[Len(a)]
    BY <1>7, <1>9 DEF bound
  <2>2. QED
    BY <1>9, <2>1, AssignedIs
<1>11. Read(str, n, a) = Assigned(a, sum)
  BY DEF Read, sum, tens, times, one, d
<1>12. QED
  BY <1>10, <1>11 DEF t, v, d

\* The integers that from_string makes, turn by turn.
Reads(str, size, x) ==
    /\ x \in [0 .. Len(str) -> LongInteger] /\ \A n \in 0 .. Len(str) : Len(x[n]) = size
    /\ x[0] = [i \in 1 .. size |-> 0] /\ \A n \in 1 .. Len(str) : x[n] = Read(str, n, x[n - 1])
    /\ x = CHOOSE g : g = [n \in 0 .. Len(str) |-> IF n = 0 THEN [i \in 1 .. size |-> 0]
                             ELSE Assigned(g[n - 1], SumOf(Assigned(g[n - 1], TimesComponent(g[n - 1], TEN)), <<str[n]>>))]

LEMMA ReadsAre ==
    ASSUME NEW str \in Seq(0 .. TEN - 1), NEW size \in Nat \ {0}
    PROVE  \E x : Reads(str, size, x)
<1> DEFINE L == Len(str)
           S == {a \in LongInteger : Len(a) = size}
           F == [p \in (1 .. L) \X S |-> Read(str, p[1], p[2])]
           first == [i \in 1 .. size |-> 0]
           G(g) == [n \in 0 .. L |-> IF n = 0 THEN [i \in 1 .. size |-> 0]
                      ELSE Assigned(g[n - 1], SumOf(Assigned(g[n - 1], TimesComponent(g[n - 1], TEN)), <<str[n]>>))]
<1>0. L \in Nat
  OBVIOUS
<1>1. first \in S
  <2> DEFINE D == 0 .. BASE - 1
  <2>1. 0 \in D
    BY BaseIs
  <2> HIDE DEF D
  <2>2. first \in Seq(D) /\ Len(first) = size /\ first # <<>>
    BY <2>1
  <2>3. QED
    BY <2>2 DEF D, LongInteger
<1>2. ASSUME NEW n \in 1 .. L, NEW a \in S PROVE Read(str, n, a) \in S
  <2>1. a \in LongInteger /\ Len(a) = size /\ TEN \in 0 .. BASE - 1 /\ str[n] \in 0 .. BASE - 1
    BY BaseIs, TenAssumption
  <2> DEFINE tens == Assigned(a, TimesComponent(a, TEN))
             sum == SumOf(tens, <<str[n]>>)
  <2>2. tens \in LongInteger
    BY <2>1, TimesIsExact, AssignedIs
  <2>3. <<str[n]>> \in LongInteger
    BY <2>1, OneIs
  <2> HIDE DEF tens
  <2>4. sum \in LongInteger
    BY <2>2, <2>3, SumIsExact
  <2>5. Read(str, n, a) = Assigned(a, sum)
    BY DEF Read, tens
  <2> HIDE DEF sum
  <2>6. QED
    BY <2>1, <2>4, <2>5, AssignedIs
<1> HIDE DEF L, S, first
<1>3. F \in [(1 .. L) \X S -> S] /\ \A n \in 1 .. L, a \in S : F[<<n, a>>] = Read(str, n, a)
  BY <1>2
<1>4. PICK f \in [0 .. L -> S] : Folds(f, first, F, L)
  <2> HIDE DEF F
  <2>1. QED
    BY <1>0, <1>1, <1>3, Folded
<1>5. f[0] = first /\ \A n \in 1 .. L : f[n] = F[<<n, f[n - 1]>>]
  BY <1>4 DEF Folds
<1> HIDE DEF F
<1> DEFINE H(g) == [n \in 0 .. L |-> IF n = 0 THEN first ELSE Read(str, n, g[n - 1])]
<1>6. f = H(f)
  <2>1. \A n \in 0 .. L : n = 0 \/ (n # 0 /\ n \in 1 .. L)
    BY <1>0
  <2>2. \A n \in 1 .. L : n - 1 \in 0 .. L
    BY <1>0
  <2>3. \A n \in 1 .. L : f[n] = Read(str, n, f[n - 1])
    BY <1>3, <1>4, <1>5, <2>2
  <2> DEFINE w(n) == IF n = 0 THEN first ELSE Read(str, n, f[n - 1])
  <2>4. \A n \in 0 .. L : f[n] = w(n)
    BY <1>5, <2>1, <2>3
  <2> HIDE DEF w
  <2>5. f = [n \in 0 .. L |-> w(n)]
    BY <1>4, <2>4
  <2>6. QED
    BY <2>5 DEF w
<1> DEFINE c == CHOOSE g : g = H(g)
<1>7. c = H(c)
  <2> HIDE DEF H
  <2>1. QED
    BY <1>6
<1>8. c = CHOOSE g : g = G(g)
  BY DEF Read, first
<1> HIDE DEF c
<1>9. c[0] = first /\ \A n \in 1 .. L : c[n] = Read(str, n, c[n - 1])
  <2>1. 0 \in 0 .. L /\ \A n \in 1 .. L : n \in 0 .. L /\ n # 0
    BY <1>0
  <2>2. QED
    BY <1>7, <2>1
<1> DEFINE T == {n \in 0 .. L : c[n] \in S}
<1>10. 0 .. L \subseteq T
  <2>1. 0 \in T
    BY <1>0, <1>1, <1>9
  <2>2. ASSUME NEW n \in 1 .. L, n - 1 \in T PROVE n \in T
    <3>1. c[n - 1] \in S /\ n \in 0 .. L
      BY <1>0, <2>2
    <3>2. c[n] \in S
      BY <1>2, <1>9, <3>1
    <3>3. QED
      BY <3>1, <3>2
  <2> HIDE DEF T
  <2>3. QED
    BY <1>0, <2>1, <2>2, UpTo
<1>11. c \in [0 .. L -> S]
  BY <1>7, <1>10
<1> HIDE DEF H
<1>12. c \in [0 .. L -> LongInteger] /\ \A n \in 0 .. L : Len(c[n]) = size
  BY <1>11 DEF S
<1>13. QED
  BY <1>8, <1>9, <1>12 DEF Reads, L, first

\* The size that from_string takes: as many components as any number of so many digits needs.
Holds(digits, n) == Powers(BASE, digits)[n] >= Powers(TEN, digits)[digits]
SizeOf(digits, n) == n \in 0 .. digits /\ Holds(digits, n)
                     /\ n = CHOOSE m \in 0 .. digits : /\ Powers(BASE, digits)[m] >= Powers(TEN, digits)[digits]
                                                       /\ (m = 0 \/ Powers(BASE, digits)[m - 1] < Powers(TEN, digits)[digits])

LEMMA SizeIs ==
    ASSUME NEW digits \in Nat
    PROVE  \E n : SizeOf(digits, n)
<1> DEFINE fits == Powers(BASE, digits)
           bound == Powers(TEN, digits)[digits]
           S == {n \in 0 .. digits : fits[n] >= bound}
           Smallest(n) == fits[n] >= bound /\ (n = 0 \/ fits[n - 1] < bound)
<1>1. BASE \in Nat \ {0} /\ TEN \in Nat \ {0} /\ TEN <= BASE
  BY BaseIs, TenAssumption
<1>2. bound \in Nat /\ (\A n \in 0 .. digits : fits[n] \in Nat) /\ digits \in 0 .. digits
  <2>1. digits \in 0 .. digits
    OBVIOUS
  <2>2. fits \in [0 .. digits -> Nat \ {0}]
    BY <1>1, PowersAre
  <2> DEFINE p == Powers(TEN, digits)
  <2>3. p \in [0 .. digits -> Nat \ {0}]
    BY <1>1, PowersAre
  <2> HIDE DEF p, fits
  <2>4. p[digits] \in Nat /\ \A n \in 0 .. digits : fits[n] \in Nat
    BY <2>1, <2>2, <2>3
  <2>5. QED
    BY <2>1, <2>4 DEF p
<1>3. fits[digits] >= bound
  BY <1>1, <1>2, PowersGrow
<1> HIDE DEF fits, bound
<1>4. S \in SUBSET Nat /\ S # {}
  BY <1>2, <1>3
<1>5. PICK n \in S : \A m \in S : n <= m
  <2> HIDE DEF S
  <2>1. QED
    BY <1>4, LeastNumber
<1>6. n \in 0 .. digits /\ Smallest(n)
  <2>1. n \in 0 .. digits /\ fits[n] >= bound
    BY <1>5
  <2>2. ASSUME n # 0 PROVE fits[n - 1] < bound
    <3>1. n - 1 \in 0 .. digits /\ ~(n <= n - 1)
      BY <2>1, <2>2
    <3>2. n - 1 \notin S
      BY <1>5, <3>1
    <3>3. QED
      BY <1>2, <3>1, <3>2
  <2>3. QED
    BY <2>1, <2>2
<1> DEFINE w == CHOOSE m \in 0 .. digits : Smallest(m)
<1>7. w \in 0 .. digits /\ Smallest(w)
  <2> HIDE DEF Smallest
  <2>1. QED
    BY <1>6
<1>8. Holds(digits, w)
  <2> HIDE DEF w
  <2>1. QED
    BY <1>7 DEF Holds, fits, bound
<1>9. w = CHOOSE m \in 0 .. digits : /\ Powers(BASE, digits)[m] >= Powers(TEN, digits)[digits]
                                    /\ (m = 0 \/ Powers(BASE, digits)[m - 1] < Powers(TEN, digits)[digits])
  BY DEF fits, bound
<1> HIDE DEF w, Smallest
<1>10. SizeOf(digits, w)
  BY <1>7, <1>8, <1>9 DEF SizeOf
<1>11. QED
  BY <1>10

\* A string's value is below the power of ten that has one more digit.
LEMMA StringsBelow ==
    ASSUME NEW str \in Seq(0 .. TEN - 1), NEW v, Spells(str, v)
    PROVE  \A n \in 0 .. Len(str) : v[n] < Powers(TEN, Len(str))[n]
<1> DEFINE L == Len(str)
           p == Powers(TEN, L)
           T == {n \in 0 .. L : v[n] < p[n]}
<1>1. L \in Nat /\ TEN \in Nat \ {0} /\ \A n \in 1 .. L : str[n] \in Nat /\ str[n] < TEN
  BY TenAssumption
<1>2. v[0] = 0 /\ (\A n \in 0 .. L : v[n] \in Nat) /\ \A n \in 1 .. L : v[n] = TEN * v[n - 1] + str[n]
  BY DEF Spells
<1> HIDE DEF L
<1>3. p[0] = 1 /\ (\A n \in 0 .. L : p[n] \in Nat) /\ \A n \in 1 .. L : p[n] = TEN * p[n - 1]
  BY <1>1, PowersAre
<1> HIDE DEF p
<1>4. 0 \in T
  BY <1>1, <1>2, <1>3
<1>5. ASSUME NEW n \in 1 .. L, n - 1 \in T PROVE n \in T
  <2> DEFINE a == v[n - 1]
             b == p[n - 1]
             d == str[n]
  <2>1. n \in 0 .. L /\ a \in Nat /\ b \in Nat /\ a < b /\ d \in Nat /\ d < TEN
    BY <1>1, <1>2, <1>3, <1>5
  <2>2. v[n] = TEN * a + d /\ p[n] = TEN * b
    BY <1>2, <1>3
  <2> HIDE DEF a, b, d
  <2>3. TEN * (a + 1) <= TEN * b /\ TEN * (a + 1) = TEN * a + TEN /\ TEN * a \in Nat /\ TEN * b \in Nat
    <3>1. a + 1 \in Nat /\ a + 1 <= b
      BY <2>1
    <3> DEFINE e == a + 1
    <3> HIDE DEF e
    <3>2. TEN * e <= TEN * b
      BY <1>1, <2>1, <3>1, ProductsGrow DEF e
    <3>3. QED
      BY <1>1, <2>1, <3>2 DEF e
  <2> DEFINE f == TEN * a
             g == TEN * b
  <2> HIDE DEF f, g
  <2>4. f + TEN <= g /\ f \in Nat /\ g \in Nat
    BY <2>3 DEF f, g
  <2>5. f + d < g
    BY <1>1, <2>1, <2>4
  <2>6. v[n] < p[n]
    BY <2>2, <2>5 DEF f, g
  <2>7. QED
    BY <2>1, <2>6
<1>6. 0 .. L \subseteq T
  <2> HIDE DEF T
  <2>1. QED
    BY <1>1, <1>4, <1>5, UpTo
<1>7. QED
  BY <1>6 DEF L, p

\* A string of digits is read for what it spells.
LEMMA FromStringIsExact ==
    ASSUME NEW str \in Seq(0 .. TEN - 1), str # <<>>
    PROVE  FromString(str) \in LongInteger /\ Value(FromString(str)) = StringValue(str)
<1> DEFINE L == Len(str)
           fits == Powers(BASE, L)
           bound == Powers(TEN, L)[L]
<1>1. L \in Nat \ {0} /\ TEN \in Nat \ {0} /\ TEN >= 2 /\ BASE \in Nat \ {0} /\ str \in Seq(Nat)
  <2>1. 0 .. TEN - 1 \subseteq Nat
    BY TenAssumption
  <2>2. Len(str) # 0
    OBVIOUS
  <2>3. QED
    BY <2>1, <2>2, BaseIs, TenAssumption
<1>2. PICK size : SizeOf(L, size)
  BY <1>1, SizeIs
<1>3. size \in 0 .. L /\ fits[size] >= bound
  BY <1>2 DEF SizeOf, Holds
<1>4. bound \in Nat /\ (\A n \in 0 .. L : fits[n] \in Nat) /\ fits[0] = 1 /\ bound >= 2
  <2> DEFINE p == Powers(TEN, L)
  <2>1. bound \in Nat /\ (\A n \in 0 .. L : fits[n] \in Nat) /\ fits[0] = 1
    <3>1. fits \in [0 .. L -> Nat \ {0}] /\ fits[0] = 1 /\ p \in [0 .. L -> Nat \ {0}]
      BY <1>1, PowersAre
    <3> HIDE DEF p, fits
    <3>2. L \in 0 .. L
      BY <1>1
    <3>3. p[L] \in Nat /\ (\A n \in 0 .. L : fits[n] \in Nat) /\ fits[0] = 1
      BY <3>1, <3>2
    <3>4. QED
      BY <3>3 DEF p
  <2>2. L \in 1 .. L /\ L - 1 \in 0 .. L
    BY <1>1
  <2>3. p[L] = TEN * p[L - 1] /\ p[L - 1] \in Nat \ {0}
    BY <1>1, <2>2, PowersAre
  <2> DEFINE q == p[L - 1]
  <2>4. bound = TEN * q /\ q \in Nat \ {0}
    BY <2>3
  <2> HIDE DEF p, q, bound
  <2>5. bound >= 2
    BY <1>1, <2>4
  <2>6. QED
    BY <2>1, <2>5
<1>5. size \in Nat \ {0} /\ size <= L
  <2> HIDE DEF fits, bound
  <2>1. size # 0
    BY <1>3, <1>4
  <2>2. QED
    BY <1>3, <2>1
<1>6. PICK x : Reads(str, size, x)
  BY <1>5, ReadsAre
<1>7. FromString(str) = x[L]
  <2> DEFINE sized == CHOOSE m \in 0 .. L : fits[m] >= bound /\ (m = 0 \/ fits[m - 1] < bound)
             made(z) == CHOOSE g : g = [n \in 0 .. L |-> IF n = 0 THEN [i \in 1 .. z |-> 0]
                             ELSE Assigned(g[n - 1], SumOf(Assigned(g[n - 1], TimesComponent(g[n - 1], TEN)), <<str[n]>>))]
  <2>1. size = sized
    BY <1>2 DEF SizeOf
  <2>2. x = made(size)
    BY <1>6 DEF Reads
  <2>3. FromString(str) = made(sized)[L]
    BY DEF FromString
  <2> HIDE DEF sized, made
  <2>4. QED
    BY <2>1, <2>2, <2>3
<1>8. PICK v : Spells(str, v)
  BY <1>1, StringValueIs
<1>9. v[0] = 0 /\ (\A n \in 0 .. L : v[n] \in Nat) /\ (\A n \in 1 .. L : v[n] = TEN * v[n - 1] + str[n]) /\ StringValue(str) = v[L]
  BY <1>8 DEF Spells
<1>10. \A n \in 0 .. L : v[n] < fits[size]
  <2>1. TAKE n \in 0 .. L
  <2> DEFINE p == Powers(TEN, L)
  <2>2. v[n] < p[n]
    BY <1>8, StringsBelow
  <2>3. p[n] <= bound /\ p[n] \in Nat
    <3>1. TEN <= TEN /\ L \in Nat /\ n \in 0 .. L
      BY <1>1
    <3>2. p[n] <= p[L]
      BY <1>1, <3>1, PowersGrow
    <3>3. p \in [0 .. L -> Nat \ {0}]
      BY <1>1, <3>1, PowersAre
    <3>4. QED
      BY <3>1, <3>2, <3>3
  <2> HIDE DEF p, bound, fits
  <2>4. QED
    BY <1>3, <1>4, <1>9, <2>2, <2>3
<1>11. /\ (\A n \in 0 .. L : x[n] \in LongInteger /\ Len(x[n]) = size) /\ x[0] = [i \in 1 .. size |-> 0]
       /\ \A n \in 1 .. L : x[n] = Read(str, n, x[n - 1])
  BY <1>6 DEF Reads
<1> DEFINE T == {n \in 0 .. L : Value(x[n]) = v[n]}
<1>12. 0 \in T
  <2>1. x[0] \in LongInteger
    BY <1>1, <1>11
  <2>2. IsZero(x[0])
    BY <1>11 DEF IsZero
  <2>3. Value(x[0]) = 0
    BY <2>1, <2>2, ZeroIs
  <2>4. QED
    BY <1>1, <1>9, <2>3
<1>13. ASSUME NEW n \in 1 .. L, n - 1 \in T PROVE n \in T
  <2> DEFINE a == x[n - 1]
  <2>1. n \in 0 .. L /\ n - 1 \in 0 .. L /\ Value(a) = v[n - 1]
    BY <1>1, <1>13
  <2>2. a \in LongInteger /\ Len(a) = size /\ x[n] = Read(str, n, a)
    BY <1>11, <2>1
  <2>3. v[n] = TEN * Value(a) + str[n] /\ v[n] < fits[size]
    BY <1>9, <1>10, <2>1
  <2> HIDE DEF a
  <2>4. Value(Read(str, n, a)) = TEN * Value(a) + str[n]
    <3>1. Len(a) <= L /\ TEN * Value(a) + str[n] < Powers(BASE, L)[Len(a)]
      BY <1>5, <2>2, <2>3
    <3> HIDE DEF L
    <3>2. L \in Nat /\ n \in 1 .. Len(str)
      BY <1>1 DEF L
    <3>3. QED
      BY <2>2, <3>1, <3>2, ReadIs
  <2>5. QED
    BY <2>1, <2>2, <2>3, <2>4
<1>14. 0 .. L \subseteq T
  <2> HIDE DEF T
  <2>1. QED
    BY <1>1, <1>12, <1>13, UpTo
<1>15. L \in 0 .. L
  BY <1>1
<1>16. QED
  BY <1>7, <1>9, <1>11, <1>14, <1>15

\* The arithmetic of long integers of any size is exact: sums, differences that are not negative,
\* the products that operator* defines, quotients and remainders, the order, and the digits, the
\* first of which is a zero only in the zero; a string is read for what it spells, so that every
\* integer is read back from its digits (integer.h: operator+, -, *, / and %, compare, to_string,
\* from_string).
THEOREM ArithmeticIsExact ==
    /\ \A x \in LongInteger :
          /\ \A y \in LongInteger :
                /\ Value(SumOf(x, y)) = Value(x) + Value(y)
                /\ Value(x) >= Value(y) => Value(Difference(x, y)) = Value(x) - Value(y)
                /\ Convolves(x, y) /\ Multiplies(x, y[1]) => Value(Product(x, y)) = Value(x) * Value(y)
                /\ Compare(x, y) = CASE Value(x) < Value(y) -> "less" [] Value(x) > Value(y) -> "more" [] OTHER -> "forever"
          /\ \A d \in 0 .. BASE - 1 : Multiplies(x, d) => Value(TimesComponent(x, d)) = Value(x) * d
          /\ \A d \in Nat \ {0} : Value(DividedBy(x, d)) = Value(x) \div d /\ Modulo(x, d) = Value(x) % d
          /\ StringValue(ToDigits(x)) = Value(x) /\ (ToDigits(x)[1] = 0 => IsZero(x))
          /\ Value(FromString(ToDigits(x))) = Value(x)
    /\ \A str \in Seq(0 .. TEN - 1) \ {<<>>} : Value(FromString(str)) = StringValue(str)
<1>0. \A str \in Seq(0 .. TEN - 1) \ {<<>>} : Value(FromString(str)) = StringValue(str)
  BY FromStringIsExact
<1>1. SUFFICES ASSUME NEW x \in LongInteger
      PROVE  /\ \A y \in LongInteger :
                   /\ Value(SumOf(x, y)) = Value(x) + Value(y)
                   /\ Value(x) >= Value(y) => Value(Difference(x, y)) = Value(x) - Value(y)
                   /\ Convolves(x, y) /\ Multiplies(x, y[1]) => Value(Product(x, y)) = Value(x) * Value(y)
                   /\ Compare(x, y) = CASE Value(x) < Value(y) -> "less" [] Value(x) > Value(y) -> "more" [] OTHER -> "forever"
             /\ \A d \in 0 .. BASE - 1 : Multiplies(x, d) => Value(TimesComponent(x, d)) = Value(x) * d
             /\ \A d \in Nat \ {0} : Value(DividedBy(x, d)) = Value(x) \div d /\ Modulo(x, d) = Value(x) % d
             /\ StringValue(ToDigits(x)) = Value(x) /\ (ToDigits(x)[1] = 0 => IsZero(x))
             /\ Value(FromString(ToDigits(x))) = Value(x)
  BY <1>0
<1>2. ASSUME NEW y \in LongInteger
      PROVE  /\ Value(SumOf(x, y)) = Value(x) + Value(y)
             /\ Value(x) >= Value(y) => Value(Difference(x, y)) = Value(x) - Value(y)
             /\ Convolves(x, y) /\ Multiplies(x, y[1]) => Value(Product(x, y)) = Value(x) * Value(y)
             /\ Compare(x, y) = CASE Value(x) < Value(y) -> "less" [] Value(x) > Value(y) -> "more" [] OTHER -> "forever"
  <2>1. Value(SumOf(x, y)) = Value(x) + Value(y)
    BY SumIsExact
  <2>2. Value(x) >= Value(y) => Value(Difference(x, y)) = Value(x) - Value(y)
    BY DifferenceIsExact
  <2>3. Convolves(x, y) => Value(Product(x, y)) = Value(x) * Value(y)
    BY ProductIsExact
  <2>4. Compare(x, y) = CASE Value(x) < Value(y) -> "less" [] Value(x) > Value(y) -> "more" [] OTHER -> "forever"
    <3>1. Value(x) \in Nat /\ Value(y) \in Nat
      BY ComponentsAre, ValueIs
    <3>2. /\ Value(x) < Value(y) => Compare(x, y) = "less"
          /\ Value(x) > Value(y) => Compare(x, y) = "more"
          /\ Value(x) = Value(y) => Compare(x, y) = "forever"
      BY CompareIsExact
    <3> DEFINE a == Value(x)
               b == Value(y)
    <3> HIDE DEF a, b
    <3>3. Compare(x, y) = CASE a < b -> "less" [] a > b -> "more" [] OTHER -> "forever"
      BY <3>1, <3>2 DEF a, b
    <3>4. QED
      BY <3>3 DEF a, b
  <2>5. QED
    BY <2>1, <2>2, <2>3, <2>4
<1>3. \A d \in 0 .. BASE - 1 : Value(TimesComponent(x, d)) = Value(x) * d
  BY TimesIsExact
<1>4. \A d \in Nat \ {0} : Value(DividedBy(x, d)) = Value(x) \div d /\ Modulo(x, d) = Value(x) % d
  BY DividedIsExact, ModuloIsExact
<1>5. StringValue(ToDigits(x)) = Value(x) /\ (ToDigits(x)[1] = 0 => IsZero(x))
  BY DigitsAreExact
<1>6. Value(FromString(ToDigits(x))) = Value(x)
  <2>1. ToDigits(x) \in Seq(0 .. TEN - 1) /\ ToDigits(x) # <<>>
    BY DigitsAreExact
  <2>2. QED
    BY <1>0, <1>5, <2>1
<1>7. QED
  BY <1>2, <1>3, <1>4, <1>5, <1>6
=============================================================================
