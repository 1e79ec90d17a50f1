-------------------------------- MODULE Maps --------------------------------
(***************************************************************************)
(* The library's other dictionaries: the unbalanced tree                   *)
(* (include/lib/binary_search_tree.h), the skip list (skip_list.h) and the *)
(* hash table with its multiplicative hash (hash_table.h, hash_multi.h,    *)
(* prime.h), which holds the groups of the runtime.  s is the structure,   *)
(* model the map it should be.  A node is the key it was made for.         *)
(***************************************************************************)
EXTENDS Hashing, LibraryState

CONSTANTS
    TableKeys,      \* numbers
    TableValues,
    SL_MAX_LEVEL,   \* the code's is 6
    TableSize       \* HashTable(max)

ASSUME TableKeysAssumption == TableKeys \subseteq Nat \ {0}
ASSUME LevelAssumption == SL_MAX_LEVEL \in Nat

MapKinds == {"bst", "skip", "hash"}
Absent == 0
Nil == 0

Bound(f, k, v) == [x \in DOMAIN f \cup {k} |-> IF x = k THEN v ELSE f[x]]
Unbound(f, k) == [x \in DOMAIN f \ {k} |-> f[x]]
-----------------------------------------------------------------------------
(* Binary search tree *)

EmptyBst == [root |-> Nil, value |-> <<>>, left |-> <<>>, right |-> <<>>]

BstChild(t, x, k) == IF k < x THEN t.left[x] ELSE t.right[x]

\* The loop goes from x towards k; it ends at k or where the next node is missing.
BstNext(t, x, k) == IF x = k \/ BstChild(t, x, k) = Nil THEN x ELSE BstChild(t, x, k)

\* Where it ends: there are no more turns than nodes.
BstEnd(t, k) ==
    LET turn[n \in 0 .. Cardinality(DOMAIN t.value)] ==
            IF n = 0 THEN t.root ELSE BstNext(t, turn[n - 1], k)
    IN  turn[Cardinality(DOMAIN t.value)]

BstNode(t, k, v) ==
    [t EXCEPT !.value = Bound(@, k, v), !.left = Bound(@, k, Nil), !.right = Bound(@, k, Nil)]

\* A key that is there already keeps its value.
BstInsert(t, k, v) ==
    IF t.root = Nil THEN [BstNode(t, k, v) EXCEPT !.root = k]
    ELSE LET x == BstEnd(t, k) IN
         IF x = k THEN t
         ELSE IF k < x THEN [BstNode(t, k, v) EXCEPT !.left[x] = k]
         ELSE [BstNode(t, k, v) EXCEPT !.right[x] = k]

BstFind(t, k) == IF t.root # Nil /\ BstEnd(t, k) = k THEN t.value[k] ELSE Absent
-----------------------------------------------------------------------------
(* Skip list: forward[x][i] is the node after x at level i *)

Header == 0
EmptySkip == [level |-> 0, value |-> <<>>,
              forward |-> [x \in {Header} |-> [i \in 0 .. SL_MAX_LEVEL |-> Nil]]]

\* The header's cells are allocated and not cleared.  When they are not zero by chance the
\* first operation follows one of them, and nothing is said of the list any more.
LostSkip == [EmptySkip EXCEPT !.level = -1]
IsLost(l) == l.level < 0

OnLevel(l, i) == {x \in DOMAIN l.forward : i \in DOMAIN l.forward[x]}

\* The last node before k on level i, from x on.
Advance(l, x, i, k) ==
    LET stop[y \in OnLevel(l, i)] ==
            IF l.forward[y][i] # Nil /\ l.forward[y][i] < k THEN stop[l.forward[y][i]] ELSE y
    IN  stop[x]

\* update[i]: that of all nodes on level i, found from the top level down.
Update(l, k) ==
    LET u[i \in 0 .. l.level] == Advance(l, IF i = l.level THEN Header ELSE u[i + 1], i, k)
    IN  u

SkipFind(l, k) ==
    LET x == l.forward[Update(l, k)[0]][0]
    IN  IF x = k /\ x # Nil THEN l.value[x] ELSE Absent

SkipLinked(l, before, k, v, lvl) ==
    [level   |-> IF lvl > l.level THEN lvl ELSE l.level,
     value   |-> Bound(l.value, k, v),
     forward |-> [x \in DOMAIN l.forward \cup {k} |->
                     IF x = k THEN [i \in 0 .. lvl |-> l.forward[before[i]][i]]
                     ELSE [i \in DOMAIN l.forward[x] |->
                              IF i <= lvl /\ before[i] = x THEN k ELSE l.forward[x][i]]]]

\* lvl is what random_level returns; a key that is there already keeps its value.
SkipInsert(l, k, v, lvl) ==
    LET u == Update(l, k)
    IN  IF l.forward[u[0]][0] = k THEN l
        ELSE SkipLinked(l, [i \in 0 .. lvl |-> IF i <= l.level THEN u[i] ELSE Header], k, v, lvl)

Lowered(l) ==
    LET down[i \in 0 .. l.level] == IF i > 0 /\ l.forward[Header][i] = Nil THEN down[i - 1] ELSE i
    IN  [l EXCEPT !.level = down[l.level]]

\* MUTANT: only the lowest level is unlinked
SkipDeleteLowest(l, k) ==
    LET u == Update(l, k) IN
    IF l.forward[u[0]][0] # k THEN l
    ELSE Lowered([l EXCEPT !.value = Unbound(@, k), !.forward[u[0]][0] = l.forward[k][0]])

\* Unlinked level by level, up to the first level that does not lead to it.
SkipUnlinked(l, u, k) ==
    LET passed(x, i) == i <= l.level /\ u[i] = x /\ \A j \in 0 .. i : l.forward[u[j]][j] = k
    IN  [l EXCEPT !.value   = Unbound(@, k),
                  !.forward = [x \in DOMAIN @ \ {k} |->
                                  [i \in DOMAIN @[x] |-> IF passed(x, i) THEN @[k][i] ELSE @[x][i]]]]

SkipDelete(l, k) ==
    LET u == Update(l, k)
    IN  IF l.forward[u[0]][0] # k THEN l ELSE Lowered(SkipUnlinked(l, u, k))
-----------------------------------------------------------------------------
(* Hash table: slots 0 .. 2^r - 1, each a list with the newest key in front *)

TwoTo[n \in 0 .. BITWIDTH] == IF n = 0 THEN 1 ELSE 2 * TwoTo[n - 1]

CeilLog2(n) == CHOOSE r \in 0 .. BITWIDTH : TwoTo[r] >= n /\ \A q \in 0 .. r - 1 : TwoTo[q] < n

\* The first prime from ceil(log2(max)) on is the number of bits kept.
HashBits(max) ==
    LET r == CeilLog2(max)
    IN  CHOOSE i \in r .. 2 * r + 2 : IsPrime(i) /\ \A j \in r .. i - 1 : ~IsPrime(j)

\* A word has as many bits: a table of more than 2^31 slots would shift by a negative number.
ASSUME TableAssumption == BITWIDTH \in Nat /\ HashBits(TableSize) \in 0 .. BITWIDTH

MultiHash(r, key) == (((TwoTo[BITWIDTH - r] + 1) * key) % TwoTo[BITWIDTH]) \div TwoTo[BITWIDTH - r]

EmptyTable(max) == [r |-> HashBits(max), slot |-> [i \in 0 .. TwoTo[HashBits(max)] - 1 |-> <<>>]]

SlotOf(h, k) == MultiHash(h.r, k)
FirstOf(slot, k) == SelectInSeq(slot, LAMBDA kv : kv.key = k)
HasKey(h, k) == FirstOf(h.slot[SlotOf(h, k)], k) # 0

\* operator[]: the value's place, made in front of the slot when the key is new.
HashAssign(h, k, v) ==
    [h EXCEPT !.slot[SlotOf(h, k)] =
        IF HasKey(h, k) THEN [@ EXCEPT ![FirstOf(@, k)].value = v] ELSE <<[key |-> k, value |-> v]>> \o @]

HashFind(h, k) ==
    LET slot == h.slot[SlotOf(h, k)]
    IN  IF HasKey(h, k) THEN slot[FirstOf(slot, k)].value ELSE Absent

HashDelete(h, k) ==
    IF HasKey(h, k) THEN [h EXCEPT !.slot[SlotOf(h, k)] = RemoveAt(@, FirstOf(@, k))] ELSE h

HashClear(h) == [h EXCEPT !.slot = [i \in DOMAIN @ |-> <<>>]]
-----------------------------------------------------------------------------
(* Every sequence of operations *)

EmptyMap == <<>>

MapsInit ==
    /\ kind \in MapKinds
    /\ s \in CASE kind = "bst"  -> {EmptyBst}
               [] kind = "skip" -> {EmptySkip, LostSkip}
               [] OTHER         -> {EmptyTable(TableSize)}
    /\ model = EmptyMap

MapWith(k, v) == IF k \in DOMAIN model THEN model ELSE Bound(model, k, v)

InsertIntoBst(k, v) == Becomes("bst", BstInsert(s, k, v), MapWith(k, v))

InsertIntoSkip(k, v, lvl) == kind = "skip" /\ ~IsLost(s) /\ Becomes("skip", SkipInsert(s, k, v, lvl), MapWith(k, v))
DeleteFromSkip(k) == kind = "skip" /\ ~IsLost(s) /\ Becomes("skip", SkipDelete(s, k), Unbound(model, k))

AssignInHash(k, v) == Becomes("hash", HashAssign(s, k, v), Bound(model, k, v))
DeleteFromHash(k) == Becomes("hash", HashDelete(s, k), Unbound(model, k))
ClearHash == Becomes("hash", HashClear(s), EmptyMap)

MapsNext ==
    \/ \E k \in TableKeys, v \in TableValues :
          InsertIntoBst(k, v) \/ AssignInHash(k, v) \/ \E lvl \in 0 .. SL_MAX_LEVEL : InsertIntoSkip(k, v, lvl)
    \/ \E k \in TableKeys : DeleteFromSkip(k) \/ DeleteFromHash(k)
    \/ ClearHash

MapsSpec == MapsInit /\ [][MapsNext]_part
-----------------------------------------------------------------------------
LookUp(k) ==
    CASE kind = "bst"  -> BstFind(s, k)
      [] kind = "skip" -> SkipFind(s, k)
      [] OTHER         -> HashFind(s, k)

\* After any sequence of operations a look-up finds what a map would hold: whatever
\* levels the skip list's coin gave, however many keys share a slot.  The level of the
\* skip list is the highest in use, and no level leads to a node that was freed
\* (binary_search_tree.h, skip_list.h, hash_table.h).
MapsAgree ==
    (kind \in MapKinds /\ (kind = "skip" => ~IsLost(s))) =>
        /\ \A k \in TableKeys : LookUp(k) = IF k \in DOMAIN model THEN model[k] ELSE Absent
        /\ kind = "skip" =>
              /\ s.level > 0 => s.forward[Header][s.level] # Nil
              /\ \A x \in DOMAIN s.forward : \A i \in DOMAIN s.forward[x] :
                    s.forward[x][i] \in DOMAIN model \cup {Nil}
        /\ kind = "hash" => \A i \in DOMAIN s.slot : IsInjective([j \in DOMAIN s.slot[i] |-> s.slot[i][j].key])
=============================================================================
