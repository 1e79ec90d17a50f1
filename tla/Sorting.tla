------------------------------ MODULE Sorting -------------------------------
(***************************************************************************)
(* The library's sorting and selection (include/lib/insertion_sort.h,      *)
(* merge_sort.h, quick_sort.h, radix_sort.h, random_select.h, shuffle.h,   *)
(* and choose_pivot and remove_dup of generic.h).  An algorithm that calls *)
(* rand() is the set of its outcomes.  s is the input, model the outcome.  *)
(***************************************************************************)
EXTENDS Integers, Sequences, FiniteSets, SequencesExt, LibraryState

CONSTANTS
    Values,         \* array elements, numbers
    MaxLength,      \* bound: length of an array
    RADIX,          \* values of a radix digit, 256 in the code
    MaxRadixLength  \* bound: length of an array for radix_sort

ASSUME ValuesAssumption == Values \subseteq Nat
ASSUME LengthsAssumption == MaxLength \in Nat /\ MaxRadixLength \in Nat
ASSUME RadixAssumption == RADIX \in Nat \ {0}

SortingKinds == {"insertion", "merge", "quick", "radix", "select", "shuffle", "dedup"}

\* Arrays are indexed from 0.
Length(a) == Cardinality(DOMAIN a)
Arrays(values, max) == UNION {[0 .. n - 1 -> values] : n \in 0 .. max}
Swapped(a, i, j) == [a EXCEPT ![i] = a[j], ![j] = a[i]]

\* The arrays a sort may be called with when it was first called with a, and the ranges.
Contents(a) == [DOMAIN a -> Values]
Calls(a) == [a : Contents(a), begin : 0 .. Length(a), end : -1 .. Length(a) - 1]
Call(a, begin, end) == [a |-> a, begin |-> begin, end |-> end]
-----------------------------------------------------------------------------
\* a[iter] goes behind the last element before it that is not larger.
InsertInto(a, iter) ==
    LET below == {j \in 0 .. iter - 1 : a[j] <= a[iter]}
        hole == IF below = {} THEN 0 ELSE 1 + CHOOSE j \in below : \A k \in below : k <= j
    IN  [i \in DOMAIN a |-> IF i = hole THEN a[iter]
                            ELSE IF hole < i /\ i <= iter THEN a[i - 1] ELSE a[i]]

\* turn[n]: the first n elements are in order.
InsertionSort(a) ==
    LET turn[n \in 0 .. Length(a)] == IF n <= 1 THEN a ELSE InsertInto(turn[n - 1], n - 1)
    IN  turn[Length(a)]

\* __merge: of equal elements the right part's comes first.
FromLeft(a, mid, right, c) == c.lpos <= mid /\ (c.rpos <= right => a[c.lpos] < a[c.rpos])
Taken(a, mid, right, c) == IF FromLeft(a, mid, right, c) THEN c.lpos ELSE c.rpos

\* turn[pos]: where the two parts stand when pos elements are copied.
Merge(a, left, mid, right) ==
    LET turn[pos \in 0 .. right - left + 1] ==
            IF pos = 0 THEN [lpos |-> left, rpos |-> mid + 1]
            ELSE LET c == turn[pos - 1] IN
                 IF FromLeft(a, mid, right, c) THEN [lpos |-> c.lpos + 1, rpos |-> c.rpos]
                 ELSE [lpos |-> c.lpos, rpos |-> c.rpos + 1]
    IN  [i \in DOMAIN a |-> IF left <= i /\ i <= right THEN a[Taken(a, mid, right, turn[i - left])] ELSE a[i]]

MergeSort(a) ==
    LET sort[c \in Calls(a)] ==
            IF c.begin >= c.end THEN c.a
            ELSE LET mid == (c.begin + c.end) \div 2
                     low == sort[Call(c.a, c.begin, mid)]
                 IN  Merge(sort[Call(low, mid + 1, c.end)], c.begin, mid, c.end)
    IN  sort[Call(a, 0, Length(a) - 1)]
-----------------------------------------------------------------------------
\* choose_pivot never takes the last index.
ChoosePivot(i, j) == i .. j - 1

\* i stops at the next element above the pivot, j at the next one that is not.
ExchangeOnce(t, begin, end) ==
    LET pivot == t.a[begin]
        up == CHOOSE x \in t.i .. end + 1 :
                 (x > end \/ t.a[x] > pivot) /\ \A y \in t.i .. x - 1 : t.a[y] <= pivot
        down == CHOOSE x \in begin - 1 .. t.j :
                   (x < begin \/ t.a[x] <= pivot) /\ \A y \in x + 1 .. t.j : t.a[y] > pivot
    IN  [a |-> IF up < down THEN Swapped(t.a, up, down) ELSE t.a, i |-> up, j |-> down]

\* From the second turn on both move: there are no more turns than elements.
Exchange(a, begin, end) ==
    LET turn[n \in 0 .. end - begin + 1] ==
            IF n = 0 THEN [a |-> a, i |-> begin + 1, j |-> end]
            ELSE LET t == turn[n - 1] IN IF t.i > t.j THEN t ELSE ExchangeOnce(t, begin, end)
    IN  turn[end - begin + 1]

\* The outcomes: the array, and where the pivot ended.
Partition(a, begin, end) ==
    {LET t == Exchange(Swapped(a, begin, p), begin, end)
     IN  [a |-> Swapped(t.a, begin, t.j), at |-> t.j] : p \in ChoosePivot(begin, end)}

\* MUTANT: the part behind the pivot is left as it is
QuickSortLeft(a) ==
    LET sort[c \in Calls(a)] ==
            IF c.begin >= c.end THEN {c.a}
            ELSE UNION {sort[Call(r.a, c.begin, r.at - 1)] : r \in Partition(c.a, c.begin, c.end)}
    IN  sort[Call(a, 0, Length(a) - 1)]

QuickSort(a) ==
    LET sort[c \in Calls(a)] ==
            IF c.begin >= c.end THEN {c.a}
            ELSE UNION {UNION {sort[Call(l, r.at + 1, c.end)] : l \in sort[Call(r.a, c.begin, r.at - 1)]} :
                           r \in Partition(c.a, c.begin, c.end)}
    IN  sort[Call(a, 0, Length(a) - 1)]

Searches(a) == [a : Contents(a), begin : 0 .. Length(a), end : -1 .. Length(a) - 1, k : 1 .. Length(a)]
Search(a, begin, end, k) == [a |-> a, begin |-> begin, end |-> end, k |-> k]

\* The outcomes: the array, and the index of the k-th smallest.
RandomSelect(a, k) ==
    LET select[c \in Searches(a)] ==
            IF c.begin = c.end THEN {[a |-> c.a, at |-> c.begin]}
            ELSE UNION {LET human == r.at - c.begin + 1 IN
                        IF c.k = human THEN {r}
                        ELSE IF c.k < human THEN select[Search(r.a, c.begin, r.at - 1, c.k)]
                        ELSE select[Search(r.a, r.at + 1, c.end, c.k - human)] :
                            r \in Partition(c.a, c.begin, c.end)}
    IN  select[Search(a, 0, Length(a) - 1, k)]
-----------------------------------------------------------------------------
Weight[byte \in 0 .. 4] == IF byte = 0 THEN 1 ELSE RADIX * Weight[byte - 1]

\* __radix: counting the digits gives every element its place.
Radix(byte, a) ==
    LET digit(i) == (a[i] \div Weight[byte]) % RADIX
        place(i) == Cardinality({j \in DOMAIN a : digit(j) < digit(i)})
                  + Cardinality({j \in 0 .. i - 1 : digit(j) = digit(i)})
    IN  [p \in DOMAIN a |-> a[CHOOSE i \in DOMAIN a : place(i) = p]]

RadixSort(a) == Radix(3, Radix(2, Radix(1, Radix(0, a))))
-----------------------------------------------------------------------------
\* The outcomes of a swap of the element at i with one that is not behind it.
SwappedDown(outcomes, i) == {Swapped(r, i, j) : r \in outcomes, j \in 0 .. i}

\* turn[n]: the outcomes when i has come down to Length(a) - n + 1.
Shuffle(a) ==
    LET turn[n \in 0 .. Length(a)] ==
            IF n <= 1 THEN {a} ELSE SwappedDown(turn[n - 1], Length(a) - n + 1)
    IN  turn[Length(a)]

\* Every element equal to q[i] found behind it is closed over, and the one that moves
\* up to its place is not looked at again.
Closed(q, i, j) == IF j <= Len(q) /\ q[j] = q[i] THEN RemoveAt(q, j) ELSE q
Drop(q, i) ==
    LET turn[j \in 0 .. Len(q)] == IF j <= i THEN q ELSE Closed(turn[j - 1], i, j)
    IN  turn[Len(q)]

Dedup(q) ==
    LET turn[i \in 0 .. Len(q)] == IF i = 0 THEN q ELSE Drop(turn[i - 1], i)
    IN  turn[Len(q)]

RemoveDup(a) ==
    LET q == Dedup([i \in 1 .. Length(a) |-> a[i - 1]])
    IN  [i \in 0 .. Len(q) - 1 |-> q[i + 1]]
-----------------------------------------------------------------------------
Plain(a) == [a |-> a, at |-> 0]

Outcomes(input) ==
    LET a == input.a IN
    CASE kind = "insertion" -> {Plain(InsertionSort(a))}
      [] kind = "merge"     -> {Plain(MergeSort(a))}
      [] kind = "quick"     -> {Plain(r) : r \in QuickSort(a)}
      [] kind = "radix"     -> {Plain(RadixSort(a))}
      [] kind = "select"    -> RandomSelect(a, input.k)
      [] kind = "shuffle"   -> {Plain(r) : r \in Shuffle(a)}
      [] OTHER              -> {Plain(RemoveDup(a))}

Inputs == IF kind = "radix" THEN Arrays(0 .. Weight[4] - 1, MaxRadixLength) ELSE Arrays(Values, MaxLength)

SortingInit ==
    /\ kind \in SortingKinds
    /\ \E a \in Inputs :
       \E k \in IF kind = "select" THEN 1 .. Length(a) ELSE {1} : s = [a |-> a, k |-> k]
    /\ model = <<>>

Run ==
    /\ kind \in SortingKinds /\ model = <<>>
    /\ \E r \in Outcomes(s) : model' = <<r>>
    /\ UNCHANGED <<kind, s>>

SortingNext == Run
SortingSpec == SortingInit /\ [][SortingNext]_part
-----------------------------------------------------------------------------
Count(a, v) == Cardinality({i \in DOMAIN a : a[i] = v})
IsPermutation(a, b) == DOMAIN a = DOMAIN b /\ \A i \in DOMAIN a : Count(a, a[i]) = Count(b, a[i])

\* Whatever the coin says, sorting yields the input's elements in order, selection
\* the k-th smallest, shuffling a permutation; removing duplicates keeps every value,
\* and once only if no value occurs three times.
SortingIsRight ==
    (kind \in SortingKinds /\ model # <<>>) =>
        LET a == s.a  r == model[1] IN
        /\ kind # "dedup" => IsPermutation(a, r.a)
        /\ kind \in {"insertion", "merge", "quick", "radix"} =>
              \A i, j \in DOMAIN r.a : i < j => r.a[i] <= r.a[j]
        /\ kind = "select" =>
              /\ Cardinality({i \in DOMAIN a : a[i] < r.a[r.at]}) < s.k
              /\ Cardinality({i \in DOMAIN a : a[i] <= r.a[r.at]}) >= s.k
        /\ kind = "dedup" =>
              /\ {r.a[i] : i \in DOMAIN r.a} = {a[i] : i \in DOMAIN a}
              /\ (\A i \in DOMAIN a : Count(a, a[i]) <= 2) => \A i \in DOMAIN r.a : Count(r.a, r.a[i]) = 1
=============================================================================
