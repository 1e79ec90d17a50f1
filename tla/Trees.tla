------------------------------- MODULE Trees --------------------------------
(***************************************************************************)
(* The library's three red-black trees as state machines: RBTree           *)
(* (include/lib/rbtree.h), DosTree (dos_tree.h), IntervalTree              *)
(* (interval_tree.h).  s is the structure and model what it should hold:   *)
(* a map, a bag of keys, a set of intervals.                               *)
(***************************************************************************)
EXTENDS RedBlack, FiniteSets, FiniteSetsExt, Bags

Seqs == INSTANCE SequencesExt

CONSTANTS
    MapKeys,        \* keys of the map, numbers
    MapValues,
    DosKeys,        \* keys of the order-statistic tree, duplicates allowed
    MaxDos,         \* bound: nodes of the order-statistic tree
    Points,         \* end points of intervals
    MaxIvl,         \* bound: nodes of the interval tree
    MaxDeleted      \* bound: deletions from each of these two

VARIABLES kind, s, model

vars == <<kind, s, model>>

Kinds == {"map", "dos", "ivl"}
Intervals == {iv \in Points \X Points : iv[1] <= iv[2]}

NewAddress(t) == Cardinality(DOMAIN t.node) + 1

\* Addresses are not observable: between operations the nodes are numbered in key order.
Renumbered(t) ==
    LET order == InOrder(t, t.root)
        new(a) == IF a = Nil THEN Nil ELSE CHOOSE i \in DOMAIN order : order[i] = a
    IN  [t EXCEPT !.root = new(@),
                  !.node = [i \in DOMAIN order |->
                               LET e == @[order[i]] IN
                               [e EXCEPT !.left = new(@), !.right = new(@), !.parent = new(@)]]]

Entry(k, data, high) ==
    [key |-> k, data |-> data, high |-> high,
     left |-> Nil, right |-> Nil, parent |-> Nil, color |-> "RED"]
-----------------------------------------------------------------------------
(* Insertion: down from the root, link, recolor *)

\* The nodes from n down to where k belongs; a map stops at k itself.
RECURSIVE Path(_, _, _)
Path(t, n, k) ==
    IF n = Nil THEN <<>>
    ELSE IF t.kind = "map" /\ t.node[n].key = k THEN <<n>>
    ELSE <<n>> \o Path(t, IF k < t.node[n].key THEN Left(t, n) ELSE Right(t, n), k)

Link(t, e, path) ==
    LET a == NewAddress(t)
        u == [t EXCEPT !.node = [x \in DOMAIN @ \cup {a} |-> IF x = a THEN e ELSE @[x]]]
    IN  IF path = <<>> THEN InsertCase1([u EXCEPT !.root = a], a)
        ELSE LET p    == path[Len(path)]
                 side == IF e.key < t.node[p].key THEN "left" ELSE "right"
             IN  InsertCase1(Set(Set(u, p, side, a), a, "parent", p), a)

OnPath(path) == {path[i] : i \in DOMAIN path}

MapInsert(t, k, v) ==
    LET path == Path(t, t.root, k)
        last == path[Len(path)]
    IN  IF path # <<>> /\ t.node[last].key = k THEN Set(t, last, "data", v)
        ELSE Link(t, Entry(k, v, 0), path)

\* MUTANT: the subtrees' sizes are left to the rotations
DosInsertUncounted(t, k) == Link(t, Entry(k, 1, 0), Path(t, t.root, k))

DosInsert(t, k) ==
    LET path == Path(t, t.root, k)
        u == [t EXCEPT !.node = [a \in DOMAIN @ |->
                 IF a \in OnPath(path) THEN [@[a] EXCEPT !.data = @ + 1] ELSE @[a]]]
    IN  Link(u, Entry(k, 1, 0), path)

IvlInsert(t, low, high) ==
    LET path == Path(t, t.root, low)
        u == [t EXCEPT !.node = [a \in DOMAIN @ |->
                 IF a \in OnPath(path) THEN [@[a] EXCEPT !.data = Larger(high, @)] ELSE @[a]]]
    IN  Link(u, Entry(low, high, high), path)
-----------------------------------------------------------------------------
(* Look-up *)

RECURSIVE DosLookup(_, _, _)
DosLookup(t, n, i) ==
    IF n = Nil THEN Nil
    ELSE LET size == Data(t, Left(t, n), 0) + 1 IN
         IF i = size THEN n
         ELSE IF i < size THEN DosLookup(t, Left(t, n), i)
         ELSE DosLookup(t, Right(t, n), i - size)

RECURSIVE IvlLookupFrom(_, _, _, _)
IvlLookupFrom(t, n, low, high) ==
    IF n = Nil THEN Nil
    ELSE IF low <= t.node[n].high /\ t.node[n].key <= high THEN n
    ELSE IF Left(t, n) # Nil /\ low <= Data(t, Left(t, n), NoHigh)
         THEN IvlLookupFrom(t, Left(t, n), low, high)
         ELSE IvlLookupFrom(t, Right(t, n), low, high)

IvlLookup(t, low, high) == IvlLookupFrom(t, t.root, low, high)

MapLookup(t, k) ==
    LET path == Path(t, t.root, k)
    IN  IF path # <<>> /\ t.node[path[Len(path)]].key = k THEN path[Len(path)] ELSE Nil
-----------------------------------------------------------------------------
(* Deletion: a node with two children takes over its predecessor's content *)

Inner(t, n) == Left(t, n) # Nil /\ Right(t, n) # Nil

Copied(t, n, fields) ==
    LET pred == MaximumNode(t, Left(t, n))
    IN  [t EXCEPT !.node[n] = [f \in DOMAIN @ |-> IF f \in fields THEN t.node[pred][f] ELSE @[f]]]

Remove(t, n, fields) ==
    IF Inner(t, n) THEN Unlink(Copied(t, n, fields), MaximumNode(t, Left(t, n))) ELSE Unlink(t, n)

MapDelete(t, k) ==
    LET n == MapLookup(t, k) IN IF n = Nil THEN t ELSE Remove(t, n, {"key", "data"})

\* fixup_size counts n out of its ancestors; its own size becomes its predecessor's.
RECURSIVE Ancestors(_, _)
Ancestors(t, n) == IF Parent(t, n) = Nil THEN {} ELSE {Parent(t, n)} \cup Ancestors(t, Parent(t, n))

DosDelete(t, n) ==
    LET above == Ancestors(t, n)
        u == [t EXCEPT !.node = [a \in DOMAIN @ |->
                 IF a \in above THEN [@[a] EXCEPT !.data = @ - 1] ELSE @[a]]]
    IN  Remove(u, n, {"key", "data"})

\* fixup_m: m is the value that may have to go, new the one that comes up from n.
RECURSIVE FixupFrom(_, _, _, _)
FixupFrom(t, n, m, new) ==
    IF Parent(t, n) = Nil THEN t
    ELSE LET p == Parent(t, n)
             v == Larger(t.node[p].high, Larger(new, Data(t, Sibling(t, n), NoHigh)))
             u == Set(t, p, "data", v)
         IN  IF v > m THEN u ELSE FixupFrom(u, p, m, new)

FixupM(t, n) ==
    LET new == Larger(Data(t, Left(t, n), NoHigh), Data(t, Right(t, n), NoHigh))
    IN  IF t.node[n].data = new THEN t ELSE FixupFrom(t, n, t.node[n].data, new)

IvlDelete(t, n) == IF n = Nil THEN t ELSE Remove(FixupM(t, n), n, {"key", "high"})
-----------------------------------------------------------------------------
(* Every sequence of operations *)

Init ==
    /\ kind \in Kinds
    /\ s = EmptyTree(kind)
    /\ model = [deleted |-> 0,
                held |-> IF kind = "ivl" THEN {} ELSE [k \in {} |-> 0]]

Hold(h) == model' = [model EXCEPT !.held = h]
Drop(h) == model' = [deleted |-> model.deleted + 1, held |-> h]

InsertIntoMap(k, v) ==
    /\ kind = "map"
    /\ s' = Renumbered(MapInsert(s, k, v))
    /\ Hold([x \in DOMAIN model.held \cup {k} |-> IF x = k THEN v ELSE model.held[x]])
    /\ UNCHANGED kind

DeleteFromMap(k) ==
    /\ kind = "map"
    /\ s' = Renumbered(MapDelete(s, k))
    /\ Hold([x \in DOMAIN model.held \ {k} |-> model.held[x]])
    /\ UNCHANGED kind

InsertIntoDos(k) ==
    /\ kind = "dos" /\ BagCardinality(model.held) < MaxDos
    /\ s' = Renumbered(DosInsert(s, k))
    /\ Hold(model.held (+) SetToBag({k}))
    /\ UNCHANGED kind

DeleteFromDos(n) ==
    /\ kind = "dos" /\ model.deleted < MaxDeleted
    /\ s' = Renumbered(DosDelete(s, n))
    /\ Drop(model.held (-) SetToBag({s.node[n].key}))
    /\ UNCHANGED kind

InsertIntoIvl(iv) ==
    /\ kind = "ivl" /\ Cardinality(model.held) < MaxIvl /\ iv \notin model.held
    /\ s' = Renumbered(IvlInsert(s, iv[1], iv[2]))
    /\ Hold(model.held \cup {iv})
    /\ UNCHANGED kind

\* The caller deletes what lookup has found.
DeleteFromIvl(iv) ==
    LET n == IvlLookup(s, iv[1], iv[2]) IN
    /\ kind = "ivl" /\ n # Nil /\ model.deleted < MaxDeleted
    /\ s' = Renumbered(IvlDelete(s, n))
    /\ Drop(model.held \ {<<s.node[n].key, s.node[n].high>>})
    /\ UNCHANGED kind

Next ==
    \/ \E k \in MapKeys : (\E v \in MapValues : InsertIntoMap(k, v)) \/ DeleteFromMap(k)
    \/ \E k \in DosKeys : InsertIntoDos(k)
    \/ \E n \in DOMAIN s.node : DeleteFromDos(n)
    \/ \E iv \in Intervals : InsertIntoIvl(iv) \/ DeleteFromIvl(iv)

Spec == Init /\ [][Next]_vars
-----------------------------------------------------------------------------
Held ==
    CASE kind = "map" -> [k \in {s.node[n].key : n \in DOMAIN s.node} |->
                             s.node[CHOOSE n \in DOMAIN s.node : s.node[n].key = k].data]
      [] kind = "dos" -> [k \in {s.node[n].key : n \in DOMAIN s.node} |->
                             Cardinality({n \in DOMAIN s.node : s.node[n].key = k})]
      [] OTHER        -> {<<s.node[n].key, s.node[n].high>> : n \in DOMAIN s.node}

\* Whatever is inserted and deleted, each tree holds exactly its entries and is
\* red-black: ordered, linked both ways, no red node under a red one, as many
\* black nodes on every way down.
TreesAgree == kind \in Kinds => Held = model.held /\ IsRedBlack(s)

\* index(i) gives the i-th smallest key, where dos_tree.h:13 and 157 say the i-th largest:
\* the one with fewer than i keys below it.
Ranked(i, k) ==
    LET below(x) == {j \in DOMAIN model.held : j < x}
        count(set) == MapThenSumSet(LAMBDA j : model.held[j], set)
    IN  count(below(k)) < i /\ i <= count(below(k)) + model.held[k]

Overlaps(x, iv) == x[1] <= iv[2] /\ iv[1] <= x[2]

\* A deletion does not leave the sizes and highs right: a node takes its predecessor's size
\* over with the key (dos_tree.h:112), keeps its high (interval_tree.h:127-130), and the
\* rotations of a deletion count the node that goes.  These are a few operations after
\* which an index is missed, and an overlap that "lookup & delete & insert schema to get
\* multiple elements" (interval_tree.h:58) should find.
RankIsLost ==
    LET t == Seqs!FoldLeft(LAMBDA u, k : DosInsert(u, k), EmptyTree("dos"), <<1, 2, 3, 4>>)
        u == DosDelete(t, t.root)
    IN  \E i \in 1 .. 3 : DosLookup(u, u.root, i) = Nil

OverlapIsLost ==
    LET t == Seqs!FoldLeft(LAMBDA u, iv : IvlInsert(u, iv[1], iv[2]), EmptyTree("ivl"),
                           <<<<1, 3>>, <<1, 1>>, <<1, 2>>, <<1, 4>>>>)
        first == IvlLookup(t, 3, 3)
        u == IvlDelete(t, first)
    IN  t.node[first].high = 3 /\ IvlLookup(u, 3, 3) = Nil

\* index(i) finds a key that is held, lookup an interval that is and that overlaps.  As long
\* as nothing was deleted they also find the right one: index(i) the i-th smallest key and
\* NULL outside 1 .. n, lookup an overlap whenever there is one, through every rotation.
\* Once a node has been deleted both may miss.
AugmentedSearch ==
    /\ kind = "dos" => \A i \in 0 .. MaxDos + 1 :
          LET n == DosLookup(s, s.root, i)
          IN  /\ n # Nil => s.node[n].key \in DOMAIN model.held
              /\ model.deleted = 0 =>
                    IF i \in 1 .. BagCardinality(model.held) THEN n # Nil /\ Ranked(i, s.node[n].key) ELSE n = Nil
    /\ kind = "ivl" => \A iv \in Intervals :
          LET n == IvlLookup(s, iv[1], iv[2])
          IN  /\ n # Nil => LET found == <<s.node[n].key, s.node[n].high>>
                            IN  found \in model.held /\ Overlaps(found, iv)
              /\ model.deleted = 0 /\ n = Nil => \A x \in model.held : ~Overlaps(x, iv)
    /\ DOMAIN s.node = {} => RankIsLost /\ OverlapIsLost
=============================================================================
