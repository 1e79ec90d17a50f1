------------------------------ MODULE RedBlack ------------------------------
(***************************************************************************)
(* The red-black core shared by the library's trees                        *)
(* (include/lib/rbtree_defs.h): rotations and the insert and delete cases. *)
(* A tree is [kind, root, node]: node maps an address to the node stored   *)
(* there.  The kind tells whose rotation callback is in force.             *)
(*   "map"  RBTree        nodes carry key, data                            *)
(*   "dos"  DosTree       nodes carry key, data = the subtree's size       *)
(*   "ivl"  IntervalTree  nodes carry key = low, high, data = the          *)
(*                        subtree's largest high                           *)
(***************************************************************************)
EXTENDS Integers, Sequences

Nil == 0

EmptyTree(kind) == [kind |-> kind, root |-> Nil, node |-> <<>>]

Set(t, n, field, v) == [t EXCEPT !.node[n] = [@ EXCEPT ![field] = v]]
Left(t, n)   == t.node[n].left
Right(t, n)  == t.node[n].right
Parent(t, n) == t.node[n].parent
Data(t, n, none) == IF n = Nil THEN none ELSE t.node[n].data

Larger(a, b) == IF a > b THEN a ELSE b
\* INT_MIN
NoHigh == -1

Color(t, n) == IF n = Nil THEN "BLACK" ELSE t.node[n].color
Paint(t, n, c) == Set(t, n, "color", c)

Grandparent(t, n) == Parent(t, Parent(t, n))
Side(t, n) == IF n = Left(t, Parent(t, n)) THEN "left" ELSE "right"
Other(side) == IF side = "left" THEN "right" ELSE "left"
Sibling(t, n) == t.node[Parent(t, n)][Other(Side(t, n))]
Uncle(t, n) == Sibling(t, Parent(t, n))

\* What an order-statistic tree and an interval tree repair after n went down below up.
SizeCallback(t, n, up) ==
    LET u == Set(t, up, "data", Data(t, n, 0))
    IN  Set(u, n, "data", Data(u, Left(u, n), 0) + Data(u, Right(u, n), 0) + 1)

HighCallback(t, n, up) ==
    LET u == Set(t, up, "data", Data(t, n, 0))
    IN  Set(u, n, "data", Larger(u.node[n].high,
                                 Larger(Data(u, Left(u, n), NoHigh), Data(u, Right(u, n), NoHigh))))

RotateCallback(t, n, up) ==
    CASE t.kind = "dos" -> SizeCallback(t, n, up)
      [] t.kind = "ivl" -> HighCallback(t, n, up)
      [] OTHER          -> t

ReplaceNode(t, old, new) ==
    LET p == Parent(t, old)
        u == IF p = Nil THEN [t EXCEPT !.root = new] ELSE Set(t, p, Side(t, old), new)
    IN  IF new = Nil THEN u ELSE Set(u, new, "parent", p)

\* n goes down to the given side of its other child.
Rotate(t, n, side) ==
    LET up    == t.node[n][Other(side)]
        inner == t.node[up][side]
        u     == Set(ReplaceNode(t, n, up), n, Other(side), inner)
        w     == IF inner = Nil THEN u ELSE Set(u, inner, "parent", n)
    IN  RotateCallback(Set(Set(w, up, side, n), n, "parent", up), n, up)
-----------------------------------------------------------------------------
(* insert_case1 .. insert_case5: n is red and may have a red parent *)

InsertCase5(t, n) ==
    LET g == Grandparent(t, n)
        u == Paint(Paint(t, Parent(t, n), "BLACK"), g, "RED")
    IN  Rotate(u, g, IF Side(t, n) = "left" /\ Side(t, Parent(t, n)) = "left"
                     THEN "right" ELSE "left")

\* An inner grandchild becomes an outer one.
InsertCase4(t, n) ==
    LET p == Parent(t, n)
    IN  IF Side(t, n) = Side(t, p) THEN InsertCase5(t, n)
        ELSE LET u == Rotate(t, p, Other(Side(t, n)))
             IN  InsertCase5(u, u.node[n][Other(Side(t, n))])

RECURSIVE InsertCase1(_, _)
InsertCase3(t, n) ==
    IF Color(t, Uncle(t, n)) = "RED"
    THEN LET g == Grandparent(t, n)
             u == Paint(Paint(t, Parent(t, n), "BLACK"), Uncle(t, n), "BLACK")
         IN  InsertCase1(Paint(u, g, "RED"), g)
    ELSE InsertCase4(t, n)

InsertCase2(t, n) == IF Color(t, Parent(t, n)) = "BLACK" THEN t ELSE InsertCase3(t, n)

InsertCase1(t, n) ==
    IF Parent(t, n) = Nil THEN Paint(t, n, "BLACK") ELSE InsertCase2(t, n)
-----------------------------------------------------------------------------
(* delete_case1 .. delete_case6: n is black and about to go *)

Nephew(t, n, side) == t.node[Sibling(t, n)][side]
BlackNephews(t, n) ==
    /\ Color(t, Sibling(t, n)) = "BLACK"
    /\ \A side \in {"left", "right"} : Color(t, Nephew(t, n, side)) = "BLACK"

\* The sibling takes the parent's color and the parent goes down to n's side.
DeleteCase6(t, n) ==
    LET p   == Parent(t, n)
        far == Nephew(t, n, Other(Side(t, n)))
        u   == Paint(Paint(t, Sibling(t, n), Color(t, p)), p, "BLACK")
    IN  Rotate(Paint(u, far, "BLACK"), p, Side(t, n))

DeleteCase5(t, n) ==
    LET s    == Sibling(t, n)
        near == Nephew(t, n, Side(t, n))
    IN  IF /\ Color(t, s) = "BLACK" /\ Color(t, near) = "RED"
           /\ Color(t, Nephew(t, n, Other(Side(t, n)))) = "BLACK"
        THEN DeleteCase6(Rotate(Paint(Paint(t, s, "RED"), near, "BLACK"), s, Other(Side(t, n))), n)
        ELSE DeleteCase6(t, n)

DeleteCase4(t, n) ==
    IF Color(t, Parent(t, n)) = "RED" /\ BlackNephews(t, n)
    THEN Paint(Paint(t, Sibling(t, n), "RED"), Parent(t, n), "BLACK")
    ELSE DeleteCase5(t, n)

RECURSIVE DeleteCase1(_, _)
DeleteCase3(t, n) ==
    IF Color(t, Parent(t, n)) = "BLACK" /\ BlackNephews(t, n)
    THEN DeleteCase1(Paint(t, Sibling(t, n), "RED"), Parent(t, n))
    ELSE DeleteCase4(t, n)

\* MUTANT: a red sibling is not rotated away
DeleteCase2Skipped(t, n) == DeleteCase3(t, n)

DeleteCase2(t, n) ==
    LET p == Parent(t, n) IN
    IF Color(t, Sibling(t, n)) = "RED"
    THEN DeleteCase3(Rotate(Paint(Paint(t, p, "RED"), Sibling(t, n), "BLACK"), p, Side(t, n)), n)
    ELSE DeleteCase3(t, n)

DeleteCase1(t, n) == IF Parent(t, n) = Nil THEN t ELSE DeleteCase2(t, n)

RECURSIVE MaximumNode(_, _)
MaximumNode(t, n) == IF Right(t, n) = Nil THEN n ELSE MaximumNode(t, Right(t, n))

\* The end of every delete_key: n has at most one child, is unlinked and freed.
Unlink(t, n) ==
    LET child == IF Right(t, n) = Nil THEN Left(t, n) ELSE Right(t, n)
        u == IF Color(t, n) = "BLACK" THEN DeleteCase1(Paint(t, n, Color(t, child)), n) ELSE t
        w == ReplaceNode(u, n, child)
        x == IF Parent(w, n) = Nil /\ child # Nil THEN Paint(w, child, "BLACK") ELSE w
    IN  [x EXCEPT !.node = [a \in DOMAIN @ \ {n} |-> @[a]]]
-----------------------------------------------------------------------------
(* What makes a tree red-black *)

RECURSIVE InOrder(_, _)
InOrder(t, n) ==
    IF n = Nil THEN <<>> ELSE InOrder(t, Left(t, n)) \o <<n>> \o InOrder(t, Right(t, n))

RECURSIVE BlackHeights(_, _)
BlackHeights(t, n) ==
    IF n = Nil THEN {0}
    ELSE {h + (IF Color(t, n) = "BLACK" THEN 1 ELSE 0) :
             h \in BlackHeights(t, Left(t, n)) \cup BlackHeights(t, Right(t, n))}

IsRedBlack(t) ==
    LET s == InOrder(t, t.root) IN
    /\ {s[i] : i \in DOMAIN s} = DOMAIN t.node
    /\ Len(s) <= 1 \/ \A i \in 1 .. Len(s) - 1 : t.node[s[i]].key <= t.node[s[i + 1]].key
    /\ t.root = Nil \/ (Color(t, t.root) = "BLACK" /\ Parent(t, t.root) = Nil)
    /\ \A n \in DOMAIN t.node : \A c \in {Left(t, n), Right(t, n)} \ {Nil} :
          Parent(t, c) = n /\ (Color(t, n) = "BLACK" \/ Color(t, c) = "BLACK")
    /\ \E h \in 0 .. Len(s) : BlackHeights(t, t.root) = {h}
=============================================================================
