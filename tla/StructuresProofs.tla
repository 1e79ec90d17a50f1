-------------------------- MODULE StructuresProofs --------------------------
(***************************************************************************)
(* The structures of lists and arrays: the timer's wheel (Timer), the      *)
(* library's lists, queues and heaps (Queues), with any capacities and     *)
(* after any number of operations, and its sorting of arrays of any length *)
(* (Sorting).                                                              *)
(*                                                                         *)
(* The wheel keeps every node in the list that its expiry selects, through *)
(* every tick and every redistribution, and fires it in its tick.  First   *)
(* the arithmetic of a time's digits, then where a node is and what a tick *)
(* changes about that, then the lists themselves.                          *)
(*                                                                         *)
(* A linked list is a ring of cells that both walks pass through in order; *)
(* every operation on one replaces an arc of it.  The ring queue and the   *)
(* stack hold their elements at known indices.  The hole that the heap's   *)
(* loops move is seen as an array with the moving entry in the hole, of    *)
(* which every turn swaps two cells.                                       *)
(*                                                                         *)
(* A loop of a sort keeps what a turn keeps (Iterated); a call of one      *)
(* that calls itself does what it should if calls for smaller ranges do    *)
(* (Recursion, SizeInduction).  That an array is rearranged is said by an  *)
(* injection of its indices, and counting is left to the end.              *)
(***************************************************************************)
EXTENDS Timer, Queues, Sorting, Induction, FiniteSetTheorems

-----------------------------------------------------------------------------
(* The digits of a time *)

\* The recursion that defines Span.
LEMMA SpanFacts ==
    /\ Span[0] = TIME_NEAR
    /\ \A p \in 1 .. 4 : Span[p] = Span[p - 1] * TIME_LEVEL
    /\ \A p \in Parts : Span[p] \in Nat \ {0}
<1> DEFINE s0 == TIME_NEAR
           s1 == s0 * TIME_LEVEL
           s2 == s1 * TIME_LEVEL
           s3 == s2 * TIME_LEVEL
           s4 == s3 * TIME_LEVEL
           f == [p \in Parts |-> IF p = 0 THEN s0 ELSE IF p = 1 THEN s1 ELSE IF p = 2 THEN s2
                                 ELSE IF p = 3 THEN s3 ELSE s4]
           Is(g) == g = [p \in Parts |-> IF p = 0 THEN TIME_NEAR ELSE g[p - 1] * TIME_LEVEL]
<1>1. f[0] = s0 /\ f[1] = s1 /\ f[2] = s2 /\ f[3] = s3 /\ f[4] = s4
  BY DEF Parts
<1>2. \A p \in Parts : p # 0 => f[p - 1] * TIME_LEVEL = f[p]
  <2>1. \A p \in Parts : p = 0 \/ p = 1 \/ p = 2 \/ p = 3 \/ p = 4
    BY DEF Parts
  <2>2. f[1 - 1] = s0 /\ f[2 - 1] = s1 /\ f[3 - 1] = s2 /\ f[4 - 1] = s3
    BY <1>1
  <2> HIDE DEF f
  <2>3. QED
    BY <1>1, <2>1, <2>2
<1>3. Is(f)
  <2>1. f = [p \in Parts |-> f[p]] /\ f[0] = TIME_NEAR
    BY <1>1
  <2> HIDE DEF f
  <2>2. QED
    BY <1>2, <2>1
<1> HIDE DEF f
<1>4. Is(Span)
  <2>1. Span = CHOOSE g : Is(g)
    BY DEF Span
  <2> HIDE DEF Is
  <2>2. QED
    BY <1>3, <2>1
<1>5. Span[0] = TIME_NEAR /\ \A p \in 1 .. 4 : Span[p] = Span[p - 1] * TIME_LEVEL
  <2>1. 0 \in Parts /\ \A p \in 1 .. 4 : p \in Parts /\ p # 0
    BY DEF Parts
  <2>2. QED
    BY <1>4, <2>1
<1>6. \A a \in Nat \ {0} : a * TIME_LEVEL \in Nat \ {0}
  BY ListsAssumption
<1>7. /\ Span[1] = Span[0] * TIME_LEVEL /\ Span[2] = Span[1] * TIME_LEVEL
      /\ Span[3] = Span[2] * TIME_LEVEL /\ Span[4] = Span[3] * TIME_LEVEL
  BY <1>5
<1>8. Span[0] \in Nat \ {0}
  BY <1>5, ListsAssumption
<1>9. Span[1] \in Nat \ {0}
  BY <1>6, <1>7, <1>8
<1>10. Span[2] \in Nat \ {0}
  BY <1>6, <1>7, <1>9
<1>11. Span[3] \in Nat \ {0}
  BY <1>6, <1>7, <1>10
<1>12. Span[4] \in Nat \ {0}
  BY <1>6, <1>7, <1>11
<1>13. \A p \in Parts : p = 0 \/ p = 1 \/ p = 2 \/ p = 3 \/ p = 4
  BY DEF Parts
<1>14. QED
  BY <1>5, <1>8, <1>9, <1>10, <1>11, <1>12, <1>13

\* Cutting off b and then c is cutting off b * c.
LEMMA DivisionNested ==
    ASSUME NEW a \in Nat, NEW b \in Nat \ {0}, NEW c \in Nat \ {0}
    PROVE  a \div (b * c) = (a \div b) \div c
OBVIOUS

\* Division keeps the order.
LEMMA DivisionMonotone ==
    ASSUME NEW a \in Nat, NEW c \in Nat, NEW b \in Nat \ {0}, a <= c
    PROVE  a \div b <= c \div b
OBVIOUS

\* A quotient changes at the multiples only, and by one.
LEMMA DivisionNext ==
    ASSUME NEW a \in Nat, NEW b \in Nat \ {0}, (a + 1) \div b # a \div b
    PROVE  (a + 1) % b = 0 /\ (a + 1) \div b = (a \div b) + 1
OBVIOUS

\* Of two numbers with one quotient, the smaller has the smaller remainder.
LEMMA DivisionSame ==
    ASSUME NEW a \in Nat, NEW c \in Nat, NEW b \in Nat \ {0}, a \div b = c \div b, a < c
    PROVE  a % b < c % b
OBVIOUS

\* Quotient and remainder tell which number it is.
LEMMA DivisionEqual ==
    ASSUME NEW a \in Nat, NEW c \in Nat, NEW b \in Nat \ {0}, a \div b = c \div b, a % b = c % b
    PROVE  a = c
OBVIOUS

\* A multiple is divided without a remainder.
LEMMA DivisionMultiple ==
    ASSUME NEW k \in Nat, NEW b \in Nat \ {0}
    PROVE  (b * k) \div b = k /\ (b * k) % b = 0
OBVIOUS

\* A multiple of b * c is one of b, and its quotient is one of c.
LEMMA DivisionZero ==
    ASSUME NEW a \in Nat, NEW b \in Nat \ {0}, NEW c \in Nat \ {0}, a % (b * c) = 0
    PROVE  a % b = 0 /\ (a \div b) % c = 0
<1> DEFINE d == b * c
           k == a \div d
<1>1. d \in Nat \ {0} /\ a % d = 0
  OBVIOUS
<1>2. k \in Nat /\ a = d * k
  <2> HIDE DEF d
  <2>1. QED
    BY <1>1, Division
<1> HIDE DEF k
<1>3. c * k \in Nat /\ a = b * (c * k)
  BY <1>2
<1>4. a \div b = c * k /\ a % b = 0
  BY <1>3, DivisionMultiple
<1>5. (c * k) % c = 0
  BY <1>2, DivisionMultiple
<1>6. QED
  BY <1>4, <1>5

\* The part of a time is the lowest in whose block it is.
LEMMA PartFacts ==
    ASSUME NEW t, NEW c
    PROVE  /\ Part(t, c) \in Parts
           /\ Part(t, c) # 4 => SameBlock(Part(t, c), t, c)
           /\ \A q \in 0 .. 3 : q < Part(t, c) => ~SameBlock(q, t, c)
<1> DEFINE S(p) == SameBlock(p, t, c)
           Lowest(p) == p \in 0 .. 3 /\ S(p) /\ \A q \in 0 .. p - 1 : ~S(q)
<1>1. Part(t, c) = IF \E p \in 0 .. 3 : S(p) THEN CHOOSE p \in 0 .. 3 : S(p) /\ \A q \in 0 .. p - 1 : ~S(q) ELSE 4
  BY DEF Part
<1> HIDE DEF S
<1>2. CASE \E p \in 0 .. 3 : S(p)
  <2>1. \A p \in 0 .. 3 : p = 0 \/ p = 1 \/ p = 2 \/ p = 3
    OBVIOUS
  <2>2. (\A q \in 0 .. 0 - 1 : ~S(q)) /\ (~S(0) => \A q \in 0 .. 1 - 1 : ~S(q))
        /\ (~S(0) /\ ~S(1) => \A q \in 0 .. 2 - 1 : ~S(q))
        /\ (~S(0) /\ ~S(1) /\ ~S(2) => \A q \in 0 .. 3 - 1 : ~S(q))
    <3>1. \A q \in 0 .. 1 - 1 : q = 0
      OBVIOUS
    <3>2. \A q \in 0 .. 2 - 1 : q = 0 \/ q = 1
      OBVIOUS
    <3>3. \A q \in 0 .. 3 - 1 : q = 0 \/ q = 1 \/ q = 2
      OBVIOUS
    <3>4. \A q \in 0 .. 0 - 1 : FALSE
      OBVIOUS
    <3>5. QED
      BY <3>1, <3>2, <3>3, <3>4
  <2>3. S(0) \/ S(1) \/ S(2) \/ S(3)
    BY <1>2, <2>1
  <2>4. \E p \in 0 .. 3 : Lowest(p)
    <3>1. 0 \in 0 .. 3 /\ 1 \in 0 .. 3 /\ 2 \in 0 .. 3 /\ 3 \in 0 .. 3
      OBVIOUS
    <3>2. Lowest(0) \/ Lowest(1) \/ Lowest(2) \/ Lowest(3)
      BY <2>2, <2>3, <3>1
    <3> HIDE DEF Lowest
    <3>3. QED
      BY <3>1, <3>2
  <2>5. Lowest(Part(t, c))
    BY <1>1, <1>2, <2>4
  <2>6. Part(t, c) \in 0 .. 3 /\ S(Part(t, c)) /\ \A q \in 0 .. 3 : q < Part(t, c) => q \in 0 .. Part(t, c) - 1
    BY <2>5
  <2>7. QED
    BY <2>5, <2>6 DEF S, Parts
<1>3. CASE ~\E p \in 0 .. 3 : S(p)
  BY <1>1, <1>3 DEF S, Parts
<1>4. QED
  BY <1>2, <1>3

\* What a time's blocks tell: Block(p, t) is t with the digits of parts 0 to p cut off.
Block(p, t) == t \div Span[p]

\* A block is a number; from one part to the next it loses a digit.
LEMMA BlockFacts ==
    ASSUME NEW p \in Parts, NEW t \in Nat
    PROVE  /\ Block(p, t) \in Nat
           /\ p # 0 => Block(p, t) = Block(p - 1, t) \div TIME_LEVEL /\ Digit(p, t) = Block(p - 1, t) % TIME_LEVEL
<1>1. Span[p] \in Nat \ {0}
  BY SpanFacts
<1>2. Block(p, t) \in Nat
  BY <1>1, Division DEF Block
<1>3. ASSUME p # 0
      PROVE  Block(p, t) = Block(p - 1, t) \div TIME_LEVEL /\ Digit(p, t) = Block(p - 1, t) % TIME_LEVEL
  <2>1. p \in 1 .. 4 /\ p - 1 \in Parts
    BY <1>3 DEF Parts
  <2>2. Span[p] = Span[p - 1] * TIME_LEVEL /\ Span[p - 1] \in Nat \ {0}
    BY <2>1, SpanFacts
  <2>3. t \div (Span[p - 1] * TIME_LEVEL) = (t \div Span[p - 1]) \div TIME_LEVEL
    BY <2>2, ListsAssumption, DivisionNested
  <2>4. QED
    BY <1>3, <2>2, <2>3 DEF Block, Digit
<1>4. QED
  BY <1>2, <1>3

\* Times in one block are in one block of every higher part.
LEMMA BlockUp ==
    ASSUME NEW t \in Nat, NEW c \in Nat, NEW p \in Parts, NEW q \in Parts, q <= p, Block(q, t) = Block(q, c)
    PROVE  Block(p, t) = Block(p, c)
<1> DEFINE S(r) == Block(r, t) = Block(r, c)
<1>1. \A r \in Parts : r # 0 /\ S(r - 1) => S(r)
  BY BlockFacts
<1>2. (S(0) => S(1)) /\ (S(1) => S(2)) /\ (S(2) => S(3)) /\ (S(3) => S(4))
  <2>1. 1 \in Parts /\ 2 \in Parts /\ 3 \in Parts /\ 4 \in Parts /\ 1 - 1 = 0 /\ 2 - 1 = 1 /\ 3 - 1 = 2 /\ 4 - 1 = 3
    BY DEF Parts
  <2> HIDE DEF S
  <2>2. S(1 - 1) = S(0) /\ S(2 - 1) = S(1) /\ S(3 - 1) = S(2) /\ S(4 - 1) = S(3)
    BY <2>1
  <2>3. QED
    BY <1>1, <2>1, <2>2
<1>3. p \in 0 .. 4 /\ q \in 0 .. 4 /\ S(q)
  BY DEF Parts
<1> HIDE DEF S
<1>4. (p = 0 \/ p = 1 \/ p = 2 \/ p = 3 \/ p = 4) /\ (q = 0 \/ q = 1 \/ q = 2 \/ q = 3 \/ q = 4)
  BY <1>3
<1>5. S(p)
  BY <1>2, <1>3, <1>4
<1>6. QED
  BY <1>5 DEF S

\* A later time is in a later block, or in the same one.
LEMMA BlockMonotone ==
    ASSUME NEW t \in Nat, NEW c \in Nat, NEW p \in Parts, c <= t
    PROVE  Block(p, c) <= Block(p, t)
BY SpanFacts, DivisionMonotone DEF Block

\* A tick enters the next block at its first time only.
LEMMA BlockNext ==
    ASSUME NEW t \in Nat, NEW p \in Parts, Block(p, t + 1) # Block(p, t)
    PROVE  (t + 1) % Span[p] = 0 /\ Block(p, t + 1) = Block(p, t) + 1
BY SpanFacts, DivisionNext DEF Block

\* The times the wheel knows are in the first block of part 4.
LEMMA BlockTop == ASSUME NEW t \in Nat, t <= MaxTime PROVE Block(3, t) < TIME_LEVEL
<1>1. 3 \in Parts /\ Span[3] \in Nat \ {0} /\ Span[4] = Span[3] * TIME_LEVEL /\ Span[4] \in Nat
  <2>1. 3 \in Parts /\ 4 \in 1 .. 4 /\ 4 \in Parts /\ 4 - 1 = 3
    BY DEF Parts
  <2>2. Span[4] = Span[4 - 1] * TIME_LEVEL
    BY <2>1, SpanFacts
  <2>3. QED
    BY <2>1, <2>2, SpanFacts
<1>2. t < Span[3] * TIME_LEVEL
  BY <1>1, MaxTimeAssumption
<1>3. QED
  BY <1>1, <1>2, ListsAssumption, DivisionBelow DEF Block

\* SameBlock in terms of blocks.
LEMMA SameBlockIs == ASSUME NEW p, NEW t, NEW c PROVE SameBlock(p, t, c) <=> Block(p, t) = Block(p, c)
BY DEF SameBlock, Block

-----------------------------------------------------------------------------
(* Where a node is *)

\* Where a node is, seen from its expiry.
LEMMA PlaceFacts ==
    ASSUME NEW c \in Nat, NEW e \in Nat, c <= e, e <= MaxTime, NEW p, p = Part(e, c)
    PROVE  /\ p \in Parts /\ Block(p, e) = Block(p, c)
           /\ \A q \in Parts : q < p => Block(q, e) # Block(q, c)
           /\ p # 0 => Digit(p, e) > Digit(p, c) /\ Digit(p, c) \in Nat /\ Digit(p, e) \in 1 .. TIME_LEVEL - 1
           /\ Place(e, c) = IF p = 0 THEN <<0, e % TIME_NEAR>> ELSE <<p, Digit(p, e) - 1>>
<1>1. /\ p \in Parts
      /\ p # 4 => Block(p, e) = Block(p, c)
      /\ \A q \in Parts : q < p => Block(q, e) # Block(q, c)
  <2>1. \A q \in Parts : q < p /\ p \in Parts => q \in 0 .. 3
    BY DEF Parts
  <2>2. QED
    BY <2>1, PartFacts, SameBlockIs
<1>2. Block(4, e) = Block(4, c)
  <2>1. Block(3, e) < TIME_LEVEL /\ Block(3, c) < TIME_LEVEL
    BY BlockTop, MaxTimeAssumption
  <2>2. 3 \in Parts /\ 4 \in Parts /\ 4 # 0 /\ 4 - 1 = 3
    BY DEF Parts
  <2>3. /\ Block(3, e) \in Nat /\ Block(3, c) \in Nat
        /\ Block(4, e) = Block(3, e) \div TIME_LEVEL /\ Block(4, c) = Block(3, c) \div TIME_LEVEL
    <3>1. Block(4, e) = Block(4 - 1, e) \div TIME_LEVEL /\ Block(4, c) = Block(4 - 1, c) \div TIME_LEVEL
      BY <2>2, BlockFacts
    <3>2. QED
      BY <2>2, <3>1, BlockFacts
  <2>4. \A b \in Nat : b < TIME_LEVEL => b \div TIME_LEVEL = 0
    BY ListsAssumption
  <2>5. QED
    BY <2>1, <2>3, <2>4
<1>3. Block(p, e) = Block(p, c)
  BY <1>1, <1>2
<1>4. ASSUME p # 0
      PROVE  Digit(p, e) > Digit(p, c) /\ Digit(p, c) \in Nat /\ Digit(p, e) \in 1 .. TIME_LEVEL - 1
  <2> DEFINE a == Block(p - 1, c)
             b == Block(p - 1, e)
  <2>1. p - 1 \in Parts /\ p - 1 < p
    BY <1>1, <1>4 DEF Parts
  <2>2. a \in Nat /\ b \in Nat /\ a # b /\ a <= b
    BY <1>1, <2>1, BlockFacts, BlockMonotone
  <2>3. /\ Digit(p, e) = b % TIME_LEVEL /\ Digit(p, c) = a % TIME_LEVEL
        /\ a \div TIME_LEVEL = b \div TIME_LEVEL
    BY <1>1, <1>3, <1>4, BlockFacts
  <2> HIDE DEF a, b
  <2>4. TIME_LEVEL \in Nat \ {0} /\ a < b
    BY <2>2, ListsAssumption
  <2>5. a % TIME_LEVEL < b % TIME_LEVEL
    BY <2>2, <2>3, <2>4, DivisionSame
  <2>6. a % TIME_LEVEL \in 0 .. TIME_LEVEL - 1 /\ b % TIME_LEVEL \in 0 .. TIME_LEVEL - 1
    BY <2>2, <2>4, Division
  <2>7. QED
    BY <2>3, <2>4, <2>5, <2>6
<1>5. Place(e, c) = IF p = 0 THEN <<0, e % TIME_NEAR>> ELSE <<p, Digit(p, e) - 1>>
  BY DEF Place, Digit
<1>6. QED
  BY <1>1, <1>3, <1>4, <1>5

\* A node's list is one that there is.
LEMMA PlaceSlot ==
    ASSUME NEW c \in Nat, NEW e \in Nat, c <= e, e <= MaxTime
    PROVE  Place(e, c) \in Slots
<1> DEFINE p == Part(e, c)
           d == Digit(p, e)
<1>1. /\ p \in Parts
      /\ p # 0 => d \in 1 .. TIME_LEVEL - 1
      /\ Place(e, c) = IF p = 0 THEN <<0, e % TIME_NEAR>> ELSE <<p, d - 1>>
  BY PlaceFacts
<1> HIDE DEF p, d
<1>2. CASE p = 0
  <2>1. e % TIME_NEAR \in 0 .. TIME_NEAR - 1
    BY ListsAssumption, Division
  <2>2. QED
    BY <1>1, <1>2, <2>1 DEF Slots
<1>3. CASE p # 0
  <2>1. p \in 1 .. 4 /\ d - 1 \in 0 .. TIME_LEVEL - 2
    BY <1>1, <1>3, ListsAssumption DEF Parts
  <2>2. QED
    BY <1>1, <1>3, <2>1 DEF Slots
<1>4. QED
  BY <1>2, <1>3

\* The near list of a tick has the nodes that expire in it.
LEMMA PlaceNow ==
    ASSUME NEW c \in Nat, NEW e \in Nat, c <= e, e <= MaxTime
    PROVE  Place(e, c) = <<0, c % TIME_NEAR>> <=> e = c
<1> DEFINE p == Part(e, c)
<1>1. /\ p \in Parts /\ Block(p, e) = Block(p, c)
      /\ \A q \in Parts : q < p => Block(q, e) # Block(q, c)
      /\ Place(e, c) = IF p = 0 THEN <<0, e % TIME_NEAR>> ELSE <<p, Digit(p, e) - 1>>
  BY PlaceFacts
<1> HIDE DEF p
<1>2. ASSUME e = c PROVE p = 0
  <2>1. 0 \in Parts /\ (p # 0 => 0 < p)
    BY <1>1 DEF Parts
  <2>2. QED
    BY <1>1, <1>2, <2>1
<1>3. ASSUME p = 0, e % TIME_NEAR = c % TIME_NEAR PROVE e = c
  <2>1. e \div TIME_NEAR = c \div TIME_NEAR
    BY <1>1, <1>3, SpanFacts DEF Block
  <2>2. QED
    BY <1>3, <2>1, ListsAssumption, DivisionEqual
<1>4. QED
  BY <1>1, <1>2, <1>3

\* One part at most is due.
LEMMA CascadeOne ==
    ASSUME NEW t \in Nat, NEW p \in CascadePart(t), NEW q \in CascadePart(t)
    PROVE  p = q
<1> DEFINE Z(r) == t % Span[r] = 0
           D(r) == Digit(r, t) = 0
<1>1. ASSUME NEW r \in 1 .. 4, Z(r) PROVE Z(r - 1) /\ D(r)
  <2>1. r - 1 \in Parts /\ r \in Parts /\ r # 0
    BY DEF Parts
  <2>2. Span[r] = Span[r - 1] * TIME_LEVEL /\ Span[r - 1] \in Nat \ {0}
    BY <2>1, SpanFacts
  <2>3. t % (Span[r - 1] * TIME_LEVEL) = 0
    BY <1>1, <2>2
  <2>4. t % Span[r - 1] = 0 /\ (t \div Span[r - 1]) % TIME_LEVEL = 0
    BY <2>2, <2>3, ListsAssumption, DivisionZero
  <2>5. QED
    BY <2>1, <2>4 DEF Digit
<1>2. \A r \in CascadePart(t) : r \in 1 .. 4 /\ Z(r - 1) /\ ~D(r)
  BY DEF CascadePart
<1> HIDE DEF Z, D
<1>3. /\ Z(1) => Z(0) /\ D(1)
      /\ Z(2) => Z(1) /\ D(2)
      /\ Z(3) => Z(2) /\ D(3)
  <2>1. 1 \in 1 .. 4 /\ 2 \in 1 .. 4 /\ 3 \in 1 .. 4 /\ Z(1 - 1) = Z(0) /\ Z(2 - 1) = Z(1) /\ Z(3 - 1) = Z(2)
    OBVIOUS
  <2>2. QED
    BY <1>1, <2>1
<1>4. \A r \in CascadePart(t) :
         \/ r = 1 /\ Z(0) /\ ~D(1)
         \/ r = 2 /\ Z(1) /\ ~D(2)
         \/ r = 3 /\ Z(2) /\ ~D(3)
         \/ r = 4 /\ Z(3) /\ ~D(4)
  <2>1. \A r \in 1 .. 4 : r = 1 \/ r = 2 \/ r = 3 \/ r = 4
    OBVIOUS
  <2>2. Z(1 - 1) = Z(0) /\ Z(2 - 1) = Z(1) /\ Z(3 - 1) = Z(2) /\ Z(4 - 1) = Z(3)
    OBVIOUS
  <2>3. QED
    BY <1>2, <2>1, <2>2
<1>5. QED
  BY <1>3, <1>4

\* A tick leaves a node in its place, or redistributes the list that it is in.
LEMMA PlaceStep ==
    ASSUME NEW c \in Nat, NEW e \in Nat, c + 1 <= e, e <= MaxTime, Place(e, c + 1) # Place(e, c)
    PROVE  /\ Part(e, c) \in CascadePart(c + 1)
           /\ Place(e, c) = <<Part(e, c), Digit(Part(e, c), c + 1) - 1>>
<1> DEFINE n == c + 1
           p == Part(e, c)
           q == Part(e, n)
<1>1. n \in Nat /\ c <= n /\ n <= e /\ c <= e
  OBVIOUS
<1>2. /\ p \in Parts /\ Block(p, e) = Block(p, c)
      /\ \A r \in Parts : r < p => Block(r, e) # Block(r, c)
      /\ p # 0 => Digit(p, e) > Digit(p, c) /\ Digit(p, c) \in Nat /\ Digit(p, e) \in 1 .. TIME_LEVEL - 1
      /\ Place(e, c) = IF p = 0 THEN <<0, e % TIME_NEAR>> ELSE <<p, Digit(p, e) - 1>>
  BY <1>1, PlaceFacts
<1>3. /\ q \in Parts /\ Block(q, e) = Block(q, n)
      /\ \A r \in Parts : r < q => Block(r, e) # Block(r, n)
      /\ Place(e, n) = IF q = 0 THEN <<0, e % TIME_NEAR>> ELSE <<q, Digit(q, e) - 1>>
  <2> HIDE DEF n
  <2>1. QED
    BY <1>1, PlaceFacts
<1>4. \A r \in Parts : (Block(r, n) # Block(r, c) => n % Span[r] = 0)
  BY BlockNext
<1> HIDE DEF n, p, q
<1>5. q # p
  BY <1>2, <1>3 DEF n
<1>6. ~(q > p)
  <2>1. SUFFICES ASSUME q > p PROVE FALSE
    OBVIOUS
  <2>2. Block(p, c) <= Block(p, n) /\ Block(p, n) <= Block(p, e)
    BY <1>1, <1>2, BlockMonotone
  <2>3. Block(p, c) \in Nat /\ Block(p, n) \in Nat /\ Block(p, e) \in Nat
    BY <1>1, <1>2, BlockFacts
  <2>4. Block(p, n) = Block(p, e)
    BY <1>2, <2>2, <2>3
  <2>5. QED
    BY <1>2, <1>3, <2>1, <2>4
<1>7. p # 0 /\ p - 1 \in Parts /\ q <= p - 1 /\ p - 1 < p /\ p \in 1 .. 4
  BY <1>2, <1>3, <1>5, <1>6 DEF Parts
<1>8. Block(p - 1, e) = Block(p - 1, n)
  BY <1>1, <1>3, <1>7, BlockUp
<1>9. Block(p - 1, n) # Block(p - 1, c)
  BY <1>2, <1>7, <1>8
<1>10. n % Span[p - 1] = 0
  BY <1>4, <1>7, <1>9
<1>11. Digit(p, n) = Digit(p, e)
  BY <1>1, <1>2, <1>7, <1>8, BlockFacts
<1>12. Digit(p, n) # 0
  BY <1>2, <1>7, <1>11
<1>13. p \in CascadePart(n)
  BY <1>7, <1>10, <1>12 DEF CascadePart
<1>14. Place(e, c) = <<p, Digit(p, n) - 1>>
  BY <1>2, <1>7, <1>11
<1>15. QED
  BY <1>13, <1>14 DEF n, p

-----------------------------------------------------------------------------
(* Nodes in lists *)

\* All wheels.
Wheels == [Slots -> Seq(Node)]

\* A list has a node.
Listed(w, slot, x) == \E k \in DOMAIN w[slot] : w[slot][k] = x

\* In a list, nodes of one tick are in the order in which they were set.
InOrder(list) == \A k, l \in DOMAIN list : k < l /\ list[k].expire = list[l].expire => list[k].id < list[l].id

\* The wheel v is the wheel w with the first `number` nodes added.
IsAdded(v, w, nodes, number, c) ==
    /\ v \in Wheels
    /\ \A slot \in Slots : InOrder(v[slot])
    /\ \A slot \in Slots, x \in Node :
          Listed(v, slot, x) <=> Listed(w, slot, x) \/ \E k \in 1 .. number : nodes[k] = x /\ Place(x.expire, c) = slot

\* The nodes can be added: their lists are there, and they were set after those of their tick.
CanAdd(w, nodes, c) ==
    /\ w \in Wheels /\ nodes \in Seq(Node)
    /\ \A k \in DOMAIN nodes : Place(nodes[k].expire, c) \in Slots
    /\ \A slot \in Slots : InOrder(w[slot])
    /\ InOrder(nodes)
    /\ \A slot \in Slots, x \in Node : Listed(w, slot, x) =>
          \A k \in DOMAIN nodes : x.expire = nodes[k].expire => x.id < nodes[k].id

\* One node more.
LEMMA AddOne ==
    ASSUME NEW w, NEW nodes, NEW c, CanAdd(w, nodes, c),
           NEW number \in Nat, number + 1 \in DOMAIN nodes,
           NEW v, IsAdded(v, w, nodes, number, c)
    PROVE  IsAdded([v EXCEPT ![Place(nodes[number + 1].expire, c)] = Append(@, nodes[number + 1])],
                   w, nodes, number + 1, c)
<1> DEFINE y == nodes[number + 1]
           t == Place(y.expire, c)
           u == [v EXCEPT ![t] = Append(@, y)]
           n == Len(v[t])
<1>1. /\ nodes \in Seq(Node) /\ y \in Node /\ t \in Slots /\ v \in Wheels /\ v[t] \in Seq(Node)
      /\ DOMAIN nodes = 1 .. Len(nodes) /\ Len(nodes) \in Nat
  BY DEF CanAdd, IsAdded, Wheels
<1>2. Append(v[t], y) \in Seq(Node) /\ n \in Nat
  BY <1>1
<1>3. /\ u \in Wheels /\ u[t] = Append(v[t], y) /\ \A slot \in Slots : slot # t => u[slot] = v[slot]
  BY <1>1, <1>2 DEF Wheels
<1>4. /\ DOMAIN v[t] = 1 .. n /\ DOMAIN u[t] = 1 .. n + 1 /\ u[t][n + 1] = y
      /\ \A k \in 1 .. n : u[t][k] = v[t][k]
  BY <1>1, <1>3
<1>5. \A k \in DOMAIN v[t] : v[t][k] \in Node
  BY <1>1
<1>6. \A k \in 1 .. number : k \in DOMAIN nodes /\ k < number + 1
  BY <1>1
<1> HIDE DEF u, t, y, n
<1>7. ASSUME NEW k \in 1 .. n, v[t][k].expire = y.expire PROVE v[t][k].id < y.id
  <2>1. v[t][k] \in Node /\ Listed(v, t, v[t][k])
    BY <1>4, <1>5 DEF Listed
  <2>2. CASE Listed(w, t, v[t][k])
    BY <1>1, <1>7, <2>1, <2>2 DEF CanAdd, y
  <2>3. CASE \E l \in 1 .. number : nodes[l] = v[t][k]
    BY <1>6, <1>7, <2>3 DEF CanAdd, InOrder, y
  <2>4. QED
    BY <1>1, <2>1, <2>2, <2>3 DEF IsAdded
<1>8. InOrder(u[t])
  <2>1. SUFFICES ASSUME NEW k \in DOMAIN u[t], NEW l \in DOMAIN u[t], k < l, u[t][k].expire = u[t][l].expire
                 PROVE  u[t][k].id < u[t][l].id
    BY DEF InOrder
  <2>2. k \in 1 .. n /\ (l \in 1 .. n \/ l = n + 1)
    BY <1>2, <1>4, <2>1
  <2>3. CASE l = n + 1
    BY <1>4, <1>7, <2>1, <2>2, <2>3
  <2>4. CASE l \in 1 .. n
    <3>1. InOrder(v[t])
      BY <1>1 DEF IsAdded
    <3>2. QED
      BY <1>4, <2>1, <2>2, <2>4, <3>1 DEF InOrder
  <2>5. QED
    BY <2>2, <2>3, <2>4
<1>9. \A slot \in Slots : InOrder(u[slot])
  BY <1>3, <1>8 DEF IsAdded
<1>10. \A x : Listed(u, t, x) <=> Listed(v, t, x) \/ x = y
  <2>1. \A k : k \in 1 .. n + 1 <=> k \in 1 .. n \/ k = n + 1
    BY <1>2
  <2>2. QED
    BY <1>4, <2>1 DEF Listed
<1>11. \A x : \A slot \in Slots : slot # t => (Listed(u, slot, x) <=> Listed(v, slot, x))
  BY <1>3 DEF Listed
<1>12. \A k : k \in 1 .. number + 1 <=> k \in 1 .. number \/ k = number + 1
  OBVIOUS
<1>13. ASSUME NEW slot \in Slots, NEW x \in Node
       PROVE  Listed(u, slot, x) <=> Listed(w, slot, x) \/ \E k \in 1 .. number + 1 : nodes[k] = x /\ Place(x.expire, c) = slot
  <2>1. Listed(u, slot, x) <=> Listed(v, slot, x) \/ (x = y /\ slot = t)
    BY <1>10, <1>11
  <2>2. Listed(v, slot, x) <=> Listed(w, slot, x) \/ \E k \in 1 .. number : nodes[k] = x /\ Place(x.expire, c) = slot
    BY DEF IsAdded
  <2>3. (\E k \in 1 .. number + 1 : nodes[k] = x /\ Place(x.expire, c) = slot)
          <=> (\E k \in 1 .. number : nodes[k] = x /\ Place(x.expire, c) = slot) \/ (y = x /\ Place(x.expire, c) = slot)
    BY <1>12 DEF y
  <2>4. x = y /\ slot = t <=> y = x /\ Place(x.expire, c) = slot
    BY DEF t
  <2>5. QED
    BY <2>1, <2>2, <2>3, <2>4
<1>14. IsAdded(u, w, nodes, number + 1, c)
  BY <1>3, <1>9, <1>13 DEF IsAdded
<1>15. QED
  BY <1>14 DEF u, t, y

\* add_node of each of the nodes.
LEMMA AddFacts ==
    ASSUME NEW w, NEW nodes, NEW c, CanAdd(w, nodes, c)
    PROVE  IsAdded(AddNodes(w, nodes, c), w, nodes, Len(nodes), c)
<1> DEFINE size == Len(nodes)
           After(n, v) == [v EXCEPT ![Place(nodes[n].expire, c)] = Append(@, nodes[n])]
           S == Wheels
           F == [x \in (1 .. size) \X S |-> After(x[1], x[2])]
           added == CHOOSE g : g = [k \in 0 .. size |-> IF k = 0 THEN w ELSE After(k, g[k - 1])]
<1>1. size \in Nat /\ DOMAIN nodes = 1 .. size /\ w \in S /\ \A k \in 1 .. size : nodes[k] \in Node
  BY DEF CanAdd
<1>2. AddNodes(w, nodes, c) = added[size]
  BY DEF AddNodes
<1>3. \A n \in 1 .. size, v \in S : After(n, v) \in S
  <2>1. SUFFICES ASSUME NEW n \in 1 .. size, NEW v \in Wheels PROVE After(n, v) \in Wheels
    OBVIOUS
  <2> DEFINE t == Place(nodes[n].expire, c)
  <2>2. t \in Slots /\ nodes[n] \in Node
    BY <1>1 DEF CanAdd
  <2> HIDE DEF t
  <2>3. v[t] \in Seq(Node)
    BY <2>2 DEF Wheels
  <2>4. Append(v[t], nodes[n]) \in Seq(Node)
    BY <2>2, <2>3
  <2>5. [v EXCEPT ![t] = Append(@, nodes[n])] \in Wheels
    BY <2>2, <2>4 DEF Wheels
  <2>6. QED
    BY <2>5 DEF t
<1>4. F \in [(1 .. size) \X S -> S]
  <2> HIDE DEF size, S, After
  <2>1. \A x \in (1 .. size) \X S : After(x[1], x[2]) \in S
    BY <1>3
  <2>2. QED
    BY <2>1
<1>5. PICK f \in [0 .. size -> S] : Folds(f, w, F, size)
  <2> HIDE DEF S, F, size
  <2>1. QED
    BY <1>1, <1>4, Folded
<1>6. f[0] = w /\ \A n \in 1 .. size : f[n] = After(n, f[n - 1])
  <2> HIDE DEF size, S, After
  <2>1. f[0] = w /\ \A n \in 1 .. size : f[n] = F[<<n, f[n - 1]>>]
    <3> HIDE DEF F
    <3>1. QED
      BY <1>5 DEF Folds
  <2>2. ASSUME NEW n \in 1 .. size PROVE F[<<n, f[n - 1]>>] = After(n, f[n - 1])
    <3>1. n - 1 \in 0 .. size
      BY <1>1
    <3>2. <<n, f[n - 1]>> \in (1 .. size) \X S
      BY <3>1
    <3>3. QED
      BY <3>2
  <2>3. QED
    BY <2>1, <2>2
<1>7. f = [k \in 0 .. size |-> IF k = 0 THEN w ELSE After(k, f[k - 1])]
  <2> HIDE DEF size, S, After, F
  <2>1. \A k \in 0 .. size : k # 0 => k \in 1 .. size
    BY <1>1
  <2>2. f = [k \in 0 .. size |-> f[k]]
    BY <1>5
  <2>3. QED
    BY <1>6, <2>1, <2>2
<1>8. added = [k \in 0 .. size |-> IF k = 0 THEN w ELSE After(k, added[k - 1])]
  <2> HIDE DEF size, After
  <2>1. QED
    BY <1>7
<1> HIDE DEF added
<1> DEFINE T == {k \in Nat : k <= size => IsAdded(added[k], w, nodes, k, c)}
<1>9. 0 \in T
  <2>1. added[0] = w
    <3> HIDE DEF size, After
    <3>1. 0 \in 0 .. size
      BY <1>1
    <3>2. QED
      BY <1>8, <3>1
  <2>2. IsAdded(w, w, nodes, 0, c)
    BY DEF IsAdded, CanAdd
  <2>3. QED
    BY <2>1, <2>2
<1>10. ASSUME NEW k \in T PROVE k + 1 \in T
  <2>1. k \in Nat
    OBVIOUS
  <2>2. SUFFICES ASSUME k + 1 <= size PROVE IsAdded(added[k + 1], w, nodes, k + 1, c)
    BY <2>1
  <2>3. IsAdded(added[k], w, nodes, k, c) /\ k + 1 \in DOMAIN nodes
    BY <1>1, <2>1, <2>2
  <2>4. added[k + 1] = After(k + 1, added[k])
    <3>1. k + 1 \in 0 .. size /\ k + 1 # 0 /\ (k + 1) - 1 = k
      BY <1>1, <2>1, <2>2
    <3> HIDE DEF size, After
    <3>2. QED
      BY <1>8, <3>1
  <2>5. IsAdded(After(k + 1, added[k]), w, nodes, k + 1, c)
    BY <2>1, <2>3, AddOne
  <2>6. QED
    BY <2>4, <2>5
<1>11. size \in T
  <2>0. T \subseteq Nat
    OBVIOUS
  <2> HIDE DEF T, size
  <2>1. QED
    BY <1>1, <2>0, <1>9, <1>10, SetInduction
<1>12. QED
  BY <1>1, <1>2, <1>11

-----------------------------------------------------------------------------
(* The invariant *)

\* The inductive invariant.  WheelInv is its core; the ticks that are due are within the
\* bound, and nodes of one tick are in the order in which they were set.
TimerInv ==
    /\ wheel \in Wheels
    /\ m_time \in 0 .. MaxTime /\ due \in 0 .. MaxDiff /\ m_time + due <= MaxTime /\ count \in 0 .. MaxTimers
    /\ WheelInv
    /\ \A slot \in Slots : InOrder(wheel[slot])
    /\ \A slot \in Slots : \A n \in Nodes(slot) : n.id <= count

\* The nodes of a list are those listed in it.
LEMMA NodesFacts ==
    ASSUME wheel \in Wheels, NEW slot \in Slots
    PROVE  /\ \A x : x \in Nodes(slot) <=> Listed(wheel, slot, x)
           /\ \A x \in Nodes(slot) : x \in Node
BY DEF Nodes, Listed, Wheels

\* What a node's fields are.
LEMMA NodeFacts ==
    ASSUME NEW x \in Node
    PROVE  x.id \in 1 .. MaxTimers /\ x.expire \in Nat /\ x.expire <= MaxTime
BY MaxTimeAssumption DEF Node

\* What a tick makes of the lists but for the one that fired.
IsRedistributed(v, w, c) ==
    /\ v \in Wheels
    /\ \A slot \in Slots : InOrder(v[slot])
    /\ \A slot \in Slots, x \in Node : Listed(v, slot, x) => Place(x.expire, c + 1) = slot
    /\ \A x \in Node : (\E slot \in Slots : Listed(v, slot, x)) <=> (\E slot \in Slots : Listed(w, slot, x))

\* execute's redistribution (timer.h:212-231): the one list that is due is taken out and its nodes
\* are added again, which brings every node of the wheel to its place at the new time.
LEMMA RedistributeFacts ==
    ASSUME NEW w \in Wheels, NEW c \in Nat, c + 1 <= MaxTime,
           \A slot \in Slots : InOrder(w[slot]),
           \A slot \in Slots, x \in Node : Listed(w, slot, x) => x.expire >= c + 1 /\ Place(x.expire, c) = slot
    PROVE  IsRedistributed(Redistribute(w, c + 1), w, c)
<1> DEFINE n == c + 1
<1>1. n \in Nat /\ n <= MaxTime
  OBVIOUS
<1>2. ASSUME NEW slot \in Slots, NEW x \in Node, Listed(w, slot, x), Place(x.expire, n) # slot
      PROVE  Part(x.expire, c) \in CascadePart(n) /\ slot = <<Part(x.expire, c), Digit(Part(x.expire, c), n) - 1>>
  <2>1. x.expire \in Nat /\ x.expire <= MaxTime /\ c + 1 <= x.expire /\ Place(x.expire, c) = slot
    BY <1>2, NodeFacts
  <2>2. QED
    BY <1>2, <2>1, PlaceStep
<1>3. CASE CascadePart(n) = {}
  <2>1. Redistribute(w, n) = w
    BY <1>3 DEF Redistribute
  <2>2. QED
    BY <1>2, <1>3, <2>1 DEF IsRedistributed
<1>4. CASE CascadePart(n) # {}
  <2> DEFINE p == CHOOSE q \in CascadePart(n) : TRUE
             d == Digit(p, n)
             s0 == <<p, d - 1>>
             w0 == [w EXCEPT ![s0] = <<>>]
             v == AddNodes(w0, w[s0], n)
  <2>1. p \in CascadePart(n) /\ \A q \in CascadePart(n) : q = p
    BY <1>1, <1>4, CascadeOne
  <2>2. Redistribute(w, n) = v
    BY <1>4 DEF Redistribute
  <2> HIDE DEF p, v
  <2>3. s0 \in Slots
    <3>1. p \in 1 .. 4 /\ d # 0 /\ p \in Parts /\ p # 0
      BY <2>1 DEF CascadePart, Parts
    <3>2. p - 1 \in Parts
      BY <3>1 DEF Parts
    <3>3. d = Block(p - 1, n) % TIME_LEVEL /\ Block(p - 1, n) \in Nat
      <4> HIDE DEF n
      <4>1. QED
        BY <1>1, <3>1, <3>2, BlockFacts
    <3> HIDE DEF d
    <3>4. d \in 0 .. TIME_LEVEL - 1
      BY <3>3, ListsAssumption, Division
    <3>5. d - 1 \in 0 .. TIME_LEVEL - 2
      BY <3>1, <3>4, ListsAssumption
    <3>6. QED
      BY <3>1, <3>5 DEF Slots
  <2>4. \A slot \in Slots, x \in Node : Listed(w, slot, x) /\ Place(x.expire, n) # slot => slot = s0
    BY <1>2, <2>1
  <2> HIDE DEF s0
  <2>5. /\ w0 \in Wheels /\ w0[s0] = <<>> /\ \A slot \in Slots : slot # s0 => w0[slot] = w[slot]
    BY <2>3 DEF Wheels
  <2>6. w[s0] \in Seq(Node)
    BY <2>3 DEF Wheels
  <2> HIDE DEF w0
  <2>7. /\ \A x : ~Listed(w0, s0, x)
        /\ \A slot \in Slots : slot # s0 => \A x : Listed(w0, slot, x) <=> Listed(w, slot, x)
        /\ InOrder(w0[s0])
    BY <2>5 DEF Listed, InOrder
  <2>8. ASSUME NEW k \in DOMAIN w[s0]
        PROVE  /\ w[s0][k] \in Node /\ Listed(w, s0, w[s0][k])
               /\ Place(w[s0][k].expire, c) = s0 /\ Place(w[s0][k].expire, n) \in Slots
    <3>1. w[s0][k] \in Node /\ Listed(w, s0, w[s0][k])
      BY <2>6 DEF Listed
    <3>2. w[s0][k].expire \in Nat /\ w[s0][k].expire <= MaxTime
      BY <3>1, NodeFacts
    <3>3. n <= w[s0][k].expire /\ Place(w[s0][k].expire, c) = s0
      BY <2>3, <3>1
    <3> HIDE DEF n
    <3>4. Place(w[s0][k].expire, n) \in Slots
      BY <1>1, <3>2, <3>3, PlaceSlot
    <3>5. QED
      BY <3>1, <3>3, <3>4
  <2>9. CanAdd(w0, w[s0], n)
    <3>1. \A slot \in Slots, x \in Node : Listed(w0, slot, x) =>
             \A k \in DOMAIN w[s0] : x.expire = w[s0][k].expire => x.id < w[s0][k].id
      <4>1. SUFFICES ASSUME NEW slot \in Slots, NEW x \in Node, Listed(w0, slot, x), NEW k \in DOMAIN w[s0],
                            x.expire = w[s0][k].expire
                     PROVE  FALSE
        OBVIOUS
      <4>2. slot # s0 /\ Listed(w, slot, x)
        BY <2>7, <4>1
      <4>3. Place(x.expire, c) = slot
        BY <4>2
      <4>4. QED
        BY <2>8, <4>1, <4>2, <4>3
    <3>2. \A slot \in Slots : InOrder(w0[slot])
      BY <2>5, <2>7
    <3>3. InOrder(w[s0])
      BY <2>3
    <3>4. \A k \in DOMAIN w[s0] : Place(w[s0][k].expire, n) \in Slots
      BY <2>8
    <3> HIDE DEF n
    <3>5. QED
      BY <2>5, <2>6, <3>1, <3>2, <3>3, <3>4 DEF CanAdd
  <2>10. IsAdded(v, w0, w[s0], Len(w[s0]), n)
    <3> HIDE DEF n
    <3>1. QED
      BY <2>9, AddFacts DEF v
  <2>11. \A x : Listed(w, s0, x) <=> \E k \in 1 .. Len(w[s0]) : w[s0][k] = x
    BY <2>6 DEF Listed
  <2>12. \A slot \in Slots, x \in Node :
            Listed(v, slot, x) <=> (slot # s0 /\ Listed(w, slot, x)) \/ (Listed(w, s0, x) /\ Place(x.expire, n) = slot)
    <3> HIDE DEF n
    <3>1. \A slot \in Slots, x \in Node :
             Listed(v, slot, x) <=> Listed(w0, slot, x) \/ \E k \in 1 .. Len(w[s0]) : w[s0][k] = x /\ Place(x.expire, n) = slot
      BY <2>10 DEF IsAdded
    <3>2. QED
      BY <2>7, <2>11, <3>1
  <2>13. \A slot \in Slots, x \in Node : Listed(v, slot, x) => Place(x.expire, n) = slot
    BY <2>4, <2>12
  <2>14. \A x \in Node : Listed(w, s0, x) => Place(x.expire, n) \in Slots
    BY <2>8, <2>11, <2>6
  <2>15. \A x \in Node : (\E slot \in Slots : Listed(v, slot, x)) <=> (\E slot \in Slots : Listed(w, slot, x))
    <3> HIDE DEF n
    <3>1. QED
      BY <2>3, <2>12, <2>14
  <2>16. v \in Wheels /\ \A slot \in Slots : InOrder(v[slot])
    BY <2>10 DEF IsAdded
  <2>17. IsRedistributed(v, w, c)
    BY <2>13, <2>15, <2>16 DEF IsRedistributed
  <2>18. QED
    BY <2>2, <2>17
<1>5. QED
  BY <1>3, <1>4

\* The timers that wait.
Waiting == UNION {Nodes(slot) : slot \in Slots}

\* The timers that wait are those listed somewhere.
LEMMA WaitingFacts ==
    ASSUME wheel \in Wheels
    PROVE  /\ \A x : x \in Waiting <=> \E slot \in Slots : Listed(wheel, slot, x)
           /\ \A x \in Waiting : x \in Node
<1>1. \A x : x \in Waiting <=> \E slot \in Slots : x \in Nodes(slot)
  BY DEF Waiting
<1>2. QED
  BY <1>1, NodesFacts

\* What the invariant says of a node in a list.
LEMMA ListedFacts ==
    ASSUME TimerInv, NEW slot \in Slots, NEW x, Listed(wheel, slot, x)
    PROVE  /\ x \in Node /\ x.id \in 1 .. count /\ x.expire \in Nat /\ x.expire <= MaxTime
           /\ m_time <= x.expire /\ Place(x.expire, m_time) = slot
<1>1. x \in Nodes(slot) /\ x \in Node
  BY NodesFacts DEF TimerInv
<1>2. x.expire >= m_time /\ Place(x.expire, m_time) = slot /\ x.id <= count
  BY <1>1 DEF TimerInv, WheelInv
<1>3. x.id \in 1 .. MaxTimers /\ x.expire \in Nat /\ x.expire <= MaxTime /\ m_time \in Nat /\ count \in Nat
  BY <1>1, NodeFacts, BoundsAssumption, MaxTimeAssumption DEF TimerInv
<1>4. QED
  BY <1>1, <1>2, <1>3

\* The lists' part of the invariant, in terms of what is listed.
LEMMA TimerInvFrom ==
    ASSUME wheel \in Wheels,
           m_time \in 0 .. MaxTime, due \in 0 .. MaxDiff, m_time + due <= MaxTime, count \in 0 .. MaxTimers,
           \A slot \in Slots : InOrder(wheel[slot]),
           \A slot \in Slots, x \in Node : Listed(wheel, slot, x) =>
              x.expire >= m_time /\ Place(x.expire, m_time) = slot /\ x.id <= count
    PROVE  TimerInv
BY NodesFacts DEF TimerInv, WheelInv

\* The same about the lists after a step.
LEMMA TimerInvAfter ==
    ASSUME wheel' \in Wheels,
           m_time' \in 0 .. MaxTime, due' \in 0 .. MaxDiff, m_time' + due' <= MaxTime, count' \in 0 .. MaxTimers,
           \A slot \in Slots : InOrder(wheel'[slot]),
           \A slot \in Slots, x \in Node : Listed(wheel', slot, x) =>
              x.expire >= m_time' /\ Place(x.expire, m_time') = slot /\ x.id <= count'
    PROVE  TimerInv'
<1>1. \A slot \in Slots : \A x : x \in Nodes(slot)' <=> Listed(wheel', slot, x)
  <2>1. \A slot \in Slots : Nodes(slot)' = {wheel'[slot][i] : i \in DOMAIN wheel'[slot]}
    BY DEF Nodes
  <2>2. QED
    BY <2>1 DEF Listed
<1>2. \A slot \in Slots : \A x \in Nodes(slot)' : x \in Node
  BY <1>1 DEF Listed, Wheels
<1>3. WheelInv'
  BY <1>1, <1>2 DEF WheelInv
<1>4. QED
  BY <1>1, <1>2, <1>3 DEF TimerInv

\* The empty wheel of the constructor.
LEMMA TimerInit == ASSUME Init PROVE TimerInv /\ Waiting = {}
<1>1. wheel \in Wheels /\ \A slot \in Slots : wheel[slot] = <<>>
  BY DEF Init, Wheels
<1>2. \A slot \in Slots : InOrder(wheel[slot]) /\ \A x : ~Listed(wheel, slot, x)
  BY <1>1 DEF InOrder, Listed
<1>3. m_time = 0 /\ due = 0 /\ count = 0
  BY DEF Init
<1>4. TimerInv
  BY <1>1, <1>2, <1>3, MaxTimeAssumption, BoundsAssumption, TimerInvFrom
<1>5. QED
  BY <1>1, <1>2, <1>4, WaitingFacts

\* A tick: the lists keep the invariant, the timers of the tick are gone, and their messages
\* were pushed in the order of the timers.
LEMMA ExecuteStep == ASSUME TimerInv, Execute PROVE TimerInv' /\ Service!Tick
<1> DEFINE now == <<0, m_time % TIME_NEAR>>
           w == [wheel EXCEPT ![now] = <<>>]
           v == Redistribute(w, m_time + 1)
<1>1. /\ wheel \in Wheels /\ m_time \in Nat /\ m_time <= MaxTime
      /\ due \in 0 .. MaxDiff /\ m_time + due <= MaxTime /\ due > 0 /\ MaxDiff \in Nat /\ MaxTime \in Nat
      /\ \A slot \in Slots : InOrder(wheel[slot])
  BY MaxTimeAssumption, BoundsAssumption DEF TimerInv, Execute
<1>2. /\ due' = due - 1 /\ m_time' = m_time + 1 /\ wheel' = v /\ count' = count
      /\ fired' = [i \in DOMAIN wheel[now] |-> wheel[now][i].id]
  BY DEF Execute
<1>3. m_time + 1 <= MaxTime
  BY <1>1
<1>4. now \in Slots
  <2>1. m_time % TIME_NEAR \in 0 .. TIME_NEAR - 1
    BY <1>1, ListsAssumption, Division
  <2>2. QED
    BY <2>1 DEF Slots
<1>5. ASSUME NEW slot \in Slots, NEW x, Listed(wheel, slot, x)
      PROVE  slot = now <=> x.expire = m_time
  <2>1. x.expire \in Nat /\ x.expire <= MaxTime /\ m_time <= x.expire /\ Place(x.expire, m_time) = slot
    BY <1>5, ListedFacts
  <2>2. Place(x.expire, m_time) = <<0, m_time % TIME_NEAR>> <=> x.expire = m_time
    BY <1>1, <2>1, PlaceNow
  <2>3. QED
    BY <2>1, <2>2
<1> HIDE DEF now
<1>6. /\ w \in Wheels /\ w[now] = <<>> /\ \A slot \in Slots : slot # now => w[slot] = wheel[slot]
  BY <1>1, <1>4 DEF Wheels
<1> HIDE DEF w
<1>7. /\ \A x : ~Listed(w, now, x)
      /\ \A slot \in Slots : slot # now => \A x : Listed(w, slot, x) <=> Listed(wheel, slot, x)
      /\ InOrder(w[now])
  BY <1>6 DEF Listed, InOrder
<1>8. \A slot \in Slots, x \in Node : Listed(w, slot, x) => x.expire >= m_time + 1 /\ Place(x.expire, m_time) = slot
  <2>1. SUFFICES ASSUME NEW slot \in Slots, NEW x \in Node, Listed(w, slot, x)
                 PROVE  x.expire >= m_time + 1 /\ Place(x.expire, m_time) = slot
    OBVIOUS
  <2>2. slot # now /\ Listed(wheel, slot, x)
    BY <1>7, <2>1
  <2>3. x.expire \in Nat /\ m_time <= x.expire /\ Place(x.expire, m_time) = slot /\ x.expire # m_time
    BY <1>5, <2>2, ListedFacts
  <2>4. QED
    BY <1>1, <2>3
<1>9. IsRedistributed(v, w, m_time)
  <2>1. \A slot \in Slots : InOrder(w[slot])
    BY <1>1, <1>6, <1>7
  <2>2. QED
    BY <1>1, <1>3, <1>6, <1>8, <2>1, RedistributeFacts
<1> HIDE DEF v
<1>10. ASSUME NEW x PROVE (\E slot \in Slots : Listed(v, slot, x)) <=> (\E slot \in Slots : Listed(wheel, slot, x)) /\ x.expire # m_time
  <2>1. (\E slot \in Slots : Listed(wheel, slot, x)) => x \in Node
    BY ListedFacts
  <2>2. v \in Wheels
    BY <1>9 DEF IsRedistributed
  <2>3. (\E slot \in Slots : Listed(v, slot, x)) => x \in Node
    BY <2>2 DEF Listed, Wheels
  <2>4. x \in Node => ((\E slot \in Slots : Listed(v, slot, x)) <=> (\E slot \in Slots : Listed(w, slot, x)))
    BY <1>9 DEF IsRedistributed
  <2>5. (\E slot \in Slots : Listed(w, slot, x)) <=> (\E slot \in Slots : Listed(wheel, slot, x) /\ slot # now)
    BY <1>7
  <2>6. QED
    BY <1>5, <2>1, <2>3, <2>4, <2>5
<1>11. TimerInv'
  <2>1. \A slot \in Slots, x \in Node : Listed(v, slot, x) =>
           x.expire >= m_time + 1 /\ Place(x.expire, m_time + 1) = slot /\ x.id <= count
    <3>1. SUFFICES ASSUME NEW slot \in Slots, NEW x \in Node, Listed(v, slot, x)
                   PROVE  x.expire >= m_time + 1 /\ Place(x.expire, m_time + 1) = slot /\ x.id <= count
      OBVIOUS
    <3>2. PICK r \in Slots : Listed(wheel, r, x) /\ x.expire # m_time
      BY <1>10, <3>1
    <3>3. x.expire \in Nat /\ m_time <= x.expire /\ x.id \in 1 .. count
      BY <3>2, ListedFacts
    <3>4. Place(x.expire, m_time + 1) = slot
      BY <1>9, <3>1 DEF IsRedistributed
    <3>5. count \in Nat
      BY BoundsAssumption DEF TimerInv
    <3>6. QED
      BY <1>1, <3>2, <3>3, <3>4, <3>5
  <2>2. v \in Wheels /\ \A slot \in Slots : InOrder(v[slot])
    BY <1>9 DEF IsRedistributed
  <2>3. m_time + 1 \in 0 .. MaxTime /\ due - 1 \in 0 .. MaxDiff /\ (m_time + 1) + (due - 1) <= MaxTime
    BY <1>1, <1>3
  <2>4. count \in 0 .. MaxTimers
    BY DEF TimerInv
  <2>5. wheel' \in Wheels /\ \A slot \in Slots : InOrder(wheel'[slot])
    BY <1>2, <2>2
  <2>6. m_time' \in 0 .. MaxTime /\ due' \in 0 .. MaxDiff /\ m_time' + due' <= MaxTime /\ count' \in 0 .. MaxTimers
    BY <1>2, <2>3, <2>4
  <2>7. \A slot \in Slots, x \in Node : Listed(wheel', slot, x) =>
           x.expire >= m_time' /\ Place(x.expire, m_time') = slot /\ x.id <= count'
    BY <1>2, <2>1
  <2>8. QED
    BY <2>5, <2>6, <2>7, TimerInvAfter
<1>12. Service!Tick
  <2> DEFINE due0 == {n \in Waiting : n.expire = m_time}
             list == wheel[now]
  <2>1. \A x : x \in Waiting <=> \E slot \in Slots : Listed(wheel, slot, x)
    BY <1>1, WaitingFacts
  <2>2. \A x : x \in Waiting' <=> \E slot \in Slots : Listed(v, slot, x)
    <3>1. v \in Wheels
      BY <1>9 DEF IsRedistributed
    <3>2. \A x : x \in Waiting' <=> \E slot \in Slots : \E k \in DOMAIN wheel'[slot] : wheel'[slot][k] = x
      BY DEF Waiting, Nodes
    <3>3. QED
      BY <1>2, <3>2 DEF Listed
  <2>3. Waiting' = Waiting \ due0
    BY <1>10, <2>1, <2>2
  <2>4. \A x : x \in due0 <=> Listed(wheel, now, x)
    BY <1>4, <1>5, <2>1
  <2>5. \A k \in DOMAIN list : Listed(wheel, now, list[k]) /\ list[k].expire = m_time /\ list[k].id \in Int
    <3>1. \A k \in DOMAIN list : Listed(wheel, now, list[k])
      BY DEF Listed
    <3>2. QED
      BY <1>4, <1>5, <3>1, ListedFacts
  <2>6. DOMAIN fired' = DOMAIN list /\ \A k \in DOMAIN list : fired'[k] = list[k].id
    BY <1>2
  <2> HIDE DEF due0, list
  <2>7. {fired'[k] : k \in DOMAIN fired'} = {n.id : n \in due0}
    <3>1. \A x \in due0 : \E k \in DOMAIN list : list[k] = x
      BY <2>4 DEF Listed, list
    <3>2. \A k \in DOMAIN list : list[k] \in due0
      BY <2>4, <2>5
    <3>3. QED
      BY <2>6, <3>1, <3>2
  <2>8. DOMAIN list \subseteq Int
    BY <1>1, <1>4 DEF list, Wheels
  <2>9. \A k, l \in DOMAIN fired' : k < l => fired'[k] < fired'[l]
    <3>1. InOrder(list)
      BY <1>1, <1>4 DEF list
    <3>2. QED
      BY <2>5, <2>6, <3>1 DEF InOrder
  <2>10. QED
    BY <1>2, <2>3, <2>7, <2>9 DEF Service!Tick, Waiting, due0
<1>13. QED
  BY <1>11, <1>12

\* A timeout: 0 is answered, another one waits in the list that its expiry selects.
LEMMA TimeoutStep ==
    ASSUME TimerInv, NEW time \in Times, Timeout(time)
    PROVE  TimerInv' /\ \E id \in 1 .. MaxTimers : Service!Set(id, time)
<1> DEFINE id == count + 1
           x == [id |-> id, expire |-> m_time + time]
           w == AddNodes(wheel, <<x>>, m_time)
<1>1. /\ wheel \in Wheels /\ m_time \in Nat /\ m_time <= MaxTime /\ count \in Nat /\ count <= MaxTimers
      /\ \A slot \in Slots : InOrder(wheel[slot])
      /\ MaxTimers \in Nat /\ MaxTime \in Nat /\ time \in Nat
  BY MaxTimeAssumption, BoundsAssumption, TimesAssumption DEF TimerInv
<1>2. /\ count < MaxTimers /\ m_time + time < MaxTime /\ count' = id /\ m_time' = m_time /\ due' = due
      /\ IF time = 0 THEN fired' = <<id>> /\ wheel' = wheel ELSE fired' = <<>> /\ wheel' = w
  BY DEF Timeout
<1>3. id \in 1 .. MaxTimers /\ id \in 0 .. MaxTimers
  BY <1>1, <1>2
<1>4. \A n \in Waiting : n.id < id
  <2>1. SUFFICES ASSUME NEW n \in Waiting PROVE n.id < id
    OBVIOUS
  <2>2. PICK slot \in Slots : Listed(wheel, slot, n)
    BY <1>1, WaitingFacts
  <2>3. n.id \in 1 .. count
    BY <2>2, ListedFacts
  <2>4. QED
    BY <1>1, <2>3
<1>5. \A slot \in Slots, n \in Node : Listed(wheel, slot, n) =>
         n.expire >= m_time /\ Place(n.expire, m_time) = slot /\ n.id <= id
  <2>1. SUFFICES ASSUME NEW slot \in Slots, NEW n \in Node, Listed(wheel, slot, n)
                 PROVE  n.expire >= m_time /\ Place(n.expire, m_time) = slot /\ n.id <= id
    OBVIOUS
  <2>2. n.id \in 1 .. count /\ n.expire \in Nat /\ m_time <= n.expire /\ Place(n.expire, m_time) = slot
    BY <2>1, ListedFacts
  <2>3. QED
    BY <1>1, <2>2
<1>6. CASE time = 0
  <2>1. wheel' = wheel /\ fired' = <<id>>
    BY <1>2, <1>6
  <2>2. TimerInv'
    <3>1. m_time' \in 0 .. MaxTime /\ due' \in 0 .. MaxDiff /\ m_time' + due' <= MaxTime /\ count' \in 0 .. MaxTimers
      BY <1>2, <1>3 DEF TimerInv
    <3>2. wheel' \in Wheels /\ \A slot \in Slots : InOrder(wheel'[slot])
      BY <1>1, <2>1
    <3>3. \A slot \in Slots, n \in Node : Listed(wheel', slot, n) =>
             n.expire >= m_time' /\ Place(n.expire, m_time') = slot /\ n.id <= count'
      BY <1>2, <1>5, <2>1
    <3>4. QED
      BY <3>1, <3>2, <3>3, TimerInvAfter
  <2>3. Waiting' = Waiting
    BY <2>1 DEF Waiting, Nodes
  <2>4. Service!Set(id, time)
    BY <1>2, <1>4, <1>6, <2>1, <2>3 DEF Service!Set, Waiting
  <2>5. QED
    BY <1>3, <2>2, <2>4
<1>7. CASE time # 0
  <2>1. wheel' = w /\ fired' = <<>>
    BY <1>2, <1>7
  <2>2. x \in Node /\ x.id = id /\ x.expire = m_time + time /\ m_time + time \in Nat /\ m_time + time <= MaxTime
        /\ m_time <= m_time + time
    BY <1>1, <1>2, <1>3 DEF Node
  <2>3. Place(x.expire, m_time) \in Slots
    BY <1>1, <2>2, PlaceSlot
  <2> HIDE DEF x, id
  <2>4. /\ <<x>> \in Seq(Node) /\ Len(<<x>>) = 1 /\ DOMAIN <<x>> = 1 .. 1 /\ <<x>>[1] = x
        /\ \A k \in 1 .. 1 : k = 1
    BY <2>2
  <2>5. CanAdd(wheel, <<x>>, m_time)
    <3>1. InOrder(<<x>>)
      BY <2>4 DEF InOrder
    <3>2. \A slot \in Slots, n \in Node : Listed(wheel, slot, n) => n.id < x.id
      BY <1>1, <1>4, <2>2, WaitingFacts
    <3>3. QED
      BY <1>1, <2>3, <2>4, <3>1, <3>2 DEF CanAdd
  <2>6. IsAdded(w, wheel, <<x>>, 1, m_time)
    BY <2>4, <2>5, AddFacts
  <2> HIDE DEF w
  <2>7. /\ w \in Wheels /\ \A slot \in Slots : InOrder(w[slot])
        /\ \A slot \in Slots, n \in Node :
              Listed(w, slot, n) <=> Listed(wheel, slot, n) \/ (n = x /\ Place(x.expire, m_time) = slot)
    BY <2>4, <2>6 DEF IsAdded
  <2>8. TimerInv'
    <3>1. m_time' \in 0 .. MaxTime /\ due' \in 0 .. MaxDiff /\ m_time' + due' <= MaxTime /\ count' \in 0 .. MaxTimers
      BY <1>2, <1>3 DEF TimerInv, id
    <3>2. wheel' \in Wheels /\ \A slot \in Slots : InOrder(wheel'[slot])
      BY <2>1, <2>7
    <3>3. x.expire >= m_time /\ x.id <= id
      BY <1>1, <2>2 DEF id
    <3>4. \A slot \in Slots, n \in Node : Listed(wheel', slot, n) =>
             n.expire >= m_time' /\ Place(n.expire, m_time') = slot /\ n.id <= count'
      BY <1>2, <1>5, <2>1, <2>7, <3>3
    <3>5. QED
      BY <3>1, <3>2, <3>4, TimerInvAfter
  <2>9. Waiting' = Waiting \cup {x}
    <3>1. \A n : n \in Waiting <=> \E slot \in Slots : Listed(wheel, slot, n)
      BY <1>1, WaitingFacts
    <3>2. \A n : n \in Waiting' <=> \E slot \in Slots : Listed(w, slot, n)
      <4>1. \A n : n \in Waiting' <=> \E slot \in Slots : \E k \in DOMAIN wheel'[slot] : wheel'[slot][k] = n
        BY DEF Waiting, Nodes
      <4>2. QED
        BY <2>1, <4>1 DEF Listed
    <3>3. \A slot \in Slots : \A n : (Listed(w, slot, n) \/ Listed(wheel, slot, n)) => n \in Node
      BY <1>1, <2>7 DEF Listed, Wheels
    <3>4. QED
      BY <2>2, <2>3, <2>7, <3>1, <3>2, <3>3
  <2>10. Service!Set(id, time)
    BY <1>2, <1>4, <1>7, <2>1, <2>9 DEF Service!Set, Waiting, x
  <2>11. QED
    BY <1>3, <2>8, <2>10
<1>8. QED
  BY <1>6, <1>7

\* updatetime finds out how many ticks there are to execute.
LEMMA UpdateTimeStep == ASSUME TimerInv, UpdateTime PROVE TimerInv' /\ UNCHANGED Service!serviceVars
<1>1. UNCHANGED <<wheel, m_time, count, fired>> /\ due' \in 0 .. MaxDiff /\ m_time + due' <= MaxTime
  <2>1. PICK diff \in 1 .. MaxDiff : m_time + diff <= MaxTime /\ due' = diff
    BY DEF UpdateTime
  <2>2. QED
    BY <2>1, BoundsAssumption DEF UpdateTime
<1>2. QED
  BY <1>1 DEF TimerInv, WheelInv, Nodes, Service!serviceVars

\* Every step keeps the invariant and is one of the service, or none of it.
LEMMA TimerNext ==
    ASSUME TimerInv, [Next]_vars
    PROVE  TimerInv' /\ [Service!Next]_(Service!serviceVars)
<1>1. CASE UNCHANGED vars
  BY <1>1 DEF vars, TimerInv, WheelInv, Nodes, Service!serviceVars
<1>2. CASE UpdateTime
  BY <1>2, UpdateTimeStep
<1>3. CASE Execute
  BY <1>3, ExecuteStep DEF Service!Next
<1>4. CASE \E time \in Times : Timeout(time)
  BY <1>4, TimeoutStep DEF Service!Next
<1>5. QED
  BY <1>1, <1>2, <1>3, <1>4 DEF Next

\* The inductive invariant of the wheel (timer.h:82-233).
THEOREM TimerInvariant == Spec => []TimerInv
<1>1. Init => TimerInv
  BY TimerInit
<1>2. TimerInv /\ [Next]_vars => TimerInv'
  BY TimerNext
<1>3. QED
  BY <1>1, <1>2, PTL DEF Spec

\* Nodes, clock and counters keep to their types.
THEOREM TypeCorrect == Spec => []TypeOK
<1>1. TimerInv => TypeOK
  BY DEF TimerInv, Wheels, TypeOK
<1>2. QED
  BY <1>1, TimerInvariant, PTL

\* A node is in the list that add_node would choose for it now (timer.h:160-185), and is not late:
\* execute (timer.h:187-233) redistributes a list in the tick in which its nodes begin to belong elsewhere.
THEOREM WheelCorrect == Spec => []WheelInv
<1>1. TimerInv => WheelInv
  BY DEF TimerInv
<1>2. QED
  BY <1>1, TimerInvariant, PTL

\* The wheel implements the service: a timer's message is pushed in its tick, neither earlier nor
\* later nor twice, and those of one tick in the order in which they were set.
THEOREM ServiceImplemented == Spec => ImplementsService
<1>1. Init => Service!Init
  BY TimerInit DEF Init, Service!Init, Waiting
<1>2. TimerInv /\ [Next]_vars => [Service!Next]_(Service!serviceVars)
  BY TimerNext
<1>3. QED
  BY <1>1, <1>2, TimerInvariant, PTL DEF Spec, ImplementsService, Service!Spec
-----------------------------------------------------------------------------
(* Linked lists *)

Entries == Heads \cup Cells
Lists == [next : [Entries -> Entries \cup {NULL}], prev : [Entries -> Entries \cup {NULL}]]

\* No entry is twice in list.
Distinct(list) == \A i, j \in DOMAIN list : list[i] = list[j] => i = j

\* What the assumptions on the cells come to.
LEMMA EntryFacts == /\ 1 \in Heads /\ 2 \in Heads /\ \A h \in Heads : h = 1 \/ h = 2
                    /\ NULL \notin Entries /\ Heads \cap Cells = {} /\ Heads \subseteq Entries /\ Cells \subseteq Entries
  BY CellsAssumption DEF Heads, NULL, Entries

\* The cells of the ring of a list.
LEMMA RingFacts ==
    ASSUME NEW h \in Heads, NEW list \in Seq(Cells)
    PROVE  /\ \A i \in 0 .. Len(list) + 1 : Ring(h, list)[i] \in Entries
           /\ Ring(h, list)[0] = h /\ Ring(h, list)[Len(list) + 1] = h
           /\ \A i \in 1 .. Len(list) : Ring(h, list)[i] = list[i] /\ list[i] \in Cells /\ list[i] # h
<1>1. DOMAIN list = 1 .. Len(list) /\ Len(list) \in Nat /\ \A i \in 1 .. Len(list) : list[i] \in Cells
  OBVIOUS
<1>2. \A i \in 0 .. Len(list) + 1 : Ring(h, list)[i] = IF i \in 1 .. Len(list) THEN list[i] ELSE h
  BY <1>1 DEF Ring
<1>3. 0 \in 0 .. Len(list) + 1 /\ Len(list) + 1 \in 0 .. Len(list) + 1 /\ 0 \notin 1 .. Len(list) /\ Len(list) + 1 \notin 1 .. Len(list)
  BY <1>1
<1>4. \A i \in 1 .. Len(list) : i \in 0 .. Len(list) + 1
  BY <1>1
<1>5. QED
  BY <1>1, <1>2, <1>3, <1>4, EntryFacts

\* A ring comes to no cell twice before it is around.
LEMMA RingDistinct ==
    ASSUME NEW h \in Heads, NEW list \in Seq(Cells), Distinct(list)
    PROVE  /\ \A i, j \in 0 .. Len(list) : Ring(h, list)[i] = Ring(h, list)[j] => i = j
           /\ \A i, j \in 1 .. Len(list) + 1 : Ring(h, list)[i] = Ring(h, list)[j] => i = j
<1>1. DOMAIN list = 1 .. Len(list) /\ Len(list) \in Nat
  OBVIOUS
<1>2. /\ \A i \in 0 .. Len(list) : i = 0 \/ i \in 1 .. Len(list)
      /\ \A i \in 1 .. Len(list) + 1 : i = Len(list) + 1 \/ i \in 1 .. Len(list)
  BY <1>1
<1>3. \A i, j \in 1 .. Len(list) : list[i] = list[j] => i = j
  BY <1>1 DEF Distinct
<1>4. QED
  BY <1>2, <1>3, RingFacts

\* What __list_add writes.
LEMMA LinkFacts ==
    ASSUME NEW l \in Lists, NEW n \in Entries, NEW p \in Entries, NEW q \in Entries, n # p, n # q
    PROVE  /\ LinkBetween(l, n, p, q) \in Lists
           /\ \A x \in Entries : LinkBetween(l, n, p, q).next[x] = IF x = p THEN n ELSE IF x = n THEN q ELSE l.next[x]
           /\ \A x \in Entries : LinkBetween(l, n, p, q).prev[x] = IF x = q THEN n ELSE IF x = n THEN p ELSE l.prev[x]
  BY DEF Lists, LinkBetween

\* What __list_del writes.
LEMMA UnlinkFacts ==
    ASSUME NEW l \in Lists, NEW p \in Entries, NEW q \in Entries
    PROVE  /\ Unlink(l, p, q) \in Lists
           /\ \A x \in Entries : Unlink(l, p, q).next[x] = IF x = p THEN q ELSE l.next[x]
           /\ \A x \in Entries : Unlink(l, p, q).prev[x] = IF x = q THEN p ELSE l.prev[x]
  BY DEF Lists, Unlink

\* What INIT_LIST_HEAD writes.
LEMMA HeadFacts ==
    ASSUME NEW l \in Lists, NEW h \in Entries
    PROVE  /\ InitListHead(l, h) \in Lists
           /\ \A x \in Entries : InitListHead(l, h).next[x] = IF x = h THEN h ELSE l.next[x]
           /\ \A x \in Entries : InitListHead(l, h).prev[x] = IF x = h THEN h ELSE l.prev[x]
  BY DEF Lists, InitListHead

\* A walk goes over the cells of the ring only.
LEMMA VisitsElsewhere ==
    ASSUME NEW l, NEW m, NEW h \in Heads, NEW list \in Seq(Cells), Visits(l, h, list),
           \A i \in 0 .. Len(list) + 1 : /\ m.next[Ring(h, list)[i]] = l.next[Ring(h, list)[i]]
                                         /\ m.prev[Ring(h, list)[i]] = l.prev[Ring(h, list)[i]]
    PROVE  Visits(m, h, list)
<1>1. ASSUME NEW i \in 0 .. Len(list)
      PROVE  m.next[Ring(h, list)[i]] = Ring(h, list)[i + 1] /\ m.prev[Ring(h, list)[i + 1]] = Ring(h, list)[i]
  <2>1. i \in 0 .. Len(list) + 1 /\ i + 1 \in 0 .. Len(list) + 1
    OBVIOUS
  <2>2. l.next[Ring(h, list)[i]] = Ring(h, list)[i + 1] /\ l.prev[Ring(h, list)[i + 1]] = Ring(h, list)[i]
    BY DEF Visits
  <2>3. QED
    BY <2>1, <2>2
<1>2. QED
  BY <1>1 DEF Visits

\* longer is list with n behind its k-th entry.
HasInserted(longer, list, k, n) ==
    /\ longer \in Seq(Cells)
    /\ Len(longer) = Len(list) + 1
    /\ \A i \in 1 .. Len(list) + 1 : longer[i] = IF i <= k THEN list[i] ELSE IF i = k + 1 THEN n ELSE list[i - 1]

LEMMA RingInserted ==
    ASSUME NEW h \in Heads, NEW list \in Seq(Cells), NEW k \in 0 .. Len(list), NEW n, NEW longer, HasInserted(longer, list, k, n)
    PROVE  \A i \in 0 .. Len(list) + 2 :
              Ring(h, longer)[i] = IF i <= k THEN Ring(h, list)[i] ELSE IF i = k + 1 THEN n ELSE Ring(h, list)[i - 1]
<1> SUFFICES ASSUME NEW i \in 0 .. Len(list) + 2
             PROVE  Ring(h, longer)[i] = IF i <= k THEN Ring(h, list)[i] ELSE IF i = k + 1 THEN n ELSE Ring(h, list)[i - 1]
  OBVIOUS
<1>1. Len(list) \in Nat /\ longer \in Seq(Cells) /\ Len(longer) = Len(list) + 1
  BY DEF HasInserted
<1>2. CASE i = 0
  BY <1>1, <1>2, RingFacts
<1>3. CASE i = Len(list) + 2
  <2>1. Ring(h, longer)[i] = h /\ ~(i <= k) /\ i # k + 1 /\ i - 1 = Len(list) + 1
    BY <1>1, <1>3, RingFacts
  <2>2. QED
    BY <2>1, RingFacts
<1>4. CASE i # 0 /\ i # Len(list) + 2
  <2>1. i \in 1 .. Len(list) + 1 /\ i \in 1 .. Len(longer)
    BY <1>1, <1>4
  <2>2. Ring(h, longer)[i] = longer[i]
    BY <1>1, <2>1, RingFacts
  <2>3. longer[i] = IF i <= k THEN list[i] ELSE IF i = k + 1 THEN n ELSE list[i - 1]
    BY <2>1 DEF HasInserted
  <2>4. (i <= k => i \in 1 .. Len(list)) /\ (~(i <= k) /\ i # k + 1 => i - 1 \in 1 .. Len(list))
    BY <1>1, <2>1
  <2>5. QED
    BY <2>2, <2>3, <2>4, RingFacts
<1>5. QED
  BY <1>2, <1>3, <1>4

\* An entry that __list_add links in behind the k-th is visited there.
LEMMA VisitsInserted ==
    ASSUME NEW l \in Lists, NEW h \in Heads, NEW list \in Seq(Cells), Distinct(list), Visits(l, h, list),
           NEW n \in Cells, \A i \in 1 .. Len(list) : list[i] # n,
           NEW k \in 0 .. Len(list), NEW longer, HasInserted(longer, list, k, n)
    PROVE  Visits(LinkBetween(l, n, Ring(h, list)[k], Ring(h, list)[k + 1]), h, longer)
<1> DEFINE old == Ring(h, list)
           new == Ring(h, longer)
           m == LinkBetween(l, n, old[k], old[k + 1])
<1>1. Len(list) \in Nat /\ Len(longer) = Len(list) + 1 /\ k \in 0 .. Len(list) + 1 /\ k + 1 \in 0 .. Len(list) + 1
  BY DEF HasInserted
<1>2. \A i \in 0 .. Len(list) + 1 : old[i] \in Entries /\ old[i] # n
  <2>1. \A i \in 0 .. Len(list) + 1 : i = 0 \/ i = Len(list) + 1 \/ i \in 1 .. Len(list)
    BY <1>1
  <2>2. h # n
    BY EntryFacts
  <2>3. QED
    BY <2>1, <2>2, RingFacts
<1>3. n \in Entries
  BY EntryFacts
<1>4. /\ \A x \in Entries : m.next[x] = IF x = old[k] THEN n ELSE IF x = n THEN old[k + 1] ELSE l.next[x]
      /\ \A x \in Entries : m.prev[x] = IF x = old[k + 1] THEN n ELSE IF x = n THEN old[k] ELSE l.prev[x]
  <2>1. old[k] \in Entries /\ old[k + 1] \in Entries /\ n # old[k] /\ n # old[k + 1]
    BY <1>1, <1>2
  <2>2. \A p, q \in Entries : n # p /\ n # q =>
          /\ \A x \in Entries : LinkBetween(l, n, p, q).next[x] = IF x = p THEN n ELSE IF x = n THEN q ELSE l.next[x]
          /\ \A x \in Entries : LinkBetween(l, n, p, q).prev[x] = IF x = q THEN n ELSE IF x = n THEN p ELSE l.prev[x]
    BY <1>3, LinkFacts
  <2> HIDE DEF old
  <2>3. QED
    BY <2>1, <2>2
<1>5. \A i \in 0 .. Len(list) + 2 : new[i] = IF i <= k THEN old[i] ELSE IF i = k + 1 THEN n ELSE old[i - 1]
  BY RingInserted
<1>6. \A i \in 0 .. Len(list) : l.next[old[i]] = old[i + 1] /\ l.prev[old[i + 1]] = old[i]
  BY DEF Visits
<1>7. /\ \A i, j \in 0 .. Len(list) : old[i] = old[j] => i = j
      /\ \A i, j \in 1 .. Len(list) + 1 : old[i] = old[j] => i = j
  BY RingDistinct
<1> HIDE DEF old, new, m
<1>8. ASSUME NEW i \in 0 .. Len(list) + 1 PROVE m.next[new[i]] = new[i + 1] /\ m.prev[new[i + 1]] = new[i]
  <2>1. i \in 0 .. Len(list) + 2 /\ i + 1 \in 0 .. Len(list) + 2 /\ i \in Nat /\ k \in Nat
    BY <1>1
  <2>2. CASE i < k
    <3>1. new[i] = old[i] /\ new[i + 1] = old[i + 1]
      BY <1>5, <2>1, <2>2
    <3>2. i \in 0 .. Len(list) /\ i + 1 \in 1 .. Len(list) + 1 /\ k + 1 \in 1 .. Len(list) + 1 /\ i # k /\ i + 1 # k + 1
      BY <1>1, <2>2
    <3>3. old[i] # old[k] /\ old[i + 1] # old[k + 1]
      BY <1>7, <3>2
    <3>4. old[i] \in Entries /\ old[i + 1] \in Entries /\ old[i] # n /\ old[i + 1] # n
      BY <1>1, <1>2, <3>2
    <3>5. QED
      BY <1>4, <1>6, <3>1, <3>2, <3>3, <3>4
  <2>3. CASE i = k
    <3>1. new[i] = old[k] /\ new[i + 1] = n
      BY <1>5, <2>1, <2>3
    <3>2. m.next[old[k]] = n
      BY <1>1, <1>2, <1>4
    <3>3. m.prev[n] = old[k]
      BY <1>1, <1>2, <1>3, <1>4
    <3>4. QED
      BY <3>1, <3>2, <3>3
  <2>4. CASE i = k + 1
    <3>1. new[i] = n /\ new[i + 1] = old[k + 1]
      BY <1>5, <2>1, <2>4
    <3>2. m.next[n] = old[k + 1]
      BY <1>1, <1>2, <1>3, <1>4
    <3>3. m.prev[old[k + 1]] = n
      BY <1>1, <1>2, <1>4
    <3>4. QED
      BY <3>1, <3>2, <3>3
  <2>5. CASE i > k + 1
    <3>1. new[i] = old[i - 1] /\ new[i + 1] = old[(i - 1) + 1]
      BY <1>5, <2>1, <2>5
    <3>2. i - 1 \in 0 .. Len(list) /\ (i - 1) + 1 \in 1 .. Len(list) + 1 /\ k + 1 \in 1 .. Len(list) + 1 /\ i - 1 # k /\ (i - 1) + 1 # k + 1
      BY <1>1, <2>5
    <3>3. old[i - 1] # old[k] /\ old[(i - 1) + 1] # old[k + 1]
      BY <1>7, <3>2
    <3>4. old[i - 1] \in Entries /\ old[(i - 1) + 1] \in Entries /\ old[i - 1] # n /\ old[(i - 1) + 1] # n
      BY <1>1, <1>2, <3>2
    <3>5. QED
      BY <1>4, <1>6, <3>1, <3>2, <3>3, <3>4
  <2>6. QED
    BY <2>1, <2>2, <2>3, <2>4, <2>5
<1>9. QED
  BY <1>1, <1>8 DEF Visits, m, old, new

\* shorter is list without its k-th entry.
HasRemoved(shorter, list, k) ==
    /\ shorter \in Seq(Cells)
    /\ Len(shorter) = Len(list) - 1
    /\ \A i \in 1 .. Len(list) - 1 : shorter[i] = IF i < k THEN list[i] ELSE list[i + 1]

LEMMA RingRemoved ==
    ASSUME NEW h \in Heads, NEW list \in Seq(Cells), NEW k \in 1 .. Len(list), NEW shorter, HasRemoved(shorter, list, k)
    PROVE  \A i \in 0 .. Len(list) : Ring(h, shorter)[i] = IF i < k THEN Ring(h, list)[i] ELSE Ring(h, list)[i + 1]
<1> SUFFICES ASSUME NEW i \in 0 .. Len(list)
             PROVE  Ring(h, shorter)[i] = IF i < k THEN Ring(h, list)[i] ELSE Ring(h, list)[i + 1]
  OBVIOUS
<1>1. Len(list) \in Nat /\ shorter \in Seq(Cells) /\ Len(shorter) = Len(list) - 1
  BY DEF HasRemoved
<1>2. CASE i = 0
  BY <1>1, <1>2, RingFacts
<1>3. CASE i = Len(list)
  <2>1. Ring(h, shorter)[i] = h /\ ~(i < k)
    BY <1>1, <1>3, RingFacts
  <2>2. QED
    BY <1>3, <2>1, RingFacts
<1>4. CASE i # 0 /\ i # Len(list)
  <2>1. i \in 1 .. Len(list) - 1 /\ i \in 1 .. Len(shorter)
    BY <1>1, <1>4
  <2>2. Ring(h, shorter)[i] = shorter[i]
    BY <1>1, <2>1, RingFacts
  <2>3. shorter[i] = IF i < k THEN list[i] ELSE list[i + 1]
    BY <2>1 DEF HasRemoved
  <2>4. i \in 1 .. Len(list) /\ i + 1 \in 1 .. Len(list)
    BY <1>1, <2>1
  <2>5. QED
    BY <2>2, <2>3, <2>4, RingFacts
<1>5. QED
  BY <1>2, <1>3, <1>4

\* An entry that __list_del links out is not visited any more.
LEMMA VisitsRemoved ==
    ASSUME NEW l \in Lists, NEW h \in Heads, NEW list \in Seq(Cells), Distinct(list), Visits(l, h, list),
           NEW k \in 1 .. Len(list), NEW shorter, HasRemoved(shorter, list, k)
    PROVE  /\ l.prev[list[k]] = Ring(h, list)[k - 1] /\ l.next[list[k]] = Ring(h, list)[k + 1]
           /\ Visits(Unlink(l, Ring(h, list)[k - 1], Ring(h, list)[k + 1]), h, shorter)
<1> DEFINE old == Ring(h, list)
           new == Ring(h, shorter)
           m == Unlink(l, old[k - 1], old[k + 1])
<1>1. Len(list) \in Nat /\ Len(shorter) = Len(list) - 1 /\ k - 1 \in 0 .. Len(list) + 1 /\ k + 1 \in 0 .. Len(list) + 1
      /\ k \in 0 .. Len(list)
  BY DEF HasRemoved
<1>2. \A i \in 0 .. Len(list) + 1 : old[i] \in Entries
  BY RingFacts
<1>3. old[k] = list[k]
  BY RingFacts
<1>4. /\ \A x \in Entries : m.next[x] = IF x = old[k - 1] THEN old[k + 1] ELSE l.next[x]
      /\ \A x \in Entries : m.prev[x] = IF x = old[k + 1] THEN old[k - 1] ELSE l.prev[x]
  <2>1. old[k - 1] \in Entries /\ old[k + 1] \in Entries
    BY <1>1, <1>2
  <2>2. \A p, q \in Entries : /\ \A x \in Entries : Unlink(l, p, q).next[x] = IF x = p THEN q ELSE l.next[x]
                             /\ \A x \in Entries : Unlink(l, p, q).prev[x] = IF x = q THEN p ELSE l.prev[x]
    BY UnlinkFacts
  <2> HIDE DEF old
  <2>3. QED
    BY <2>1, <2>2
<1>5. \A i \in 0 .. Len(list) : new[i] = IF i < k THEN old[i] ELSE old[i + 1]
  BY RingRemoved
<1>6. \A i \in 0 .. Len(list) : l.next[old[i]] = old[i + 1] /\ l.prev[old[i + 1]] = old[i]
  BY DEF Visits
<1>7. /\ \A i, j \in 0 .. Len(list) : old[i] = old[j] => i = j
      /\ \A i, j \in 1 .. Len(list) + 1 : old[i] = old[j] => i = j
  BY RingDistinct
<1> HIDE DEF old, new, m
<1>8. l.prev[list[k]] = old[k - 1] /\ l.next[list[k]] = old[k + 1]
  <2>1. k - 1 \in 0 .. Len(list) /\ (k - 1) + 1 = k
    BY <1>1
  <2>2. QED
    BY <1>1, <1>3, <1>6, <2>1
<1>9. ASSUME NEW i \in 0 .. Len(list) - 1 PROVE m.next[new[i]] = new[i + 1] /\ m.prev[new[i + 1]] = new[i]
  <2>1. i \in 0 .. Len(list) /\ i + 1 \in 0 .. Len(list) /\ i \in Nat /\ k \in Nat
    BY <1>1
  <2>2. CASE i < k - 1
    <3>1. new[i] = old[i] /\ new[i + 1] = old[i + 1]
      BY <1>5, <2>1, <2>2
    <3>2. k - 1 \in 0 .. Len(list) /\ i + 1 \in 1 .. Len(list) + 1 /\ k + 1 \in 1 .. Len(list) + 1 /\ i # k - 1 /\ i + 1 # k + 1
      BY <1>1, <2>2
    <3>3. old[i] # old[k - 1] /\ old[i + 1] # old[k + 1]
      BY <1>7, <2>1, <3>2
    <3>4. old[i] \in Entries /\ old[i + 1] \in Entries
      BY <1>1, <1>2, <3>2
    <3>5. QED
      BY <1>4, <1>6, <2>1, <3>1, <3>3, <3>4
  <2>3. CASE i = k - 1
    <3>1. new[i] = old[k - 1] /\ new[i + 1] = old[k + 1]
      BY <1>5, <2>1, <2>3
    <3>2. QED
      BY <1>1, <1>2, <1>4, <3>1
  <2>4. CASE i > k - 1
    <3>1. new[i] = old[i + 1] /\ new[i + 1] = old[(i + 1) + 1]
      BY <1>5, <2>1, <2>4
    <3>2. /\ k - 1 \in 0 .. Len(list) /\ (i + 1) + 1 \in 1 .. Len(list) + 1 /\ k + 1 \in 1 .. Len(list) + 1
          /\ i + 1 # k - 1 /\ (i + 1) + 1 # k + 1
      BY <1>1, <2>4
    <3>3. old[i + 1] # old[k - 1] /\ old[(i + 1) + 1] # old[k + 1]
      BY <1>7, <2>1, <3>2
    <3>4. old[i + 1] \in Entries /\ old[(i + 1) + 1] \in Entries
      BY <1>1, <1>2, <2>1, <3>2
    <3>5. QED
      BY <1>4, <1>6, <2>1, <3>1, <3>3, <3>4
  <2>5. QED
    BY <2>1, <2>2, <2>3, <2>4
<1>10. QED
  BY <1>1, <1>8, <1>9 DEF Visits, m, old, new

\* joined is first and then second.
HasJoined(joined, first, second) ==
    /\ joined \in Seq(Cells)
    /\ Len(joined) = Len(first) + Len(second)
    /\ \A i \in 1 .. Len(first) + Len(second) : joined[i] = IF i <= Len(first) THEN first[i] ELSE second[i - Len(first)]

LEMMA RingJoined ==
    ASSUME NEW h \in Heads, NEW first \in Seq(Cells), NEW second \in Seq(Cells), NEW joined, HasJoined(joined, first, second)
    PROVE  /\ Ring(h, joined)[0] = h
           /\ \A i \in 1 .. Len(first) : Ring(h, joined)[i] = first[i]
           /\ \A i \in 1 .. Len(second) + 1 : Ring(h, joined)[Len(first) + i] = Ring(h, second)[i]
<1>1. Len(first) \in Nat /\ Len(second) \in Nat /\ joined \in Seq(Cells) /\ Len(joined) = Len(first) + Len(second)
  BY DEF HasJoined
<1>2. ASSUME NEW i \in 1 .. Len(first) PROVE Ring(h, joined)[i] = first[i]
  <2>1. i \in 1 .. Len(first) + Len(second) /\ i <= Len(first)
    BY <1>1
  <2>2. Ring(h, joined)[i] = joined[i]
    BY <1>1, <2>1, RingFacts
  <2>3. QED
    BY <2>1, <2>2 DEF HasJoined
<1>3. ASSUME NEW i \in 1 .. Len(second) PROVE Ring(h, joined)[Len(first) + i] = Ring(h, second)[i]
  <2>1. Len(first) + i \in 1 .. Len(first) + Len(second) /\ ~(Len(first) + i <= Len(first)) /\ (Len(first) + i) - Len(first) = i
    BY <1>1
  <2>2. Ring(h, joined)[Len(first) + i] = joined[Len(first) + i]
    BY <1>1, <2>1, RingFacts
  <2>3. joined[Len(first) + i] = second[i]
    BY <2>1 DEF HasJoined
  <2>4. QED
    BY <2>2, <2>3, RingFacts
<1>4. Ring(h, joined)[Len(first) + (Len(second) + 1)] = Ring(h, second)[Len(second) + 1]
  <2>1. Len(first) + (Len(second) + 1) = Len(joined) + 1
    BY <1>1
  <2>2. QED
    BY <1>1, <2>1, RingFacts
<1>5. \A i \in 1 .. Len(second) + 1 : i \in 1 .. Len(second) \/ i = Len(second) + 1
  BY <1>1
<1>6. QED
  BY <1>1, <1>2, <1>3, <1>4, <1>5, RingFacts

\* What __list_splice writes.
LEMMA SpliceFacts ==
    ASSUME NEW l \in Lists, NEW f \in Entries, NEW h \in Entries,
           l.next[f] \in Entries, l.prev[f] \in Entries, l.next[h] \in Entries
    PROVE  /\ Splice(l, f, h) \in Lists
           /\ \A x \in Entries : Splice(l, f, h).next[x] = IF x = l.prev[f] THEN l.next[h] ELSE IF x = h THEN l.next[f] ELSE l.next[x]
           /\ \A x \in Entries : Splice(l, f, h).prev[x] = IF x = l.next[h] THEN l.prev[f] ELSE IF x = l.next[f] THEN h ELSE l.prev[x]
<1> DEFINE a == l.next[f]
           b == l.prev[f]
           c == l.next[h]
           m == [l EXCEPT !.prev[a] = h, !.next[h] = a, !.next[b] = c, !.prev[c] = b]
<1>1. a \in Entries /\ b \in Entries /\ c \in Entries
  OBVIOUS
<1>2. Splice(l, f, h) = m
  BY DEF Splice
<1> HIDE DEF a, b, c
<1>3. /\ m \in Lists
      /\ \A x \in Entries : m.next[x] = IF x = b THEN c ELSE IF x = h THEN a ELSE l.next[x]
      /\ \A x \in Entries : m.prev[x] = IF x = c THEN b ELSE IF x = a THEN h ELSE l.prev[x]
  BY <1>1 DEF Lists
<1> HIDE DEF m
<1>4. QED
  BY <1>2, <1>3 DEF a, b, c

\* A list that __list_splice puts in front of another is visited there.
LEMMA VisitsJoined ==
    ASSUME NEW l \in Lists, NEW f \in Heads, NEW h \in Heads, f # h,
           NEW first \in Seq(Cells), Distinct(first), Visits(l, f, first), Len(first) # 0,
           NEW second \in Seq(Cells), Distinct(second), Visits(l, h, second),
           \A i \in 1 .. Len(first), j \in 1 .. Len(second) : first[i] # second[j],
           NEW joined, HasJoined(joined, first, second)
    PROVE  Splice(l, f, h) \in Lists /\ Visits(Splice(l, f, h), h, joined)
<1> DEFINE a == Ring(f, first)
           b == Ring(h, second)
           new == Ring(h, joined)
           m == Splice(l, f, h)
           A == Len(first)
           B == Len(second)
<1>1. A \in Nat /\ B \in Nat /\ A >= 1 /\ Len(joined) = A + B
  BY DEF HasJoined
<1>2. /\ \A i \in 0 .. A : l.next[a[i]] = a[i + 1] /\ l.prev[a[i + 1]] = a[i]
      /\ \A i \in 0 .. B : l.next[b[i]] = b[i + 1] /\ l.prev[b[i + 1]] = b[i]
  BY DEF Visits
<1>3. /\ \A i \in 1 .. A : a[i] = first[i] /\ a[i] \in Entries /\ a[i] # h
      /\ \A i \in 0 .. B + 1 : b[i] \in Entries
      /\ a[0] = f /\ a[A + 1] = f /\ b[0] = h /\ b[B + 1] = h
  BY RingFacts, EntryFacts
<1>4. \A i \in 1 .. A, j \in 0 .. B + 1 : a[i] # b[j]
  <2>1. \A j \in 0 .. B + 1 : j = 0 \/ j = B + 1 \/ j \in 1 .. B
    BY <1>1
  <2>2. \A j \in 1 .. B : b[j] = second[j]
    BY RingFacts
  <2>3. QED
    BY <1>3, <2>1, <2>2
<1>5. l.next[f] = a[1] /\ l.prev[f] = a[A] /\ l.next[h] = b[1] /\ a[1] \in Entries /\ a[A] \in Entries /\ b[1] \in Entries
  <2>1. 0 \in 0 .. A /\ A \in 0 .. A /\ 0 \in 0 .. B /\ 0 + 1 = 1 /\ 1 \in 1 .. A /\ A \in 1 .. A /\ 1 \in 0 .. B + 1
    BY <1>1
  <2> HIDE DEF a, b, A, B
  <2>2. QED
    BY <1>2, <1>3, <2>1
<1>6. /\ m \in Lists
      /\ \A x \in Entries : m.next[x] = IF x = a[A] THEN b[1] ELSE IF x = h THEN a[1] ELSE l.next[x]
      /\ \A x \in Entries : m.prev[x] = IF x = b[1] THEN a[A] ELSE IF x = a[1] THEN h ELSE l.prev[x]
  <2>1. f \in Entries /\ h \in Entries
    BY EntryFacts
  <2>2. \A x \in Entries : m.next[x] = IF x = l.prev[f] THEN l.next[h] ELSE IF x = h THEN l.next[f] ELSE l.next[x]
    BY <1>5, <2>1, SpliceFacts
  <2>3. \A x \in Entries : m.prev[x] = IF x = l.next[h] THEN l.prev[f] ELSE IF x = l.next[f] THEN h ELSE l.prev[x]
    BY <1>5, <2>1, SpliceFacts
  <2>4. m \in Lists
    BY <1>5, <2>1, SpliceFacts
  <2> HIDE DEF a, b, A, B, m
  <2>5. QED
    BY <1>5, <2>2, <2>3, <2>4
<1>7. /\ new[0] = h
      /\ \A i \in 1 .. A : new[i] = a[i]
      /\ \A i \in 1 .. B + 1 : new[A + i] = b[i]
  BY <1>3, RingJoined
<1>8. \A i, j \in 0 .. A : a[i] = a[j] => i = j
  BY RingDistinct
<1>9. /\ \A i, j \in 0 .. B : b[i] = b[j] => i = j
      /\ \A i, j \in 1 .. B + 1 : b[i] = b[j] => i = j
  BY RingDistinct
<1>10. h \in Entries /\ 1 \in 1 .. A /\ A \in 1 .. A /\ 1 \in 1 .. B + 1 /\ 1 \in 0 .. B + 1
  BY <1>1, EntryFacts
<1> HIDE DEF a, b, new, m, A, B
<1>11. ASSUME NEW i \in 0 .. A + B PROVE m.next[new[i]] = new[i + 1] /\ m.prev[new[i + 1]] = new[i]
  <2>1. CASE i = 0
    <3>1. new[0] = h /\ new[0 + 1] = a[1]
      BY <1>7, <1>10
    <3>2. a[A] # h /\ a[1] # b[1]
      BY <1>3, <1>4, <1>10
    <3>3. m.next[h] = a[1] /\ m.prev[a[1]] = h
      BY <1>3, <1>6, <1>10, <3>2
    <3>4. QED
      BY <2>1, <3>1, <3>3
  <2>2. CASE i \in 1 .. A - 1
    <3>1. i \in 1 .. A /\ i + 1 \in 1 .. A /\ i \in 0 .. A /\ i + 1 \in 0 .. A /\ i # A /\ i + 1 # 1 /\ A \in 0 .. A /\ 1 \in 0 .. A
      BY <1>1, <2>2
    <3>2. new[i] = a[i] /\ new[i + 1] = a[i + 1]
      BY <1>7, <3>1
    <3>3. a[i] # a[A] /\ a[i + 1] # a[1]
      BY <1>8, <3>1
    <3>4. a[i] # h /\ a[i + 1] # b[1] /\ a[i] \in Entries /\ a[i + 1] \in Entries
      BY <1>3, <1>4, <1>10, <3>1
    <3>5. QED
      BY <1>2, <1>6, <3>1, <3>2, <3>3, <3>4
  <2>3. CASE i = A
    <3>1. new[i] = a[A] /\ new[i + 1] = b[1]
      BY <1>7, <1>10, <2>3
    <3>2. QED
      BY <1>3, <1>6, <1>10, <3>1
  <2>4. CASE i \in A + 1 .. A + B
    <3> DEFINE j == i - A
    <3>1. j \in 1 .. B + 1 /\ j + 1 \in 1 .. B + 1 /\ i = A + j /\ i + 1 = A + (j + 1) /\ j \in 0 .. B /\ 0 \in 0 .. B /\ j # 0 /\ j + 1 # 1
          /\ j \in 0 .. B + 1 /\ j + 1 \in 0 .. B + 1
      BY <1>1, <2>4
    <3> HIDE DEF j
    <3>2. new[i] = b[j] /\ new[i + 1] = b[j + 1]
      BY <1>7, <3>1
    <3>3. b[j] # b[0] /\ b[j + 1] # b[1]
      BY <1>9, <1>10, <3>1
    <3>4. b[j] # a[A] /\ b[j] # h /\ b[j + 1] # a[1]
      BY <1>3, <1>4, <1>10, <3>1, <3>3
    <3>5. b[j] \in Entries /\ b[j + 1] \in Entries
      BY <1>3, <3>1
    <3>6. QED
      BY <1>2, <1>6, <3>1, <3>2, <3>3, <3>4, <3>5
  <2>5. QED
    BY <1>1, <2>1, <2>2, <2>3, <2>4
<1>12. QED
  BY <1>1, <1>6, <1>11 DEF Visits, m, new

\* The lists of m are disjoint, hold nothing twice and are what walks over l visit.
Agree(l, m) ==
    /\ l \in Lists
    /\ m \in [Heads -> Seq(Cells)]
    /\ \A h \in Heads : Distinct(m[h]) /\ Visits(l, h, m[h])
    /\ \A g, h \in Heads : g # h => \A i \in DOMAIN m[g], j \in DOMAIN m[h] : m[g][i] # m[h][j]

\* n is on none of the lists.
Free(m, n) == n \in Cells /\ \A h \in Heads : \A i \in DOMAIN m[h] : m[h][i] # n

LEMMA AgreeFacts ==
    ASSUME NEW l, NEW m, Agree(l, m), NEW h \in Heads
    PROVE  /\ l \in Lists /\ m[h] \in Seq(Cells) /\ Len(m[h]) \in Nat /\ DOMAIN m[h] = 1 .. Len(m[h])
           /\ Distinct(m[h]) /\ Visits(l, h, m[h])
           /\ \A i \in 0 .. Len(m[h]) + 1 : Ring(h, m[h])[i] \in Entries
           /\ \A i \in 0 .. Len(m[h]) : /\ l.next[Ring(h, m[h])[i]] = Ring(h, m[h])[i + 1]
                                        /\ l.prev[Ring(h, m[h])[i + 1]] = Ring(h, m[h])[i]
<1>1. l \in Lists /\ m[h] \in Seq(Cells) /\ Distinct(m[h]) /\ Visits(l, h, m[h])
  BY DEF Agree
<1>2. Len(m[h]) \in Nat /\ DOMAIN m[h] = 1 .. Len(m[h])
  BY <1>1
<1>3. QED
  BY <1>1, <1>2, RingFacts DEF Visits

\* The rings of two lists have no cell in common.
LEMMA RingsDisjoint ==
    ASSUME NEW l, NEW m, Agree(l, m), NEW g \in Heads, NEW h \in Heads, g # h,
           NEW i \in 0 .. Len(m[g]) + 1, NEW j \in 0 .. Len(m[h]) + 1
    PROVE  Ring(g, m[g])[i] # Ring(h, m[h])[j]
<1>1. /\ m[g] \in Seq(Cells) /\ Len(m[g]) \in Nat /\ DOMAIN m[g] = 1 .. Len(m[g])
      /\ m[h] \in Seq(Cells) /\ Len(m[h]) \in Nat /\ DOMAIN m[h] = 1 .. Len(m[h])
  BY AgreeFacts
<1>2. /\ i = 0 \/ i = Len(m[g]) + 1 \/ i \in 1 .. Len(m[g])
      /\ j = 0 \/ j = Len(m[h]) + 1 \/ j \in 1 .. Len(m[h])
  BY <1>1
<1>3. /\ i \in 1 .. Len(m[g]) => Ring(g, m[g])[i] = m[g][i] /\ m[g][i] \in Cells
      /\ ~(i \in 1 .. Len(m[g])) => Ring(g, m[g])[i] = g
      /\ j \in 1 .. Len(m[h]) => Ring(h, m[h])[j] = m[h][j] /\ m[h][j] \in Cells
      /\ ~(j \in 1 .. Len(m[h])) => Ring(h, m[h])[j] = h
  BY <1>1, <1>2, RingFacts
<1>4. i \in 1 .. Len(m[g]) /\ j \in 1 .. Len(m[h]) => m[g][i] # m[h][j]
  BY <1>1 DEF Agree
<1>5. g \notin Cells /\ h \notin Cells
  BY EntryFacts
<1>6. QED
  BY <1>3, <1>4, <1>5

\* A free entry is in no ring.
LEMMA FreeFacts ==
    ASSUME NEW l, NEW m, Agree(l, m), NEW n, Free(m, n), NEW h \in Heads
    PROVE  /\ n \in Cells /\ n \in Entries /\ \A i \in 1 .. Len(m[h]) : m[h][i] # n
           /\ \A i \in 0 .. Len(m[h]) + 1 : Ring(h, m[h])[i] # n
<1>1. m[h] \in Seq(Cells) /\ Len(m[h]) \in Nat /\ DOMAIN m[h] = 1 .. Len(m[h])
  BY AgreeFacts
<1>2. n \in Cells /\ \A i \in 1 .. Len(m[h]) : m[h][i] # n
  BY <1>1 DEF Free
<1>3. \A i \in 0 .. Len(m[h]) + 1 : i = 0 \/ i = Len(m[h]) + 1 \/ i \in 1 .. Len(m[h])
  BY <1>1
<1>4. h # n /\ n \in Entries
  BY <1>2, EntryFacts
<1>5. QED
  BY <1>1, <1>2, <1>3, <1>4, RingFacts

\* __list_add of a free entry between two neighbours in a ring.
LEMMA LinkedIn ==
    ASSUME NEW l, NEW m, Agree(l, m), NEW n, Free(m, n), NEW h \in Heads, NEW k \in 0 .. Len(m[h]),
           NEW longer, HasInserted(longer, m[h], k, n)
    PROVE  Agree(LinkBetween(l, n, Ring(h, m[h])[k], Ring(h, m[h])[k + 1]), [m EXCEPT ![h] = longer])
<1> DEFINE p == Ring(h, m[h])[k]
           q == Ring(h, m[h])[k + 1]
           v == LinkBetween(l, n, p, q)
           w == [m EXCEPT ![h] = longer]
<1>1. l \in Lists /\ m[h] \in Seq(Cells) /\ Len(m[h]) \in Nat /\ Distinct(m[h]) /\ Visits(l, h, m[h]) /\ DOMAIN m[h] = 1 .. Len(m[h])
  BY AgreeFacts
<1>2. k \in 0 .. Len(m[h]) + 1 /\ k + 1 \in 0 .. Len(m[h]) + 1
  BY <1>1
<1>3. p \in Entries /\ q \in Entries /\ n \in Entries /\ n # p /\ n # q /\ n \in Cells /\ \A i \in 1 .. Len(m[h]) : m[h][i] # n
  <2>a. \A i \in 0 .. Len(m[h]) + 1 : Ring(h, m[h])[i] \in Entries
    BY AgreeFacts
  <2>b. \A i \in 0 .. Len(m[h]) + 1 : Ring(h, m[h])[i] # n
    BY FreeFacts
  <2>1. \A i \in 0 .. Len(m[h]) + 1 : Ring(h, m[h])[i] \in Entries /\ Ring(h, m[h])[i] # n
    BY <2>a, <2>b
  <2>2. n \in Entries /\ n \in Cells /\ \A i \in 1 .. Len(m[h]) : m[h][i] # n
    BY FreeFacts
  <2>3. QED
    BY <1>2, <2>1, <2>2
<1>4. /\ longer \in Seq(Cells) /\ Len(longer) = Len(m[h]) + 1 /\ DOMAIN longer = 1 .. Len(m[h]) + 1
      /\ \A i \in 1 .. Len(m[h]) + 1 : longer[i] = IF i <= k THEN m[h][i] ELSE IF i = k + 1 THEN n ELSE m[h][i - 1]
  <2>1. longer \in Seq(Cells) /\ Len(longer) = Len(m[h]) + 1
    BY DEF HasInserted
  <2>2. DOMAIN longer = 1 .. Len(longer)
    BY <2>1
  <2>3. QED
    BY <2>1, <2>2 DEF HasInserted
<1>5. Visits(v, h, longer)
  BY <1>1, <1>3, VisitsInserted
<1>6. /\ v \in Lists
      /\ \A x \in Entries : v.next[x] = IF x = p THEN n ELSE IF x = n THEN q ELSE l.next[x]
      /\ \A x \in Entries : v.prev[x] = IF x = q THEN n ELSE IF x = n THEN p ELSE l.prev[x]
  <2> HIDE DEF p, q
  <2>1. QED
    BY <1>1, <1>3, LinkFacts
<1>7. w \in [Heads -> Seq(Cells)] /\ w[h] = longer /\ \A g \in Heads : g # h => w[g] = m[g]
  BY <1>4 DEF Agree
<1>8. Distinct(longer)
  <2>1. \A i, j \in 1 .. Len(m[h]) : m[h][i] = m[h][j] => i = j
    BY <1>1 DEF Distinct
  <2>2. k \in Nat /\ k <= Len(m[h])
    BY <1>1
  <2>3. SUFFICES ASSUME NEW i \in 1 .. Len(m[h]) + 1, NEW j \in 1 .. Len(m[h]) + 1, longer[i] = longer[j] PROVE i = j
    BY <1>4 DEF Distinct
  <2>4. /\ i <= k => i \in 1 .. Len(m[h])
        /\ j <= k => j \in 1 .. Len(m[h])
        /\ ~(i <= k) /\ i # k + 1 => i - 1 \in 1 .. Len(m[h])
        /\ ~(j <= k) /\ j # k + 1 => j - 1 \in 1 .. Len(m[h])
    BY <1>1, <2>2
  <2>5. /\ i <= k => longer[i] = m[h][i] /\ longer[i] # n
        /\ i = k + 1 => longer[i] = n
        /\ ~(i <= k) /\ i # k + 1 => longer[i] = m[h][i - 1] /\ longer[i] # n
        /\ j <= k => longer[j] = m[h][j] /\ longer[j] # n
        /\ j = k + 1 => longer[j] = n
        /\ ~(j <= k) /\ j # k + 1 => longer[j] = m[h][j - 1] /\ longer[j] # n
    BY <1>3, <1>4, <2>2, <2>4
  <2>6. QED
    BY <2>1, <2>2, <2>3, <2>4, <2>5, SMTT(30)
<1>9. ASSUME NEW g \in Heads, g # h PROVE Visits(v, g, m[g])
  <2>1. ASSUME NEW i \in 0 .. Len(m[g]) + 1
        PROVE  /\ Ring(g, m[g])[i] \in Entries
               /\ Ring(g, m[g])[i] # p /\ Ring(g, m[g])[i] # q /\ Ring(g, m[g])[i] # n
    BY <1>2, <1>9, RingsDisjoint, AgreeFacts, FreeFacts
  <2>2. m[g] \in Seq(Cells) /\ Visits(l, g, m[g])
    BY AgreeFacts
  <2> HIDE DEF p, q, v
  <2>3. \A i \in 0 .. Len(m[g]) + 1 : v.next[Ring(g, m[g])[i]] = l.next[Ring(g, m[g])[i]]
                                     /\ v.prev[Ring(g, m[g])[i]] = l.prev[Ring(g, m[g])[i]]
    BY <1>6, <2>1
  <2>4. QED
    BY <2>2, <2>3, VisitsElsewhere
<1>10. ASSUME NEW g \in Heads, g # h PROVE \A i \in DOMAIN m[g], j \in DOMAIN longer : m[g][i] # longer[j]
  <2>1. \A i \in DOMAIN m[g], j \in 1 .. Len(m[h]) : m[g][i] # m[h][j]
    BY <1>1, <1>10 DEF Agree
  <2>2. \A i \in DOMAIN m[g] : m[g][i] # n
    BY DEF Free
  <2>3. ASSUME NEW j \in 1 .. Len(m[h]) + 1 PROVE longer[j] = n \/ \E i \in 1 .. Len(m[h]) : longer[j] = m[h][i]
    <3>1. (j <= k => j \in 1 .. Len(m[h])) /\ (~(j <= k) /\ j # k + 1 => j - 1 \in 1 .. Len(m[h]))
      BY <1>1
    <3>2. QED
      BY <1>4, <3>1
  <2>4. QED
    BY <1>4, <2>1, <2>2, <2>3
<1> HIDE DEF p, q, v, w
<1>11. \A g \in Heads : Distinct(w[g]) /\ Visits(v, g, w[g])
  <2>1. \A g \in Heads : Distinct(m[g])
    BY DEF Agree
  <2>2. QED
    BY <1>5, <1>7, <1>8, <1>9, <2>1
<1>12. \A g, f \in Heads : g # f => \A i \in DOMAIN w[g], j \in DOMAIN w[f] : w[g][i] # w[f][j]
  <2> SUFFICES ASSUME NEW g \in Heads, NEW f \in Heads, g # f PROVE \A i \in DOMAIN w[g], j \in DOMAIN w[f] : w[g][i] # w[f][j]
    OBVIOUS
  <2>1. CASE g = h
    BY <1>7, <1>10, <2>1
  <2>2. CASE f = h
    BY <1>7, <1>10, <2>2
  <2>3. CASE g # h /\ f # h
    <3>1. \A i \in DOMAIN m[g], j \in DOMAIN m[f] : m[g][i] # m[f][j]
      BY DEF Agree
    <3>2. QED
      BY <1>7, <2>3, <3>1
  <2>4. QED
    BY <2>1, <2>2, <2>3
<1>13. Agree(v, w)
  BY <1>6, <1>7, <1>11, <1>12 DEF Agree
<1>14. QED
  BY <1>13 DEF p, q, v, w

\* __list_del of an entry, and the lists without the k-th entry of one.
TakenOut(l, e) == Unlink(l, l.prev[e], l.next[e])
Shortened(m, h, shorter) == [m EXCEPT ![h] = shorter]

LEMMA LinkedOut ==
    ASSUME NEW l, NEW m, Agree(l, m), NEW h \in Heads, NEW k \in 1 .. Len(m[h]),
           NEW shorter, HasRemoved(shorter, m[h], k)
    PROVE  /\ Agree(TakenOut(l, m[h][k]), Shortened(m, h, shorter))
           /\ Free(Shortened(m, h, shorter), m[h][k])
           /\ Shortened(m, h, shorter)[h] = shorter
<1> DEFINE e == m[h][k]
           p == Ring(h, m[h])[k - 1]
           q == Ring(h, m[h])[k + 1]
           v == Unlink(l, p, q)
           w == [m EXCEPT ![h] = shorter]
<1>1. l \in Lists /\ m[h] \in Seq(Cells) /\ Len(m[h]) \in Nat /\ Distinct(m[h]) /\ Visits(l, h, m[h]) /\ DOMAIN m[h] = 1 .. Len(m[h])
  BY AgreeFacts
<1>2. k - 1 \in 0 .. Len(m[h]) + 1 /\ k + 1 \in 0 .. Len(m[h]) + 1 /\ e \in Cells
  BY <1>1
<1>3. p \in Entries /\ q \in Entries
  BY <1>2, AgreeFacts
<1>4. /\ shorter \in Seq(Cells) /\ Len(shorter) = Len(m[h]) - 1 /\ DOMAIN shorter = 1 .. Len(m[h]) - 1
      /\ \A i \in 1 .. Len(m[h]) - 1 : shorter[i] = IF i < k THEN m[h][i] ELSE m[h][i + 1]
  <2>1. shorter \in Seq(Cells) /\ Len(shorter) = Len(m[h]) - 1
    BY DEF HasRemoved
  <2>2. DOMAIN shorter = 1 .. Len(shorter)
    BY <2>1
  <2>3. QED
    BY <2>1, <2>2 DEF HasRemoved
<1>5. l.prev[e] = p /\ l.next[e] = q /\ Visits(v, h, shorter)
  BY <1>1, VisitsRemoved
<1>6. /\ v \in Lists
      /\ \A x \in Entries : v.next[x] = IF x = p THEN q ELSE l.next[x]
      /\ \A x \in Entries : v.prev[x] = IF x = q THEN p ELSE l.prev[x]
  <2> HIDE DEF p, q
  <2>1. QED
    BY <1>1, <1>3, UnlinkFacts
<1>7. w \in [Heads -> Seq(Cells)] /\ w[h] = shorter /\ \A g \in Heads : g # h => w[g] = m[g]
  BY <1>4 DEF Agree
<1>8. \A i \in 1 .. Len(m[h]) - 1 : \E j \in 1 .. Len(m[h]) : shorter[i] = m[h][j] /\ j # k /\ j = IF i < k THEN i ELSE i + 1
  <2> SUFFICES ASSUME NEW i \in 1 .. Len(m[h]) - 1
               PROVE  \E j \in 1 .. Len(m[h]) : shorter[i] = m[h][j] /\ j # k /\ j = IF i < k THEN i ELSE i + 1
    OBVIOUS
  <2>1. i \in 1 .. Len(m[h]) /\ i + 1 \in 1 .. Len(m[h]) /\ (~(i < k) => i + 1 # k)
    BY <1>1
  <2>2. QED
    BY <1>4, <2>1
<1>9. \A i, j \in 1 .. Len(m[h]) : m[h][i] = m[h][j] => i = j
  BY <1>1 DEF Distinct
<1>10. Distinct(shorter) /\ \A i \in 1 .. Len(m[h]) - 1 : shorter[i] # e
  <2>1. SUFFICES /\ \A i, j \in 1 .. Len(m[h]) - 1 : shorter[i] = shorter[j] => i = j
                 /\ \A i \in 1 .. Len(m[h]) - 1 : shorter[i] # e
    BY <1>4 DEF Distinct
  <2>2. ASSUME NEW i \in 1 .. Len(m[h]) - 1, NEW j \in 1 .. Len(m[h]) - 1, shorter[i] = shorter[j] PROVE i = j
    <3>1. PICK a \in 1 .. Len(m[h]) : shorter[i] = m[h][a] /\ a = IF i < k THEN i ELSE i + 1
      BY <1>8
    <3>2. PICK b \in 1 .. Len(m[h]) : shorter[j] = m[h][b] /\ b = IF j < k THEN j ELSE j + 1
      BY <1>8
    <3>3. a = b
      BY <1>9, <2>2, <3>1, <3>2
    <3>4. QED
      BY <1>1, <3>1, <3>2, <3>3
  <2>3. \A i \in 1 .. Len(m[h]) - 1 : shorter[i] # e
    BY <1>8, <1>9
  <2>4. QED
    BY <2>2, <2>3
<1>11. ASSUME NEW g \in Heads, g # h PROVE Visits(v, g, m[g])
  <2>1. \A i \in 0 .. Len(m[g]) + 1 : Ring(g, m[g])[i] \in Entries
    BY AgreeFacts
  <2>2. \A i \in 0 .. Len(m[g]) + 1 : Ring(g, m[g])[i] # p /\ Ring(g, m[g])[i] # q
    BY <1>2, <1>11, RingsDisjoint
  <2>3. m[g] \in Seq(Cells) /\ Visits(l, g, m[g])
    BY AgreeFacts
  <2> HIDE DEF p, q, v
  <2>4. \A i \in 0 .. Len(m[g]) + 1 : v.next[Ring(g, m[g])[i]] = l.next[Ring(g, m[g])[i]]
                                     /\ v.prev[Ring(g, m[g])[i]] = l.prev[Ring(g, m[g])[i]]
    BY <1>6, <2>1, <2>2
  <2>5. QED
    BY <2>3, <2>4, VisitsElsewhere
<1>12. ASSUME NEW g \in Heads, g # h
       PROVE  \A i \in DOMAIN m[g] : m[g][i] # e /\ \A j \in DOMAIN shorter : m[g][i] # shorter[j]
  <2>1. \A i \in DOMAIN m[g], j \in 1 .. Len(m[h]) : m[g][i] # m[h][j]
    BY <1>1, <1>12 DEF Agree
  <2>2. QED
    BY <1>4, <1>8, <2>1
<1>13. e = m[h][k] /\ w = Shortened(m, h, shorter) /\ v = TakenOut(l, m[h][k])
  BY <1>5 DEF Shortened, TakenOut
<1> HIDE DEF e, p, q, v, w
<1>14. \A g \in Heads : Distinct(w[g]) /\ Visits(v, g, w[g])
  <2>1. \A g \in Heads : Distinct(m[g])
    BY DEF Agree
  <2>2. QED
    BY <1>5, <1>7, <1>10, <1>11, <2>1
<1>15. \A g, f \in Heads : g # f => \A i \in DOMAIN w[g], j \in DOMAIN w[f] : w[g][i] # w[f][j]
  <2> SUFFICES ASSUME NEW g \in Heads, NEW f \in Heads, g # f PROVE \A i \in DOMAIN w[g], j \in DOMAIN w[f] : w[g][i] # w[f][j]
    OBVIOUS
  <2>1. CASE g = h
    BY <1>7, <1>12, <2>1
  <2>2. CASE f = h
    BY <1>7, <1>12, <2>2
  <2>3. CASE g # h /\ f # h
    <3>1. \A i \in DOMAIN m[g], j \in DOMAIN m[f] : m[g][i] # m[f][j]
      BY DEF Agree
    <3>2. QED
      BY <1>7, <2>3, <3>1
  <2>4. QED
    BY <2>1, <2>2, <2>3
<1>16. Agree(v, w)
  BY <1>6, <1>7, <1>14, <1>15 DEF Agree
<1>17. Free(w, e)
  <2>1. \A i \in DOMAIN w[h] : w[h][i] # e
    BY <1>4, <1>7, <1>10
  <2>2. \A g \in Heads : g # h => \A i \in DOMAIN w[g] : w[g][i] # e
    BY <1>7, <1>12
  <2>3. QED
    BY <1>2, <2>1, <2>2 DEF Free
<1>18. QED
  BY <1>7, <1>13, <1>16, <1>17

\* What is written to an entry on no list changes no list.
LEMMA Written ==
    ASSUME NEW l, NEW m, Agree(l, m), NEW n, Free(m, n), NEW v \in Lists,
           \A x \in Entries : x # n => v.next[x] = l.next[x] /\ v.prev[x] = l.prev[x]
    PROVE  Agree(v, m)
<1>1. ASSUME NEW h \in Heads PROVE Visits(v, h, m[h])
  <2>1. \A i \in 0 .. Len(m[h]) + 1 : Ring(h, m[h])[i] # n
    BY FreeFacts
  <2>2. \A i \in 0 .. Len(m[h]) + 1 : Ring(h, m[h])[i] \in Entries
    BY AgreeFacts
  <2>3. m[h] \in Seq(Cells) /\ Visits(l, h, m[h])
    BY AgreeFacts
  <2>4. \A i \in 0 .. Len(m[h]) + 1 : v.next[Ring(h, m[h])[i]] = l.next[Ring(h, m[h])[i]]
                                     /\ v.prev[Ring(h, m[h])[i]] = l.prev[Ring(h, m[h])[i]]
    BY <2>1, <2>2
  <2>5. QED
    BY <2>3, <2>4, VisitsElsewhere
<1>2. QED
  BY <1>1 DEF Agree

\* list_splice_init of a list in front of another.
LEMMA JoinedIn ==
    ASSUME NEW l, NEW m, Agree(l, m), NEW f \in Heads, NEW h \in Heads, f # h, NEW joined, HasJoined(joined, m[f], m[h])
    PROVE  Agree(ListSpliceInit(l, f, h), [m EXCEPT ![h] = joined, ![f] = <<>>])
<1> DEFINE w == [m EXCEPT ![h] = joined, ![f] = <<>>]
           v == InitListHead(Splice(l, f, h), f)
<1>1. /\ l \in Lists /\ m[f] \in Seq(Cells) /\ Len(m[f]) \in Nat /\ DOMAIN m[f] = 1 .. Len(m[f]) /\ Distinct(m[f]) /\ Visits(l, f, m[f])
      /\ m[h] \in Seq(Cells) /\ Len(m[h]) \in Nat /\ DOMAIN m[h] = 1 .. Len(m[h]) /\ Distinct(m[h]) /\ Visits(l, h, m[h])
  BY AgreeFacts
<1>2. /\ joined \in Seq(Cells) /\ Len(joined) = Len(m[f]) + Len(m[h]) /\ DOMAIN joined = 1 .. Len(m[f]) + Len(m[h])
      /\ \A i \in 1 .. Len(m[f]) + Len(m[h]) : joined[i] = IF i <= Len(m[f]) THEN m[f][i] ELSE m[h][i - Len(m[f])]
  <2>1. joined \in Seq(Cells) /\ Len(joined) = Len(m[f]) + Len(m[h])
    BY DEF HasJoined
  <2>2. DOMAIN joined = 1 .. Len(joined)
    BY <2>1
  <2>3. QED
    BY <2>1, <2>2 DEF HasJoined
<1>3. w \in [Heads -> Seq(Cells)] /\ w[h] = joined /\ w[f] = <<>> /\ \A g \in Heads : g = h \/ g = f
  <2>1. \A g \in Heads : g = h \/ g = f
    BY EntryFacts
  <2>2. <<>> \in Seq(Cells)
    OBVIOUS
  <2>3. QED
    BY <1>2, <2>1, <2>2 DEF Agree
<1>0. Len(m[f]) \in Nat /\ Len(m[h]) \in Nat
  BY <1>1
<1>4. l.next[f] = Ring(f, m[f])[1]
  <2>1. 0 \in 0 .. Len(m[f]) /\ 0 + 1 = 1 /\ Ring(f, m[f])[0] = f
    BY <1>1, RingFacts
  <2>2. QED
    BY <1>1, <2>1 DEF Visits
<1>5. CASE Len(m[f]) = 0
  <2>1. l.next[f] = f
    BY <1>1, <1>4, <1>5, RingFacts
  <2>2. ListSpliceInit(l, f, h) = l
    BY <2>1 DEF ListSpliceInit, ListEmpty
  <2>3. m[f] = <<>>
    BY <1>1, <1>5
  <2>4. joined = m[h]
    <3>1. Len(joined) = Len(m[h]) /\ \A i \in 1 .. Len(m[h]) : joined[i] = m[h][i]
      BY <1>1, <1>2, <1>5
    <3>2. joined \in Seq(Cells) /\ m[h] \in Seq(Cells)
      BY <1>1, <1>2
    <3>3. QED
      BY <3>1, <3>2
  <2>5. w = m
    BY <1>3, <2>3, <2>4 DEF Agree
  <2>6. QED
    BY <2>2, <2>5
<1>6. CASE Len(m[f]) # 0
  <2>1. l.next[f] # f
    <3>1. 1 \in 1 .. Len(m[f])
      BY <1>1, <1>6
    <3>2. QED
      BY <1>1, <1>4, <3>1, RingFacts
  <2>2. ListSpliceInit(l, f, h) = v
    BY <2>1 DEF ListSpliceInit, ListEmpty
  <2>3. \A i \in 1 .. Len(m[f]), j \in 1 .. Len(m[h]) : m[f][i] # m[h][j]
    BY <1>1 DEF Agree
  <2>4. Splice(l, f, h) \in Lists /\ Visits(Splice(l, f, h), h, joined)
    BY <1>1, <1>6, <2>3, VisitsJoined
  <2>5. f \in Entries
    BY EntryFacts
  <2>6. /\ v \in Lists
        /\ \A x \in Entries : v.next[x] = IF x = f THEN f ELSE Splice(l, f, h).next[x]
        /\ \A x \in Entries : v.prev[x] = IF x = f THEN f ELSE Splice(l, f, h).prev[x]
    BY <2>4, <2>5, HeadFacts
  <2> HIDE DEF v, w
  <2>7. Visits(v, f, <<>>)
    <3>1. <<>> \in Seq(Cells) /\ Len(<<>>) = 0
      OBVIOUS
    <3>2. \A i \in 0 .. 1 : Ring(f, <<>>)[i] = f
      <4>1. Ring(f, <<>>)[0] = f /\ Ring(f, <<>>)[0 + 1] = f
        BY <3>1, RingFacts
      <4>2. \A i \in 0 .. 1 : i = 0 \/ i = 0 + 1
        OBVIOUS
      <4>3. QED
        BY <4>1, <4>2
    <3>3. QED
      BY <2>5, <2>6, <3>1, <3>2 DEF Visits
  <2>8. Visits(v, h, joined)
    <3>1. \A i \in 0 .. Len(joined) + 1 : Ring(h, joined)[i] \in Entries
      BY <1>2, RingFacts
    <3>2. \A i \in 0 .. Len(joined) + 1 : Ring(h, joined)[i] # f
      <4>1. Len(joined) \in Nat /\ joined \in Seq(Cells)
        <5> DEFINE a == Len(m[f])
                   b == Len(m[h])
        <5>a. a \in Nat /\ b \in Nat
          BY <1>0
        <5> HIDE DEF a, b
        <5>b. a + b \in Nat
          BY <5>a
        <5>1. Len(m[f]) + Len(m[h]) \in Nat
          BY <5>b DEF a, b
        <5>2. QED
          BY <1>2, <5>1
      <4>2. \A i \in 0 .. Len(joined) + 1 : i = 0 \/ i = Len(joined) + 1 \/ i \in 1 .. Len(joined)
        BY <4>1
      <4>3. f \notin Cells
        BY EntryFacts
      <4>4. Ring(h, joined)[0] = h /\ Ring(h, joined)[Len(joined) + 1] = h /\ \A i \in 1 .. Len(joined) : Ring(h, joined)[i] \in Cells
        BY <4>1, RingFacts
      <4>5. QED
        BY <4>2, <4>3, <4>4
    <3>3. \A i \in 0 .. Len(joined) + 1 : v.next[Ring(h, joined)[i]] = Splice(l, f, h).next[Ring(h, joined)[i]]
                                         /\ v.prev[Ring(h, joined)[i]] = Splice(l, f, h).prev[Ring(h, joined)[i]]
      BY <2>6, <3>1, <3>2
    <3>4. QED
      BY <1>2, <2>4, <3>3, VisitsElsewhere
  <2>9. Distinct(joined)
    <3>1. SUFFICES ASSUME NEW i \in 1 .. Len(m[f]) + Len(m[h]), NEW j \in 1 .. Len(m[f]) + Len(m[h]), joined[i] = joined[j] PROVE i = j
      BY <1>2 DEF Distinct
    <3>2. /\ \A a, b \in 1 .. Len(m[f]) : m[f][a] = m[f][b] => a = b
          /\ \A a, b \in 1 .. Len(m[h]) : m[h][a] = m[h][b] => a = b
      BY <1>1 DEF Distinct
    <3>3. \A x \in 1 .. Len(m[f]) + Len(m[h]) :
             /\ x <= Len(m[f]) => x \in 1 .. Len(m[f]) /\ joined[x] = m[f][x]
             /\ ~(x <= Len(m[f])) => x - Len(m[f]) \in 1 .. Len(m[h]) /\ joined[x] = m[h][x - Len(m[f])]
      <4>1. \A x \in 1 .. Len(m[f]) + Len(m[h]) : /\ x <= Len(m[f]) => x \in 1 .. Len(m[f])
                                                  /\ ~(x <= Len(m[f])) => x - Len(m[f]) \in 1 .. Len(m[h])
        <5> DEFINE a == Len(m[f])
                   b == Len(m[h])
        <5>1. a \in Nat /\ b \in Nat
          BY <1>0
        <5> HIDE DEF a, b
        <5>2. \A x \in 1 .. a + b : (x <= a => x \in 1 .. a) /\ (~(x <= a) => x - a \in 1 .. b)
          BY <5>1
        <5>3. QED
          BY <5>2 DEF a, b
      <4>2. QED
        BY <1>2, <4>1
    <3>4. /\ i <= Len(m[f]) => i \in 1 .. Len(m[f]) /\ joined[i] = m[f][i]
          /\ ~(i <= Len(m[f])) => i - Len(m[f]) \in 1 .. Len(m[h]) /\ joined[i] = m[h][i - Len(m[f])]
          /\ j <= Len(m[f]) => j \in 1 .. Len(m[f]) /\ joined[j] = m[f][j]
          /\ ~(j <= Len(m[f])) => j - Len(m[f]) \in 1 .. Len(m[h]) /\ joined[j] = m[h][j - Len(m[f])]
      BY <3>3
    <3>5. CASE i <= Len(m[f]) /\ j <= Len(m[f])
      BY <3>1, <3>2, <3>4, <3>5
    <3>6. CASE ~(i <= Len(m[f])) /\ ~(j <= Len(m[f]))
      <4>1. i - Len(m[f]) = j - Len(m[f])
        BY <3>1, <3>2, <3>4, <3>6
      <4>2. QED
        BY <1>0, <4>1
    <3>7. CASE i <= Len(m[f]) /\ ~(j <= Len(m[f]))
      BY <2>3, <3>1, <3>4, <3>7
    <3>8. CASE ~(i <= Len(m[f])) /\ j <= Len(m[f])
      BY <2>3, <3>1, <3>4, <3>8
    <3>9. QED
      BY <3>5, <3>6, <3>7, <3>8
  <2>10. Distinct(<<>>)
    BY DEF Distinct
  <2>11. \A g \in Heads : Distinct(w[g]) /\ Visits(v, g, w[g])
    BY <1>3, <2>7, <2>8, <2>9, <2>10
  <2>12. \A g, e \in Heads : g # e => \A i \in DOMAIN w[g], j \in DOMAIN w[e] : w[g][i] # w[e][j]
    <3>1. DOMAIN w[f] = {}
      BY <1>3
    <3>2. QED
      BY <1>3, <3>1
  <2>13. Agree(v, w)
    BY <1>3, <2>6, <2>11, <2>12 DEF Agree
  <2>14. QED
    BY <2>2, <2>13 DEF w
<1>7. QED
  BY <1>5, <1>6

LEMMA ClosedOver ==
    ASSUME NEW S, NEW q \in Seq(S), NEW k \in 1 .. Len(q)
    PROVE  /\ RemoveAt(q, k) \in Seq(S) /\ Len(RemoveAt(q, k)) = Len(q) - 1
           /\ \A i \in 1 .. Len(q) - 1 : RemoveAt(q, k)[i] = IF i < k THEN q[i] ELSE q[i + 1]
  BY CutOut DEF RemoveAt

LEMMA FrontInserted == ASSUME NEW q \in Seq(Cells), NEW c \in Cells PROVE HasInserted(<<c>> \o q, q, 0, c)
<1>1. <<c>> \o q \in Seq(Cells) /\ Len(<<c>> \o q) = Len(q) + 1
  OBVIOUS
<1>2. \A i \in 1 .. Len(q) + 1 : (<<c>> \o q)[i] = IF i = 1 THEN c ELSE q[i - 1]
  OBVIOUS
<1>3. QED
  BY <1>1, <1>2 DEF HasInserted

LEMMA EndInserted == ASSUME NEW q \in Seq(Cells), NEW c \in Cells PROVE HasInserted(Append(q, c), q, Len(q), c)
<1>1. Append(q, c) \in Seq(Cells) /\ Len(Append(q, c)) = Len(q) + 1
  OBVIOUS
<1>2. \A i \in 1 .. Len(q) + 1 : Append(q, c)[i] = IF i <= Len(q) THEN q[i] ELSE c
  OBVIOUS
<1>3. \A i \in 1 .. Len(q) + 1 : i <= Len(q) \/ i = Len(q) + 1
  OBVIOUS
<1>4. QED
  BY <1>1, <1>2, <1>3 DEF HasInserted

LEMMA RemovedAt == ASSUME NEW q \in Seq(Cells), NEW k \in 1 .. Len(q) PROVE HasRemoved(RemoveAt(q, k), q, k)
  BY ClosedOver DEF HasRemoved

LEMMA InsertAtFacts ==
    ASSUME NEW S, NEW q \in Seq(S), NEW k \in 1 .. Len(q) + 1, NEW c \in S
    PROVE  /\ InsertAt(q, k, c) \in Seq(S) /\ Len(InsertAt(q, k, c)) = Len(q) + 1
           /\ \A i \in 1 .. Len(q) + 1 : InsertAt(q, k, c)[i] = IF i < k THEN q[i] ELSE IF i = k THEN c ELSE q[i - 1]
<1> DEFINE a == SubSeq(q, 1, k - 1)
           b == SubSeq(q, k, Len(q))
           e == a \o <<c>>
           d == e \o b
<1>1. Len(q) \in Nat /\ k \in Nat /\ k >= 1 /\ k <= Len(q) + 1
  OBVIOUS
<1>2. a \in Seq(S) /\ Len(a) = k - 1 /\ \A i \in 1 .. k - 1 : a[i] = q[i]
  OBVIOUS
<1>3. b \in Seq(S) /\ Len(b) = Len(q) - k + 1 /\ \A i \in 1 .. Len(q) - k + 1 : b[i] = q[k + i - 1]
  OBVIOUS
<1> HIDE DEF a, b
<1>4. e \in Seq(S) /\ Len(e) = k /\ \A i \in 1 .. k : e[i] = IF i < k THEN a[i] ELSE c
  BY <1>1, <1>2
<1> HIDE DEF e
<1>5. /\ d \in Seq(S) /\ Len(d) = Len(q) + 1
      /\ \A i \in 1 .. Len(q) + 1 : d[i] = IF i <= k THEN e[i] ELSE b[i - k]
  <2>1. /\ d \in Seq(S) /\ Len(d) = Len(e) + Len(b)
        /\ \A i \in 1 .. Len(e) + Len(b) : d[i] = IF i <= Len(e) THEN e[i] ELSE b[i - Len(e)]
    BY <1>3, <1>4, JoinedIs
  <2>2. Len(e) + Len(b) = Len(q) + 1 /\ Len(e) = k
    BY <1>1, <1>3, <1>4
  <2> HIDE DEF d
  <2>3. QED
    BY <2>1, <2>2
<1> HIDE DEF d
<1>6. ASSUME NEW i \in 1 .. Len(q) + 1 PROVE d[i] = IF i < k THEN q[i] ELSE IF i = k THEN c ELSE q[i - 1]
  <2>1. CASE i < k
    <3>1. i \in 1 .. k - 1 /\ i <= k /\ i \in 1 .. k
      BY <1>1, <2>1
    <3>2. QED
      BY <1>2, <1>4, <1>5, <2>1, <3>1
  <2>2. CASE i = k
    BY <1>1, <1>4, <1>5, <2>2
  <2>3. CASE i > k
    <3>1. i - k \in 1 .. Len(q) - k + 1 /\ k + (i - k) - 1 = i - 1 /\ ~(i <= k) /\ ~(i < k) /\ i # k
      BY <1>1, <2>3
    <3>2. QED
      BY <1>3, <1>5, <3>1
  <2>4. QED
    BY <1>1, <2>1, <2>2, <2>3
<1>7. InsertAt(q, k, c) = d
  BY DEF InsertAt, a, b, d, e
<1>8. QED
  BY <1>5, <1>6, <1>7

LEMMA InsertedAt == ASSUME NEW q \in Seq(Cells), NEW k \in 1 .. Len(q) + 1, NEW c \in Cells PROVE HasInserted(InsertAt(q, k, c), q, k - 1, c)
<1> DEFINE d == InsertAt(q, k, c)
<1>1. /\ d \in Seq(Cells) /\ Len(d) = Len(q) + 1
      /\ \A i \in 1 .. Len(q) + 1 : d[i] = IF i < k THEN q[i] ELSE IF i = k THEN c ELSE q[i - 1]
  <2> DEFINE Fact(S, p, j, x) ==
           /\ InsertAt(p, j, x) \in Seq(S) /\ Len(InsertAt(p, j, x)) = Len(p) + 1
           /\ \A i \in 1 .. Len(p) + 1 : InsertAt(p, j, x)[i] = IF i < j THEN p[i] ELSE IF i = j THEN x ELSE p[i - 1]
  <2>1. \A S : \A p \in Seq(S) : \A j \in 1 .. Len(p) + 1 : \A x \in S : Fact(S, p, j, x)
    BY InsertAtFacts
  <2> HIDE DEF Fact
  <2>2. Fact(Cells, q, k, c)
    BY <2>1
  <2>3. QED
    BY <2>2 DEF Fact
<1> HIDE DEF d
<1>2. (k - 1) + 1 = k /\ \A i \in 1 .. Len(q) + 1 : i < k <=> i <= k - 1
  OBVIOUS
<1>3. HasInserted(d, q, k - 1, c)
  BY <1>1, <1>2 DEF HasInserted
<1>4. QED
  BY <1>3 DEF d

LEMMA Joins == ASSUME NEW p \in Seq(Cells), NEW q \in Seq(Cells) PROVE HasJoined(p \o q, p, q)
  BY DEF HasJoined

\* list_add and list_add_tail of an entry on no list.
LEMMA Adding ==
    ASSUME NEW l, NEW m, Agree(l, m), NEW n, Free(m, n), NEW h \in Heads
    PROVE  /\ Agree(ListAdd(l, n, h), InFront(m, h, n))
           /\ Agree(ListAddTail(l, n, h), AtEnd(m, h, n))
<1> DEFINE N == Len(m[h])
<1>1. m[h] \in Seq(Cells) /\ N \in Nat /\ n \in Cells
  BY AgreeFacts, FreeFacts
<1>2. /\ Ring(h, m[h])[0] = h /\ Ring(h, m[h])[N + 1] = h
      /\ l.next[h] = Ring(h, m[h])[0 + 1] /\ l.prev[h] = Ring(h, m[h])[N]
  <2>1. 0 \in 0 .. N /\ N \in 0 .. N
    BY <1>1
  <2>2. Ring(h, m[h])[0] = h /\ Ring(h, m[h])[N + 1] = h
    BY <1>1, RingFacts
  <2>3. \A i \in 0 .. N : /\ l.next[Ring(h, m[h])[i]] = Ring(h, m[h])[i + 1]
                          /\ l.prev[Ring(h, m[h])[i + 1]] = Ring(h, m[h])[i]
    BY AgreeFacts
  <2>4. QED
    BY <2>1, <2>2, <2>3
<1>3. Agree(ListAdd(l, n, h), InFront(m, h, n))
  <2>1. HasInserted(<<n>> \o m[h], m[h], 0, n)
    BY <1>1, FrontInserted
  <2>2. 0 \in 0 .. N
    BY <1>1
  <2>3. Agree(LinkBetween(l, n, Ring(h, m[h])[0], Ring(h, m[h])[0 + 1]), [m EXCEPT ![h] = <<n>> \o m[h]])
    BY <2>1, <2>2, LinkedIn
  <2>4. QED
    BY <1>2, <2>3 DEF ListAdd, InFront
<1>4. Agree(ListAddTail(l, n, h), AtEnd(m, h, n))
  <2>1. HasInserted(Append(m[h], n), m[h], N, n)
    BY <1>1, EndInserted
  <2>2. N \in 0 .. N
    BY <1>1
  <2>3. Agree(LinkBetween(l, n, Ring(h, m[h])[N], Ring(h, m[h])[N + 1]), [m EXCEPT ![h] = Append(m[h], n)])
    BY <2>1, <2>2, LinkedIn
  <2>4. QED
    BY <1>2, <2>3 DEF ListAddTail, AtEnd
<1>5. QED
  BY <1>3, <1>4

\* What the calls on an entry find of it in the pointers, and what __list_del leaves.
LEMMA OnListFacts ==
    ASSUME Agree(s, model), NEW h \in Heads, NEW k \in 1 .. Len(model[h])
    PROVE  /\ model[h][k] \in Cells /\ model[h][k] \in Entries
           /\ s.prev[model[h][k]] = h <=> k = 1
           /\ k # 1 => s.prev[model[h][k]] = model[h][k - 1]
           /\ Agree(TakenOut(s, model[h][k]), Without(h, k)) /\ Free(Without(h, k), model[h][k])
           /\ Without(h, k)[h] = RemoveAt(model[h], k) /\ HasRemoved(RemoveAt(model[h], k), model[h], k)
<1> DEFINE c == model[h][k]
<1>1. model[h] \in Seq(Cells) /\ Len(model[h]) \in Nat /\ k \in Nat /\ k >= 1
  BY AgreeFacts
<1>2. c \in Cells /\ c \in Entries
  BY <1>1, EntryFacts
<1>3. s.prev[c] = Ring(h, model[h])[k - 1]
  <2>1. k - 1 \in 0 .. Len(model[h]) /\ (k - 1) + 1 = k
    BY <1>1
  <2>2. Ring(h, model[h])[k] = c
    BY <1>1, RingFacts
  <2>3. \A i \in 0 .. Len(model[h]) : s.prev[Ring(h, model[h])[i + 1]] = Ring(h, model[h])[i]
    BY AgreeFacts
  <2>4. QED
    BY <2>1, <2>2, <2>3
<1>4. k = 1 => s.prev[c] = h
  BY <1>1, <1>3, RingFacts
<1>5. k # 1 => s.prev[c] = model[h][k - 1] /\ s.prev[c] # h
  <2>1. k # 1 => k - 1 \in 1 .. Len(model[h])
    BY <1>1
  <2>2. QED
    BY <1>1, <1>3, <2>1, RingFacts
<1>6. HasRemoved(RemoveAt(model[h], k), model[h], k)
  BY <1>1, RemovedAt
<1>7. Without(h, k) = Shortened(model, h, RemoveAt(model[h], k))
  BY DEF Without, Shortened
<1>8. /\ Agree(TakenOut(s, c), Without(h, k)) /\ Free(Without(h, k), c)
      /\ Without(h, k)[h] = RemoveAt(model[h], k)
  BY <1>6, <1>7, LinkedOut
<1> HIDE DEF c
<1>9. QED
  BY <1>2, <1>4, <1>5, <1>6, <1>8 DEF c

\* list_del and list_del_init.
LEMMA Removing ==
    ASSUME Agree(s, model), NEW h \in Heads, NEW k \in 1 .. Len(model[h])
    PROVE  /\ Agree(ListDel(s, model[h][k]), Without(h, k))
           /\ Agree(ListDelInit(s, model[h][k]), Without(h, k))
<1> DEFINE c == model[h][k]
           u == TakenOut(s, c)
<1>1. c \in Entries /\ Agree(u, Without(h, k)) /\ Free(Without(h, k), c)
  BY OnListFacts
<1>2. u \in Lists
  BY <1>1 DEF Agree
<1>3. ListDel(s, c) = [u EXCEPT !.next[c] = NULL, !.prev[c] = NULL] /\ ListDelInit(s, c) = InitListHead(u, c)
  BY DEF ListDel, ListDelInit, TakenOut
<1> HIDE DEF c, u
<1>4. /\ InitListHead(u, c) \in Lists
      /\ \A x \in Entries : x # c => InitListHead(u, c).next[x] = u.next[x] /\ InitListHead(u, c).prev[x] = u.prev[x]
  BY <1>1, <1>2, HeadFacts
<1> DEFINE v == [u EXCEPT !.next[c] = NULL, !.prev[c] = NULL]
<1>5. v \in Lists /\ \A x \in Entries : x # c => v.next[x] = u.next[x] /\ v.prev[x] = u.prev[x]
  BY <1>1, <1>2 DEF Lists
<1> HIDE DEF v
<1>6. Agree(v, Without(h, k)) /\ Agree(InitListHead(u, c), Without(h, k))
  BY <1>1, <1>4, <1>5, Written
<1>7. QED
  BY <1>3, <1>6 DEF c, v

\* list_move and list_move_tail.
LEMMA Moving ==
    ASSUME Agree(s, model), NEW h \in Heads, NEW k \in 1 .. Len(model[h]), NEW g \in Heads
    PROVE  /\ Agree(ListMove(s, model[h][k], g), InFront(Without(h, k), g, model[h][k]))
           /\ Agree(ListMoveTail(s, model[h][k], g), AtEnd(Without(h, k), g, model[h][k]))
<1> DEFINE c == model[h][k]
           u == TakenOut(s, c)
<1>1. Agree(u, Without(h, k)) /\ Free(Without(h, k), c)
  BY OnListFacts
<1>2. ListMove(s, c, g) = ListAdd(u, c, g) /\ ListMoveTail(s, c, g) = ListAddTail(u, c, g)
  BY DEF ListMove, ListMoveTail, TakenOut
<1> HIDE DEF c, u
<1>3. QED
  BY <1>1, <1>2, Adding DEF c

\* list_mtf.
LEMMA MovingToFront ==
    ASSUME Agree(s, model), NEW h \in Heads, NEW k \in 1 .. Len(model[h])
    PROVE  Agree(ListMoveToFront(s, model[h][k], h), InFront(Without(h, k), h, model[h][k]))
<1> DEFINE c == model[h][k]
           u == TakenOut(s, c)
<1>1. /\ Agree(u, Without(h, k)) /\ Free(Without(h, k), c)
      /\ s.prev[c] = h <=> k = 1
      /\ Without(h, k)[h] = RemoveAt(model[h], k) /\ HasRemoved(RemoveAt(model[h], k), model[h], k)
  BY OnListFacts
<1>2. CASE k # 1
  <2>1. ListMoveToFront(s, c, h) = ListAdd(u, c, h)
    BY <1>1, <1>2 DEF ListMoveToFront, ListAdd, TakenOut
  <2> HIDE DEF c, u
  <2>2. QED
    BY <1>1, <2>1, Adding DEF c
<1>3. CASE k = 1
  <2>1. ListMoveToFront(s, c, h) = s
    BY <1>1, <1>3 DEF ListMoveToFront
  <2>2. model[h] \in Seq(Cells) /\ model \in [Heads -> Seq(Cells)]
    BY AgreeFacts DEF Agree
  <2> DEFINE r == RemoveAt(model[h], k)
  <2>3. r \in Seq(Cells) /\ Len(r) = Len(model[h]) - 1 /\ \A i \in 1 .. Len(model[h]) - 1 : r[i] = model[h][i + 1]
    BY <1>1, <1>3 DEF HasRemoved
  <2>4. Without(h, k) = [model EXCEPT ![h] = r]
    BY DEF Without
  <2> HIDE DEF r
  <2>5. <<c>> \o r = model[h]
    <3>1. Len(model[h]) \in Nat /\ c = model[h][1] /\ c \in Cells
      BY <1>3, <2>2
    <3>2. <<c>> \o r \in Seq(Cells) /\ Len(<<c>> \o r) = Len(model[h])
      BY <2>3, <3>1
    <3>3. ASSUME NEW i \in 1 .. Len(model[h]) PROVE (<<c>> \o r)[i] = model[h][i]
      <4>1. (<<c>> \o r)[i] = IF i = 1 THEN c ELSE r[i - 1]
        BY <2>3, <3>1
      <4>2. i # 1 => i - 1 \in 1 .. Len(model[h]) - 1 /\ (i - 1) + 1 = i
        BY <3>1
      <4>3. QED
        BY <2>3, <3>1, <4>1, <4>2
    <3> DEFINE d == <<c>> \o r
    <3>4. d \in Seq(Cells) /\ Len(d) = Len(model[h]) /\ \A i \in 1 .. Len(model[h]) : d[i] = model[h][i]
      BY <3>2, <3>3
    <3> HIDE DEF d
    <3>5. d = model[h]
      BY <2>2, <3>4
    <3>6. QED
      BY <3>5 DEF d
  <2>6. InFront(Without(h, k), h, c) = model
    BY <2>2, <2>4, <2>5 DEF InFront
  <2>7. QED
    BY <2>1, <2>6
<1>4. QED
  BY <1>2, <1>3

\* list_move_ahead.
LEMMA MovingAhead ==
    ASSUME Agree(s, model), NEW h \in Heads, NEW k \in 1 .. Len(model[h])
    PROVE  Agree(ListMoveAhead(s, model[h][k], h),
                 IF k = 1 THEN model ELSE [model EXCEPT ![h] = InsertAt(RemoveAt(@, k), k - 1, @[k])])
<1> DEFINE c == model[h][k]
           u == TakenOut(s, c)
           w == Without(h, k)
           r == RemoveAt(model[h], k)
           b == model[h][k - 1]
<1>1. /\ Agree(u, w) /\ Free(w, c) /\ w[h] = r /\ HasRemoved(r, model[h], k)
      /\ s.prev[c] = h <=> k = 1
      /\ k # 1 => s.prev[c] = b
  BY OnListFacts
<1>2. CASE k = 1
  <2>1. ListMoveAhead(s, c, h) = s
    BY <1>1, <1>2 DEF ListMoveAhead
  <2>2. QED
    BY <1>2, <2>1
<1>3. CASE k # 1
  <2>1. ListMoveAhead(s, c, h) = LinkBetween(u, c, u.prev[b], b)
    BY <1>1, <1>3 DEF ListMoveAhead, TakenOut
  <2>2. w = [model EXCEPT ![h] = r] /\ model \in [Heads -> Seq(Cells)]
    BY DEF Without, Agree
  <2>3. Len(model[h]) \in Nat /\ k \in Nat /\ k >= 2 /\ k <= Len(model[h])
    BY <1>3, AgreeFacts
  <2>4. r \in Seq(Cells) /\ Len(r) = Len(model[h]) - 1 /\ \A i \in 1 .. Len(model[h]) - 1 : i < k => r[i] = model[h][i]
    BY <1>1 DEF HasRemoved
  <2>5. c \in Cells
    BY <1>1 DEF Free
  <2> HIDE DEF c, u, w, r
  <2>6. k - 2 \in 0 .. Len(r) /\ k - 1 \in 1 .. Len(r) /\ k - 1 \in 1 .. Len(r) + 1 /\ (k - 2) + 1 = k - 1 /\ (k - 1) - 1 = k - 2
        /\ k - 1 \in 1 .. Len(model[h]) - 1 /\ k - 1 < k
    BY <2>3, <2>4
  <2>7. HasInserted(InsertAt(r, k - 1, c), r, k - 2, c)
    BY <2>4, <2>5, <2>6, InsertedAt
  <2>8. Agree(LinkBetween(u, c, Ring(h, r)[k - 2], Ring(h, r)[(k - 2) + 1]), [w EXCEPT ![h] = InsertAt(r, k - 1, c)])
    BY <1>1, <2>6, <2>7, LinkedIn
  <2>9. Ring(h, r)[(k - 2) + 1] = b
    BY <2>4, <2>6, RingFacts
  <2>10. u.prev[b] = Ring(h, r)[k - 2]
    <3>1. \A i \in 0 .. Len(w[h]) : u.prev[Ring(h, w[h])[i + 1]] = Ring(h, w[h])[i]
      BY <1>1, AgreeFacts
    <3>2. QED
      BY <1>1, <2>6, <2>9, <3>1
  <2>11. [w EXCEPT ![h] = InsertAt(r, k - 1, c)] = [model EXCEPT ![h] = InsertAt(RemoveAt(@, k), k - 1, @[k])]
    BY <2>2 DEF c, r
  <2>12. Agree(ListMoveAhead(s, c, h), [model EXCEPT ![h] = InsertAt(RemoveAt(@, k), k - 1, @[k])])
    BY <2>1, <2>8, <2>9, <2>10, <2>11
  <2>13. QED
    BY <1>3, <2>12 DEF c
<1>4. QED
  BY <1>2, <1>3

-----------------------------------------------------------------------------
(* The ring queue and the stack *)

RingArrays == [0 .. Capacity - 1 -> Elements \cup {Junk}]
Rings == [size : 0 .. Capacity, front : 0 .. Capacity - 1, rear : -1 .. Capacity - 1, elements : RingArrays]
Stacks == [size : 0 .. Capacity, elements : RingArrays]

\* The next element goes behind the last one, also in a new queue, whose rear is -1.
RingInv(q, m) ==
    /\ q \in Rings
    /\ m \in Seq(Elements)
    /\ q.size = Len(m)
    /\ Wrapped(q, q.rear + 1) = (q.front + q.size) % Capacity
    /\ \A i \in 1 .. Len(m) : q.elements[(q.front + i - 1) % Capacity] = m[i]

StackInv(st, m) ==
    /\ st \in Stacks
    /\ m \in Seq(Elements)
    /\ st.size = Len(m)
    /\ \A i \in 1 .. Len(m) : st.elements[st.size - i] = m[i]

\* As many cells as the constructor asked for.
LEMMA ArrayCells == ASSUME NEW a \in RingArrays PROVE Cardinality(DOMAIN a) = Capacity
<1>1. DOMAIN a = 0 .. Capacity - 1
  BY DEF RingArrays
<1>2. 0 \in Int /\ Capacity - 1 \in Int /\ Capacity - 1 >= 0 /\ Capacity \in Nat
  BY SizesAssumption
<1>3. Cardinality(0 .. Capacity - 1) = IF 0 > Capacity - 1 THEN 0 ELSE (Capacity - 1) - 0 + 1
  BY <1>2, FS_Interval
<1>4. (Capacity - 1) - 0 + 1 = Capacity
  BY <1>2
<1>5. QED
  BY <1>1, <1>2, <1>3, <1>4

\* An index less than twice the capacity, around the ring.
LEMMA Around == ASSUME NEW c \in Nat \ {0}, NEW x \in 0 .. 2 * c - 1 PROVE x % c = IF x < c THEN x ELSE x - c
<1>1. x < c => x % c = x
  OBVIOUS
<1>2. ~(x < c) => x % c = x - c
  OBVIOUS
<1>3. QED
  BY <1>1, <1>2

LEMMA Enqueuing ==
    ASSUME NEW q, NEW m, RingInv(q, m), NEW e \in Elements
    PROVE  RingInv(Enqueue(q, e), IF Len(m) = Capacity THEN m ELSE Append(m, e))
<1>1. /\ q \in Rings /\ m \in Seq(Elements) /\ q.size = Len(m)
      /\ Wrapped(q, q.rear + 1) = (q.front + q.size) % Capacity
      /\ \A i \in 1 .. Len(m) : q.elements[(q.front + i - 1) % Capacity] = m[i]
  BY DEF RingInv
<1>2. q.size \in 0 .. Capacity /\ q.front \in 0 .. Capacity - 1 /\ q.elements \in RingArrays /\ Capacity \in Nat \ {0}
  BY <1>1, SizesAssumption DEF Rings
<1>3. Cardinality(DOMAIN q.elements) = Capacity
  BY <1>2, ArrayCells
<1>4. CASE Len(m) = Capacity
  BY <1>1, <1>3, <1>4 DEF Enqueue, RingInv
<1>5. CASE Len(m) # Capacity
  <2> DEFINE rear == Wrapped(q, q.rear + 1)
             p == [q EXCEPT !.size = @ + 1, !.rear = rear, !.elements[rear] = e]
             r == Append(m, e)
  <2>1. Enqueue(q, e) = p
    BY <1>1, <1>3, <1>5 DEF Enqueue
  <2>2. q.size + 1 \in 0 .. Capacity /\ q.size < Capacity
    BY <1>1, <1>2, <1>5
  <2>3. rear \in 0 .. Capacity - 1 /\ rear = (q.front + q.size) % Capacity
    <3>1. q.front + q.size \in 0 .. 2 * Capacity - 1
      BY <1>2, <2>2
    <3> DEFINE x == q.front + q.size
    <3>2. x % Capacity = IF x < Capacity THEN x ELSE x - Capacity
      BY <1>2, <3>1, Around
    <3>3. x % Capacity \in 0 .. Capacity - 1
      <4> HIDE DEF x
      <4>1. x \in 0 .. 2 * Capacity - 1
        BY <3>1 DEF x
      <4>2. QED
        BY <1>2, <3>2, <4>1
    <3>4. QED
      BY <1>1, <3>3
  <2> HIDE DEF rear
  <2>4. p \in Rings /\ p.size = q.size + 1 /\ p.front = q.front /\ p.rear = rear /\ p.elements = [q.elements EXCEPT ![rear] = e]
    <3> DEFINE cells == [q.elements EXCEPT ![rear] = e]
    <3>1. cells \in RingArrays
      BY <1>2, <2>3 DEF RingArrays
    <3>2. p = [q EXCEPT !.size = q.size + 1, !.rear = rear, !.elements = cells]
      BY <1>1 DEF Rings
    <3>3. rear \in -1 .. Capacity - 1
      BY <2>3
    <3> HIDE DEF cells, p
    <3>4. p \in Rings /\ p.size = q.size + 1 /\ p.front = q.front /\ p.rear = rear /\ p.elements = cells
      BY <1>1, <2>2, <3>1, <3>2, <3>3 DEF Rings
    <3>5. QED
      BY <3>4 DEF cells
  <2>5. p.elements \in RingArrays /\ p.elements[rear] = e /\ \A x \in 0 .. Capacity - 1 : x # rear => p.elements[x] = q.elements[x]
    BY <1>2, <2>3, <2>4 DEF RingArrays
  <2>6. r \in Seq(Elements) /\ Len(r) = Len(m) + 1 /\ r[Len(m) + 1] = e /\ \A i \in 1 .. Len(m) : r[i] = m[i]
    BY <1>1
  <2> HIDE DEF p, r
  <2>7. Wrapped(p, p.rear + 1) = (p.front + p.size) % Capacity
    <3> DEFINE x == q.front + q.size
    <3>1. x \in 0 .. 2 * Capacity - 1 /\ x + 1 \in 0 .. 2 * Capacity - 1 /\ p.front + p.size = x + 1
      BY <1>2, <2>2, <2>4
    <3>2. Cardinality(DOMAIN p.elements) = Capacity
      BY <2>5, ArrayCells
    <3>3. /\ x % Capacity = IF x < Capacity THEN x ELSE x - Capacity
          /\ (x + 1) % Capacity = IF x + 1 < Capacity THEN x + 1 ELSE x + 1 - Capacity
      BY <1>2, <3>1, Around
    <3>4. Wrapped(p, rear + 1) = IF rear + 1 = Capacity THEN 0 ELSE rear + 1
      BY <3>2 DEF Wrapped
    <3>5. rear = x % Capacity
      BY <2>3
    <3> HIDE DEF x
    <3>6. (x + 1) % Capacity = IF rear + 1 = Capacity THEN 0 ELSE rear + 1
      BY <1>2, <3>1, <3>3, <3>5
    <3>7. QED
      BY <2>4, <3>1, <3>4, <3>6
  <2>8. ASSUME NEW i \in 1 .. Len(m) + 1 PROVE p.elements[(p.front + i - 1) % Capacity] = r[i]
    <3>1. CASE i = Len(m) + 1
      <4>1. p.front + i - 1 = q.front + q.size
        BY <1>1, <1>2, <2>4, <3>1
      <4>2. QED
        BY <2>3, <2>5, <2>6, <3>1, <4>1
    <3>2. CASE i # Len(m) + 1
      <4> DEFINE x == q.front + q.size
                 y == q.front + i - 1
      <4>1. i \in 1 .. Len(m) /\ i <= q.size /\ i \in Nat
        BY <1>1, <1>2, <3>2
      <4>2. x \in 0 .. 2 * Capacity - 1 /\ y \in 0 .. 2 * Capacity - 1 /\ y < x /\ x - y <= Capacity - 1
        BY <1>2, <2>2, <4>1, SMTT(30)
      <4>3. /\ x % Capacity = IF x < Capacity THEN x ELSE x - Capacity
            /\ y % Capacity = IF y < Capacity THEN y ELSE y - Capacity
        BY <1>2, <4>2, Around
      <4>4. p.front + i - 1 = y /\ rear = x % Capacity
        BY <2>3, <2>4
      <4>5. r[i] = q.elements[y % Capacity]
        BY <1>1, <2>6, <4>1
      <4> HIDE DEF x, y
      <4>6. y % Capacity \in 0 .. Capacity - 1 /\ y % Capacity # x % Capacity
        BY <1>2, <4>2, <4>3, SMTT(30)
      <4>7. QED
        BY <2>5, <4>4, <4>5, <4>6
    <3>3. QED
      BY <3>1, <3>2
  <2>9. RingInv(p, r)
    BY <1>1, <2>4, <2>6, <2>7, <2>8 DEF RingInv
  <2>10. QED
    BY <1>5, <2>1, <2>9 DEF r
<1>6. QED
  BY <1>4, <1>5

LEMMA Dequeuing ==
    ASSUME NEW q, NEW m, RingInv(q, m)
    PROVE  RingInv(Dequeue(q), IF m = <<>> THEN m ELSE Tail(m))
<1>1. /\ q \in Rings /\ m \in Seq(Elements) /\ q.size = Len(m)
      /\ Wrapped(q, q.rear + 1) = (q.front + q.size) % Capacity
      /\ \A i \in 1 .. Len(m) : q.elements[(q.front + i - 1) % Capacity] = m[i]
  BY DEF RingInv
<1>2. q.size \in 0 .. Capacity /\ q.front \in 0 .. Capacity - 1 /\ q.elements \in RingArrays /\ Capacity \in Nat \ {0}
  BY <1>1, SizesAssumption DEF Rings
<1>3. Cardinality(DOMAIN q.elements) = Capacity
  BY <1>2, ArrayCells
<1>4. m = <<>> <=> Len(m) = 0
  BY <1>1
<1>5. CASE m = <<>>
  BY <1>1, <1>4, <1>5 DEF Dequeue, RingInv
<1>6. CASE m # <<>>
  <2> DEFINE front == Wrapped(q, q.front + 1)
             p == [q EXCEPT !.size = @ - 1, !.front = front]
             r == Tail(m)
  <2>1. Dequeue(q) = p
    BY <1>1, <1>4, <1>6 DEF Dequeue
  <2>2. q.size - 1 \in 0 .. Capacity /\ q.size >= 1
    BY <1>1, <1>2, <1>4, <1>6
  <2>3. front = (IF q.front + 1 = Capacity THEN 0 ELSE q.front + 1) /\ front \in 0 .. Capacity - 1
    BY <1>2, <1>3 DEF Wrapped
  <2> HIDE DEF front
  <2>4. p \in Rings /\ p.size = q.size - 1 /\ p.front = front /\ p.rear = q.rear /\ p.elements = q.elements
    BY <1>1, <2>2, <2>3 DEF Rings
  <2>5. r \in Seq(Elements) /\ Len(r) = Len(m) - 1 /\ \A i \in 1 .. Len(m) - 1 : r[i] = m[i + 1]
    BY <1>1, <1>4, <1>6
  <2> HIDE DEF p, r
  <2>6. \A j \in 0 .. Capacity : q.front + j \in 0 .. 2 * Capacity - 1
    BY <1>2
  <2>7. \A j \in 0 .. Capacity - 1 : front + j \in 0 .. 2 * Capacity - 1 /\ (front + j) % Capacity = (q.front + (j + 1)) % Capacity
    <3> SUFFICES ASSUME NEW j \in 0 .. Capacity - 1
                 PROVE  front + j \in 0 .. 2 * Capacity - 1 /\ (front + j) % Capacity = (q.front + (j + 1)) % Capacity
      OBVIOUS
    <3> DEFINE x == front + j
               y == q.front + (j + 1)
    <3>1. x \in 0 .. 2 * Capacity - 1 /\ y \in 0 .. 2 * Capacity - 1
      BY <1>2, <2>3
    <3>2. /\ x % Capacity = IF x < Capacity THEN x ELSE x - Capacity
          /\ y % Capacity = IF y < Capacity THEN y ELSE y - Capacity
      BY <1>2, <3>1, Around
    <3>3. x = y \/ x = y - Capacity
      BY <1>2, <2>3
    <3> HIDE DEF x, y
    <3>4. x % Capacity = y % Capacity
      BY <1>2, <3>1, <3>2, <3>3
    <3>5. QED
      BY <3>1, <3>4 DEF x, y
  <2>8. Wrapped(p, p.rear + 1) = (p.front + p.size) % Capacity
    <3>1. Wrapped(p, p.rear + 1) = Wrapped(q, q.rear + 1)
      BY <2>4 DEF Wrapped
    <3>2. q.size - 1 \in 0 .. Capacity - 1 /\ (q.size - 1) + 1 = q.size
      BY <1>2, <2>2
    <3>3. (front + (q.size - 1)) % Capacity = (q.front + q.size) % Capacity
      BY <2>7, <3>2
    <3>4. QED
      BY <1>1, <2>4, <3>1, <3>3
  <2>9. ASSUME NEW i \in 1 .. Len(m) - 1 PROVE p.elements[(p.front + i - 1) % Capacity] = r[i]
    <3>1. i - 1 \in 0 .. Capacity - 1 /\ (i - 1) + 1 = i /\ i + 1 \in 1 .. Len(m) /\ i \in Nat
      BY <1>1, <1>2
    <3>2. (front + (i - 1)) % Capacity = (q.front + i) % Capacity
      BY <2>7, <3>1
    <3>3. front + (i - 1) = p.front + i - 1 /\ q.front + i = q.front + (i + 1) - 1
      BY <1>2, <2>3, <2>4, <3>1
    <3>4. q.elements[(q.front + (i + 1) - 1) % Capacity] = m[i + 1]
      BY <1>1, <3>1
    <3>5. QED
      BY <2>4, <2>5, <3>2, <3>3, <3>4
  <2>10. RingInv(p, r)
    BY <1>1, <2>4, <2>5, <2>8, <2>9 DEF RingInv
  <2>11. QED
    BY <1>6, <2>1, <2>10 DEF r
<1>7. QED
  BY <1>5, <1>6

LEMMA Pushing ==
    ASSUME NEW st, NEW m, StackInv(st, m), NEW e \in Elements
    PROVE  StackInv(Push(st, e), IF Len(m) = Capacity THEN m ELSE <<e>> \o m)
<1>1. /\ st \in Stacks /\ m \in Seq(Elements) /\ st.size = Len(m)
      /\ \A i \in 1 .. Len(m) : st.elements[st.size - i] = m[i]
  BY DEF StackInv
<1>2. st.size \in 0 .. Capacity /\ st.elements \in RingArrays /\ Capacity \in Nat \ {0}
  BY <1>1, SizesAssumption DEF Stacks
<1>3. Cardinality(DOMAIN st.elements) = Capacity
  BY <1>2, ArrayCells
<1>4. CASE Len(m) = Capacity
  BY <1>1, <1>3, <1>4 DEF Push, StackInv
<1>5. CASE Len(m) # Capacity
  <2> DEFINE p == [st EXCEPT !.size = @ + 1, !.elements[st.size] = e]
             r == <<e>> \o m
  <2>1. Push(st, e) = p
    BY <1>1, <1>3, <1>5 DEF Push
  <2>2. st.size + 1 \in 0 .. Capacity /\ st.size \in 0 .. Capacity - 1
    BY <1>1, <1>2, <1>5
  <2>3. p \in Stacks /\ p.size = st.size + 1 /\ p.elements = [st.elements EXCEPT ![st.size] = e]
    BY <1>1, <1>2, <2>2 DEF Stacks, RingArrays
  <2>4. p.elements[st.size] = e /\ \A x \in 0 .. Capacity - 1 : x # st.size => p.elements[x] = st.elements[x]
    BY <1>2, <2>2, <2>3 DEF RingArrays
  <2>5. r \in Seq(Elements) /\ Len(r) = Len(m) + 1 /\ \A i \in 1 .. Len(m) + 1 : r[i] = IF i = 1 THEN e ELSE m[i - 1]
    BY <1>1
  <2> HIDE DEF p, r
  <2>6. ASSUME NEW i \in 1 .. Len(m) + 1 PROVE p.elements[p.size - i] = r[i]
    <3>1. CASE i = 1
      <4>1. p.size - i = st.size
        BY <1>2, <2>3, <3>1
      <4>2. QED
        BY <2>4, <2>5, <3>1, <4>1
    <3>2. CASE i # 1
      <4>1. /\ i - 1 \in 1 .. Len(m) /\ p.size - i = st.size - (i - 1)
            /\ st.size - (i - 1) \in 0 .. Capacity - 1 /\ st.size - (i - 1) # st.size
        BY <1>1, <1>2, <2>3, <3>2
      <4>2. QED
        BY <1>1, <2>4, <2>5, <3>2, <4>1
    <3>3. QED
      BY <3>1, <3>2
  <2>7. StackInv(p, r)
    BY <1>1, <2>3, <2>5, <2>6 DEF StackInv
  <2>8. QED
    BY <1>5, <2>1, <2>7 DEF r
<1>6. QED
  BY <1>4, <1>5

LEMMA Popping ==
    ASSUME NEW st, NEW m, StackInv(st, m)
    PROVE  StackInv(Pop(st), IF m = <<>> THEN m ELSE Tail(m))
<1>1. /\ st \in Stacks /\ m \in Seq(Elements) /\ st.size = Len(m)
      /\ \A i \in 1 .. Len(m) : st.elements[st.size - i] = m[i]
  BY DEF StackInv
<1>2. st.size \in 0 .. Capacity /\ Capacity \in Nat \ {0} /\ (m = <<>> <=> Len(m) = 0)
  BY <1>1, SizesAssumption DEF Stacks
<1>3. CASE m = <<>>
  BY <1>1, <1>2, <1>3 DEF Pop, StackInv
<1>4. CASE m # <<>>
  <2> DEFINE p == [st EXCEPT !.size = @ - 1]
             r == Tail(m)
  <2>1. Pop(st) = p
    BY <1>1, <1>2, <1>4 DEF Pop
  <2>2. st.size - 1 \in 0 .. Capacity
    BY <1>1, <1>2, <1>4
  <2>3. p \in Stacks /\ p.size = st.size - 1 /\ p.elements = st.elements
    BY <1>1, <2>2 DEF Stacks
  <2>4. r \in Seq(Elements) /\ Len(r) = Len(m) - 1 /\ \A i \in 1 .. Len(m) - 1 : r[i] = m[i + 1]
    BY <1>1, <1>2, <1>4
  <2> HIDE DEF p, r
  <2>5. ASSUME NEW i \in 1 .. Len(m) - 1 PROVE p.elements[p.size - i] = r[i]
    <3>1. i + 1 \in 1 .. Len(m) /\ p.size - i = st.size - (i + 1)
      BY <1>1, <1>2, <2>3
    <3>2. QED
      BY <1>1, <2>3, <2>4, <3>1
  <2>6. StackInv(p, r)
    BY <1>1, <2>3, <2>4, <2>5 DEF StackInv
  <2>7. QED
    BY <1>4, <2>1, <2>6 DEF r
<1>5. QED
  BY <1>3, <1>4

-----------------------------------------------------------------------------
(* The priority queue *)

\* The numbers and values in the priority queue.
Queued == [priority : {AsInt(p) : p \in Priorities}, value : Nat]
PQEntered == [queued : Nat, in : SUBSET [key : Priorities, value : Nat]]
Before(a, b) == a.priority < b.priority \/ (a.priority = b.priority /\ a.value > b.value)

PQInv(q, m) ==
    /\ q \in Seq(Queued)
    /\ m \in PQEntered
    /\ \A i \in 1 .. Len(q) : q[i].value <= m.queued
    /\ {PQEntry(q[i]) : i \in 1 .. Len(q)} = m.in
    /\ \A i, j \in 1 .. Len(q) : i < j => Before(q[i], q[j])

\* Where list_for_each_entry stops: k is the first entry that is not more urgent, if any.
FirstLess(q, p) == SelectInSeq(q, LAMBDA n : p <= n.priority)

Stops(q, p, k) ==
    \/ k = 0 /\ \A i \in 1 .. Len(q) : q[i].priority < p
    \/ k \in 1 .. Len(q) /\ p <= q[k].priority /\ \A i \in 1 .. Len(q) : i < k => q[i].priority < p

\* What an int keeps of a uint32_t is enough to have it back.
LEMMA PriorityFacts ==
    ASSUME NEW p \in Priorities
    PROVE  /\ AsInt(p) \in Int /\ AsUint(AsInt(p)) = p /\ p \in Nat
           /\ 2 * p < UINTS <=> AsInt(p) >= 0
<1>1. p \in Nat /\ UINTS \in Nat /\ p < UINTS
  BY PrioritiesAssumption
<1>2. QED
  BY <1>1 DEF AsInt, AsUint

LEMMA QueuedFacts ==
    ASSUME NEW e \in Queued
    PROVE  /\ e.priority \in Int /\ e.value \in Nat
           /\ AsUint(e.priority) \in Priorities /\ AsInt(AsUint(e.priority)) = e.priority
<1>1. PICK p \in Priorities : e.priority = AsInt(p)
  BY DEF Queued
<1>2. e.value \in Nat
  BY DEF Queued
<1>3. QED
  BY <1>1, <1>2, PriorityFacts

LEMMA FirstLessStops == ASSUME NEW q \in Seq(Queued), NEW p \in Int PROVE Stops(q, p, FirstLess(q, p))
<1> DEFINE I == {i \in 1 .. Len(q) : p <= q[i].priority}
           k == FirstLess(q, p)
<1>1. k = IF I # {} THEN CHOOSE x \in I : \A y \in I : x <= y ELSE 0
  BY DEF FirstLess, SelectInSeq, Min
<1>2. \A i \in 1 .. Len(q) : q[i].priority \in Int /\ p \in Int
  <2>1. \A i \in 1 .. Len(q) : q[i] \in Queued
    OBVIOUS
  <2>2. QED
    BY <2>1, QueuedFacts, KeysAssumption
<1> HIDE DEF k
<1>3. CASE I = {}
  <2>1. \A i \in 1 .. Len(q) : ~(p <= q[i].priority)
    BY <1>3
  <2>2. k = 0 /\ \A i \in 1 .. Len(q) : q[i].priority < p
    BY <1>1, <1>2, <1>3, <2>1
  <2>3. QED
    BY <2>2 DEF Stops, k
<1>4. CASE I # {}
  <2>1. I \in SUBSET Nat
    OBVIOUS
  <2>2. \E x \in I : \A y \in I : x <= y
    <3> HIDE DEF I
    <3>1. QED
      BY <1>4, <2>1, LeastNumber
  <2>3. k \in I /\ \A y \in I : k <= y
    <3> HIDE DEF I
    <3>1. QED
      BY <1>1, <1>4, <2>2
  <2>4. ASSUME NEW i \in 1 .. Len(q), i < k PROVE q[i].priority < p
    <3>1. i \notin I
      BY <2>3, <2>4
    <3>2. QED
      BY <1>2, <3>1
  <2>5. k \in 1 .. Len(q) /\ p <= q[k].priority
    BY <2>3
  <2>6. QED
    BY <2>4, <2>5 DEF Stops, k
<1>5. QED
  BY <1>3, <1>4

\* PQ::queue of a later value.
LEMMA PQQueuing ==
    ASSUME NEW q, NEW m, PQInv(q, m), NEW u \in Priorities
    PROVE  PQInv(PQueue(q, m.queued + 1, u), [queued |-> m.queued + 1, in |-> m.in \cup {KV(u, m.queued + 1)}])
<1> DEFINE p == AsInt(u)
           n == [priority |-> p, value |-> m.queued + 1]
           i == FirstLess(q, p)
           k == IF i = 0 THEN Len(q) + 1 ELSE i
           r == PQueue(q, m.queued + 1, u)
           w == [queued |-> m.queued + 1, in |-> m.in \cup {KV(u, m.queued + 1)}]
<1>0. p \in Int /\ AsUint(p) = u /\ p \in {AsInt(x) : x \in Priorities}
  BY PriorityFacts
<1>1. /\ q \in Seq(Queued) /\ Len(q) \in Nat /\ m.queued \in Nat /\ m.in \in SUBSET [key : Priorities, value : Nat]
      /\ \A x \in 1 .. Len(q) : q[x].value <= m.queued
      /\ {PQEntry(q[x]) : x \in 1 .. Len(q)} = m.in
      /\ \A x, y \in 1 .. Len(q) : x < y => Before(q[x], q[y])
  BY DEF PQInv, PQEntered
<1>2. /\ k \in 1 .. Len(q) + 1
      /\ \A x \in 1 .. Len(q) : x < k => q[x].priority < p
      /\ k <= Len(q) => p <= q[k].priority
  <2>1. \/ i = 0 /\ \A x \in 1 .. Len(q) : q[x].priority < p
        \/ i \in 1 .. Len(q) /\ p <= q[i].priority /\ \A x \in 1 .. Len(q) : x < i => q[x].priority < p
    BY <1>0, <1>1, FirstLessStops DEF Stops
  <2> HIDE DEF i
  <2>2. QED
    BY <1>1, <2>1
<1>3. /\ n \in Queued /\ \A x \in 1 .. Len(q) : q[x] \in Queued /\ q[x].priority \in Int /\ q[x].value \in Nat
      /\ p \in Int
  <2>1. n \in Queued /\ p \in Int
    BY <1>0, <1>1 DEF Queued
  <2>2. \A x \in 1 .. Len(q) : q[x] \in Queued
    BY <1>1
  <2>3. QED
    BY <2>1, <2>2, QueuedFacts
<1>4. /\ r \in Seq(Queued) /\ Len(r) = Len(q) + 1
      /\ \A x \in 1 .. Len(q) + 1 : r[x] = IF x < k THEN q[x] ELSE IF x = k THEN n ELSE q[x - 1]
  <2>1. r = IF i = 0 THEN Append(q, n) ELSE InsertAt(q, i, n)
    BY DEF PQueue, FirstLess
  <2> HIDE DEF r, i, n
  <2>2. CASE i = 0
    BY <1>1, <1>3, <2>1, <2>2
  <2>3. CASE i # 0
    <3>1. k = i /\ i \in 1 .. Len(q) + 1
      BY <1>2, <2>3
    <3>2. QED
      BY <1>1, <1>3, <2>1, <2>3, <3>1, InsertAtFacts, SMTT(30)
  <2>4. QED
    BY <2>2, <2>3
<1>5. n.priority = p /\ n.value = m.queued + 1 /\ PQEntry(n) = KV(u, m.queued + 1)
  BY <1>0 DEF PQEntry
<1> HIDE DEF r, k, n, p
<1>6. \A x \in 1 .. Len(q) + 1 :
         \/ (x = k /\ r[x] = n)
         \/ (x < k /\ x \in 1 .. Len(q) /\ r[x] = q[x])
         \/ (x > k /\ x - 1 \in 1 .. Len(q) /\ r[x] = q[x - 1])
  BY <1>1, <1>2, <1>4
<1>7. ASSUME NEW x \in 1 .. Len(q) + 1 PROVE r[x].value <= m.queued + 1
  <2>1. r[x] = n \/ \E y \in 1 .. Len(q) : r[x] = q[y]
    BY <1>6
  <2>2. QED
    BY <1>1, <1>3, <1>5, <2>1
<1>8. {PQEntry(r[x]) : x \in 1 .. Len(q) + 1} = m.in \cup {KV(u, m.queued + 1)}
  <2> DEFINE R == {PQEntry(r[x]) : x \in 1 .. Len(q) + 1}
  <2>1. ASSUME NEW e \in R PROVE e \in m.in \/ e = KV(u, m.queued + 1)
    <3>1. PICK x \in 1 .. Len(q) + 1 : e = PQEntry(r[x])
      OBVIOUS
    <3>2. r[x] = n \/ \E y \in 1 .. Len(q) : r[x] = q[y]
      BY <1>6
    <3>3. QED
      BY <1>1, <1>5, <3>1, <3>2
  <2>2. KV(u, m.queued + 1) \in R
    <3>1. k \in 1 .. Len(q) + 1 /\ r[k] = n
      BY <1>1, <1>2, <1>4
    <3>2. QED
      BY <1>5, <3>1
  <2>3. ASSUME NEW e \in m.in PROVE e \in R
    <3>1. PICK y \in 1 .. Len(q) : e = PQEntry(q[y])
      BY <1>1
    <3>2. CASE y < k
      <4>1. y \in 1 .. Len(q) + 1 /\ r[y] = q[y]
        BY <1>1, <1>4, <3>2
      <4>2. QED
        BY <3>1, <4>1
    <3>3. CASE ~(y < k)
      <4>1. y + 1 \in 1 .. Len(q) + 1 /\ ~(y + 1 < k) /\ y + 1 # k /\ (y + 1) - 1 = y
        BY <1>1, <1>2, <3>3
      <4>2. r[y + 1] = q[y]
        BY <1>4, <4>1
      <4>3. QED
        BY <3>1, <4>1, <4>2
    <3>4. QED
      BY <3>2, <3>3
  <2>4. QED
    BY <2>1, <2>2, <2>3
<1>9. ASSUME NEW x \in 1 .. Len(q) + 1, NEW y \in 1 .. Len(q) + 1, x < y PROVE Before(r[x], r[y])
  <2>1. CASE x = k
    <3>1. r[x] = n /\ y - 1 \in 1 .. Len(q) /\ r[y] = q[y - 1] /\ k <= y - 1
      BY <1>1, <1>2, <1>6, <1>9, <2>1
    <3>2. k \in 1 .. Len(q) /\ k <= Len(q)
      BY <1>1, <1>2, <3>1
    <3>3. k = y - 1 \/ Before(q[k], q[y - 1])
      BY <1>1, <1>2, <3>1, <3>2
    <3>4. p <= q[y - 1].priority /\ q[y - 1].value < m.queued + 1
      <4>1. q[k].priority \in Int /\ q[y - 1].priority \in Int /\ q[y - 1].value \in Nat /\ q[y - 1].value <= m.queued /\ p <= q[k].priority
        BY <1>1, <1>2, <1>3, <3>1, <3>2
      <4>2. QED
        BY <1>1, <1>3, <3>3, <4>1 DEF Before
    <3>5. QED
      BY <1>1, <1>3, <1>5, <3>1, <3>4 DEF Before
  <2>2. CASE y = k
    <3>1. r[y] = n /\ x \in 1 .. Len(q) /\ r[x] = q[x] /\ x < k
      BY <1>1, <1>2, <1>6, <1>9, <2>2
    <3>2. q[x].priority < p
      BY <1>2, <3>1
    <3>3. QED
      BY <1>5, <3>1, <3>2 DEF Before
  <2>3. CASE x # k /\ y # k
    <3> DEFINE a == IF x < k THEN x ELSE x - 1
               b == IF y < k THEN y ELSE y - 1
    <3>1. a \in 1 .. Len(q) /\ r[x] = q[a]
      BY <1>1, <1>2, <1>6, <2>3
    <3>2. b \in 1 .. Len(q) /\ r[y] = q[b]
      BY <1>1, <1>2, <1>6, <2>3
    <3>3. a < b
      BY <1>1, <1>2, <1>9, <2>3
    <3> HIDE DEF a, b
    <3>4. QED
      BY <1>1, <3>1, <3>2, <3>3
  <2>4. QED
    BY <2>1, <2>2, <2>3
<1>10. w \in PQEntered /\ w.queued = m.queued + 1 /\ w.in = m.in \cup {KV(u, m.queued + 1)}
  BY <1>1 DEF PQEntered, KV
<1>11. QED
  BY <1>4, <1>7, <1>8, <1>9, <1>10 DEF PQInv, r

\* PQ::dequeue.
LEMMA PQDequeuing ==
    ASSUME NEW q, NEW m, PQInv(q, m), q # <<>>
    PROVE  PQInv(PDequeue(q), [m EXCEPT !.in = @ \ {PQEntry(q[1])}])
<1> DEFINE r == Tail(q)
           w == [m EXCEPT !.in = @ \ {PQEntry(q[1])}]
<1>1. /\ q \in Seq(Queued) /\ Len(q) \in Nat /\ m \in PQEntered
      /\ \A x \in 1 .. Len(q) : q[x].value <= m.queued
      /\ {PQEntry(q[x]) : x \in 1 .. Len(q)} = m.in
      /\ \A x, y \in 1 .. Len(q) : x < y => Before(q[x], q[y])
  BY DEF PQInv
<1>2. r \in Seq(Queued) /\ Len(r) = Len(q) - 1 /\ Len(q) >= 1 /\ \A x \in 1 .. Len(q) - 1 : r[x] = q[x + 1]
  BY <1>1
<1>3. PDequeue(q) = r
  BY DEF PDequeue
<1>4. w \in PQEntered /\ w.queued = m.queued /\ w.in = m.in \ {PQEntry(q[1])}
  BY <1>1 DEF PQEntered
<1> HIDE DEF r, w
<1>5. \A x \in 1 .. Len(q) - 1 : x + 1 \in 1 .. Len(q) /\ x + 1 # 1
  BY <1>1
<1>6. \A x \in 1 .. Len(q) : q[x] \in Queued /\ q[x].priority \in Int /\ q[x].value \in Nat
  <2>1. \A x \in 1 .. Len(q) : q[x] \in Queued
    BY <1>1
  <2>2. QED
    BY <2>1, QueuedFacts
<1>7. {PQEntry(r[x]) : x \in 1 .. Len(q) - 1} = w.in
  <2> DEFINE R == {PQEntry(r[x]) : x \in 1 .. Len(q) - 1}
  <2>1. ASSUME NEW e \in R PROVE e \in w.in
    <3>1. PICK x \in 1 .. Len(q) - 1 : e = PQEntry(r[x])
      OBVIOUS
    <3>2. x + 1 \in 1 .. Len(q) /\ r[x] = q[x + 1] /\ 1 < x + 1 /\ 1 \in 1 .. Len(q)
      BY <1>1, <1>2, <1>5
    <3>3. e \in m.in
      BY <1>1, <3>1, <3>2
    <3>4. Before(q[1], q[x + 1])
      BY <1>1, <3>2
    <3>5. PQEntry(q[1]) # PQEntry(q[x + 1])
      <4>1. q[1] \in Queued /\ q[x + 1] \in Queued
        BY <1>6, <3>2
      <4>2. /\ q[1].priority \in Int /\ AsInt(AsUint(q[1].priority)) = q[1].priority /\ q[1].value \in Nat
            /\ q[x + 1].priority \in Int /\ AsInt(AsUint(q[x + 1].priority)) = q[x + 1].priority /\ q[x + 1].value \in Nat
        BY <4>1, QueuedFacts
      <4>3. ~(q[1].priority = q[x + 1].priority /\ q[1].value = q[x + 1].value)
        BY <3>4, <4>2 DEF Before
      <4>4. CASE AsUint(q[1].priority) # AsUint(q[x + 1].priority)
        BY <4>4 DEF PQEntry, KV
      <4>5. CASE q[1].value # q[x + 1].value
        BY <4>5 DEF PQEntry, KV
      <4>6. QED
        BY <4>2, <4>3, <4>4, <4>5
    <3>6. QED
      BY <1>4, <3>1, <3>2, <3>3, <3>5
  <2>2. ASSUME NEW e \in w.in PROVE e \in R
    <3>1. PICK x \in 1 .. Len(q) : e = PQEntry(q[x])
      BY <1>1, <1>4
    <3>2. x # 1
      BY <1>4, <3>1
    <3>3. x - 1 \in 1 .. Len(q) - 1 /\ (x - 1) + 1 = x
      BY <1>1, <3>2
    <3>4. QED
      BY <1>2, <3>1, <3>3
  <2>3. QED
    BY <2>1, <2>2
<1>8. \A x \in 1 .. Len(q) - 1 : r[x].value <= m.queued
  BY <1>1, <1>2, <1>5
<1>9. \A x, y \in 1 .. Len(q) - 1 : x < y => Before(r[x], r[y])
  <2> SUFFICES ASSUME NEW x \in 1 .. Len(q) - 1, NEW y \in 1 .. Len(q) - 1, x < y PROVE Before(r[x], r[y])
    OBVIOUS
  <2>1. x + 1 \in 1 .. Len(q) /\ y + 1 \in 1 .. Len(q) /\ x + 1 < y + 1
    BY <1>5
  <2>2. QED
    BY <1>1, <1>2, <2>1
<1>10. PQInv(r, w)
  BY <1>2, <1>4, <1>7, <1>8, <1>9 DEF PQInv
<1>11. QED
  BY <1>3, <1>10 DEF w

-----------------------------------------------------------------------------
(* The heap *)

HeapKVs == [key : Keys, value : Nat]
HeapCells == [key : Keys \cup {INT_MIN, Junk}, value : Nat \cup {Junk}]
HeapArrays == [0 .. Capacity -> HeapCells]

\* Cells 1 to n of the array a hold the entries of in, each once, under its own value.
Holds(a, n, in) ==
    /\ a \in HeapArrays /\ a[0].key = INT_MIN
    /\ n \in 0 .. Capacity
    /\ \A i \in 1 .. n : a[i] \in HeapKVs /\ a[i] \in in
    /\ \A e \in in : \E i \in 1 .. n : a[i] = e
    /\ \A i, j \in 1 .. n : a[i].value = a[j].value => i = j

Ordered(a, n) == \A i \in 2 .. n : a[i \div 2].key <= a[i].key

LEMMA HeapKVFacts == ASSUME NEW e \in HeapKVs PROVE e.key \in Nat /\ e.key \in Keys /\ e.value \in Nat /\ e \in HeapCells
  BY KeysAssumption DEF HeapKVs, HeapCells

\* The places of a parent and of its children.
LEMMA Halves ==
    ASSUME NEW i \in Nat \ {0}
    PROVE  /\ i \div 2 \in Nat /\ i \div 2 < i /\ (i >= 2 => i \div 2 >= 1) /\ (i = 1 => i \div 2 = 0)
           /\ i = 2 * (i \div 2) \/ i = 2 * (i \div 2) + 1
           /\ (2 * i) \div 2 = i /\ (2 * i + 1) \div 2 = i
  OBVIOUS

Switched(a, i, j) == [x \in 0 .. Capacity |-> IF x = i THEN a[j] ELSE IF x = j THEN a[i] ELSE a[x]]

\* Two entries can change places.
LEMMA Swapping ==
    ASSUME NEW a, NEW n, NEW in, Holds(a, n, in), NEW i \in 1 .. n, NEW j \in 1 .. n
    PROVE  Holds(Switched(a, i, j), n, in)
<1> DEFINE b == Switched(a, i, j)
           Other(x) == IF x = i THEN j ELSE IF x = j THEN i ELSE x
<1>1. /\ a \in HeapArrays /\ a[0].key = INT_MIN /\ n \in 0 .. Capacity /\ Capacity \in Nat /\ n \in Nat
      /\ \A x \in 1 .. n : x \in 0 .. Capacity /\ x # 0
  BY SizesAssumption DEF Holds
<1>2. \A x \in 0 .. Capacity : Other(x) \in 0 .. Capacity /\ b[x] = a[Other(x)] /\ (x \in 1 .. n => Other(x) \in 1 .. n)
  BY <1>1 DEF Switched
<1>3. \A x \in 1 .. n : Other(Other(x)) = x
  OBVIOUS
<1>4. b = [x \in 0 .. Capacity |-> a[Other(x)]] /\ b[0] = a[0]
  BY <1>1 DEF Switched
<1> HIDE DEF b, Other
<1>5. b \in HeapArrays
  BY <1>1, <1>2, <1>4 DEF HeapArrays
<1>6. \A x \in 1 .. n : b[x] \in HeapKVs /\ b[x] \in in
  BY <1>1, <1>2 DEF Holds
<1>7. ASSUME NEW e \in in PROVE \E x \in 1 .. n : b[x] = e
  <2>1. PICK x \in 1 .. n : a[x] = e
    BY DEF Holds
  <2>2. Other(x) \in 1 .. n /\ b[Other(x)] = a[x]
    BY <1>1, <1>2, <1>3
  <2>3. QED
    BY <2>1, <2>2
<1>8. ASSUME NEW x \in 1 .. n, NEW y \in 1 .. n, b[x].value = b[y].value PROVE x = y
  <2>1. b[x] = a[Other(x)] /\ b[y] = a[Other(y)] /\ Other(x) \in 1 .. n /\ Other(y) \in 1 .. n
    BY <1>1, <1>2
  <2>2. Other(x) = Other(y)
    BY <1>8, <2>1 DEF Holds
  <2>3. QED
    BY <1>3, <2>2
<1>9. Holds(b, n, in)
  BY <1>1, <1>4, <1>5, <1>6, <1>7, <1>8 DEF Holds
<1>10. QED
  BY <1>9 DEF b

Put(a, i, e) == [a EXCEPT ![i] = e]

LEMMA PutFacts ==
    ASSUME NEW a \in HeapArrays, NEW i \in 0 .. Capacity, NEW e \in HeapCells
    PROVE  Put(a, i, e) \in HeapArrays /\ Put(a, i, e)[i] = e /\ \A x \in 0 .. Capacity : x # i => Put(a, i, e)[x] = a[x]
  BY DEF HeapArrays, Put

\* One more entry, with a value of its own.
LEMMA Placing ==
    ASSUME NEW a, NEW n, NEW in, Holds(a, n, in), n + 1 \in 1 .. Capacity,
           NEW e \in HeapKVs, \A i \in 1 .. n : a[i].value # e.value
    PROVE  Holds(Put(a, n + 1, e), n + 1, in \cup {e})
<1> DEFINE b == Put(a, n + 1, e)
<1>1. /\ a \in HeapArrays /\ a[0].key = INT_MIN /\ n \in Nat /\ Capacity \in Nat
      /\ \A x \in 1 .. n + 1 : x \in 0 .. Capacity /\ x # 0 /\ (x = n + 1 \/ (x \in 1 .. n /\ x # n + 1))
      /\ n + 1 \in 0 .. Capacity /\ 0 \in 0 .. Capacity /\ n + 1 # 0 /\ n + 1 \in 1 .. n + 1
      /\ \A x \in 1 .. n : x \in 1 .. n + 1
  BY SizesAssumption DEF Holds
<1>2. e \in HeapCells
  BY HeapKVFacts
<1>3. b \in HeapArrays /\ b[n + 1] = e /\ \A x \in 0 .. Capacity : x # n + 1 => b[x] = a[x]
  BY <1>1, <1>2, PutFacts
<1> HIDE DEF b
<1>4. \A x \in 1 .. n : b[x] = a[x]
  BY <1>1, <1>3
<1>5. \A x \in 1 .. n + 1 : b[x] \in HeapKVs /\ b[x] \in in \cup {e}
  BY <1>1, <1>3, <1>4 DEF Holds
<1>6. ASSUME NEW f \in in \cup {e} PROVE \E x \in 1 .. n + 1 : b[x] = f
  <2>1. CASE f = e
    BY <1>1, <1>3, <2>1
  <2>2. CASE f \in in
    <3>1. PICK x \in 1 .. n : a[x] = f
      BY <2>2 DEF Holds
    <3>2. QED
      BY <1>1, <1>4, <3>1
  <2>3. QED
    BY <2>1, <2>2
<1>7. \A x, y \in 1 .. n + 1 : b[x].value = b[y].value => x = y
  BY <1>1, <1>3, <1>4 DEF Holds
<1>8. Holds(b, n + 1, in \cup {e})
  BY <1>1, <1>3, <1>5, <1>6, <1>7 DEF Holds
<1>9. QED
  BY <1>8 DEF b

\* An entry under another key.
LEMMA Rekeying ==
    ASSUME NEW a, NEW n, NEW in, Holds(a, n, in), NEW k \in 1 .. n, NEW e \in HeapKVs, e.value = a[k].value
    PROVE  Holds(Put(a, k, e), n, (in \ {a[k]}) \cup {e})
<1> DEFINE b == Put(a, k, e)
           out == (in \ {a[k]}) \cup {e}
<1>1. /\ a \in HeapArrays /\ a[0].key = INT_MIN /\ n \in Nat /\ Capacity \in Nat /\ n \in 0 .. Capacity
      /\ \A x \in 1 .. n : x \in 0 .. Capacity /\ x # 0
      /\ 0 \in 0 .. Capacity
  BY SizesAssumption DEF Holds
<1>2. e \in HeapCells
  BY HeapKVFacts
<1>3. b \in HeapArrays /\ b[k] = e /\ \A x \in 0 .. Capacity : x # k => b[x] = a[x]
  BY <1>1, <1>2, PutFacts
<1> HIDE DEF b
<1>4. \A x \in 1 .. n : x # k => b[x] = a[x] /\ a[x] # a[k]
  BY <1>1, <1>3 DEF Holds
<1>5. \A x \in 1 .. n : b[x] \in HeapKVs /\ b[x] \in out
  BY <1>1, <1>3, <1>4 DEF Holds
<1>6. ASSUME NEW f \in out PROVE \E x \in 1 .. n : b[x] = f
  <2>1. CASE f = e
    BY <1>1, <1>3, <2>1
  <2>2. CASE f \in in /\ f # a[k]
    <3>1. PICK x \in 1 .. n : a[x] = f
      BY <2>2 DEF Holds
    <3>2. QED
      BY <1>1, <1>4, <2>2, <3>1
  <2>3. QED
    BY <2>1, <2>2
<1>7. \A x \in 1 .. n : b[x].value = a[x].value
  BY <1>1, <1>3, <1>4
<1>8. \A x, y \in 1 .. n : b[x].value = b[y].value => x = y
  BY <1>7 DEF Holds
<1> HIDE DEF out
<1>9. Holds(b, n, out)
  BY <1>1, <1>3, <1>5, <1>6, <1>8 DEF Holds
<1>10. QED
  BY <1>9 DEF b, out

\* The first entry goes and the last takes its place.
LEMMA Shrinking ==
    ASSUME NEW a, NEW n, NEW in, Holds(a, n, in), n # 0
    PROVE  Holds(Put(a, 1, a[n]), n - 1, in \ {a[1]})
<1> DEFINE b == Put(a, 1, a[n])
           out == in \ {a[1]}
<1>1. /\ a \in HeapArrays /\ a[0].key = INT_MIN /\ n \in Nat /\ Capacity \in Nat /\ n - 1 \in 0 .. Capacity
      /\ \A x \in 1 .. n : x \in 0 .. Capacity /\ x # 0 /\ (x = n \/ x \in 1 .. n - 1)
      /\ \A x \in 1 .. n - 1 : x \in 1 .. n /\ x # n
      /\ 0 \in 0 .. Capacity /\ n \in 1 .. n /\ 1 \in 1 .. n
  BY SizesAssumption DEF Holds
<1>2. a[n] \in HeapCells
  BY <1>1, HeapKVFacts DEF Holds
<1>3. b \in HeapArrays /\ b[1] = a[n] /\ \A x \in 0 .. Capacity : x # 1 => b[x] = a[x]
  BY <1>1, <1>2, PutFacts
<1> HIDE DEF b
<1>4. \A x \in 1 .. n - 1 : x # 1 => b[x] = a[x]
  BY <1>1, <1>3
<1>a. \A x, y \in 1 .. n : a[x] = a[y] => x = y
  BY DEF Holds
<1>5. \A x \in 1 .. n - 1 : b[x] \in HeapKVs /\ b[x] \in out
  <2> SUFFICES ASSUME NEW x \in 1 .. n - 1 PROVE b[x] \in HeapKVs /\ b[x] \in out
    OBVIOUS
  <2>1. PICK y \in 1 .. n : b[x] = a[y] /\ y # 1
    BY <1>1, <1>3, <1>4
  <2>2. QED
    BY <1>1, <1>a, <2>1 DEF Holds
<1>6. ASSUME NEW f \in out PROVE \E x \in 1 .. n - 1 : b[x] = f
  <2>1. PICK x \in 1 .. n : a[x] = f
    BY DEF Holds
  <2>2. x # 1
    BY <2>1
  <2>3. CASE x = n
    <3>1. 1 \in 1 .. n - 1
      BY <1>1, <2>2, <2>3
    <3>2. QED
      BY <1>3, <2>1, <2>3, <3>1
  <2>4. CASE x \in 1 .. n - 1
    BY <1>4, <2>1, <2>2, <2>4
  <2>5. QED
    BY <1>1, <2>3, <2>4
<1>7. \A x, y \in 1 .. n - 1 : b[x].value = b[y].value => x = y
  BY <1>1, <1>3, <1>4 DEF Holds
<1> HIDE DEF out
<1>8. Holds(b, n - 1, out)
  BY <1>1, <1>3, <1>5, <1>6, <1>7 DEF Holds
<1>9. QED
  BY <1>8 DEF b, out

\* As many entries as cells.
LEMMA HeldSize == ASSUME NEW a, NEW n, NEW in, Holds(a, n, in) PROVE IsFiniteSet(in) /\ Cardinality(in) = n
<1> DEFINE C(k) == {a[i] : i \in 1 .. k}
           T == {k \in Nat : k <= n => IsFiniteSet(C(k)) /\ Cardinality(C(k)) = k}
<1>1. n \in Nat /\ \A i, j \in 1 .. n : a[i] = a[j] => i = j
  BY SizesAssumption DEF Holds
<1>2. 0 \in T
  <2>1. C(0) = {}
    OBVIOUS
  <2>2. QED
    BY <2>1, FS_EmptySet
<1>3. ASSUME NEW k \in T PROVE k + 1 \in T
  <2>1. k \in Nat
    OBVIOUS
  <2>2. SUFFICES ASSUME k + 1 <= n PROVE IsFiniteSet(C(k + 1)) /\ Cardinality(C(k + 1)) = k + 1
    BY <2>1
  <2>3. IsFiniteSet(C(k)) /\ Cardinality(C(k)) = k
    BY <1>1, <2>1, <2>2
  <2>4. C(k + 1) = C(k) \cup {a[k + 1]}
    <3>1. \A i \in 1 .. k + 1 : i \in 1 .. k \/ i = k + 1
      BY <2>1
    <3>2. k + 1 \in 1 .. k + 1 /\ \A i \in 1 .. k : i \in 1 .. k + 1
      BY <2>1
    <3>3. QED
      BY <3>1, <3>2
  <2>5. a[k + 1] \notin C(k)
    <3>1. k + 1 \in 1 .. n /\ \A i \in 1 .. k : i \in 1 .. n /\ i # k + 1
      BY <1>1, <2>1, <2>2
    <3>2. QED
      BY <1>1, <3>1
  <2> HIDE DEF C
  <2>6. QED
    BY <2>1, <2>3, <2>4, <2>5, FS_AddElement
<1>4. n \in T
  <2>1. T \subseteq Nat
    OBVIOUS
  <2> HIDE DEF T
  <2>2. QED
    BY <1>1, <1>2, <1>3, <2>1, SetInduction
<1>5. C(n) = in
  BY DEF Holds
<1>6. QED
  BY <1>1, <1>4, <1>5

\* The least key is on top.
LEMMA LeastOnTop ==
    ASSUME NEW a, NEW n, NEW in, Holds(a, n, in), Ordered(a, n), NEW i \in 1 .. n
    PROVE  a[1].key <= a[i].key
<1> DEFINE T == {k \in Nat : \A x \in 1 .. n : x <= k => a[1].key <= a[x].key}
<1>1. n \in Nat /\ \A x \in 1 .. n : x \in Nat /\ a[x].key \in Nat
  BY SizesAssumption, HeapKVFacts DEF Holds
<1>2. 0 \in T
  BY <1>1
<1>3. ASSUME NEW k \in T PROVE k + 1 \in T
  <2>1. k \in Nat /\ \A x \in 1 .. n : x <= k => a[1].key <= a[x].key
    OBVIOUS
  <2>2. ASSUME NEW x \in 1 .. n, x <= k + 1 PROVE a[1].key <= a[x].key
    <3>1. CASE x = 1
      BY <1>1, <3>1
    <3>2. CASE x # 1
      <4>1. x \div 2 \in 1 .. n /\ x \div 2 <= k /\ x \in 2 .. n /\ 1 \in 1 .. n
        BY <1>1, <2>1, <2>2, <3>2, Halves
      <4>2. a[1].key <= a[x \div 2].key /\ a[x \div 2].key <= a[x].key
        BY <2>1, <4>1 DEF Ordered
      <4> DEFINE p == x \div 2
      <4>3. p \in 1 .. n /\ a[1].key \in Nat /\ a[p].key \in Nat /\ a[x].key \in Nat
        BY <1>1, <4>1
      <4> HIDE DEF p
      <4>4. a[1].key <= a[p].key /\ a[p].key <= a[x].key
        BY <4>2 DEF p
      <4>5. QED
        BY <4>3, <4>4
    <3>3. QED
      BY <3>1, <3>2
  <2>3. QED
    BY <2>1, <2>2
<1>4. i \in T
  <2>1. T \subseteq Nat /\ i \in Nat
    BY <1>1
  <2> HIDE DEF T
  <2>2. QED
    BY <1>2, <1>3, <2>1, SetInduction
<1>5. QED
  BY <1>1, <1>4

\* The states of the loops that move a hole, and the array with the entry in the hole.
Holes == [kvs : HeapArrays, at : 0 .. Capacity]
Filled(t, kv) == Put(t.kvs, t.at, kv)

\* What holds on the way up: the cells are in order but for the hole and its parent.
Rising(t, kv, n, in) ==
    /\ t \in Holes /\ t.at \in 1 .. n
    /\ Holds(Filled(t, kv), n, in)
    /\ \A i \in 2 .. n : i # t.at => Filled(t, kv)[i \div 2].key <= Filled(t, kv)[i].key
    /\ \A i \in 2 .. n : (i \div 2 = t.at /\ t.at # 1) => Filled(t, kv)[t.at \div 2].key <= Filled(t, kv)[i].key

Risen(t, kv) == ~(t.kvs[t.at \div 2].key > kv.key)

\* A hole's states, in terms of the filled array.
LEMMA HoleFacts ==
    ASSUME NEW t \in Holes, NEW kv \in HeapKVs, NEW i \in 0 .. Capacity
    PROVE  /\ Filled(t, kv) \in HeapArrays /\ Filled(t, kv)[t.at] = kv
           /\ i # t.at => Filled(t, kv)[i] = t.kvs[i]
           /\ i # t.at => Filled([kvs |-> Put(t.kvs, t.at, t.kvs[i]), at |-> i], kv) = Switched(Filled(t, kv), t.at, i)
           /\ [kvs |-> Put(t.kvs, t.at, t.kvs[i]), at |-> i] \in Holes
<1>1. t.kvs \in HeapArrays /\ t.at \in 0 .. Capacity /\ kv \in HeapCells
  BY HeapKVFacts DEF Holes
<1>2. t.kvs[i] \in HeapCells
  BY <1>1 DEF HeapArrays
<1> DEFINE v == Put(t.kvs, t.at, t.kvs[i])
           a == Filled(t, kv)
           b == Filled([kvs |-> v, at |-> i], kv)
<1>3. v \in HeapArrays /\ v[t.at] = t.kvs[i] /\ \A x \in 0 .. Capacity : x # t.at => v[x] = t.kvs[x]
  BY <1>1, <1>2, PutFacts, SMTT(30)
<1>4. a \in HeapArrays /\ a[t.at] = kv /\ \A x \in 0 .. Capacity : x # t.at => a[x] = t.kvs[x]
  BY <1>1, PutFacts DEF Filled
<1> HIDE DEF v, a
<1>5. b = Put(v, i, kv)
  BY DEF Filled
<1> HIDE DEF b
<1>6. b \in HeapArrays /\ b[i] = kv /\ \A x \in 0 .. Capacity : x # i => b[x] = v[x]
  BY <1>1, <1>3, <1>5, PutFacts
<1>7. ASSUME i # t.at PROVE b = Switched(a, t.at, i)
  <2>1. \A x \in 0 .. Capacity : b[x] = IF x = t.at THEN a[i] ELSE IF x = i THEN a[t.at] ELSE a[x]
    BY <1>1, <1>3, <1>4, <1>6, <1>7
  <2>2. QED
    BY <1>6, <2>1 DEF Switched, HeapArrays
<1>8. [kvs |-> v, at |-> i] \in Holes
  BY <1>3 DEF Holes
<1>9. QED
  BY <1>4, <1>7, <1>8 DEF a, b, v

\* The parent changes places with the hole.
LEMMA RiseStep ==
    ASSUME NEW t, NEW kv \in HeapKVs, NEW n, NEW in, Rising(t, kv, n, in), ~Risen(t, kv)
    PROVE  Rising(RiseOnce(t, kv), kv, n, in) /\ RiseOnce(t, kv).at < t.at
<1> DEFINE at == t.at
           p == t.at \div 2
           a == Filled(t, kv)
           u == [kvs |-> Put(t.kvs, t.at, t.kvs[p]), at |-> p]
           b == Filled(u, kv)
<1>1. t \in Holes /\ at \in 1 .. n /\ Holds(a, n, in) /\ n \in 0 .. Capacity /\ n \in Nat /\ Capacity \in Nat
  BY SizesAssumption DEF Rising, Holds
<1>2. at \in Nat \ {0} /\ at <= n /\ p \in Nat /\ p < at /\ (at >= 2 => p >= 1) /\ (at = 1 => p = 0)
  BY <1>1, Halves
<1>3. RiseOnce(t, kv) = u
  BY DEF RiseOnce, Risen, Put
<1>4. a[at] = kv /\ a[p] = t.kvs[p]
  <2>1. p \in 0 .. Capacity /\ p # at
    BY <1>1, <1>2
  <2> HIDE DEF p
  <2>2. QED
    BY <1>1, <2>1, HoleFacts
<1>5. a[p].key > kv.key /\ kv.key \in Nat
  BY <1>4, HeapKVFacts DEF Risen
<1>6. p \in 1 .. n /\ at # 1
  <2>1. a[0].key = -1000
    BY <1>1 DEF Holds, INT_MIN
  <2>2. p # 0
    BY <1>5, <2>1
  <2>3. QED
    BY <1>1, <1>2, <2>2
<1>7. b = Switched(a, at, p) /\ u \in Holes /\ u.at = p
  <2>1. p \in 0 .. Capacity /\ p # at
    BY <1>1, <1>2
  <2> HIDE DEF p
  <2>2. QED
    BY <1>1, <2>1, HoleFacts
<1>8. /\ \A i \in 2 .. n : i # at => a[i \div 2].key <= a[i].key
      /\ \A i \in 2 .. n : i \div 2 = at => a[p].key <= a[i].key
  BY <1>6 DEF Rising
<1> HIDE DEF a, u, b
<1>9. Holds(b, n, in)
  BY <1>1, <1>6, <1>7, Swapping
<1>10. \A i \in 2 .. n : /\ i \in Nat \ {0} /\ i \div 2 \in 1 .. n /\ i \div 2 < i
                         /\ i \in 0 .. Capacity /\ i \div 2 \in 0 .. Capacity /\ i \in 1 .. n
  <2> SUFFICES ASSUME NEW i \in 2 .. n PROVE /\ i \in Nat \ {0} /\ i \div 2 \in 1 .. n /\ i \div 2 < i
                                             /\ i \in 0 .. Capacity /\ i \div 2 \in 0 .. Capacity /\ i \in 1 .. n
    OBVIOUS
  <2>1. i \in Nat \ {0} /\ i >= 2 /\ i <= n
    BY <1>1
  <2>2. i \div 2 \in Nat /\ i \div 2 < i /\ i \div 2 >= 1
    BY <2>1, Halves
  <2> DEFINE j == i \div 2
  <2>3. j \in Nat /\ j < i /\ j >= 1
    BY <2>2
  <2> HIDE DEF j
  <2>4. j \in 1 .. n /\ j \in 0 .. Capacity
    BY <1>1, <2>1, <2>3
  <2>5. QED
    BY <1>1, <2>1, <2>3, <2>4 DEF j
<1>11. \A i \in 0 .. Capacity : b[i] = IF i = at THEN a[p] ELSE IF i = p THEN a[at] ELSE a[i]
  BY <1>7 DEF Switched
<1>12. \A i \in 1 .. n : a[i].key \in Nat
  BY <1>1, HeapKVFacts DEF Holds
<1>13. ASSUME NEW i \in 2 .. n, i # p PROVE b[i \div 2].key <= b[i].key
  <2> DEFINE j == i \div 2
  <2>1. j \in 1 .. n /\ j < i /\ a[i].key \in Nat /\ a[j].key \in Nat /\ a[p].key \in Nat
    BY <1>6, <1>10, <1>12
  <2>2. /\ b[i] = (IF i = at THEN a[p] ELSE a[i])
        /\ b[j] = (IF j = at THEN a[p] ELSE IF j = p THEN kv ELSE a[j])
    BY <1>4, <1>10, <1>11, <1>13
  <2>3. (i # at => a[j].key <= a[i].key) /\ (j = at => a[p].key <= a[i].key) /\ (i = at => j = p)
    BY <1>8
  <2>4. i \in Nat /\ j \in Nat /\ at \in Nat /\ p \in Nat
    BY <1>2, <1>10
  <2> HIDE DEF j, at, p
  <2>5. QED
    BY <1>2, <1>5, <2>1, <2>2, <2>3, <2>4 DEF j
<1>14. ASSUME NEW i \in 2 .. n, i \div 2 = p, p # 1 PROVE b[p \div 2].key <= b[i].key
  <2> DEFINE g == p \div 2
  <2>1. p \in 2 .. n /\ g \in 1 .. n /\ g \in 0 .. Capacity /\ g < p
    BY <1>6, <1>10, <1>14
  <2>2. a[g].key <= a[p].key
    BY <1>2, <1>8, <2>1
  <2>3. b[g] = a[g]
    <3> HIDE DEF g, p, at
    <3>1. g # p /\ g # at
      BY <1>1, <1>2, <2>1
    <3>2. QED
      BY <1>11, <2>1, <3>1
  <2>4. i # p
    BY <1>10, <1>14
  <2>5. b[i] = IF i = at THEN a[p] ELSE a[i]
    BY <1>10, <1>11, <2>4
  <2>6. i # at => a[p].key <= a[i].key
    BY <1>8, <1>14
  <2>7. a[g].key \in Nat /\ a[p].key \in Nat /\ a[i].key \in Nat
    BY <1>10, <1>12, <2>1
  <2> HIDE DEF g, p, at
  <2>8. QED
    BY <2>2, <2>3, <2>5, <2>6, <2>7 DEF g
<1>15. Rising(u, kv, n, in)
  BY <1>6, <1>7, <1>9, <1>13, <1>14 DEF Rising, b
<1>16. QED
  BY <1>2, <1>3, <1>7, <1>15

\* The loop of SiftUp ends in the entry's place.
LEMMA SiftingUp ==
    ASSUME NEW a, NEW now, NEW kv \in HeapKVs, NEW n, NEW in, Rising([kvs |-> a, at |-> now], kv, n, in)
    PROVE  Holds(SiftUp(a, now, kv), n, in) /\ Ordered(SiftUp(a, now, kv), n)
<1> DEFINE first == [kvs |-> a, at |-> now]
           F == [t \in Holes |-> RiseOnce(t, kv)]
           turn == CHOOSE g : g = [k \in 0 .. now |-> IF k = 0 THEN first ELSE RiseOnce(g[k - 1], kv)]
           I == [k \in 0 .. now |-> {t \in Holes : Rising(t, kv, n, in) /\ (Risen(t, kv) \/ t.at <= now - k)}]
<1>1. SiftUp(a, now, kv) = Filled(turn[now], kv)
  BY DEF SiftUp, Filled, Put
<1>2. first \in Holes /\ first.at = now /\ Rising(first, kv, n, in) /\ now \in Nat \ {0}
  <2>1. first.at \in 1 .. n /\ n \in 0 .. Capacity /\ Capacity \in Nat
    BY SizesAssumption DEF Rising, Holds
  <2>2. QED
    BY <2>1 DEF Rising
<1>3. F \in [Holes -> Holes]
  <2> SUFFICES ASSUME NEW t \in Holes PROVE RiseOnce(t, kv) \in Holes
    OBVIOUS
  <2>1. t.at \in Nat /\ t.at <= Capacity /\ Capacity \in Nat
    BY SizesAssumption DEF Holes
  <2> DEFINE p == t.at \div 2
  <2>2. p \in 0 .. Capacity
    BY <2>1
  <2> HIDE DEF p
  <2>3. [kvs |-> Put(t.kvs, t.at, t.kvs[p]), at |-> p] \in Holes
    BY <2>2, HoleFacts
  <2>4. QED
    BY <2>3 DEF RiseOnce, Put, p
<1> HIDE DEF first
<1>4. PICK f \in [0 .. now -> Holes] : Iterates(f, first, F, now)
  <2>1. now \in Nat
    BY <1>2
  <2> HIDE DEF F, turn, I
  <2>2. QED
    BY <2>1, <1>2, <1>3, Iterated
<1>5. f[0] = first /\ \A k \in 1 .. now : f[k] = F[f[k - 1]]
  BY <1>4 DEF Iterates
<1>6. \A k \in 0 .. now : k # 0 => k \in 1 .. now /\ k - 1 \in 0 .. now
  BY <1>2
<1>7. f = [k \in 0 .. now |-> IF k = 0 THEN first ELSE RiseOnce(f[k - 1], kv)]
  <2>1. \A k \in 0 .. now : k # 0 => f[k] = RiseOnce(f[k - 1], kv)
    BY <1>5, <1>6
  <2>2. QED
    BY <1>5, <2>1
<1>8. turn = [k \in 0 .. now |-> IF k = 0 THEN first ELSE RiseOnce(turn[k - 1], kv)]
  BY <1>7
<1> HIDE DEF turn
<1>9. first \in I[0]
  <2>1. 0 \in 0 .. now /\ now <= now - 0
    BY <1>2
  <2>2. QED
    BY <1>2, <2>1
<1>10. ASSUME NEW k \in 1 .. now, NEW t \in I[k - 1] PROVE RiseOnce(t, kv) \in I[k]
  <2>1. k - 1 \in 0 .. now /\ k \in 0 .. now /\ k \in Nat
    BY <1>2, <1>6
  <2>2. t \in Holes /\ Rising(t, kv, n, in) /\ (Risen(t, kv) \/ t.at <= now - (k - 1))
    BY <2>1
  <2>3. CASE Risen(t, kv)
    <3>1. RiseOnce(t, kv) = t
      BY <2>3 DEF RiseOnce, Risen
    <3>2. QED
      BY <2>1, <2>2, <2>3, <3>1
  <2>4. CASE ~Risen(t, kv)
    <3>1. Rising(RiseOnce(t, kv), kv, n, in) /\ RiseOnce(t, kv).at < t.at
      BY <2>2, <2>4, RiseStep
    <3> DEFINE u == RiseOnce(t, kv)
    <3> HIDE DEF u
    <3>2. u \in Holes /\ u.at < t.at /\ Rising(u, kv, n, in)
      BY <3>1 DEF u, Rising
    <3>3. u.at \in Nat /\ t.at \in Nat
      BY <2>2, <3>2 DEF Holes
    <3>4. u.at <= now - k
      BY <1>2, <2>1, <2>2, <2>4, <3>2, <3>3
    <3>5. QED
      BY <2>1, <3>2, <3>4 DEF u
  <2>5. QED
    BY <2>3, <2>4
<1> DEFINE T == {k \in Nat : k <= now => turn[k] \in I[k]}
<1>11. \A k \in Nat : k \in T
  <2> HIDE DEF I
  <2>1. 0 \in T
    BY <1>2, <1>8, <1>9
  <2>2. ASSUME NEW k \in T PROVE k + 1 \in T
    <3>1. k \in Nat
      OBVIOUS
    <3>2. SUFFICES ASSUME k + 1 <= now PROVE turn[k + 1] \in I[k + 1]
      BY <3>1
    <3>3. turn[k] \in I[k] /\ k + 1 \in 0 .. now /\ k + 1 \in 1 .. now /\ k + 1 # 0 /\ (k + 1) - 1 = k
      BY <1>2, <3>1, <3>2
    <3>4. turn[k + 1] = RiseOnce(turn[k], kv)
      BY <1>8, <3>3
    <3>5. QED
      BY <1>10, <3>3, <3>4
  <2>3. T \subseteq Nat
    OBVIOUS
  <2> HIDE DEF T
  <2>4. QED
    BY <2>1, <2>2, <2>3, SetInduction
<1>12. turn[now] \in I[now]
  <2> HIDE DEF I
  <2>1. now \in Nat /\ now <= now
    BY <1>2
  <2>2. now \in T
    <3> HIDE DEF T
    <3>1. QED
      BY <1>11, <2>1
  <2>3. QED
    BY <2>1, <2>2
<1> DEFINE z == turn[now]
<1>14. z \in Holes /\ Rising(z, kv, n, in) /\ (Risen(z, kv) \/ z.at <= now - now)
  <2>1. now \in 0 .. now
    BY <1>2
  <2>2. QED
    BY <1>12, <2>1
<1> HIDE DEF z, I, F, T
<1>15. z.at \in 1 .. n /\ n \in Nat /\ n <= Capacity /\ Capacity \in Nat /\ Holds(Filled(z, kv), n, in)
  BY <1>14, SizesAssumption DEF Rising, Holds
<1>16. Risen(z, kv)
  BY <1>2, <1>14, <1>15
<1>17. Ordered(Filled(z, kv), n)
  <2> SUFFICES ASSUME NEW i \in 2 .. n PROVE Filled(z, kv)[i \div 2].key <= Filled(z, kv)[i].key
    BY DEF Ordered
  <2>1. CASE i # z.at
    BY <1>14, <2>1 DEF Rising
  <2>2. CASE i = z.at
    <3> DEFINE p == z.at \div 2
    <3>1. p \in Nat /\ p < z.at /\ p >= 1
      BY <1>15, <2>2, Halves
    <3> HIDE DEF p
    <3>2. p \in 0 .. Capacity /\ p # z.at /\ p \in 1 .. n
      BY <1>15, <3>1
    <3>3. Filled(z, kv)[p] = z.kvs[p] /\ Filled(z, kv)[z.at] = kv
      BY <1>14, <3>2, HoleFacts
    <3>4. ~(z.kvs[p].key > kv.key)
      BY <1>16 DEF Risen, p
    <3>5. z.kvs[p].key \in Nat /\ kv.key \in Nat
      <4>1. Filled(z, kv)[p] \in HeapKVs
        BY <1>15, <3>2 DEF Holds
      <4>2. QED
        BY <3>3, <4>1, HeapKVFacts
    <3>6. z.kvs[p].key <= kv.key
      BY <3>4, <3>5
    <3>7. QED
      BY <2>2, <3>3, <3>6 DEF p
  <2>3. QED
    BY <2>1, <2>2
<1>18. QED
  BY <1>1, <1>15, <1>17 DEF z

\* What holds on the way down: the cells are in order but for the hole and its children.
Falling(t, kv, n, in) ==
    /\ t \in Holes /\ t.at \in 1 .. Capacity
    /\ Holds(Filled(t, kv), n, in)
    /\ \A i \in 2 .. n : i \div 2 # t.at => Filled(t, kv)[i \div 2].key <= Filled(t, kv)[i].key
    /\ \A i \in 2 .. n : (i \div 2 = t.at /\ t.at # 1) => Filled(t, kv)[t.at \div 2].key <= Filled(t, kv)[i].key

Child(t, n) == IF 2 * t.at # n /\ t.kvs[2 * t.at + 1].key < t.kvs[2 * t.at].key THEN 2 * t.at + 1 ELSE 2 * t.at
Fallen(t, n, kv) == ~(2 * t.at <= n /\ kv.key > t.kvs[Child(t, n)].key)

\* The lesser child of the hole, if it has any.
LEMMA ChildFacts ==
    ASSUME NEW t, NEW kv \in HeapKVs, NEW n, NEW in, Falling(t, kv, n, in), 2 * t.at <= n
    PROVE  /\ Child(t, n) \in 2 .. n /\ Child(t, n) \div 2 = t.at /\ Child(t, n) # t.at
           /\ Filled(t, kv)[Child(t, n)] = t.kvs[Child(t, n)]
           /\ \A i \in 2 .. n : i \div 2 = t.at => Filled(t, kv)[Child(t, n)].key <= Filled(t, kv)[i].key
<1> DEFINE at == t.at
           a == Filled(t, kv)
           left == 2 * t.at
           c == Child(t, n)
<1>1. t \in Holes /\ at \in Nat \ {0} /\ Holds(a, n, in) /\ n \in Nat /\ n <= Capacity /\ Capacity \in Nat
  BY SizesAssumption DEF Falling, Holds
<1>2. left \in Nat /\ left >= 2 /\ left <= n /\ left > at /\ left \div 2 = at /\ (left + 1) \div 2 = at
  BY <1>1, Halves
<1>3. left # n => left + 1 \in 2 .. n
  BY <1>1, <1>2
<1>4. \A i \in 2 .. n : i \div 2 = at => i = left \/ i = left + 1
  <2> SUFFICES ASSUME NEW i \in 2 .. n, i \div 2 = at PROVE i = left \/ i = left + 1
    OBVIOUS
  <2>1. i \in Nat \ {0}
    BY <1>1
  <2>2. i = 2 * (i \div 2) \/ i = 2 * (i \div 2) + 1
    BY <2>1, Halves
  <2>3. QED
    BY <2>2
<1>5. \A i \in 2 .. n : i \in 1 .. n /\ i \in 0 .. Capacity /\ a[i].key \in Nat
  <2>1. \A i \in 2 .. n : i \in 1 .. n /\ i \in 0 .. Capacity
    BY <1>1
  <2>2. QED
    BY <1>1, <2>1, HeapKVFacts DEF Holds
<1>6. left \in 2 .. n
  BY <1>1, <1>2
<1>7. \A i \in 2 .. n : i # at => a[i] = t.kvs[i]
  <2> HIDE DEF a
  <2>1. QED
    BY <1>1, <1>5, HoleFacts DEF a
<1>8. a[left] = t.kvs[left] /\ (left # n => a[left + 1] = t.kvs[left + 1])
  BY <1>1, <1>2, <1>3, <1>6, <1>7
<1>9. c = IF left # n /\ a[left + 1].key < a[left].key THEN left + 1 ELSE left
  BY <1>8 DEF Child
<1> HIDE DEF c, a, left, at
<1>10. c \in 2 .. n /\ c \div 2 = at /\ c # at
  BY <1>1, <1>2, <1>3, <1>6, <1>9
<1>11. ASSUME NEW i \in 2 .. n, i \div 2 = at PROVE a[c].key <= a[i].key
  <2>1. (i = left \/ i = left + 1) /\ (i = left + 1 => left # n)
    BY <1>1, <1>2, <1>4, <1>11
  <2>2. a[left].key \in Nat /\ (left # n => a[left + 1].key \in Nat)
    BY <1>3, <1>5, <1>6
  <2>3. QED
    BY <1>9, <2>1, <2>2
<1>12. a[c] = t.kvs[c]
  BY <1>7, <1>10
<1>13. QED
  BY <1>10, <1>11, <1>12 DEF at, a, c

\* The lesser child changes places with the hole.
LEMMA FallStep ==
    ASSUME NEW t, NEW kv \in HeapKVs, NEW n, NEW in, Falling(t, kv, n, in), ~Fallen(t, n, kv)
    PROVE  Falling(FallOnce(t, n, kv), kv, n, in) /\ FallOnce(t, n, kv).at > t.at
<1> DEFINE at == t.at
           c == Child(t, n)
           a == Filled(t, kv)
           u == [kvs |-> Put(t.kvs, t.at, t.kvs[c]), at |-> c]
           b == Filled(u, kv)
<1>1. /\ t \in Holes /\ at \in Nat \ {0} /\ at <= Capacity
      /\ Holds(a, n, in) /\ n \in 0 .. Capacity /\ n \in Nat /\ Capacity \in Nat
  BY SizesAssumption DEF Falling, Holds
<1>2. 2 * at <= n /\ kv.key > t.kvs[c].key
  BY DEF Fallen
<1>3. FallOnce(t, n, kv) = u
  BY <1>2 DEF FallOnce, Child, Put
<1>4. /\ c \in 2 .. n /\ c \div 2 = at /\ c # at /\ a[c] = t.kvs[c]
      /\ \A i \in 2 .. n : i \div 2 = at => a[c].key <= a[i].key
  BY <1>2, ChildFacts
<1> HIDE DEF c
<1>5. c \in 1 .. n /\ at \in 1 .. n /\ c > at /\ c \in 1 .. Capacity /\ c \in 0 .. Capacity /\ c # 1 /\ c \in Nat
  <2>1. c \in Nat \ {0}
    BY <1>1, <1>4
  <2>2. c \div 2 < c
    BY <2>1, Halves
  <2>3. QED
    BY <1>1, <1>2, <1>4, <2>1, <2>2
<1>6. b = Switched(a, at, c) /\ u \in Holes /\ u.at = c /\ a[at] = kv
  BY <1>1, <1>4, <1>5, HoleFacts
<1>7. kv.key > a[c].key /\ kv.key \in Nat
  BY <1>2, <1>4, HeapKVFacts
<1>8. /\ \A i \in 2 .. n : i \div 2 # at => a[i \div 2].key <= a[i].key
      /\ \A i \in 2 .. n : (i \div 2 = at /\ at # 1) => a[at \div 2].key <= a[i].key
  BY DEF Falling
<1> HIDE DEF a, u, b
<1>9. Holds(b, n, in)
  BY <1>1, <1>5, <1>6, Swapping
<1>10. \A i \in 2 .. n : /\ i \in Nat \ {0} /\ i \div 2 \in 1 .. n /\ i \div 2 < i
                         /\ i \in 0 .. Capacity /\ i \div 2 \in 0 .. Capacity /\ i \in 1 .. n
  <2> SUFFICES ASSUME NEW i \in 2 .. n PROVE /\ i \in Nat \ {0} /\ i \div 2 \in 1 .. n /\ i \div 2 < i
                                             /\ i \in 0 .. Capacity /\ i \div 2 \in 0 .. Capacity /\ i \in 1 .. n
    OBVIOUS
  <2>1. i \in Nat \ {0} /\ i >= 2 /\ i <= n
    BY <1>1
  <2>2. i \div 2 \in Nat /\ i \div 2 < i /\ i \div 2 >= 1
    BY <2>1, Halves
  <2> DEFINE j == i \div 2
  <2>3. j \in Nat /\ j < i /\ j >= 1
    BY <2>2
  <2> HIDE DEF j
  <2>4. j \in 1 .. n /\ j \in 0 .. Capacity
    BY <1>1, <2>1, <2>3
  <2>5. QED
    BY <1>1, <2>1, <2>3, <2>4 DEF j
<1>11. \A i \in 0 .. Capacity : b[i] = IF i = at THEN a[c] ELSE IF i = c THEN a[at] ELSE a[i]
  BY <1>6 DEF Switched
<1>12. \A i \in 1 .. n : a[i].key \in Nat
  BY <1>1, HeapKVFacts DEF Holds
<1>13. ASSUME NEW i \in 2 .. n, i \div 2 # c PROVE b[i \div 2].key <= b[i].key
  <2> DEFINE j == i \div 2
  <2>1. j \in 1 .. n /\ j < i /\ a[i].key \in Nat /\ a[j].key \in Nat /\ a[c].key \in Nat
    BY <1>5, <1>10, <1>12
  <2>2. /\ b[i] = (IF i = at THEN a[c] ELSE IF i = c THEN kv ELSE a[i])
        /\ b[j] = (IF j = at THEN a[c] ELSE a[j])
    BY <1>6, <1>10, <1>11, <1>13
  <2>3. /\ j # at => a[j].key <= a[i].key
        /\ j = at => a[c].key <= a[i].key
        /\ i = c => j = at
    BY <1>4, <1>8
  <2>4. i = at => a[j].key <= a[c].key /\ j # at
    <3>1. ASSUME i = at PROVE a[at \div 2].key <= a[c].key
      <4>1. at # 1
        BY <1>1, <3>1
      <4>2. QED
        BY <1>4, <1>8, <4>1
    <3>2. i = at => j # at
      BY <1>10
    <3>3. QED
      BY <3>1, <3>2
  <2>5. i \in Nat /\ j \in Nat
    BY <1>10
  <2> HIDE DEF j, at
  <2>6. QED
    BY <1>4, <1>7, <2>1, <2>2, <2>3, <2>4, <2>5 DEF j
<1>14. ASSUME NEW i \in 2 .. n, i \div 2 = c PROVE b[c \div 2].key <= b[i].key
  <2>1. i # c /\ i # at /\ b[i] = a[i]
    <3>1. i > c
      BY <1>10, <1>14
    <3>2. i # c /\ i # at
      BY <1>1, <1>5, <1>10, <3>1
    <3>3. QED
      BY <1>10, <1>11, <3>2
  <2>2. b[c \div 2] = a[c]
    BY <1>4, <1>10, <1>11
  <2>3. a[c].key <= a[i].key
    BY <1>4, <1>8, <1>14
  <2>4. QED
    BY <2>1, <2>2, <2>3
<1>15. Falling(u, kv, n, in)
  BY <1>5, <1>6, <1>9, <1>13, <1>14 DEF Falling, b
<1>16. QED
  BY <1>3, <1>5, <1>6, <1>15

\* The loop of HeapDeleteMin ends in the entry's place.
LEMMA SiftingDown ==
    ASSUME NEW a, NEW kv \in HeapKVs, NEW n, NEW in, Falling([kvs |-> a, at |-> 1], kv, n, in)
    PROVE  Holds(SiftDown(a, n, kv), n, in) /\ Ordered(SiftDown(a, n, kv), n)
<1> DEFINE first == [kvs |-> a, at |-> 1]
           F == [t \in Holes |-> FallOnce(t, n, kv)]
           turn == CHOOSE g : g = [k \in 0 .. n |-> IF k = 0 THEN first ELSE FallOnce(g[k - 1], n, kv)]
           I == [k \in 0 .. n |-> {t \in Holes : Falling(t, kv, n, in) /\ (Fallen(t, n, kv) \/ t.at >= 1 + k)}]
<1>1. SiftDown(a, n, kv) = Filled(turn[n], kv)
  BY DEF SiftDown, Filled, Put
<1>2. first \in Holes /\ first.at = 1 /\ Falling(first, kv, n, in) /\ n \in Nat /\ n <= Capacity /\ Capacity \in Nat
  BY SizesAssumption DEF Falling, Holds
<1>3. F \in [Holes -> Holes]
  <2> SUFFICES ASSUME NEW t \in Holes PROVE FallOnce(t, n, kv) \in Holes
    OBVIOUS
  <2>1. t.at \in Nat
    BY <1>2 DEF Holes
  <2> DEFINE c == Child(t, n)
  <2>2. CASE 2 * t.at <= n
    <3>1. c \in 0 .. Capacity
      BY <1>2, <2>1, <2>2 DEF Child
    <3> HIDE DEF c
    <3>2. [kvs |-> Put(t.kvs, t.at, t.kvs[c]), at |-> c] \in Holes
      BY <3>1, HoleFacts
    <3>3. QED
      BY <3>2 DEF FallOnce, Put, c, Child
  <2>3. CASE ~(2 * t.at <= n)
    BY <2>3 DEF FallOnce
  <2>4. QED
    BY <2>2, <2>3
<1> HIDE DEF first
<1>4. PICK f \in [0 .. n -> Holes] : Iterates(f, first, F, n)
  <2>1. n \in Nat
    BY <1>2
  <2> HIDE DEF F, turn, I
  <2>2. QED
    BY <2>1, <1>2, <1>3, Iterated
<1>5. f[0] = first /\ \A k \in 1 .. n : f[k] = F[f[k - 1]]
  BY <1>4 DEF Iterates
<1>6. \A k \in 0 .. n : k # 0 => k \in 1 .. n /\ k - 1 \in 0 .. n
  BY <1>2
<1>7. f = [k \in 0 .. n |-> IF k = 0 THEN first ELSE FallOnce(f[k - 1], n, kv)]
  <2>1. \A k \in 0 .. n : k # 0 => f[k] = FallOnce(f[k - 1], n, kv)
    BY <1>5, <1>6
  <2>2. QED
    BY <1>5, <2>1
<1>8. turn = [k \in 0 .. n |-> IF k = 0 THEN first ELSE FallOnce(turn[k - 1], n, kv)]
  BY <1>7
<1> HIDE DEF turn
<1>9. first \in I[0]
  <2>1. 0 \in 0 .. n
    BY <1>2
  <2>2. QED
    BY <1>2, <2>1
<1>10. ASSUME NEW k \in 1 .. n, NEW t \in I[k - 1] PROVE FallOnce(t, n, kv) \in I[k]
  <2>1. k - 1 \in 0 .. n /\ k \in 0 .. n /\ k \in Nat
    BY <1>2, <1>6
  <2>2. t \in Holes /\ Falling(t, kv, n, in) /\ (Fallen(t, n, kv) \/ t.at >= 1 + (k - 1))
    BY <2>1
  <2>3. CASE Fallen(t, n, kv)
    <3>1. FallOnce(t, n, kv) = t
      BY <2>3 DEF FallOnce, Fallen, Child
    <3>2. QED
      BY <2>1, <2>2, <2>3, <3>1
  <2>4. CASE ~Fallen(t, n, kv)
    <3>1. Falling(FallOnce(t, n, kv), kv, n, in) /\ FallOnce(t, n, kv).at > t.at
      BY <2>2, <2>4, FallStep
    <3> DEFINE u == FallOnce(t, n, kv)
    <3> HIDE DEF u
    <3>2. u \in Holes /\ u.at > t.at /\ Falling(u, kv, n, in)
      BY <3>1 DEF u, Falling
    <3>3. u.at \in Nat /\ t.at \in Nat
      BY <1>2, <2>2, <3>2 DEF Holes
    <3>4. u.at >= 1 + k
      BY <1>2, <2>1, <2>2, <2>4, <3>2, <3>3
    <3>5. QED
      BY <2>1, <3>2, <3>4 DEF u
  <2>5. QED
    BY <2>3, <2>4
<1> DEFINE T == {k \in Nat : k <= n => turn[k] \in I[k]}
<1>11. \A k \in Nat : k \in T
  <2> HIDE DEF I
  <2>1. 0 \in T
    BY <1>2, <1>8, <1>9
  <2>2. ASSUME NEW k \in T PROVE k + 1 \in T
    <3>1. k \in Nat
      OBVIOUS
    <3>2. SUFFICES ASSUME k + 1 <= n PROVE turn[k + 1] \in I[k + 1]
      BY <3>1
    <3>3. turn[k] \in I[k] /\ k + 1 \in 0 .. n /\ k + 1 \in 1 .. n /\ k + 1 # 0 /\ (k + 1) - 1 = k
      BY <1>2, <3>1, <3>2
    <3>4. turn[k + 1] = FallOnce(turn[k], n, kv)
      BY <1>8, <3>3
    <3>5. QED
      BY <1>10, <3>3, <3>4
  <2>3. T \subseteq Nat
    OBVIOUS
  <2> HIDE DEF T
  <2>4. QED
    BY <2>1, <2>2, <2>3, SetInduction
<1>12. turn[n] \in I[n]
  <2> HIDE DEF I
  <2>1. n \in Nat /\ n <= n
    BY <1>2
  <2>2. n \in T
    <3> HIDE DEF T
    <3>1. QED
      BY <1>11, <2>1
  <2>3. QED
    BY <2>1, <2>2
<1> DEFINE z == turn[n]
<1>13. z \in Holes /\ Falling(z, kv, n, in) /\ (Fallen(z, n, kv) \/ z.at >= 1 + n)
  <2>1. n \in 0 .. n
    BY <1>2
  <2>2. QED
    BY <1>12, <2>1
<1> HIDE DEF z, I, F, T
<1>14. z.at \in Nat \ {0} /\ z.at <= Capacity /\ Holds(Filled(z, kv), n, in)
  BY <1>2, <1>13 DEF Falling
<1>15. Fallen(z, n, kv)
  <2>1. CASE z.at >= 1 + n
    <3>1. ~(2 * z.at <= n)
      BY <1>2, <1>14, <2>1
    <3>2. QED
      BY <3>1 DEF Fallen
  <2>2. QED
    BY <1>13, <2>1
<1>16. Ordered(Filled(z, kv), n)
  <2> SUFFICES ASSUME NEW i \in 2 .. n PROVE Filled(z, kv)[i \div 2].key <= Filled(z, kv)[i].key
    BY DEF Ordered
  <2>1. CASE i \div 2 # z.at
    BY <1>13, <2>1 DEF Falling
  <2>2. CASE i \div 2 = z.at
    <3>1. 2 * z.at <= n
      <4>1. i \in Nat \ {0} /\ i <= n
        BY <1>2
      <4>2. i = 2 * (i \div 2) \/ i = 2 * (i \div 2) + 1
        BY <4>1, Halves
      <4>3. QED
        BY <1>2, <1>14, <2>2, <4>1, <4>2
    <3> DEFINE c == Child(z, n)
    <3>2. /\ c \in 2 .. n /\ Filled(z, kv)[c] = z.kvs[c]
          /\ Filled(z, kv)[c].key <= Filled(z, kv)[i].key
      BY <1>13, <2>2, <3>1, ChildFacts
    <3> HIDE DEF c
    <3>3. ~(kv.key > z.kvs[c].key)
      BY <1>15, <3>1 DEF Fallen, c
    <3>4. Filled(z, kv)[z.at] = kv
      <4>1. z.at \in 0 .. Capacity
        BY <1>13 DEF Holes
      <4>2. QED
        BY <1>13, <4>1, HoleFacts
    <3>5. c \in 1 .. n /\ i \in 1 .. n
      BY <1>2, <3>2
    <3>6. Filled(z, kv)[c].key \in Nat /\ Filled(z, kv)[i].key \in Nat /\ kv.key \in Nat
      BY <1>14, <3>5, HeapKVFacts DEF Holds
    <3>7. kv.key <= Filled(z, kv)[i].key
      BY <3>2, <3>3, <3>6
    <3>8. QED
      BY <2>2, <3>4, <3>7
  <2>3. QED
    BY <2>1, <2>2
<1>17. QED
  BY <1>1, <1>14, <1>16 DEF z

Entered == [queued : Nat, in : SUBSET HeapKVs]
Heaps == [size : 0 .. Capacity, overrun : BOOLEAN, kvs : HeapArrays]

HeapInv(h, m) ==
    /\ h \in Heaps /\ m \in Entered
    /\ h.overrun => Cardinality(m.in) > Capacity
    /\ ~h.overrun => /\ Holds(h.kvs, h.size, m.in)
                     /\ Ordered(h.kvs, h.size)
                     /\ \A e \in m.in : e.value <= m.queued

\* The places of two entries of which one is the other's parent.
LEMMA Parents ==
    ASSUME NEW n \in 0 .. Capacity, NEW i \in 2 .. n
    PROVE  /\ i \div 2 \in 1 .. n /\ i \div 2 < i /\ i \in 1 .. n
           /\ i \in 0 .. Capacity /\ i \div 2 \in 0 .. Capacity
<1>1. i \in Nat \ {0} /\ i >= 2 /\ i <= n /\ n \in Nat /\ n <= Capacity /\ Capacity \in Nat
  BY SizesAssumption
<1> DEFINE j == i \div 2
<1>2. j \in Nat /\ j < i /\ j >= 1
  BY <1>1, Halves
<1> HIDE DEF j
<1>3. j \in 1 .. n /\ j < i /\ i \in 1 .. n /\ i \in 0 .. Capacity /\ j \in 0 .. Capacity
  BY <1>1, <1>2
<1>4. QED
  BY <1>3 DEF j

\* HeapInsert.
LEMMA HeapInserting ==
    ASSUME NEW h, NEW m, HeapInv(h, m), ~h.overrun, NEW k \in Keys
    PROVE  HeapInv(HeapInsert(h, k, m.queued + 1), [queued |-> m.queued + 1, in |-> m.in \cup {KV(k, m.queued + 1)}])
<1> DEFINE kv == KV(k, m.queued + 1)
           w == [queued |-> m.queued + 1, in |-> m.in \cup {kv}]
           a == h.kvs
           n == h.size
           g == HeapInsert(h, k, m.queued + 1)
<1>1. /\ h \in Heaps /\ a \in HeapArrays /\ n \in 0 .. Capacity /\ n \in Nat /\ Capacity \in Nat
      /\ m \in Entered /\ m.queued \in Nat /\ m.in \in SUBSET HeapKVs
      /\ Holds(a, n, m.in) /\ Ordered(a, n) /\ \A e \in m.in : e.value <= m.queued
  BY SizesAssumption DEF HeapInv, Heaps, Entered, HeapKVs
<1>2. kv \in HeapKVs /\ kv.value = m.queued + 1 /\ kv.key = k
  BY <1>1 DEF HeapKVs, KV
<1>3. w \in Entered /\ w.queued = m.queued + 1 /\ w.in = m.in \cup {kv}
  BY <1>1, <1>2 DEF Entered, HeapKVs
<1>4. DOMAIN h.kvs = 0 .. Capacity
  BY <1>1 DEF HeapArrays
<1> HIDE DEF kv, w
<1>5. CASE n = Capacity
  <2>1. n + 1 \notin 0 .. Capacity
    BY <1>1, <1>5
  <2>2. g = [h EXCEPT !.overrun = TRUE]
    BY <1>4, <2>1 DEF HeapInsert
  <2>3. g \in Heaps /\ g.overrun
    BY <1>1, <2>2 DEF Heaps
  <2>4. IsFiniteSet(m.in) /\ Cardinality(m.in) = Capacity
    BY <1>1, <1>5, HeldSize
  <2>5. kv \notin m.in
    <3>1. ASSUME kv \in m.in PROVE FALSE
      <4>1. kv.value <= m.queued
        BY <1>1, <3>1
      <4>2. QED
        BY <1>1, <1>2, <4>1
    <3>2. QED
      BY <3>1
  <2>6. Cardinality(w.in) = Capacity + 1
    BY <1>3, <2>4, <2>5, FS_AddElement
  <2>7. Cardinality(w.in) > Capacity
    BY <1>1, <2>6
  <2>8. HeapInv(g, w)
    BY <1>3, <2>3, <2>7 DEF HeapInv
  <2>9. QED
    BY <2>8 DEF w, kv
<1>6. CASE n # Capacity
  <2> DEFINE b == Put(a, n + 1, kv)
             first == [kvs |-> a, at |-> n + 1]
             c == SiftUp(a, n + 1, kv)
  <2>1. n + 1 \in 0 .. Capacity /\ n + 1 \in 1 .. Capacity /\ n + 1 \in 1 .. n + 1
    BY <1>1, <1>6
  <2>2. g = [h EXCEPT !.size = n + 1, !.kvs = c]
    BY <1>4, <2>1 DEF HeapInsert, kv
  <2>3. \A i \in 1 .. n : a[i].value # kv.value
    <3> SUFFICES ASSUME NEW i \in 1 .. n PROVE a[i].value # kv.value
      OBVIOUS
    <3>1. a[i] \in m.in /\ a[i] \in HeapKVs
      BY <1>1 DEF Holds
    <3>2. a[i].value \in Nat /\ a[i].value <= m.queued
      BY <1>1, <3>1, HeapKVFacts
    <3>3. QED
      BY <1>1, <1>2, <3>2
  <2>4. Holds(b, n + 1, m.in \cup {kv})
    BY <1>1, <1>2, <2>1, <2>3, Placing
  <2>5. kv \in HeapCells
    BY <1>2, HeapKVFacts
  <2>6. \A x \in 0 .. Capacity : x # n + 1 => b[x] = a[x]
    BY <1>1, <2>1, <2>5, PutFacts
  <2>7. first \in Holes /\ first.at = n + 1 /\ Filled(first, kv) = b
    BY <1>1, <2>1 DEF Holes, Filled
  <2> HIDE DEF b
  <2>8. ASSUME NEW i \in 2 .. n + 1, i # n + 1 PROVE b[i \div 2].key <= b[i].key
    <3>1. i \in 2 .. n
      BY <1>1, <2>8
    <3> DEFINE j == i \div 2
    <3>2. j \in 1 .. n /\ j \in 0 .. Capacity /\ i \in 0 .. Capacity
      BY <1>1, <3>1, Parents
    <3>3. a[j].key <= a[i].key
      BY <1>1, <3>1 DEF Ordered
    <3> HIDE DEF j
    <3>4. j # n + 1
      BY <1>1, <3>2
    <3>5. b[j] = a[j] /\ b[i] = a[i]
      BY <2>6, <2>8, <3>2, <3>4
    <3>6. QED
      BY <3>3, <3>5 DEF j
  <2>9. ASSUME NEW i \in 2 .. n + 1 PROVE i \div 2 # n + 1
    <3> DEFINE j == i \div 2
    <3>1. j < i /\ j \in 1 .. n + 1
      BY <2>1, Parents
    <3> HIDE DEF j
    <3>2. j # n + 1
      BY <1>1, <3>1
    <3>3. QED
      BY <3>2 DEF j
  <2>10. Rising(first, kv, n + 1, m.in \cup {kv})
    <3> HIDE DEF first
    <3>1. QED
      BY <2>1, <2>4, <2>7, <2>8, <2>9 DEF Rising
  <2>11. Holds(c, n + 1, m.in \cup {kv}) /\ Ordered(c, n + 1)
    BY <1>2, <2>10, SiftingUp
  <2> HIDE DEF c
  <2>12. g \in Heaps /\ g.kvs = c /\ g.size = n + 1 /\ ~g.overrun
    BY <1>1, <2>1, <2>2, <2>11 DEF Heaps, Holds
  <2>13. \A e \in w.in : e.value <= w.queued
    <3> SUFFICES ASSUME NEW e \in w.in PROVE e.value <= w.queued
      OBVIOUS
    <3>1. CASE e = kv
      BY <1>1, <1>2, <1>3, <3>1
    <3>2. CASE e \in m.in
      <4>1. e \in HeapKVs
        BY <1>1, <3>2
      <4>2. e.value \in Nat /\ e.value <= m.queued
        BY <1>1, <3>2, <4>1, HeapKVFacts
      <4>3. QED
        BY <1>1, <1>3, <4>2
    <3>3. QED
      BY <1>3, <3>1, <3>2
  <2>14. HeapInv(g, w)
    BY <1>3, <2>11, <2>12, <2>13 DEF HeapInv
  <2>15. QED
    BY <2>14 DEF w, kv
<1>7. QED
  BY <1>5, <1>6

\* HeapDeleteMin.
LEMMA HeapDeleting ==
    ASSUME NEW h, NEW m, HeapInv(h, m), ~h.overrun
    PROVE  HeapInv(HeapDeleteMin(h), [m EXCEPT !.in = IF h.size = 0 THEN @ ELSE @ \ {h.kvs[1]}])
<1> DEFINE a == h.kvs
           n == h.size
           w == [m EXCEPT !.in = IF h.size = 0 THEN @ ELSE @ \ {h.kvs[1]}]
           g == HeapDeleteMin(h)
<1>1. /\ h \in Heaps /\ a \in HeapArrays /\ n \in 0 .. Capacity /\ n \in Nat /\ Capacity \in Nat
      /\ m \in Entered /\ Holds(a, n, m.in) /\ Ordered(a, n) /\ \A e \in m.in : e.value <= m.queued
  BY SizesAssumption DEF HeapInv, Heaps
<1>2. CASE n = 0
  <2>1. g = h /\ w = m
    BY <1>1, <1>2 DEF HeapDeleteMin, Entered
  <2>2. QED
    BY <2>1
<1>3. CASE n # 0
  <2> DEFINE kv == a[n]
             b == Put(a, 1, kv)
             first == [kvs |-> a, at |-> 1]
             c == SiftDown(a, n - 1, kv)
             out == m.in \ {a[1]}
  <2>1. n - 1 \in 0 .. Capacity /\ 1 \in 1 .. Capacity /\ n \in 1 .. n /\ 1 \in 0 .. Capacity
    BY <1>1, <1>3
  <2>2. g = [h EXCEPT !.size = n - 1, !.kvs = c]
    BY <1>3 DEF HeapDeleteMin
  <2>3. kv \in HeapKVs
    BY <1>1, <2>1 DEF Holds
  <2>4. w \in Entered /\ w.queued = m.queued /\ w.in = out
    BY <1>1, <1>3 DEF Entered
  <2>5. Holds(b, n - 1, out)
    BY <1>1, <1>3, Shrinking
  <2>6. kv \in HeapCells
    BY <2>3, HeapKVFacts
  <2> HIDE DEF kv, w
  <2>7. \A x \in 0 .. Capacity : x # 1 => b[x] = a[x]
    BY <1>1, <2>1, <2>6, PutFacts
  <2>8. first \in Holes /\ first.at = 1 /\ Filled(first, kv) = b
    BY <1>1, <2>1 DEF Holes, Filled
  <2> HIDE DEF b
  <2>9. ASSUME NEW i \in 2 .. n - 1, i \div 2 # 1 PROVE b[i \div 2].key <= b[i].key
    <3>1. i \in 2 .. n /\ i # 1
      BY <1>1, <2>1
    <3> DEFINE j == i \div 2
    <3>2. j \in 0 .. Capacity /\ i \in 0 .. Capacity /\ j # 1
      BY <1>1, <2>9, <3>1, Parents
    <3>3. a[j].key <= a[i].key
      BY <1>1, <3>1 DEF Ordered
    <3> HIDE DEF j
    <3>4. b[j] = a[j] /\ b[i] = a[i]
      BY <2>7, <3>1, <3>2
    <3>5. QED
      BY <3>3, <3>4 DEF j
  <2>10. Falling(first, kv, n - 1, out)
    <3> HIDE DEF first, out
    <3>1. QED
      BY <2>1, <2>5, <2>8, <2>9 DEF Falling
  <2> HIDE DEF out
  <2>11. Holds(c, n - 1, out) /\ Ordered(c, n - 1)
    BY <2>3, <2>10, SiftingDown
  <2> HIDE DEF c
  <2>12. g \in Heaps /\ g.kvs = c /\ g.size = n - 1 /\ ~g.overrun
    BY <1>1, <2>1, <2>2, <2>11 DEF Heaps, Holds
  <2>13. \A e \in w.in : e.value <= w.queued
    BY <1>1, <2>4 DEF out
  <2>14. HeapInv(g, w)
    BY <2>4, <2>11, <2>12, <2>13 DEF HeapInv
  <2>15. QED
    BY <2>14 DEF w
<1>4. QED
  BY <1>2, <1>3

\* HeapDecreaseKey.
LEMMA HeapDecreasing ==
    ASSUME NEW h, NEW m, HeapInv(h, m), ~h.overrun, NEW old \in m.in, NEW k \in Keys
    PROVE  HeapInv(HeapDecreaseKey(h, old.value, k),
                   [m EXCEPT !.in = IF k < old.key THEN (@ \ {old}) \cup {KV(k, old.value)} ELSE @])
<1> DEFINE a == h.kvs
           n == h.size
           kv == KV(k, old.value)
           w == [m EXCEPT !.in = IF k < old.key THEN (@ \ {old}) \cup {kv} ELSE @]
           g == HeapDecreaseKey(h, old.value, k)
           found == {i \in 1 .. n : a[i].value = old.value}
<1>1. /\ h \in Heaps /\ a \in HeapArrays /\ n \in 0 .. Capacity /\ n \in Nat /\ Capacity \in Nat
      /\ m \in Entered /\ m.queued \in Nat /\ m.in \in SUBSET HeapKVs
      /\ Holds(a, n, m.in) /\ Ordered(a, n) /\ \A e \in m.in : e.value <= m.queued
  BY SizesAssumption DEF HeapInv, Heaps, Entered, HeapKVs
<1>2. PICK x \in 1 .. n : a[x] = old
  BY <1>1 DEF Holds
<1>3. found = {x}
  BY <1>1, <1>2 DEF Holds
<1> DEFINE index == CHOOSE i \in found : \A j \in found : i <= j
<1>4. index = x /\ found # {}
  BY <1>1, <1>3
<1>5. g = IF k >= old.key THEN h ELSE [h EXCEPT !.kvs = SiftUp(a, x, kv)]
  <2>1. g = IF found = {} \/ k >= a[index].key THEN h ELSE [h EXCEPT !.kvs = SiftUp(a, index, kv)]
    BY DEF HeapDecreaseKey
  <2> HIDE DEF found, index, g, kv
  <2>2. QED
    BY <1>2, <1>4, <2>1
<1>6. k \in Nat /\ old.key \in Nat /\ old.value \in Nat /\ old \in HeapKVs
  <2>1. old \in HeapKVs
    BY <1>1
  <2>2. QED
    BY <2>1, KeysAssumption, HeapKVFacts
<1>7. kv \in HeapKVs /\ kv.value = old.value /\ kv.key = k /\ kv \in HeapCells
  <2>1. kv \in HeapKVs /\ kv.value = old.value /\ kv.key = k
    BY <1>6 DEF HeapKVs, KV
  <2>2. QED
    BY <2>1, HeapKVFacts
<1> HIDE DEF kv, g
<1>8. CASE k >= old.key
  <2>1. ~(k < old.key)
    BY <1>6, <1>8
  <2>2. w = m /\ g = h
    BY <1>1, <1>5, <1>8, <2>1 DEF Entered
  <2>3. QED
    BY <2>2 DEF g, kv
<1>9. CASE ~(k >= old.key)
  <2> DEFINE b == Put(a, x, kv)
             first == [kvs |-> a, at |-> x]
             c == SiftUp(a, x, kv)
             out == (m.in \ {old}) \cup {kv}
  <2>1. k < old.key /\ x \in 0 .. Capacity /\ x \in Nat \ {0}
    BY <1>1, <1>6, <1>9
  <2>2. g = [h EXCEPT !.kvs = c]
    BY <1>5, <1>9
  <2>3. w \in Entered /\ w.queued = m.queued /\ w.in = out
    BY <1>1, <1>7, <2>1 DEF Entered, HeapKVs
  <2> HIDE DEF w
  <2>4. Holds(b, n, out)
    BY <1>1, <1>2, <1>7, Rekeying
  <2>5. b[x] = kv /\ \A y \in 0 .. Capacity : y # x => b[y] = a[y]
    BY <1>1, <1>7, <2>1, PutFacts
  <2>6. first \in Holes /\ first.at = x /\ Filled(first, kv) = b
    BY <1>1, <2>1 DEF Holes, Filled
  <2> HIDE DEF b
  <2>7. \A i \in 1 .. n : a[i].key \in Nat
    BY <1>1, HeapKVFacts DEF Holds
  <2>8. ASSUME NEW i \in 2 .. n, i # x PROVE b[i \div 2].key <= b[i].key
    <3> DEFINE j == i \div 2
    <3>1. j \in 0 .. Capacity /\ i \in 0 .. Capacity /\ j \in 1 .. n /\ i \in 1 .. n
      BY <1>1, Parents
    <3>2. a[j].key <= a[i].key
      BY <1>1 DEF Ordered
    <3> HIDE DEF j
    <3>3. b[i] = a[i] /\ b[j] = (IF j = x THEN kv ELSE a[j])
      BY <2>5, <2>8, <3>1
    <3>4. a[i].key \in Nat /\ a[j].key \in Nat
      BY <2>7, <3>1
    <3>5. j = x => a[j].key = old.key
      BY <1>2
    <3>6. b[j].key <= b[i].key
      BY <1>6, <1>7, <2>1, <3>2, <3>3, <3>4, <3>5
    <3>7. QED
      BY <3>6 DEF j
  <2>9. ASSUME NEW i \in 2 .. n, i \div 2 = x, x # 1 PROVE b[x \div 2].key <= b[i].key
    <3> DEFINE j == x \div 2
    <3>1. x \in 2 .. n
      BY <1>1, <2>1, <2>9
    <3>2. j \in 0 .. Capacity /\ j \in 1 .. n /\ j < x
      BY <1>1, <3>1, Parents
    <3>3. a[j].key <= a[x].key
      BY <1>1, <3>1 DEF Ordered
    <3>4. a[x].key <= a[i].key
      BY <1>1, <2>9 DEF Ordered
    <3>5. i \in 1 .. n /\ i \in 0 .. Capacity /\ x < i
      BY <1>1, <2>9, Parents
    <3> HIDE DEF j
    <3>6. b[j] = a[j] /\ b[i] = a[i]
      <4>1. j # x /\ i # x
        BY <1>1, <2>1, <3>2, <3>5
      <4>2. QED
        BY <2>5, <3>2, <3>5, <4>1
    <3>7. a[j].key \in Nat /\ a[x].key \in Nat /\ a[i].key \in Nat
      BY <2>7, <3>2, <3>5
    <3>8. b[j].key <= b[i].key
      BY <3>3, <3>4, <3>6, <3>7
    <3>9. QED
      BY <3>8 DEF j
  <2>10. Rising(first, kv, n, out)
    <3> HIDE DEF first, out
    <3>1. QED
      BY <1>2, <2>4, <2>6, <2>8, <2>9 DEF Rising
  <2> HIDE DEF out
  <2>11. Holds(c, n, out) /\ Ordered(c, n)
    BY <1>7, <2>10, SiftingUp
  <2> HIDE DEF c
  <2>12. g \in Heaps /\ g.kvs = c /\ g.size = n /\ ~g.overrun
    BY <1>1, <2>2, <2>11 DEF Heaps, Holds
  <2>13. \A e \in w.in : e.value <= w.queued
    <3> SUFFICES ASSUME NEW e \in w.in PROVE e.value <= w.queued
      OBVIOUS
    <3>1. e.value = old.value \/ e \in m.in
      BY <1>7, <2>3 DEF out
    <3>2. QED
      BY <1>1, <2>3, <3>1
  <2>14. HeapInv(g, w)
    BY <2>3, <2>11, <2>12, <2>13 DEF HeapInv
  <2>15. QED
    BY <2>14 DEF w, g, kv
<1>10. QED
  BY <1>8, <1>9

\* Clear.
LEMMA HeapClearing ==
    ASSUME NEW h, NEW m, HeapInv(h, m), ~h.overrun
    PROVE  HeapInv(HeapClear(h), [m EXCEPT !.in = {}])
<1> DEFINE g == HeapClear(h)
           w == [m EXCEPT !.in = {}]
<1>1. h \in Heaps /\ m \in Entered /\ h.kvs \in HeapArrays /\ h.kvs[0].key = INT_MIN /\ 0 \in 0 .. Capacity
  BY SizesAssumption DEF HeapInv, Heaps, Holds
<1>2. g \in Heaps /\ g.size = 0 /\ g.kvs = h.kvs /\ ~g.overrun
  BY <1>1 DEF HeapClear, Heaps
<1>3. w \in Entered /\ w.in = {}
  BY <1>1 DEF Entered
<1> HIDE DEF g, w
<1>4. Holds(g.kvs, 0, {})
  BY <1>1, <1>2 DEF Holds
<1>5. Ordered(g.kvs, 0)
  BY DEF Ordered
<1>6. HeapInv(g, w)
  BY <1>2, <1>3, <1>4, <1>5 DEF HeapInv
<1>7. QED
  BY <1>6 DEF g, w

-----------------------------------------------------------------------------
(* All of them *)

QueuesInv ==
    /\ kind \in QueueKinds
    /\ kind = "list"  => Agree(s, model)
    /\ kind = "queue" => RingInv(s, model)
    /\ kind = "stack" => StackInv(s, model)
    /\ kind = "pq"    => PQInv(s, model)
    /\ kind = "heap"  => HeapInv(s, model)

LEMMA EmptyListsAgree == Agree(EmptyLists, [h \in Heads |-> <<>>])
<1> DEFINE m == [h \in Heads |-> <<>>]
           l == EmptyLists
<1>1. \A c \in Entries : c \in Heads \cup Cells
  BY DEF Entries
<1>2. l \in Lists /\ \A h \in Heads : l.next[h] = h /\ l.prev[h] = h
  BY DEF EmptyLists, Lists, Entries
<1>3. m \in [Heads -> Seq(Cells)] /\ \A h \in Heads : m[h] = <<>>
  OBVIOUS
<1> HIDE DEF l, m
<1>4. \A h \in Heads : Distinct(m[h])
  BY <1>3 DEF Distinct
<1>5. ASSUME NEW h \in Heads PROVE Visits(l, h, m[h])
  <2>1. Len(m[h]) = 0 /\ m[h] \in Seq(Cells)
    BY <1>3
  <2>2. Ring(h, m[h])[0] = h /\ Ring(h, m[h])[0 + 1] = h
    BY <2>1, RingFacts
  <2>3. \A i \in 0 .. Len(m[h]) : i = 0
    BY <2>1
  <2>4. QED
    BY <1>2, <2>2, <2>3 DEF Visits
<1>6. \A g, h \in Heads : g # h => \A i \in DOMAIN m[g], j \in DOMAIN m[h] : m[g][i] # m[h][j]
  BY <1>3
<1>7. Agree(l, m)
  BY <1>2, <1>3, <1>4, <1>5, <1>6 DEF Agree
<1>8. QED
  BY <1>7 DEF l, m

LEMMA EmptyArrays == RingInv(EmptyQueue(Capacity), <<>>) /\ StackInv(EmptyStack(Capacity), <<>>)
<1> DEFINE a == [i \in 0 .. Capacity - 1 |-> Junk]
           q == EmptyQueue(Capacity)
           st == EmptyStack(Capacity)
<1>1. Capacity \in Nat \ {0} /\ 0 \in 0 .. Capacity /\ 0 \in 0 .. Capacity - 1 /\ -1 \in -1 .. Capacity - 1
  BY SizesAssumption
<1>2. a \in RingArrays
  BY DEF RingArrays
<1>3. q = [size |-> 0, front |-> 0, rear |-> -1, elements |-> a] /\ st = [size |-> 0, elements |-> a]
  BY DEF EmptyQueue, EmptyStack
<1> HIDE DEF a, q, st
<1>4. q \in Rings /\ q.size = 0 /\ q.front = 0 /\ q.rear = -1 /\ q.elements = a /\ st \in Stacks /\ st.size = 0
  BY <1>1, <1>2, <1>3 DEF Rings, Stacks
<1>5. Wrapped(q, q.rear + 1) = 0
  BY <1>1, <1>2, <1>4, ArrayCells DEF Wrapped
<1>6. (q.front + q.size) % Capacity = 0
  <2>1. (0 + 0) % Capacity = 0
    <3>1. 0 \in 0 .. 2 * Capacity - 1 /\ 0 < Capacity
      BY <1>1
    <3>2. 0 % Capacity = 0
      BY <1>1, <3>1, Around
    <3>3. QED
      BY <3>2
  <2>2. QED
    BY <1>4, <2>1
<1>7. RingInv(q, <<>>)
  BY <1>4, <1>5, <1>6 DEF RingInv
<1>8. StackInv(st, <<>>)
  BY <1>4 DEF StackInv
<1>9. QED
  BY <1>7, <1>8 DEF q, st

LEMMA EmptyQueues == PQInv(<<>>, [queued |-> 0, in |-> {}]) /\ HeapInv(EmptyHeap(Capacity), [queued |-> 0, in |-> {}])
<1> DEFINE m == [queued |-> 0, in |-> {}]
           h == EmptyHeap(Capacity)
<1>1. m \in Entered /\ m \in PQEntered /\ m.in = {} /\ Capacity \in Nat /\ 0 \in 0 .. Capacity
  BY SizesAssumption DEF Entered, PQEntered
<1>2. h \in Heaps /\ h.size = 0 /\ h.overrun = FALSE /\ h.kvs \in HeapArrays /\ h.kvs[0].key = INT_MIN
  BY <1>1 DEF EmptyHeap, Heaps, HeapArrays, HeapCells, KV
<1> HIDE DEF h, m
<1>3. PQInv(<<>>, m)
  BY <1>1 DEF PQInv
<1>4. Holds(h.kvs, h.size, m.in) /\ Ordered(h.kvs, h.size)
  BY <1>1, <1>2 DEF Holds, Ordered
<1>5. HeapInv(h, m)
  BY <1>1, <1>2, <1>4 DEF HeapInv
<1>6. QED
  BY <1>3, <1>5 DEF h, m

\* A new structure of each kind is in order.
LEMMA QueuesStart == QueuesInit => QueuesInv
<1> SUFFICES ASSUME QueuesInit PROVE QueuesInv
  OBVIOUS
<1>1. kind \in QueueKinds
  BY DEF QueuesInit
<1>2. kind = "list" => Agree(s, model)
  BY EmptyListsAgree DEF QueuesInit
<1>3. (kind = "queue" => RingInv(s, model)) /\ (kind = "stack" => StackInv(s, model))
  BY EmptyArrays DEF QueuesInit
<1>4. (kind = "pq" => PQInv(s, model)) /\ (kind = "heap" => HeapInv(s, model))
  BY EmptyQueues DEF QueuesInit, QueueKinds
<1>5. QED
  BY <1>1, <1>2, <1>3, <1>4 DEF QueuesInv

LEMMA AddToListKeeps ==
    ASSUME QueuesInv, NEW h \in Heads, NEW c \in Cells, AddToList(h, c)
    PROVE  QueuesInv'
<1>1. kind = "list" /\ kind' = kind /\ Agree(s, model) /\ Free(model, c)
  BY DEF QueuesInv, AddToList, Becomes, Free, OnList
<1>2. Agree(s', model')
  <2>1. Agree(ListAdd(s, c, h), InFront(model, h, c)) /\ Agree(ListAddTail(s, c, h), AtEnd(model, h, c))
    BY <1>1, Adding
  <2>2. QED
    BY <2>1 DEF AddToList, Becomes
<1>3. QED
  BY <1>1, <1>2 DEF QueuesInv

LEMMA RemoveFromListKeeps ==
    ASSUME QueuesInv, kind = "list", NEW h \in Heads, NEW i \in DOMAIN model[h], RemoveFromList(h, i)
    PROVE  QueuesInv'
<1>1. kind' = kind /\ Agree(s, model) /\ i \in 1 .. Len(model[h])
  <2>1. kind' = kind /\ Agree(s, model)
    BY DEF QueuesInv, RemoveFromList, Becomes
  <2>2. QED
    BY <2>1, AgreeFacts
<1>2. Agree(ListDel(s, model[h][i]), Without(h, i)) /\ Agree(ListDelInit(s, model[h][i]), Without(h, i))
  BY <1>1, Removing
<1>3. Agree(s', model')
  BY <1>2 DEF RemoveFromList, Becomes
<1>4. QED
  BY <1>1, <1>3 DEF QueuesInv

LEMMA MoveForwardKeeps ==
    ASSUME QueuesInv, kind = "list", NEW h \in Heads, NEW i \in DOMAIN model[h], MoveForward(h, i)
    PROVE  QueuesInv'
<1>1. kind' = kind /\ Agree(s, model) /\ i \in 1 .. Len(model[h])
  <2>1. kind' = kind /\ Agree(s, model)
    BY DEF QueuesInv, MoveForward, Becomes
  <2>2. QED
    BY <2>1, AgreeFacts
<1>2. Agree(ListMoveToFront(s, model[h][i], h), InFront(Without(h, i), h, model[h][i]))
  BY <1>1, MovingToFront
<1>3. Agree(ListMoveAhead(s, model[h][i], h),
            IF i = 1 THEN model ELSE [model EXCEPT ![h] = InsertAt(RemoveAt(@, i), i - 1, @[i])])
  BY <1>1, MovingAhead
<1>4. Agree(s', model')
  BY <1>2, <1>3 DEF MoveForward, Becomes
<1>5. QED
  BY <1>1, <1>4 DEF QueuesInv

LEMMA MoveOnListsKeeps ==
    ASSUME QueuesInv, kind = "list", NEW h \in Heads, NEW i \in DOMAIN model[h], NEW g \in Heads, MoveOnLists(h, i, g)
    PROVE  QueuesInv'
<1>1. kind' = kind /\ Agree(s, model) /\ i \in 1 .. Len(model[h])
  <2>1. kind' = kind /\ Agree(s, model)
    BY DEF QueuesInv, MoveOnLists, Becomes
  <2>2. QED
    BY <2>1, AgreeFacts
<1>2. /\ Agree(ListMove(s, model[h][i], g), InFront(Without(h, i), g, model[h][i]))
      /\ Agree(ListMoveTail(s, model[h][i], g), AtEnd(Without(h, i), g, model[h][i]))
  BY <1>1, Moving
<1>3. Agree(s', model')
  BY <1>2 DEF MoveOnLists, Becomes
<1>4. QED
  BY <1>1, <1>3 DEF QueuesInv

LEMMA JoinListsKeeps ==
    ASSUME QueuesInv, NEW h \in Heads, NEW g \in Heads, JoinLists(h, g)
    PROVE  QueuesInv'
<1>1. kind = "list" /\ kind' = kind /\ Agree(s, model) /\ h # g
  BY DEF QueuesInv, JoinLists, Becomes
<1> DEFINE joined == model[h] \o model[g]
<1>2. HasJoined(joined, model[h], model[g]) /\ model \in [Heads -> Seq(Cells)]
  <2>1. model[h] \in Seq(Cells) /\ model[g] \in Seq(Cells)
    BY <1>1, AgreeFacts
  <2>2. QED
    BY <1>1, <2>1, Joins DEF Agree
<1>3. model' = [model EXCEPT ![g] = joined, ![h] = <<>>] /\ s' = ListSpliceInit(s, h, g)
  BY DEF JoinLists, Becomes
<1> HIDE DEF joined
<1>4. Agree(ListSpliceInit(s, h, g), [model EXCEPT ![g] = joined, ![h] = <<>>])
  BY <1>1, <1>2, JoinedIn
<1>5. Agree(s', model')
  BY <1>3, <1>4
<1>6. QED
  BY <1>1, <1>5 DEF QueuesInv

LEMMA UseQueueKeeps == ASSUME QueuesInv, UseQueue PROVE QueuesInv'
<1>1. kind = "queue" /\ kind' = kind /\ RingInv(s, model)
  BY DEF QueuesInv, UseQueue, Becomes
<1>2. RingInv(Dequeue(s), IF model = <<>> THEN model ELSE Tail(model))
  BY <1>1, Dequeuing
<1>3. \A e \in Elements : RingInv(Enqueue(s, e), IF Len(model) = Capacity THEN model ELSE Append(model, e))
  BY <1>1, Enqueuing
<1>4. RingInv(s', model')
  BY <1>2, <1>3 DEF UseQueue, Becomes
<1>5. QED
  BY <1>1, <1>4 DEF QueuesInv

LEMMA UseStackKeeps == ASSUME QueuesInv, UseStack PROVE QueuesInv'
<1>1. kind = "stack" /\ kind' = kind /\ StackInv(s, model)
  BY DEF QueuesInv, UseStack, Becomes
<1>2. StackInv(Pop(s), IF model = <<>> THEN model ELSE Tail(model))
  BY <1>1, Popping
<1>3. \A e \in Elements : StackInv(Push(s, e), IF Len(model) = Capacity THEN model ELSE <<e>> \o model)
  BY <1>1, Pushing
<1>4. StackInv(s', model')
  BY <1>2, <1>3 DEF UseStack, Becomes
<1>5. QED
  BY <1>1, <1>4 DEF QueuesInv

LEMMA UsePQKeeps == ASSUME QueuesInv, UsePQ PROVE QueuesInv'
<1>1. kind = "pq" /\ kind' = kind /\ PQInv(s, model)
  BY DEF QueuesInv, UsePQ, Becomes
<1>2. \A p \in Priorities : PQInv(PQueue(s, model.queued + 1, p), Added(p))
  BY <1>1, PQQueuing DEF Added
<1>3. s # <<>> => PQInv(PDequeue(s), [model EXCEPT !.in = @ \ {PQEntry(s[1])}])
  BY <1>1, PQDequeuing
<1>4. PQInv(s', model')
  BY <1>2, <1>3 DEF UsePQ, Becomes
<1>5. QED
  BY <1>1, <1>4 DEF QueuesInv

LEMMA UseHeapKeeps == ASSUME QueuesInv, UseHeap PROVE QueuesInv'
<1>1. kind = "heap" /\ kind' = kind /\ HeapInv(s, model) /\ ~s.overrun
  BY DEF QueuesInv, UseHeap, Becomes
<1>2. \A k \in Keys : HeapInv(HeapInsert(s, k, model.queued + 1), Added(k))
  BY <1>1, HeapInserting DEF Added
<1>3. HeapInv(HeapDeleteMin(s), [model EXCEPT !.in = IF s.size = 0 THEN @ ELSE @ \ {s.kvs[1]}])
  BY <1>1, HeapDeleting
<1>4. \A kv \in model.in, k \in Keys :
         HeapInv(HeapDecreaseKey(s, kv.value, k),
                 [model EXCEPT !.in = IF k < kv.key THEN (@ \ {kv}) \cup {KV(k, kv.value)} ELSE @])
  BY <1>1, HeapDecreasing
<1>5. HeapInv(HeapClear(s), [model EXCEPT !.in = {}])
  BY <1>1, HeapClearing
<1>6. HeapInv(s', model')
  BY <1>2, <1>3, <1>4, <1>5 DEF UseHeap, Becomes
<1>7. QED
  BY <1>1, <1>6 DEF QueuesInv

\* Every operation keeps its structure in order.
LEMMA QueuesKeep == QueuesInv /\ [QueuesNext]_part => QueuesInv'
<1> SUFFICES ASSUME QueuesInv, [QueuesNext]_part PROVE QueuesInv'
  OBVIOUS
<1>1. ASSUME NEW h \in Heads, NEW c \in Cells, AddToList(h, c) PROVE QueuesInv'
  BY <1>1, AddToListKeeps
<1>2. ASSUME kind = "list", NEW h \in Heads, NEW i \in DOMAIN model[h],
             RemoveFromList(h, i) \/ MoveForward(h, i) \/ \E g \in Heads : MoveOnLists(h, i, g)
      PROVE  QueuesInv'
  <2>1. CASE RemoveFromList(h, i)
    BY <1>2, <2>1, RemoveFromListKeeps
  <2>2. CASE MoveForward(h, i)
    BY <1>2, <2>2, MoveForwardKeeps
  <2>3. CASE \E g \in Heads : MoveOnLists(h, i, g)
    BY <1>2, <2>3, MoveOnListsKeeps
  <2>4. QED
    BY <1>2, <2>1, <2>2, <2>3
<1>3. ASSUME NEW h \in Heads, NEW g \in Heads, JoinLists(h, g) PROVE QueuesInv'
  BY <1>3, JoinListsKeeps
<1>4. CASE UseQueue
  BY <1>4, UseQueueKeeps
<1>5. CASE UseStack
  BY <1>5, UseStackKeeps
<1>6. CASE UsePQ
  BY <1>6, UsePQKeeps
<1>7. CASE UseHeap
  BY <1>7, UseHeapKeeps
<1>8. CASE UNCHANGED part
  BY <1>8 DEF QueuesInv, part
<1>9. QED
  BY <1>1, <1>2, <1>3, <1>4, <1>5, <1>6, <1>7, <1>8 DEF QueuesNext

LEMMA ListsFollow == QueuesInv => ListsAgree
  BY DEF QueuesInv, ListsAgree, Agree

LEMMA RingFollows == QueuesInv => RingAgrees
<1> SUFFICES ASSUME RingInv(s, model)
             PROVE  /\ s.size = Len(model)
                    /\ \A i \in 1 .. s.size : s.elements[(s.front + i - 1) % Capacity] = model[i]
                    /\ model # <<>> => FrontElement(s) = Head(model)
  BY DEF QueuesInv, RingAgrees
<1>1. /\ s.size = Len(model) /\ model \in Seq(Elements)
      /\ \A i \in 1 .. s.size : s.elements[(s.front + i - 1) % Capacity] = model[i]
  BY DEF RingInv
<1>2. s.front \in 0 .. Capacity - 1 /\ Capacity \in Nat \ {0}
  BY SizesAssumption DEF RingInv, Rings
<1> DEFINE front == s.front
<1>3. front \in 0 .. Capacity - 1 /\ front \in 0 .. 2 * Capacity - 1 /\ front < Capacity /\ front + 1 - 1 = front
  BY <1>2
<1>4. (front + 1 - 1) % Capacity = front
  <2> HIDE DEF front
  <2>1. front % Capacity = front
    BY <1>2, <1>3, Around
  <2>2. QED
    BY <1>3, <2>1
<1>5. ASSUME model # <<>> PROVE FrontElement(s) = Head(model)
  <2>1. 1 \in 1 .. s.size /\ Head(model) = model[1]
    BY <1>1, <1>5
  <2>2. s.elements[(s.front + 1 - 1) % Capacity] = model[1]
    BY <1>1, <2>1
  <2>3. QED
    BY <1>4, <2>1, <2>2 DEF FrontElement
<1>6. QED
  BY <1>1, <1>5

LEMMA StackFollows == QueuesInv => StackAgrees
<1> SUFFICES ASSUME StackInv(s, model) PROVE s.size = Len(model) /\ \A i \in 1 .. s.size : At(s, i - 1) = model[i]
  BY DEF QueuesInv, StackAgrees
<1>1. /\ s.size = Len(model) /\ model \in Seq(Elements)
      /\ \A i \in 1 .. Len(model) : s.elements[s.size - i] = model[i]
  BY DEF StackInv
<1>2. ASSUME NEW i \in 1 .. s.size PROVE At(s, i - 1) = model[i]
  <2>1. s.size \in Nat /\ i \in Nat
    BY <1>1
  <2>2. s.size - 1 - (i - 1) = s.size - i
    BY <2>1
  <2>3. QED
    BY <1>1, <2>2 DEF At
<1>3. QED
  BY <1>1, <1>2

LEMMA PQFollows == QueuesInv => PQAgrees
<1> SUFFICES ASSUME PQInv(s, model)
             PROVE  /\ {PQEntry(s[i]) : i \in DOMAIN s} = model.in
                    /\ \A i, j \in DOMAIN s : i < j =>
                          \/ Sooner(PQEntry(s[i]).key, PQEntry(s[j]).key)
                          \/ PQEntry(s[i]).key = PQEntry(s[j]).key /\ PQEntry(s[i]).value > PQEntry(s[j]).value
  BY DEF QueuesInv, PQAgrees
<1>1. DOMAIN s = 1 .. Len(s) /\ s \in Seq(Queued)
  BY DEF PQInv
<1>2. ASSUME NEW i \in DOMAIN s, NEW j \in DOMAIN s, i < j
      PROVE  \/ Sooner(PQEntry(s[i]).key, PQEntry(s[j]).key)
             \/ PQEntry(s[i]).key = PQEntry(s[j]).key /\ PQEntry(s[i]).value > PQEntry(s[j]).value
  <2>1. Before(s[i], s[j]) /\ s[i] \in Queued /\ s[j] \in Queued
    BY <1>1, <1>2 DEF PQInv
  <2>2. PICK u \in Priorities : s[i].priority = AsInt(u)
    BY <2>1 DEF Queued
  <2>3. PICK v \in Priorities : s[j].priority = AsInt(v)
    BY <2>1 DEF Queued
  <2>4. /\ PQEntry(s[i]).key = u /\ PQEntry(s[j]).key = v
        /\ PQEntry(s[i]).value = s[i].value /\ PQEntry(s[j]).value = s[j].value
    BY <2>2, <2>3, PriorityFacts DEF PQEntry, KV
  <2>5. u \in Nat /\ v \in Nat /\ UINTS \in Nat /\ u < UINTS /\ v < UINTS
    BY PrioritiesAssumption
  <2>6. CASE AsInt(u) < AsInt(v)
    <3>1. Sooner(u, v)
      BY <2>5, <2>6 DEF Sooner, AsInt
    <3>2. QED
      BY <2>4, <3>1
  <2>7. CASE AsInt(u) = AsInt(v) /\ s[i].value > s[j].value
    <3>1. u = v
      BY <2>5, <2>7 DEF AsInt
    <3>2. QED
      BY <2>4, <2>7, <3>1
  <2>8. QED
    BY <2>1, <2>2, <2>3, <2>6, <2>7 DEF Before
<1>3. QED
  BY <1>1, <1>2 DEF PQInv

LEMMA HeapFollows == QueuesInv => HeapAgrees
<1>0. ASSUME HeapInv(s, model), s.overrun PROVE Cardinality(model.in) > Capacity
  BY <1>0 DEF HeapInv
<1>7. ASSUME HeapInv(s, model), ~s.overrun PROVE ~(Cardinality(model.in) > Capacity)
  <2>1. s.size \in 0 .. Capacity /\ Holds(s.kvs, s.size, model.in)
    BY <1>7 DEF HeapInv, Heaps
  <2>2. Cardinality(model.in) = s.size
    BY <2>1, HeldSize
  <2>3. QED
    BY <2>1, <2>2, SizesAssumption
<1> SUFFICES ASSUME HeapInv(s, model), ~s.overrun
             PROVE  /\ s.size = Cardinality(model.in)
                    /\ {s.kvs[i] : i \in 1 .. s.size} = model.in
                    /\ \A i \in 2 .. s.size : s.kvs[i \div 2].key <= s.kvs[i].key
                    /\ s.size > 0 => Least(s.kvs[1])
  BY <1>0, <1>7 DEF QueuesInv, HeapAgrees
<1> DEFINE a == s.kvs
           n == s.size
<1>1. Holds(a, n, model.in) /\ Ordered(a, n)
  BY DEF HeapInv
<1>2. Cardinality(model.in) = n
  BY <1>1, HeldSize
<1>3. {a[i] : i \in 1 .. n} = model.in
  BY <1>1 DEF Holds
<1>4. \A i \in 2 .. n : a[i \div 2].key <= a[i].key
  BY <1>1 DEF Ordered
<1>5. Least(a[1])
  <2> SUFFICES ASSUME NEW e \in model.in PROVE a[1].key <= e.key
    BY DEF Least
  <2>1. PICK i \in 1 .. n : a[i] = e
    BY <1>1 DEF Holds
  <2>2. QED
    BY <1>1, <2>1, LeastOnTop
<1>6. QED
  BY <1>2, <1>3, <1>4, <1>5

\* After every sequence of operations, the lists, the ring queue, the stack, the priority
\* queue and the heap are in order, as double_linked_list.h, queue.h, stack.h,
\* priority_queue.h and heap.h leave them after each single one.
THEOREM QueuesStayInOrder == QueuesSpec => []QueuesInv
  BY QueuesStart, QueuesKeep, PTL DEF QueuesSpec

\* The lists hold what was put into them in both directions, the queue and the stack in the
\* order of their ends, the priority queue by the int that it makes of a uint32_t, and the
\* heap by its least key, for any number of entries, any capacity, any priorities and any
\* keys; and the heap writes behind its array exactly when one entry too many is put in.
THEOREM QueuesDeliver == QueuesSpec => []QueuesAgree
<1>1. QueuesInv => QueuesAgree
  BY ListsFollow, RingFollows, StackFollows, PQFollows, HeapFollows DEF QueuesAgree
<1>2. QED
  BY <1>1, QueuesStayInOrder, PTL

-----------------------------------------------------------------------------
(* Arrays, and what an array is rearranged into.                           *)

\* An array knows its length.
LEMMA LengthIs ==
    ASSUME NEW n \in Nat, NEW V, NEW a \in [0 .. n - 1 -> V]
    PROVE  Length(a) = n /\ DOMAIN a = 0 .. n - 1
<1>1. Cardinality(0 .. n - 1) = n
  <2>1. 0 \in Int /\ n - 1 \in Int
    OBVIOUS
  <2>2. Cardinality(0 .. n - 1) = IF 0 > n - 1 THEN 0 ELSE (n - 1) - 0 + 1
    BY <2>1, FS_Interval
  <2>3. QED
    BY <2>2
<1>2. QED
  BY <1>1 DEF Length

\* An input is an array.
LEMMA ArrayIs ==
    ASSUME NEW V, NEW max \in Nat, NEW a \in Arrays(V, max)
    PROVE  Length(a) \in 0 .. max /\ DOMAIN a = 0 .. Length(a) - 1 /\ a \in [0 .. Length(a) - 1 -> V]
<1>1. PICK n \in 0 .. max : a \in [0 .. n - 1 -> V]
  BY DEF Arrays
<1>2. n \in Nat
  BY <1>1
<1>3. Length(a) = n /\ DOMAIN a = 0 .. n - 1
  BY <1>1, <1>2, LengthIs
<1>4. QED
  BY <1>1, <1>3

\* An injection of the places into themselves reaches all of them.
LEMMA Onto ==
    ASSUME NEW n \in Nat, NEW p \in [0 .. n - 1 -> 0 .. n - 1], \A i, j \in 0 .. n - 1 : p[i] = p[j] => i = j
    PROVE  \A l \in 0 .. n - 1 : \E i \in 0 .. n - 1 : p[i] = l
<1> DEFINE D == 0 .. n - 1
<1>1. IsFiniteSet(D)
  <2>1. 0 \in Int /\ n - 1 \in Int
    OBVIOUS
  <2>2. QED
    BY <2>1, FS_Interval
<1>2. p \in Injection(D, D)
  BY DEF Injection, IsInjective
<1>3. p \in Surjection(D, D)
  <2> HIDE DEF D
  <2>1. Cardinality(D) = Cardinality(D) <=> p \in Surjection(D, D)
    BY <1>1, <1>2, FS_Injection
  <2>2. QED
    BY <2>1
<1>4. QED
  BY <1>3 DEF Surjection

\* The injections of the places that leave those outside begin .. end alone.
Shifts(n, begin, end) ==
    {p \in [0 .. n - 1 -> 0 .. n - 1] :
        /\ \A i, j \in 0 .. n - 1 : p[i] = p[j] => i = j
        /\ \A i \in 0 .. n - 1 : i < begin \/ end < i => p[i] = i}

\* y is what x is rearranged into between begin and end.
Rearranged(x, y, n, begin, end) == \E p \in Shifts(n, begin, end) : \A i \in 0 .. n - 1 : y[i] = x[p[i]]

\* A shift stays inside its range, which it covers.
LEMMA ShiftFacts ==
    ASSUME NEW n \in Nat, NEW begin \in Int, NEW end \in Int, NEW p \in Shifts(n, begin, end)
    PROVE  /\ \A i \in 0 .. n - 1 : i \in begin .. end => p[i] \in begin .. end
           /\ \A l \in 0 .. n - 1 : \E i \in 0 .. n - 1 : p[i] = l
           /\ \A l \in 0 .. n - 1 : l \in begin .. end => \E i \in 0 .. n - 1 : i \in begin .. end /\ p[i] = l
<1>1. /\ p \in [0 .. n - 1 -> 0 .. n - 1]
      /\ \A i, j \in 0 .. n - 1 : p[i] = p[j] => i = j
      /\ \A i \in 0 .. n - 1 : i < begin \/ end < i => p[i] = i
  BY DEF Shifts
<1>2. \A l \in 0 .. n - 1 : \E i \in 0 .. n - 1 : p[i] = l
  BY <1>1, Onto
<1>3. ASSUME NEW i \in 0 .. n - 1, i \in begin .. end PROVE p[i] \in begin .. end
  <2>1. SUFFICES ASSUME p[i] < begin \/ end < p[i] PROVE FALSE
    <3>1. p[i] \in Int
      BY <1>1
    <3>2. QED
      BY <3>1
  <2>2. p[i] \in 0 .. n - 1
    BY <1>1
  <2>3. p[p[i]] = p[i]
    BY <1>1, <2>1, <2>2
  <2>4. p[i] = i
    BY <1>1, <2>2, <2>3
  <2>5. QED
    BY <1>3, <2>1, <2>4
<1>4. ASSUME NEW l \in 0 .. n - 1, l \in begin .. end PROVE \E i \in 0 .. n - 1 : i \in begin .. end /\ p[i] = l
  <2>1. PICK i \in 0 .. n - 1 : p[i] = l
    BY <1>2
  <2>2. i \in begin .. end
    BY <1>1, <1>4, <2>1
  <2>3. QED
    BY <2>1, <2>2
<1>5. QED
  BY <1>2, <1>3, <1>4

\* Nothing outside the range changes, and what is inside comes from inside.
LEMMA RearrangedFacts ==
    ASSUME NEW n \in Nat, NEW begin \in Int, NEW end \in Int, NEW x, NEW y, Rearranged(x, y, n, begin, end)
    PROVE  /\ \A i \in 0 .. n - 1 : i < begin \/ end < i => y[i] = x[i]
           /\ \A i \in 0 .. n - 1 : i \in begin .. end => \E j \in 0 .. n - 1 : j \in begin .. end /\ y[i] = x[j]
<1>1. PICK p \in Shifts(n, begin, end) : \A i \in 0 .. n - 1 : y[i] = x[p[i]]
  BY DEF Rearranged
<1>2. /\ p \in [0 .. n - 1 -> 0 .. n - 1]
      /\ \A i \in 0 .. n - 1 : i < begin \/ end < i => p[i] = i
  BY DEF Shifts
<1>3. \A i \in 0 .. n - 1 : i \in begin .. end => p[i] \in begin .. end
  BY ShiftFacts
<1>4. \A i \in 0 .. n - 1 : p[i] \in 0 .. n - 1
  BY <1>2
<1>5. QED
  BY <1>1, <1>2, <1>3, <1>4

\* Rearranging nothing, rearranging in a wider range, and one rearrangement after another.
LEMMA RearrangedSame ==
    ASSUME NEW n \in Nat, NEW begin \in Int, NEW end \in Int, NEW x
    PROVE  Rearranged(x, x, n, begin, end)
<1> DEFINE p == [i \in 0 .. n - 1 |-> i]
<1>1. p \in Shifts(n, begin, end)
  BY DEF Shifts
<1>2. \A i \in 0 .. n - 1 : x[i] = x[p[i]]
  OBVIOUS
<1>3. QED
  BY <1>1, <1>2 DEF Rearranged

LEMMA RearrangedWider ==
    ASSUME NEW n \in Nat, NEW begin \in Int, NEW end \in Int, NEW first \in Int, NEW last \in Int,
           first <= begin, end <= last, NEW x, NEW y, Rearranged(x, y, n, begin, end)
    PROVE  Rearranged(x, y, n, first, last)
<1>1. PICK p \in Shifts(n, begin, end) : \A i \in 0 .. n - 1 : y[i] = x[p[i]]
  BY DEF Rearranged
<1>2. p \in Shifts(n, first, last)
  BY DEF Shifts
<1>3. QED
  BY <1>1, <1>2 DEF Rearranged

LEMMA RearrangedTwice ==
    ASSUME NEW n \in Nat, NEW begin \in Int, NEW end \in Int, NEW x, NEW y, NEW z,
           Rearranged(x, y, n, begin, end), Rearranged(y, z, n, begin, end)
    PROVE  Rearranged(x, z, n, begin, end)
<1>1. PICK p \in Shifts(n, begin, end) : \A i \in 0 .. n - 1 : y[i] = x[p[i]]
  BY DEF Rearranged
<1>2. PICK q \in Shifts(n, begin, end) : \A i \in 0 .. n - 1 : z[i] = y[q[i]]
  BY DEF Rearranged
<1> DEFINE r == [i \in 0 .. n - 1 |-> p[q[i]]]
<1>3. /\ p \in [0 .. n - 1 -> 0 .. n - 1]
      /\ \A i, j \in 0 .. n - 1 : p[i] = p[j] => i = j
      /\ \A i \in 0 .. n - 1 : i < begin \/ end < i => p[i] = i
  BY DEF Shifts
<1>4. /\ q \in [0 .. n - 1 -> 0 .. n - 1]
      /\ \A i, j \in 0 .. n - 1 : q[i] = q[j] => i = j
      /\ \A i \in 0 .. n - 1 : i < begin \/ end < i => q[i] = i
  BY DEF Shifts
<1>5. \A i \in 0 .. n - 1 : q[i] \in 0 .. n - 1 /\ r[i] = p[q[i]] /\ r[i] \in 0 .. n - 1
  BY <1>3, <1>4
<1>6. r \in [0 .. n - 1 -> 0 .. n - 1]
  BY <1>5
<1> HIDE DEF r
<1>7. \A i, j \in 0 .. n - 1 : r[i] = r[j] => i = j
  BY <1>3, <1>4, <1>5
<1>8. \A i \in 0 .. n - 1 : i < begin \/ end < i => r[i] = i
  BY <1>3, <1>4, <1>5
<1>9. r \in Shifts(n, begin, end)
  BY <1>6, <1>7, <1>8 DEF Shifts
<1>10. \A i \in 0 .. n - 1 : z[i] = x[r[i]]
  BY <1>1, <1>2, <1>5
<1>11. QED
  BY <1>9, <1>10 DEF Rearranged

\* Swapping two elements rearranges them.
LEMMA SwappedIs ==
    ASSUME NEW n \in Nat, NEW V, NEW x \in [0 .. n - 1 -> V], NEW i \in 0 .. n - 1, NEW j \in 0 .. n - 1
    PROVE  /\ Swapped(x, i, j) \in [0 .. n - 1 -> V]
           /\ \A k \in 0 .. n - 1 : Swapped(x, i, j)[k] = IF k = i THEN x[j] ELSE IF k = j THEN x[i] ELSE x[k]
  BY DEF Swapped

LEMMA RearrangedSwapped ==
    ASSUME NEW n \in Nat, NEW V, NEW x \in [0 .. n - 1 -> V], NEW begin \in Int, NEW end \in Int,
           NEW i \in 0 .. n - 1, NEW j \in 0 .. n - 1, i \in begin .. end, j \in begin .. end
    PROVE  Rearranged(x, Swapped(x, i, j), n, begin, end)
<1> DEFINE p == [k \in 0 .. n - 1 |-> IF k = i THEN j ELSE IF k = j THEN i ELSE k]
<1>1. p \in Shifts(n, begin, end)
  BY DEF Shifts
<1>2. \A k \in 0 .. n - 1 : p[k] = IF k = i THEN j ELSE IF k = j THEN i ELSE k
  OBVIOUS
<1> HIDE DEF p
<1>3. \A k \in 0 .. n - 1 : Swapped(x, i, j)[k] = IF k = i THEN x[j] ELSE IF k = j THEN x[i] ELSE x[k]
  BY DEF Swapped
<1>4. \A k \in 0 .. n - 1 : Swapped(x, i, j)[k] = x[p[k]]
  BY <1>2, <1>3
<1>5. QED
  BY <1>1, <1>4 DEF Rearranged

\* A rearranged array has as many elements of a kind as before.
Among(n, x, W) == {i \in 0 .. n - 1 : x[i] \in W}

LEMMA RearrangedCounts ==
    ASSUME NEW n \in Nat, NEW x, NEW y, Rearranged(x, y, n, 0, n - 1), NEW W
    PROVE  Cardinality(Among(n, x, W)) = Cardinality(Among(n, y, W))
<1> DEFINE X == {i \in 0 .. n - 1 : x[i] \in W}
           Y == {i \in 0 .. n - 1 : y[i] \in W}
<1>1. PICK p \in Shifts(n, 0, n - 1) : \A i \in 0 .. n - 1 : y[i] = x[p[i]]
  BY DEF Rearranged
<1>2. /\ p \in [0 .. n - 1 -> 0 .. n - 1]
      /\ \A i, j \in 0 .. n - 1 : p[i] = p[j] => i = j
  BY DEF Shifts
<1>3. \A l \in 0 .. n - 1 : \E i \in 0 .. n - 1 : p[i] = l
  BY <1>2, Onto
<1> DEFINE q == [i \in Y |-> p[i]]
<1>4. q \in [Y -> X]
  <2>1. \A i \in Y : p[i] \in X
    BY <1>1, <1>2
  <2>2. QED
    BY <2>1
<1>5. q \in Injection(Y, X)
  <2>1. \A i, j \in Y : q[i] = q[j] => i = j
    BY <1>2
  <2>2. QED
    BY <1>4, <2>1 DEF Injection, IsInjective
<1>6. q \in Surjection(Y, X)
  <2>1. \A l \in X : \E i \in Y : q[i] = l
    <3> SUFFICES ASSUME NEW l \in X PROVE \E i \in Y : q[i] = l
      OBVIOUS
    <3>1. PICK i \in 0 .. n - 1 : p[i] = l
      BY <1>3
    <3>2. i \in Y /\ q[i] = l
      BY <1>1, <3>1
    <3>3. QED
      BY <3>2
  <2>2. QED
    BY <1>4, <2>1 DEF Surjection
<1>7. IsFiniteSet(Y)
  <2>1. 0 \in Int /\ n - 1 \in Int
    OBVIOUS
  <2>2. IsFiniteSet(0 .. n - 1)
    BY <2>1, FS_Interval
  <2>3. QED
    BY <2>2, FS_Subset
<1>8. Cardinality(X) = Cardinality(Y)
  <2> HIDE DEF X, Y, q
  <2>1. Cardinality(X) = Cardinality(Y) <=> q \in Injection(Y, X)
    BY <1>6, <1>7, FS_Surjection
  <2>2. QED
    BY <1>5, <2>1
<1>9. QED
  BY <1>8 DEF Among

\* In particular it is a permutation.
LEMMA RearrangedPermutes ==
    ASSUME NEW n \in Nat, NEW V, NEW x \in [0 .. n - 1 -> V], NEW y \in [0 .. n - 1 -> V],
           Rearranged(x, y, n, 0, n - 1)
    PROVE  IsPermutation(x, y)
<1>1. ASSUME NEW v PROVE Count(x, v) = Count(y, v)
  <2>1. Cardinality(Among(n, x, {v})) = Cardinality(Among(n, y, {v}))
    BY RearrangedCounts
  <2>2. Among(n, x, {v}) = {i \in DOMAIN x : x[i] = v} /\ Among(n, y, {v}) = {i \in DOMAIN y : y[i] = v}
    BY DEF Among
  <2>3. QED
    BY <2>1, <2>2 DEF Count
<1>2. DOMAIN x = 0 .. n - 1 /\ DOMAIN y = 0 .. n - 1
  OBVIOUS
<1>3. QED
  BY <1>1, <1>2 DEF IsPermutation

-----------------------------------------------------------------------------
(* Insertion sort *)

InRange(x, begin, end) == \A i, j \in begin .. end : i < j => x[i] <= x[j]

\* The place the loop finds for an element among those in order.
NotLarger(x, iter) == {j \in 0 .. iter - 1 : x[j] <= x[iter]}
Hole(x, iter) ==
    IF NotLarger(x, iter) = {} THEN 0
    ELSE 1 + CHOOSE j \in NotLarger(x, iter) : \A k \in NotLarger(x, iter) : k <= j

LEMMA HoleFound ==
    ASSUME NEW n \in Nat, NEW V \in SUBSET Nat, NEW x \in [0 .. n - 1 -> V], NEW iter \in 0 .. n - 1
    PROVE  /\ Hole(x, iter) \in 0 .. iter
           /\ InRange(x, 0, iter - 1) => \A k \in 0 .. iter - 1 : k < Hole(x, iter) => x[k] <= x[iter]
           /\ \A k \in 0 .. iter - 1 : Hole(x, iter) <= k => x[iter] < x[k]
<1> DEFINE below == {j \in 0 .. iter - 1 : x[j] <= x[iter]}
           hole == IF below = {} THEN 0 ELSE 1 + CHOOSE j \in below : \A k \in below : k <= j
<1>0. hole = Hole(x, iter)
  BY DEF Hole, NotLarger
<1>1. \A k \in 0 .. iter : k \in 0 .. n - 1 /\ x[k] \in Nat
  <2>1. \A k \in 0 .. iter : k \in 0 .. n - 1
    OBVIOUS
  <2>2. \A k \in 0 .. n - 1 : x[k] \in Nat
    OBVIOUS
  <2>3. QED
    BY <2>1, <2>2
<1>2. CASE below = {}
  <2>1. hole = 0
    BY <1>2
  <2>2. \A k \in 0 .. iter - 1 : ~(x[k] <= x[iter])
    BY <1>2
  <2>3. \A k \in 0 .. iter - 1 : x[iter] < x[k]
    BY <1>1, <2>2
  <2> HIDE DEF below, hole
  <2>4. QED
    BY <1>0, <2>1, <2>3
<1>3. CASE below # {}
  <2> DEFINE h == CHOOSE j \in below : \A k \in below : k <= j
  <2>1. \E j \in below : \A k \in below : k <= j
    <3>1. below \in SUBSET Int /\ iter \in Int /\ \A j \in below : j <= iter
      OBVIOUS
    <3> HIDE DEF below
    <3>2. QED
      BY <1>3, <3>1, GreatestNumber
  <2>2. h \in below /\ \A k \in below : k <= h
    <3> HIDE DEF below
    <3>1. QED
      BY <2>1
  <2>3. hole = 1 + h
    <3> HIDE DEF below
    <3>1. QED
      BY <1>3
  <2> HIDE DEF h
  <2>4. h \in 0 .. iter - 1 /\ x[h] <= x[iter]
    BY <2>2
  <2>5. ASSUME InRange(x, 0, iter - 1), NEW k \in 0 .. iter - 1, k < 1 + h PROVE x[k] <= x[iter]
    <3>1. x[k] <= x[h]
      <4>1. CASE k = h
        BY <1>1, <2>4, <4>1
      <4>2. CASE k < h
        BY <2>4, <2>5, <4>2 DEF InRange
      <4>3. QED
        BY <2>4, <2>5, <4>1, <4>2
    <3>2. x[k] \in Nat /\ x[h] \in Nat /\ x[iter] \in Nat
      BY <1>1, <2>4
    <3>3. QED
      BY <2>4, <3>1, <3>2
  <2>6. ASSUME NEW k \in 0 .. iter - 1, 1 + h <= k PROVE x[iter] < x[k]
    <3>1. k \notin below
      BY <2>2, <2>4, <2>6
    <3>2. ~(x[k] <= x[iter])
      BY <3>1
    <3>3. QED
      BY <1>1, <3>2
  <2> HIDE DEF below, hole
  <2>7. QED
    BY <1>0, <2>3, <2>4, <2>5, <2>6
<1>4. QED
  BY <1>2, <1>3

LEMMA Inserting ==
    ASSUME NEW n \in Nat, NEW V \in SUBSET Nat, NEW x \in [0 .. n - 1 -> V], NEW iter \in 0 .. n - 1
    PROVE  /\ InsertInto(x, iter) \in [0 .. n - 1 -> V]
           /\ InRange(x, 0, iter - 1) => InRange(InsertInto(x, iter), 0, iter)
           /\ Rearranged(x, InsertInto(x, iter), n, 0, n - 1)
<1> DEFINE hole == Hole(x, iter)
           y == [i \in 0 .. n - 1 |-> IF i = hole THEN x[iter]
                                      ELSE IF hole < i /\ i <= iter THEN x[i - 1] ELSE x[i]]
           p == [i \in 0 .. n - 1 |-> IF i = hole THEN iter ELSE IF hole < i /\ i <= iter THEN i - 1 ELSE i]
<1>1. /\ hole \in 0 .. iter
      /\ InRange(x, 0, iter - 1) => \A k \in 0 .. iter - 1 : k < hole => x[k] <= x[iter]
      /\ \A k \in 0 .. iter - 1 : hole <= k => x[iter] < x[k]
  BY HoleFound
<1>2. InsertInto(x, iter) = y
  BY DEF InsertInto, Hole, NotLarger
<1> HIDE DEF hole
<1>3. \A i \in 0 .. n - 1 : p[i] \in 0 .. n - 1 /\ p[i] = (IF i = hole THEN iter ELSE IF hole < i /\ i <= iter THEN i - 1 ELSE i)
  BY <1>1
<1>4. \A i \in 0 .. n - 1 : y[i] = x[p[i]]
  <2>1. \A i \in 0 .. n - 1 : y[i] = (IF i = hole THEN x[iter] ELSE IF hole < i /\ i <= iter THEN x[i - 1] ELSE x[i])
    OBVIOUS
  <2> HIDE DEF y, p
  <2>2. QED
    BY <1>3, <2>1
<1>5. p \in Shifts(n, 0, n - 1)
  <2>1. p \in [0 .. n - 1 -> 0 .. n - 1]
    BY <1>3
  <2> HIDE DEF p
  <2>2. \A i, j \in 0 .. n - 1 : p[i] = p[j] => i = j
    BY <1>1, <1>3
  <2>3. QED
    BY <2>1, <2>2 DEF Shifts
<1>6. y \in [0 .. n - 1 -> V]
  <2>1. \A i \in 0 .. n - 1 : x[p[i]] \in V
    BY <1>3
  <2> HIDE DEF p
  <2>2. \A i \in 0 .. n - 1 : y[i] \in V
    <3> HIDE DEF y
    <3>1. QED
      BY <1>4, <2>1
  <2>3. \A i \in 0 .. n - 1 : (IF i = hole THEN x[iter] ELSE IF hole < i /\ i <= iter THEN x[i - 1] ELSE x[i]) \in V
    BY <2>2
  <2>4. QED
    BY <2>3
<1>7. ASSUME InRange(x, 0, iter - 1) PROVE InRange(y, 0, iter)
  <2>1. SUFFICES ASSUME NEW i \in 0 .. iter, NEW j \in 0 .. iter, i < j PROVE y[i] <= y[j]
    BY DEF InRange
  <2>2. i \in 0 .. n - 1 /\ j \in 0 .. n - 1
    OBVIOUS
  <2>3. \A k, l \in 0 .. iter - 1 : k < l => x[k] <= x[l]
    BY <1>7 DEF InRange
  <2>a. \A k \in 0 .. iter - 1 : k < hole => x[k] <= x[iter]
    BY <1>1, <1>7
  <2>4. \A k \in 0 .. iter : x[k] \in Nat
    <3>1. \A k \in 0 .. iter : k \in 0 .. n - 1
      OBVIOUS
    <3>2. \A k \in 0 .. n - 1 : x[k] \in Nat
      OBVIOUS
    <3>3. QED
      BY <3>1, <3>2
  <2> HIDE DEF y, p
  <2>5. y[i] = x[p[i]] /\ y[j] = x[p[j]]
    BY <1>4, <2>2
  <2>6. CASE j < hole
    BY <1>1, <1>3, <2>1, <2>2, <2>3, <2>5, <2>6
  <2>7. CASE j = hole
    BY <1>1, <1>3, <2>1, <2>2, <2>5, <2>7, <2>a
  <2>8. CASE hole < j /\ i = hole
    <3>1. p[j] = j - 1 /\ p[i] = iter /\ j - 1 \in 0 .. iter - 1 /\ hole <= j - 1
      BY <1>1, <1>3, <2>1, <2>2, <2>8
    <3>2. x[iter] < x[j - 1]
      BY <1>1, <3>1
    <3>3. QED
      BY <2>4, <2>5, <3>1, <3>2
  <2>9. CASE hole < j /\ hole < i
    <3>1. p[j] = j - 1 /\ p[i] = i - 1 /\ j - 1 \in 0 .. iter - 1 /\ i - 1 \in 0 .. iter - 1 /\ i - 1 < j - 1
      BY <1>1, <1>3, <2>1, <2>2, <2>9
    <3>2. QED
      BY <2>3, <2>5, <3>1
  <2>10. CASE hole < j /\ i < hole
    <3>1. p[j] = j - 1 /\ p[i] = i /\ j - 1 \in 0 .. iter - 1 /\ i \in 0 .. iter - 1
      BY <1>1, <1>3, <2>1, <2>2, <2>10
    <3>2. x[i] <= x[iter] /\ x[iter] < x[j - 1]
      BY <1>1, <2>10, <2>a, <3>1
    <3>3. QED
      BY <2>4, <2>5, <3>1, <3>2
  <2>11. QED
    BY <1>1, <2>6, <2>7, <2>8, <2>9, <2>10
<1>8. Rearranged(x, y, n, 0, n - 1)
  <2> HIDE DEF y, p
  <2>1. QED
    BY <1>4, <1>5 DEF Rearranged
<1>9. QED
  <2> HIDE DEF y
  <2>1. QED
    BY <1>2, <1>6, <1>7, <1>8

\* The turns of the loop, in the form of a function of the turn and of what the turn before left.
LEMMA InsertionSorts ==
    ASSUME NEW n \in Nat, NEW V \in SUBSET Nat, NEW a \in [0 .. n - 1 -> V]
    PROVE  /\ InsertionSort(a) \in [0 .. n - 1 -> V]
           /\ InRange(InsertionSort(a), 0, n - 1)
           /\ Rearranged(a, InsertionSort(a), n, 0, n - 1)
<1> DEFINE S == [0 .. n - 1 -> V]
           F == [c \in (1 .. n) \X S |-> IF c[1] <= 1 THEN a ELSE InsertInto(c[2], c[1] - 1)]
           turn == CHOOSE g : g = [m \in 0 .. n |-> IF m <= 1 THEN a ELSE InsertInto(g[m - 1], m - 1)]
<1>0. InsertionSort(a) = turn[n]
  BY LengthIs DEF InsertionSort
<1>1. F \in [(1 .. n) \X S -> S]
  <2>1. ASSUME NEW m \in 1 .. n, NEW x \in S PROVE (IF m <= 1 THEN a ELSE InsertInto(x, m - 1)) \in S
    <3>1. m - 1 \in 0 .. n - 1
      OBVIOUS
    <3>2. InsertInto(x, m - 1) \in S
      BY <3>1, Inserting
    <3>3. QED
      BY <3>2
  <2> HIDE DEF S
  <2>2. QED
    BY <2>1
<1>2. PICK f \in [0 .. n -> S] : Folds(f, a, F, n)
  <2>1. a \in S
    OBVIOUS
  <2> HIDE DEF S, F
  <2>2. QED
    BY <1>1, <2>1, Folded
<1>3. f[0] = a /\ \A m \in 1 .. n : f[m] = IF m <= 1 THEN a ELSE InsertInto(f[m - 1], m - 1)
  <2>1. f[0] = a /\ \A m \in 1 .. n : f[m] = F[<<m, f[m - 1]>>]
    BY <1>2 DEF Folds
  <2>2. \A m \in 1 .. n : f[m - 1] \in S
    BY <1>2
  <2> HIDE DEF S
  <2>3. \A m \in 1 .. n : F[<<m, f[m - 1]>>] = IF m <= 1 THEN a ELSE InsertInto(f[m - 1], m - 1)
    BY <2>2
  <2> HIDE DEF F
  <2>4. ASSUME NEW m \in 1 .. n PROVE f[m] = IF m <= 1 THEN a ELSE InsertInto(f[m - 1], m - 1)
    <3>1. f[m] = F[<<m, f[m - 1]>>]
      BY <2>1
    <3>2. F[<<m, f[m - 1]>>] = IF m <= 1 THEN a ELSE InsertInto(f[m - 1], m - 1)
      BY <2>3
    <3>3. QED
      BY <3>1, <3>2
  <2>5. QED
    BY <2>1, <2>4
<1>4. f = [m \in 0 .. n |-> IF m <= 1 THEN a ELSE InsertInto(f[m - 1], m - 1)]
  <2>1. \A m \in 0 .. n : f[m] = IF m <= 1 THEN a ELSE InsertInto(f[m - 1], m - 1)
    BY <1>3
  <2> HIDE DEF S
  <2>2. QED
    BY <1>2, <2>1
<1>5. turn = [m \in 0 .. n |-> IF m <= 1 THEN a ELSE InsertInto(turn[m - 1], m - 1)]
  BY <1>4
<1> HIDE DEF turn, F
<1> DEFINE Done(m) == /\ turn[m] \in S
                      /\ InRange(turn[m], 0, m - 1)
                      /\ Rearranged(a, turn[m], n, 0, n - 1)
           T == {m \in Nat : m <= n => Done(m)}
<1>6. \A m \in 0 .. n : m <= 1 => turn[m] = a /\ Done(m)
  <2>1. ASSUME NEW m \in 0 .. n, m <= 1 PROVE turn[m] = a /\ Done(m)
    <3>1. turn[m] = a
      BY <1>5, <2>1
    <3>2. Rearranged(a, a, n, 0, n - 1)
      <4>1. 0 \in Int /\ n - 1 \in Int
        OBVIOUS
      <4>2. QED
        BY <4>1, RearrangedSame
    <3>3. InRange(a, 0, m - 1)
      BY <2>1 DEF InRange
    <3>4. QED
      BY <3>1, <3>2, <3>3
  <2>2. QED
    BY <2>1
<1>7. 0 \in T
  <2> HIDE DEF Done
  <2>1. QED
    BY <1>6
<1>8. ASSUME NEW m \in T PROVE m + 1 \in T
  <2>1. m \in Nat
    OBVIOUS
  <2>2. SUFFICES ASSUME m + 1 <= n PROVE Done(m + 1)
    <3> HIDE DEF Done
    <3>1. QED
      BY <2>1
  <2>3. m \in 0 .. n /\ m + 1 \in 0 .. n
    BY <2>1, <2>2
  <2>4. CASE m + 1 <= 1
    <3> HIDE DEF Done
    <3>1. QED
      BY <1>6, <2>3, <2>4
  <2>5. CASE m + 1 > 1
    <3>1. Done(m)
      BY <2>3
    <3>2. turn[m + 1] = InsertInto(turn[m], m)
      BY <1>5, <2>3, <2>5
    <3>3. m \in 0 .. n - 1
      BY <2>3
    <3>4. /\ InsertInto(turn[m], m) \in S
          /\ InRange(InsertInto(turn[m], m), 0, m)
          /\ Rearranged(turn[m], InsertInto(turn[m], m), n, 0, n - 1)
      BY <3>1, <3>3, Inserting
    <3>5. Rearranged(a, turn[m + 1], n, 0, n - 1)
      <4>1. 0 \in Int /\ n - 1 \in Int
        OBVIOUS
      <4>2. QED
        BY <3>1, <3>2, <3>4, <4>1, RearrangedTwice
    <3>6. (m + 1) - 1 = m
      BY <2>1
    <3>7. QED
      BY <3>2, <3>4, <3>5, <3>6
  <2>6. QED
    BY <2>3, <2>4, <2>5
<1>9. Done(n)
  <2> HIDE DEF Done
  <2>0. T \subseteq Nat
    OBVIOUS
  <2>1. Nat \subseteq T
    <3> HIDE DEF T
    <3>1. QED
      BY <1>7, <1>8, <2>0, SetInduction
  <2>2. n \in T
    <3> HIDE DEF T
    <3>1. QED
      BY <2>1
  <2>3. QED
    BY <2>2
<1>10. QED
  BY <1>0, <1>9

-----------------------------------------------------------------------------
(* Merge sort *)

Cursors == [lpos : Int, rpos : Int]
Advanced(x, mid, right, c) ==
    IF FromLeft(x, mid, right, c) THEN [lpos |-> c.lpos + 1, rpos |-> c.rpos]
    ELSE [lpos |-> c.lpos, rpos |-> c.rpos + 1]

\* What is not copied yet.
Remaining(c, mid, right) == (c.lpos .. mid) \cup (c.rpos .. right)

\* Where the cursors are after pos turns.
Standing(c, left, mid, right, pos) ==
    /\ c \in Cursors /\ c.lpos \in left .. mid + 1 /\ c.rpos \in mid + 1 .. right + 1
    /\ (c.lpos - left) + (c.rpos - (mid + 1)) = pos

\* A turn copies the least of what remains.
LEMMA MergeTurn ==
    ASSUME NEW n \in Nat, NEW x \in [0 .. n - 1 -> Nat], NEW left \in Nat, NEW mid \in Nat, NEW right \in Nat,
           left <= mid, mid < right, right <= n - 1, NEW c, NEW pos \in Nat, pos <= right - left,
           Standing(c, left, mid, right, pos), InRange(x, left, mid), InRange(x, mid + 1, right)
    PROVE  /\ Standing(Advanced(x, mid, right, c), left, mid, right, pos + 1)
           /\ Taken(x, mid, right, c) \in Remaining(c, mid, right)
           /\ Remaining(Advanced(x, mid, right, c), mid, right) = Remaining(c, mid, right) \ {Taken(x, mid, right, c)}
           /\ \A k \in Remaining(c, mid, right) : x[Taken(x, mid, right, c)] <= x[k]
<1> DEFINE l == c.lpos
           r == c.rpos
<1>1. /\ l \in Nat /\ r \in Nat /\ left <= l /\ l <= mid + 1 /\ mid + 1 <= r /\ r <= right + 1
      /\ (l - left) + (r - (mid + 1)) = pos
  BY DEF Standing
<1>2. Remaining(c, mid, right) = {k \in 0 .. n - 1 : (l <= k /\ k <= mid) \/ (r <= k /\ k <= right)}
  <2> HIDE DEF l, r
  <2>1. l .. mid = {k \in 0 .. n - 1 : l <= k /\ k <= mid}
    BY <1>1
  <2>2. r .. right = {k \in 0 .. n - 1 : r <= k /\ k <= right}
    BY <1>1
  <2>3. Remaining(c, mid, right) = (l .. mid) \cup (r .. right)
    BY DEF Remaining, l, r
  <2>4. QED
    BY <2>1, <2>2, <2>3
<1>3. \A k \in 0 .. n - 1 : x[k] \in Nat
  OBVIOUS
<1>4. \A k \in 0 .. n - 1 : l <= k /\ k <= mid => x[l] <= x[k]
  <2> SUFFICES ASSUME NEW k \in 0 .. n - 1, l <= k, k <= mid PROVE x[l] <= x[k]
    OBVIOUS
  <2> HIDE DEF l
  <2>1. l \in left .. mid /\ k \in left .. mid
    BY <1>1
  <2>2. CASE l = k
    BY <1>3, <2>2
  <2>3. CASE l < k
    BY <2>1, <2>3 DEF InRange
  <2>4. QED
    BY <2>1, <2>2, <2>3
<1>5. \A k \in 0 .. n - 1 : r <= k /\ k <= right => x[r] <= x[k]
  <2> SUFFICES ASSUME NEW k \in 0 .. n - 1, r <= k, k <= right PROVE x[r] <= x[k]
    OBVIOUS
  <2> HIDE DEF r
  <2>1. r \in mid + 1 .. right /\ k \in mid + 1 .. right
    BY <1>1
  <2>2. CASE r = k
    BY <1>3, <2>2
  <2>3. CASE r < k
    BY <2>1, <2>3 DEF InRange
  <2>4. QED
    BY <2>1, <2>2, <2>3
<1>6. CASE FromLeft(x, mid, right, c)
  <2>1. l <= mid /\ (r <= right => x[l] < x[r])
    BY <1>6 DEF FromLeft
  <2>2. Taken(x, mid, right, c) = l
    BY <1>6 DEF Taken
  <2>3. Advanced(x, mid, right, c) = [lpos |-> l + 1, rpos |-> r]
    BY <1>6 DEF Advanced
  <2>4. Standing([lpos |-> l + 1, rpos |-> r], left, mid, right, pos + 1)
    <3> HIDE DEF l, r
    <3>1. QED
      BY <1>1, <2>1 DEF Standing, Cursors
  <2>5. Remaining([lpos |-> l + 1, rpos |-> r], mid, right)
           = {k \in 0 .. n - 1 : (l + 1 <= k /\ k <= mid) \/ (r <= k /\ k <= right)}
    <3> HIDE DEF l, r
    <3>1. QED
      BY <1>1, <2>1 DEF Remaining
  <2> HIDE DEF l, r
  <2>6. l \in 0 .. n - 1 /\ (r <= right => r \in 0 .. n - 1)
    BY <1>1, <2>1
  <2>7. \A k \in 0 .. n - 1 : (l <= k /\ k <= mid) \/ (r <= k /\ k <= right) => x[l] <= x[k]
    <3> SUFFICES ASSUME NEW k \in 0 .. n - 1, (l <= k /\ k <= mid) \/ (r <= k /\ k <= right) PROVE x[l] <= x[k]
      OBVIOUS
    <3>1. CASE l <= k /\ k <= mid
      BY <1>4, <3>1
    <3>2. CASE r <= k /\ k <= right
      <4>1. r <= right
        BY <1>1, <3>2
      <4>2. x[l] < x[r] /\ x[r] <= x[k] /\ x[l] \in Nat /\ x[r] \in Nat /\ x[k] \in Nat
        BY <1>3, <1>5, <2>1, <2>6, <3>2, <4>1
      <4>3. QED
        BY <4>2
    <3>3. QED
      BY <3>1, <3>2
  <2>8. l \in Remaining(c, mid, right) /\ \A k \in Remaining(c, mid, right) : x[l] <= x[k]
    BY <1>1, <1>2, <2>1, <2>6, <2>7
  <2>9. Remaining([lpos |-> l + 1, rpos |-> r], mid, right) = Remaining(c, mid, right) \ {l}
    BY <1>1, <1>2, <2>1, <2>5
  <2>10. QED
    BY <2>2, <2>3, <2>4, <2>8, <2>9
<1>7. CASE ~FromLeft(x, mid, right, c)
  <2>1. l <= mid => r <= right /\ ~(x[l] < x[r])
    BY <1>7 DEF FromLeft
  <2>2. Taken(x, mid, right, c) = r
    BY <1>7 DEF Taken
  <2>3. Advanced(x, mid, right, c) = [lpos |-> l, rpos |-> r + 1]
    BY <1>7 DEF Advanced
  <2>4. r <= right
    <3> HIDE DEF l, r
    <3>1. QED
      BY <1>1, <2>1
  <2>5. Standing([lpos |-> l, rpos |-> r + 1], left, mid, right, pos + 1)
    <3> HIDE DEF l, r
    <3>1. QED
      BY <1>1, <2>4 DEF Standing, Cursors
  <2>6. Remaining([lpos |-> l, rpos |-> r + 1], mid, right)
           = {k \in 0 .. n - 1 : (l <= k /\ k <= mid) \/ (r + 1 <= k /\ k <= right)}
    <3> HIDE DEF l, r
    <3>1. QED
      BY <1>1, <2>4 DEF Remaining
  <2> HIDE DEF l, r
  <2>7. r \in 0 .. n - 1 /\ (l <= mid => l \in 0 .. n - 1)
    BY <1>1, <2>4
  <2>8. \A k \in 0 .. n - 1 : (l <= k /\ k <= mid) \/ (r <= k /\ k <= right) => x[r] <= x[k]
    <3> SUFFICES ASSUME NEW k \in 0 .. n - 1, (l <= k /\ k <= mid) \/ (r <= k /\ k <= right) PROVE x[r] <= x[k]
      OBVIOUS
    <3>1. CASE l <= k /\ k <= mid
      <4>1. l <= mid
        BY <1>1, <3>1
      <4>2. ~(x[l] < x[r]) /\ x[l] <= x[k] /\ x[l] \in Nat /\ x[r] \in Nat /\ x[k] \in Nat
        BY <1>3, <1>4, <2>1, <2>7, <3>1, <4>1
      <4>3. QED
        BY <4>2
    <3>2. CASE r <= k /\ k <= right
      BY <1>5, <3>2
    <3>3. QED
      BY <3>1, <3>2
  <2>9. r \in Remaining(c, mid, right) /\ \A k \in Remaining(c, mid, right) : x[r] <= x[k]
    BY <1>1, <1>2, <2>4, <2>7, <2>8
  <2>10. Remaining([lpos |-> l, rpos |-> r + 1], mid, right) = Remaining(c, mid, right) \ {r}
    BY <1>1, <1>2, <2>4, <2>6
  <2>11. QED
    BY <2>2, <2>3, <2>5, <2>9, <2>10
<1>8. QED
  BY <1>6, <1>7

\* The turns of the loop, from left and mid + 1 on.
Turns(turn, x, left, mid, right) ==
    /\ turn \in [0 .. right - left + 1 -> Cursors]
    /\ turn[0] = [lpos |-> left, rpos |-> mid + 1]
    /\ \A pos \in 1 .. right - left + 1 : turn[pos] = Advanced(x, mid, right, turn[pos - 1])

\* Each turn copies an element that no other turn copies, and none that is less than one before it.
LEMMA MergeTurns ==
    ASSUME NEW n \in Nat, NEW x \in [0 .. n - 1 -> Nat], NEW left \in Nat, NEW mid \in Nat, NEW right \in Nat,
           left <= mid, mid < right, right <= n - 1, InRange(x, left, mid), InRange(x, mid + 1, right),
           NEW turn, Turns(turn, x, left, mid, right)
    PROVE  /\ \A pos \in 0 .. right - left : Taken(x, mid, right, turn[pos]) \in left .. right
           /\ \A pos, later \in 0 .. right - left : pos < later =>
                 /\ Taken(x, mid, right, turn[pos]) # Taken(x, mid, right, turn[later])
                 /\ x[Taken(x, mid, right, turn[pos])] <= x[Taken(x, mid, right, turn[later])]
<1> DEFINE last == right - left
           Src(pos) == Taken(x, mid, right, turn[pos])
           Rem(pos) == Remaining(turn[pos], mid, right)
           Is(pos) == Standing(turn[pos], left, mid, right, pos)
<1>0. last \in Nat /\ \A pos \in Nat : pos <= last => pos <= right - left /\ pos + 1 \in 1 .. right - left + 1
  OBVIOUS
<1>1. \A pos \in Nat : pos <= last => turn[pos + 1] = Advanced(x, mid, right, turn[pos])
  <2> SUFFICES ASSUME NEW pos \in Nat, pos <= last PROVE turn[pos + 1] = Advanced(x, mid, right, turn[pos])
    OBVIOUS
  <2>1. pos + 1 \in 1 .. right - left + 1 /\ (pos + 1) - 1 = pos
    BY <1>0
  <2>2. turn[pos + 1] = Advanced(x, mid, right, turn[(pos + 1) - 1])
    BY <2>1 DEF Turns
  <2>3. QED
    BY <2>1, <2>2
<1>2. ASSUME NEW pos \in Nat, pos <= last, Is(pos)
      PROVE  /\ Is(pos + 1)
             /\ Src(pos) \in Rem(pos)
             /\ Rem(pos + 1) = Rem(pos) \ {Src(pos)}
             /\ \A k \in Rem(pos) : x[Src(pos)] <= x[k]
  <2> DEFINE c == turn[pos]
  <2>1. turn[pos + 1] = Advanced(x, mid, right, c) /\ pos <= right - left /\ Standing(c, left, mid, right, pos)
    BY <1>1, <1>2
  <2> HIDE DEF c
  <2>2. /\ Standing(Advanced(x, mid, right, c), left, mid, right, pos + 1)
        /\ Taken(x, mid, right, c) \in Remaining(c, mid, right)
        /\ Remaining(Advanced(x, mid, right, c), mid, right) = Remaining(c, mid, right) \ {Taken(x, mid, right, c)}
        /\ \A k \in Remaining(c, mid, right) : x[Taken(x, mid, right, c)] <= x[k]
    BY <2>1, MergeTurn
  <2>3. QED
    BY <2>1, <2>2 DEF c
<1> DEFINE T == {pos \in Nat : pos <= last => Is(pos)}
<1>3. Nat \subseteq T
  <2>1. 0 \in T
    <3>1. turn[0] = [lpos |-> left, rpos |-> mid + 1]
      BY DEF Turns
    <3>2. Is(0)
      BY <3>1 DEF Standing, Cursors
    <3>3. QED
      BY <3>2
  <2>2. ASSUME NEW pos \in T PROVE pos + 1 \in T
    <3> HIDE DEF Is, Src, Rem, last
    <3>1. pos \in Nat /\ (pos <= last => Is(pos))
      OBVIOUS
    <3>2. QED
      BY <1>0, <1>2, <3>1
  <2>3. T \subseteq Nat
    OBVIOUS
  <2> HIDE DEF T
  <2>4. QED
    BY <2>1, <2>2, <2>3, SetInduction
<1>4. \A pos \in Nat : pos <= last => Is(pos)
  BY <1>3
<1>5. \A pos \in Nat : pos <= last => Rem(pos) \subseteq left .. right
  <2> SUFFICES ASSUME NEW pos \in Nat, pos <= last PROVE Rem(pos) \subseteq left .. right
    OBVIOUS
  <2> DEFINE c == turn[pos]
  <2>1. Standing(c, left, mid, right, pos)
    BY <1>4
  <2>2. Remaining(c, mid, right) \subseteq left .. right
    <3> HIDE DEF c
    <3>1. c.lpos \in Int /\ c.rpos \in Int /\ left <= c.lpos /\ left <= c.rpos /\ mid <= right
      BY <2>1 DEF Standing
    <3>2. QED
      BY <3>1 DEF Remaining
  <2>3. QED
    BY <2>2
<1> HIDE DEF Is, Src, Rem
<1> DEFINE U == {d \in Nat : \A pos \in Nat : pos + d <= last => Rem(pos + d) \subseteq Rem(pos)}
<1>6. Nat \subseteq U
  <2>1. 0 \in U
    OBVIOUS
  <2>2. ASSUME NEW d \in U PROVE d + 1 \in U
    <3>1. d \in Nat
      OBVIOUS
    <3>2. SUFFICES ASSUME NEW pos \in Nat, pos + (d + 1) <= last PROVE Rem(pos + (d + 1)) \subseteq Rem(pos)
      BY <3>1
    <3>3. pos + d \in Nat /\ pos + d <= last /\ pos + (d + 1) = (pos + d) + 1
      BY <1>0, <3>1, <3>2
    <3>4. Rem(pos + d) \subseteq Rem(pos)
      BY <3>3
    <3>5. Rem((pos + d) + 1) = Rem(pos + d) \ {Src(pos + d)}
      BY <1>2, <1>4, <3>3
    <3>6. QED
      BY <3>3, <3>4, <3>5
  <2>3. U \subseteq Nat
    OBVIOUS
  <2> HIDE DEF U
  <2>4. QED
    BY <2>1, <2>2, <2>3, SetInduction
<1>7. ASSUME NEW pos \in 0 .. last, NEW later \in 0 .. last, pos < later
      PROVE  Src(pos) # Src(later) /\ x[Src(pos)] <= x[Src(later)]
  <2>1. later - (pos + 1) \in Nat /\ (pos + 1) + (later - (pos + 1)) = later /\ later <= last /\ pos <= last /\ pos + 1 \in Nat /\ pos \in Nat /\ later \in Nat
    BY <1>0, <1>7
  <2>2. later - (pos + 1) \in U
    <3> HIDE DEF U
    <3>1. QED
      BY <1>6, <2>1
  <2>3. Rem(later) \subseteq Rem(pos + 1)
    BY <2>1, <2>2
  <2>4. Src(later) \in Rem(later)
    BY <1>2, <1>4, <2>1
  <2>5. Rem(pos + 1) = Rem(pos) \ {Src(pos)} /\ \A k \in Rem(pos) : x[Src(pos)] <= x[k]
    BY <1>2, <1>4, <2>1
  <2>6. QED
    BY <2>3, <2>4, <2>5
<1>8. ASSUME NEW pos \in 0 .. last PROVE Src(pos) \in left .. right
  <2>1. pos \in Nat /\ pos <= last
    BY <1>0
  <2>2. Src(pos) \in Rem(pos)
    BY <1>2, <1>4, <2>1
  <2>3. QED
    BY <1>5, <2>1, <2>2
<1>9. QED
  BY <1>7, <1>8 DEF Src

LEMMA Merging ==
    ASSUME NEW n \in Nat, NEW V \in SUBSET Nat, NEW x \in [0 .. n - 1 -> V],
           NEW left \in Nat, NEW mid \in Nat, NEW right \in Nat, left <= mid, mid < right, right <= n - 1,
           InRange(x, left, mid), InRange(x, mid + 1, right)
    PROVE  /\ Merge(x, left, mid, right) \in [0 .. n - 1 -> V]
           /\ InRange(Merge(x, left, mid, right), left, right)
           /\ Rearranged(x, Merge(x, left, mid, right), n, left, right)
<1> DEFINE size == right - left + 1
           turn == CHOOSE g : g = [pos \in 0 .. size |->
                      IF pos = 0 THEN [lpos |-> left, rpos |-> mid + 1]
                      ELSE IF FromLeft(x, mid, right, g[pos - 1])
                           THEN [lpos |-> g[pos - 1].lpos + 1, rpos |-> g[pos - 1].rpos]
                           ELSE [lpos |-> g[pos - 1].lpos, rpos |-> g[pos - 1].rpos + 1]]
           y == [i \in 0 .. n - 1 |-> IF left <= i /\ i <= right THEN x[Taken(x, mid, right, turn[i - left])] ELSE x[i]]
           first == [lpos |-> left, rpos |-> mid + 1]
           F == [c \in Cursors |-> Advanced(x, mid, right, c)]
<1>0. Merge(x, left, mid, right) = y
  BY DEF Merge
<1>a. size \in Nat /\ x \in [0 .. n - 1 -> Nat]
  <2>1. \A i \in 0 .. n - 1 : x[i] \in Nat
    OBVIOUS
  <2>2. QED
    BY <2>1
<1>1. Turns(turn, x, left, mid, right)
  <2>1. F \in [Cursors -> Cursors] /\ first \in Cursors
    BY DEF Cursors, Advanced
  <2>2. PICK f \in [0 .. size -> Cursors] : Iterates(f, first, F, size)
    <3> HIDE DEF F, first, size
    <3>1. QED
      BY <1>a, <2>1, Iterated
  <2>3. f[0] = first /\ \A pos \in 1 .. size : f[pos] = Advanced(x, mid, right, f[pos - 1])
    <3>1. f[0] = first /\ \A pos \in 1 .. size : f[pos] = F[f[pos - 1]]
      BY <2>2 DEF Iterates
    <3>2. \A pos \in 1 .. size : f[pos - 1] \in Cursors
      BY <1>a, <2>2
    <3> HIDE DEF first, size
    <3>3. QED
      BY <3>1, <3>2
  <2>4. \A pos \in 0 .. size : f[pos] =
           IF pos = 0 THEN [lpos |-> left, rpos |-> mid + 1]
           ELSE IF FromLeft(x, mid, right, f[pos - 1])
                THEN [lpos |-> f[pos - 1].lpos + 1, rpos |-> f[pos - 1].rpos]
                ELSE [lpos |-> f[pos - 1].lpos, rpos |-> f[pos - 1].rpos + 1]
    <3>1. \A pos \in 0 .. size : pos = 0 \/ pos \in 1 .. size
      BY <1>a
    <3> HIDE DEF size
    <3>2. QED
      BY <2>3, <3>1 DEF Advanced
  <2>5. f = [pos \in 0 .. size |->
           IF pos = 0 THEN [lpos |-> left, rpos |-> mid + 1]
           ELSE IF FromLeft(x, mid, right, f[pos - 1])
                THEN [lpos |-> f[pos - 1].lpos + 1, rpos |-> f[pos - 1].rpos]
                ELSE [lpos |-> f[pos - 1].lpos, rpos |-> f[pos - 1].rpos + 1]]
    <3> HIDE DEF size
    <3>1. QED
      BY <2>2, <2>4
  <2>6. turn = [pos \in 0 .. size |->
           IF pos = 0 THEN [lpos |-> left, rpos |-> mid + 1]
           ELSE IF FromLeft(x, mid, right, turn[pos - 1])
                THEN [lpos |-> turn[pos - 1].lpos + 1, rpos |-> turn[pos - 1].rpos]
                ELSE [lpos |-> turn[pos - 1].lpos, rpos |-> turn[pos - 1].rpos + 1]]
    <3> HIDE DEF size
    <3>1. QED
      BY <2>5
  <2> HIDE DEF turn
  <2>7. \A pos \in 1 .. size : turn[pos] = Advanced(x, mid, right, turn[pos - 1])
    <3>1. \A pos \in 1 .. size : pos # 0 /\ pos \in 0 .. size
      BY <1>a
    <3> HIDE DEF size
    <3>2. QED
      BY <2>6, <3>1 DEF Advanced
  <2>8. turn[0] = first
    BY <1>a, <2>6
  <2>9. turn \in [0 .. size -> Cursors]
    <3> DEFINE T == {pos \in Nat : pos <= size => turn[pos] \in Cursors}
    <3>1. 0 \in T
      BY <2>1, <2>8
    <3>2. ASSUME NEW pos \in T PROVE pos + 1 \in T
      <4>1. pos \in Nat /\ (pos <= size => turn[pos] \in Cursors)
        OBVIOUS
      <4> HIDE DEF size
      <4>2. SUFFICES ASSUME pos + 1 <= size PROVE turn[pos + 1] \in Cursors
        BY <4>1
      <4>3. pos + 1 \in 1 .. size /\ (pos + 1) - 1 = pos /\ pos <= size
        BY <1>a, <4>1, <4>2
      <4>4. turn[pos + 1] = Advanced(x, mid, right, turn[pos]) /\ turn[pos] \in Cursors
        BY <2>7, <4>1, <4>3
      <4>5. QED
        BY <4>4 DEF Advanced, Cursors
    <3>3. T \subseteq Nat
      OBVIOUS
    <3>4. Nat \subseteq T
      <4> HIDE DEF T
      <4>1. QED
        BY <3>1, <3>2, <3>3, SetInduction
    <3>5. \A pos \in 0 .. size : turn[pos] \in Cursors
      <4> HIDE DEF size
      <4>1. \A pos \in 0 .. size : pos \in Nat /\ pos <= size
        BY <1>a
      <4>2. QED
        BY <3>4, <4>1
    <3> HIDE DEF size
    <3>6. QED
      BY <2>6, <3>5
  <2>10. QED
    BY <2>7, <2>8, <2>9 DEF Turns
<1> HIDE DEF turn
<1> DEFINE Src(pos) == Taken(x, mid, right, turn[pos])
<1>2. /\ \A pos \in 0 .. right - left : Src(pos) \in left .. right
      /\ \A pos, later \in 0 .. right - left : pos < later => Src(pos) # Src(later) /\ x[Src(pos)] <= x[Src(later)]
  BY <1>1, <1>a, MergeTurns
<1> DEFINE p == [i \in 0 .. n - 1 |-> IF left <= i /\ i <= right THEN Src(i - left) ELSE i]
<1>3. \A i \in 0 .. n - 1 : y[i] = IF left <= i /\ i <= right THEN x[Src(i - left)] ELSE x[i]
  OBVIOUS
<1> HIDE DEF Src
<1>4. \A i \in 0 .. n - 1 : /\ p[i] = (IF left <= i /\ i <= right THEN Src(i - left) ELSE i)
                            /\ p[i] \in 0 .. n - 1
                            /\ left <= i /\ i <= right => p[i] \in left .. right /\ i - left \in 0 .. right - left
  BY <1>2
<1>5. p \in [0 .. n - 1 -> 0 .. n - 1]
  BY <1>4
<1>6. \A i \in 0 .. n - 1 : y[i] = x[p[i]]
  <2> HIDE DEF p, y
  <2>1. QED
    BY <1>3, <1>4
<1> HIDE DEF p
<1>7. p \in Shifts(n, left, right)
  <2>1. \A i, j \in 0 .. n - 1 : i < j => p[i] # p[j]
    <3> SUFFICES ASSUME NEW i \in 0 .. n - 1, NEW j \in 0 .. n - 1, i < j PROVE p[i] # p[j]
      OBVIOUS
    <3>1. CASE left <= i /\ i <= right /\ left <= j /\ j <= right
      <4>1. i - left \in 0 .. right - left /\ j - left \in 0 .. right - left /\ i - left < j - left
        BY <3>1
      <4>2. QED
        BY <1>2, <1>4, <3>1, <4>1
    <3>2. CASE ~(left <= i /\ i <= right) \/ ~(left <= j /\ j <= right)
      BY <1>4, <3>2
    <3>3. QED
      BY <3>1, <3>2
  <2>2. \A i, j \in 0 .. n - 1 : p[i] = p[j] => i = j
    BY <2>1
  <2>3. \A i \in 0 .. n - 1 : i < left \/ right < i => p[i] = i
    BY <1>4
  <2>4. QED
    BY <1>5, <2>2, <2>3 DEF Shifts
<1>8. y \in [0 .. n - 1 -> V]
  <2>1. \A i \in 0 .. n - 1 : x[p[i]] \in V
    BY <1>4
  <2>2. \A i \in 0 .. n - 1 : y[i] \in V
    <3> HIDE DEF y
    <3>1. QED
      BY <1>6, <2>1
  <2>3. \A i \in 0 .. n - 1 : (IF left <= i /\ i <= right THEN x[Taken(x, mid, right, turn[i - left])] ELSE x[i]) \in V
    BY <2>2
  <2>4. QED
    BY <2>3
<1>9. InRange(y, left, right)
  <2> SUFFICES ASSUME NEW i \in left .. right, NEW j \in left .. right, i < j PROVE y[i] <= y[j]
    BY DEF InRange
  <2>1. i - left \in 0 .. right - left /\ j - left \in 0 .. right - left /\ i - left < j - left /\ i \in 0 .. n - 1 /\ j \in 0 .. n - 1
    OBVIOUS
  <2> HIDE DEF y
  <2>2. y[i] = x[Src(i - left)] /\ y[j] = x[Src(j - left)]
    BY <1>3, <2>1
  <2>3. QED
    BY <1>2, <2>1, <2>2
<1>10. QED
  <2> HIDE DEF y
  <2>1. Rearranged(x, y, n, left, right)
    BY <1>6, <1>7 DEF Rearranged
  <2>2. QED
    BY <1>0, <1>8, <1>9, <2>1

\* The calls made for an array of n, and how many elements each is about.
SortCalls(n) == [a : [0 .. n - 1 -> Values], begin : 0 .. n, end : -1 .. n - 1]
Size(c) == IF c.begin <= c.end THEN c.end - c.begin + 1 ELSE 0

LEMMA CallsAre == ASSUME NEW n \in Nat, NEW a \in [0 .. n - 1 -> Values] PROVE Calls(a) = SortCalls(n)
  BY LengthIs DEF Calls, Contents, SortCalls

LEMMA CallFacts ==
    ASSUME NEW n \in Nat, NEW c \in SortCalls(n)
    PROVE  /\ c.a \in [0 .. n - 1 -> Values] /\ c.begin \in 0 .. n /\ c.end \in -1 .. n - 1
           /\ Size(c) \in 0 .. n
           /\ c.begin \in Nat /\ c.end \in Int
  BY DEF SortCalls, Size

LEMMA CallIs ==
    ASSUME NEW n \in Nat, NEW a \in [0 .. n - 1 -> Values], NEW begin \in 0 .. n, NEW end \in -1 .. n - 1
    PROVE  /\ Call(a, begin, end) \in SortCalls(n)
           /\ Call(a, begin, end).a = a /\ Call(a, begin, end).begin = begin /\ Call(a, begin, end).end = end
           /\ Size(Call(a, begin, end)) = IF begin <= end THEN end - begin + 1 ELSE 0
  BY DEF Call, SortCalls, Size

\* What a call for part of an array does to the array.
HasSorted(n, a, begin, end, r) ==
    r \in [0 .. n - 1 -> Values] /\ InRange(r, begin, end) /\ Rearranged(a, r, n, begin, end)

\* A range of one element or none is sorted.
LEMMA NothingToSort ==
    ASSUME NEW n \in Nat, NEW a \in [0 .. n - 1 -> Values], NEW begin \in Int, NEW end \in Int, begin >= end
    PROVE  HasSorted(n, a, begin, end, a)
<1>1. InRange(a, begin, end)
  BY DEF InRange
<1>2. Rearranged(a, a, n, begin, end)
  BY RearrangedSame
<1>3. QED
  BY <1>1, <1>2 DEF HasSorted

Mid(c) == (c.begin + c.end) \div 2
MergeBody(f, c) ==
    IF c.begin >= c.end THEN c.a
    ELSE Merge(f[Call(f[Call(c.a, c.begin, Mid(c))], Mid(c) + 1, c.end)], c.begin, Mid(c), c.end)

LEMMA MidFacts ==
    ASSUME NEW n \in Nat, NEW c \in SortCalls(n), c.begin < c.end
    PROVE  Mid(c) \in Nat /\ c.begin <= Mid(c) /\ Mid(c) < c.end
  BY CallFacts DEF Mid

\* Merging two sorted parts is sorting: what a call of the procedure does if the calls it makes do it.
LEMMA MergeCall ==
    ASSUME NEW n \in Nat, NEW f, NEW c \in SortCalls(n),
           \A d \in SortCalls(n) : Size(d) < Size(c) => HasSorted(n, d.a, d.begin, d.end, f[d])
    PROVE  HasSorted(n, c.a, c.begin, c.end, MergeBody(f, c))
<1> DEFINE x == c.a
           begin == c.begin
           end == c.end
           mid == Mid(c)
<1>1. x \in [0 .. n - 1 -> Values] /\ begin \in Nat /\ begin <= n /\ end \in Int /\ end <= n - 1
  BY CallFacts
<1>2. CASE begin >= end
  <2>1. MergeBody(f, c) = x
    BY <1>2 DEF MergeBody
  <2>2. QED
    BY <1>1, <1>2, <2>1, NothingToSort
<1>3. CASE begin < end
  <2>1. mid \in Nat /\ begin <= mid /\ mid < end
    BY <1>3, MidFacts
  <2>a. Size(c) = end - begin + 1
    BY <1>1, <1>3 DEF Size
  <2>b. MergeBody(f, c) = Merge(f[Call(f[Call(x, begin, mid)], mid + 1, end)], begin, mid, end)
    BY <1>1, <1>3 DEF MergeBody
  <2>z. \A d \in SortCalls(n) : Size(d) < Size(c) => HasSorted(n, d.a, d.begin, d.end, f[d])
    OBVIOUS
  <2> HIDE DEF x, begin, end, mid
  <2>c. begin \in 0 .. n /\ mid \in -1 .. n - 1 /\ mid + 1 \in 0 .. n /\ end \in -1 .. n - 1
    BY <1>1, <2>1
  <2> DEFINE low == f[Call(x, begin, mid)]
             high == f[Call(low, mid + 1, end)]
  <2>2. HasSorted(n, x, begin, mid, low)
    <3>1. /\ Call(x, begin, mid) \in SortCalls(n)
          /\ Call(x, begin, mid).a = x /\ Call(x, begin, mid).begin = begin /\ Call(x, begin, mid).end = mid
          /\ Size(Call(x, begin, mid)) = mid - begin + 1
      BY <1>1, <2>1, <2>c, CallIs
    <3>2. mid - begin + 1 < end - begin + 1
      BY <1>1, <2>1
    <3>3. QED
      BY <2>a, <2>z, <3>1, <3>2
  <2>3. low \in [0 .. n - 1 -> Values] /\ InRange(low, begin, mid) /\ Rearranged(x, low, n, begin, mid)
    BY <2>2 DEF HasSorted
  <2> HIDE DEF low
  <2>4. HasSorted(n, low, mid + 1, end, high)
    <3>1. /\ Call(low, mid + 1, end) \in SortCalls(n)
          /\ Call(low, mid + 1, end).a = low /\ Call(low, mid + 1, end).begin = mid + 1 /\ Call(low, mid + 1, end).end = end
          /\ Size(Call(low, mid + 1, end)) = end - (mid + 1) + 1
      <4>1. mid + 1 <= end
        BY <1>1, <2>1
      <4>2. QED
        BY <2>3, <2>c, <4>1, CallIs
    <3>2. end - (mid + 1) + 1 < end - begin + 1
      BY <1>1, <2>1
    <3>3. QED
      BY <2>a, <2>z, <3>1, <3>2
  <2>5. high \in [0 .. n - 1 -> Values] /\ InRange(high, mid + 1, end) /\ Rearranged(low, high, n, mid + 1, end)
    BY <2>4 DEF HasSorted
  <2> HIDE DEF high
  <2>6. InRange(high, begin, mid)
    <3> SUFFICES ASSUME NEW i \in begin .. mid, NEW j \in begin .. mid, i < j PROVE high[i] <= high[j]
      BY DEF InRange
    <3>1. mid + 1 \in Int /\ end \in Int
      BY <1>1, <2>1
    <3>2. \A k \in 0 .. n - 1 : k < mid + 1 \/ end < k => high[k] = low[k]
      BY <2>5, <3>1, RearrangedFacts
    <3>3. i \in 0 .. n - 1 /\ j \in 0 .. n - 1 /\ i < mid + 1 /\ j < mid + 1
      BY <1>1, <2>1
    <3>4. high[i] = low[i] /\ high[j] = low[j]
      BY <3>2, <3>3
    <3>5. low[i] <= low[j]
      BY <2>3 DEF InRange
    <3>6. QED
      BY <3>4, <3>5
  <2>7. /\ Merge(high, begin, mid, end) \in [0 .. n - 1 -> Values]
        /\ InRange(Merge(high, begin, mid, end), begin, end)
        /\ Rearranged(high, Merge(high, begin, mid, end), n, begin, end)
    <3>1. Values \in SUBSET Nat /\ end \in Nat
      BY <1>1, <2>1, ValuesAssumption
    <3>2. QED
      BY <1>1, <2>1, <2>5, <2>6, <3>1, Merging
  <2>8. Rearranged(x, low, n, begin, end) /\ Rearranged(low, high, n, begin, end)
    <3>1. begin \in Int /\ mid \in Int /\ mid + 1 \in Int /\ end \in Int /\ begin <= mid + 1 /\ mid <= end /\ begin <= begin /\ end <= end
      BY <1>1, <2>1
    <3>2. Rearranged(x, low, n, begin, end)
      BY <2>3, <3>1, RearrangedWider
    <3>3. Rearranged(low, high, n, begin, end)
      BY <2>5, <3>1, RearrangedWider
    <3>4. QED
      BY <3>2, <3>3
  <2>9. Rearranged(x, Merge(high, begin, mid, end), n, begin, end)
    <3>1. begin \in Int /\ end \in Int
      BY <1>1
    <3>2. Rearranged(x, high, n, begin, end)
      BY <2>8, <3>1, RearrangedTwice
    <3>3. QED
      BY <2>7, <3>1, <3>2, RearrangedTwice
  <2>10. HasSorted(n, x, begin, end, Merge(high, begin, mid, end))
    BY <2>7, <2>9 DEF HasSorted
  <2>11. QED
    BY <2>b, <2>10 DEF x, begin, end, mid, high, low
<1>4. QED
  BY <1>1, <1>2, <1>3

\* Every call is smaller than the one it is made by.
LEMMA MergeSmaller ==
    ASSUME NEW n \in Nat, NEW c \in SortCalls(n), c.begin < c.end
    PROVE  /\ Call(c.a, c.begin, Mid(c)) \in SortCalls(n) /\ Size(Call(c.a, c.begin, Mid(c))) < Size(c)
           /\ \A x \in [0 .. n - 1 -> Values] :
                 /\ Call(x, Mid(c) + 1, c.end) \in SortCalls(n)
                 /\ Size(Call(x, Mid(c) + 1, c.end)) < Size(c)
<1> DEFINE begin == c.begin
           end == c.end
           mid == Mid(c)
<1>1. /\ c.a \in [0 .. n - 1 -> Values] /\ begin \in Nat /\ begin <= n /\ end \in Int /\ end <= n - 1
      /\ mid \in Nat /\ begin <= mid /\ mid < end /\ Size(c) = end - begin + 1
  BY CallFacts, MidFacts DEF Size
<1> HIDE DEF begin, end, mid
<1>2. /\ begin \in 0 .. n /\ mid \in -1 .. n - 1 /\ mid + 1 \in 0 .. n /\ end \in -1 .. n - 1 /\ mid + 1 <= end
      /\ mid - begin + 1 < end - begin + 1 /\ end - (mid + 1) + 1 < end - begin + 1
  BY <1>1
<1>3. \A x \in [0 .. n - 1 -> Values] :
         Call(x, begin, mid) \in SortCalls(n) /\ Size(Call(x, begin, mid)) = mid - begin + 1
  BY <1>1, <1>2, CallIs
<1>4. \A x \in [0 .. n - 1 -> Values] :
         Call(x, mid + 1, end) \in SortCalls(n) /\ Size(Call(x, mid + 1, end)) = end - (mid + 1) + 1
  <2> DEFINE from == mid + 1
  <2>1. from \in 0 .. n /\ from <= end
    BY <1>2
  <2> HIDE DEF from
  <2>2. \A x \in [0 .. n - 1 -> Values] : Call(x, from, end) \in SortCalls(n) /\ Size(Call(x, from, end)) = end - from + 1
    BY <1>2, <2>1, CallIs
  <2>3. QED
    BY <2>2 DEF from
<1>5. QED
  BY <1>1, <1>2, <1>3, <1>4 DEF begin, end, mid

\* So the results depend on those of smaller calls.
LEMMA MergeLocal ==
    ASSUME NEW n \in Nat, NEW f \in [SortCalls(n) -> [0 .. n - 1 -> Values]],
           NEW g \in [SortCalls(n) -> [0 .. n - 1 -> Values]], NEW c \in SortCalls(n),
           \A d \in SortCalls(n) : Size(d) < Size(c) => f[d] = g[d]
    PROVE  MergeBody(f, c) = MergeBody(g, c)
<1>1. c.a \in [0 .. n - 1 -> Values] /\ c.begin \in Nat /\ c.begin <= n /\ c.end \in Int /\ c.end <= n - 1
  BY CallFacts
<1>2. CASE c.begin >= c.end
  BY <1>2 DEF MergeBody
<1>3. CASE c.begin < c.end
  <2> DEFINE low == Call(c.a, c.begin, Mid(c))
             high(x) == Call(x, Mid(c) + 1, c.end)
  <2>1. low \in SortCalls(n) /\ Size(low) < Size(c)
    BY <1>3, MergeSmaller
  <2>2. \A x \in [0 .. n - 1 -> Values] : high(x) \in SortCalls(n) /\ Size(high(x)) < Size(c)
    BY <1>3, MergeSmaller
  <2>5. f[low] = g[low] /\ f[low] \in [0 .. n - 1 -> Values]
    <3> HIDE DEF low, high
    <3>1. QED
      BY <2>1
  <2>7. MergeBody(f, c) = Merge(f[high(f[low])], c.begin, Mid(c), c.end)
    BY <1>1, <1>3 DEF MergeBody
  <2>8. MergeBody(g, c) = Merge(g[high(g[low])], c.begin, Mid(c), c.end)
    BY <1>1, <1>3 DEF MergeBody
  <2> HIDE DEF low, high
  <2>9. f[high(f[low])] = g[high(f[low])]
    BY <2>2, <2>5
  <2>10. QED
    BY <2>5, <2>7, <2>8, <2>9
<1>4. QED
  BY <1>1, <1>2, <1>3

SizesOf(n) == [c \in SortCalls(n) |-> Size(c)]

LEMMA SizesAre ==
    ASSUME NEW n \in Nat
    PROVE  SizesOf(n) \in Measures(SortCalls(n), n) /\ \A c \in SortCalls(n) : SizesOf(n)[c] = Size(c)
<1>1. \A c \in SortCalls(n) : Size(c) \in 0 .. n
  BY CallFacts
<1>2. QED
  BY <1>1 DEF SizesOf, Measures

\* By induction on the number of elements, all calls sort.
LEMMA MergeCalls ==
    ASSUME NEW n \in Nat, NEW f,
           \A c \in SortCalls(n) : MergeBody(f, c) \in [0 .. n - 1 -> Values] => f[c] = MergeBody(f, c)
    PROVE  \A c \in SortCalls(n) : f[c] = MergeBody(f, c) /\ HasSorted(n, c.a, c.begin, c.end, f[c])
<1> DEFINE S == SortCalls(n)
           P == {c \in S : HasSorted(n, c.a, c.begin, c.end, f[c])}
           size == SizesOf(n)
<1>1. size \in Measures(S, n) /\ \A c \in S : size[c] = Size(c)
  BY SizesAre
<1>2. ASSUME NEW c \in S, \A d \in S : Size(d) < Size(c) => HasSorted(n, d.a, d.begin, d.end, f[d])
      PROVE  f[c] = MergeBody(f, c) /\ HasSorted(n, c.a, c.begin, c.end, f[c])
  <2>1. HasSorted(n, c.a, c.begin, c.end, MergeBody(f, c))
    BY <1>2, MergeCall
  <2>2. MergeBody(f, c) \in [0 .. n - 1 -> Values]
    BY <2>1 DEF HasSorted
  <2>3. QED
    BY <2>1, <2>2
<1>3. \A c \in S : (\A d \in S : size[d] < size[c] => d \in P) => c \in P
  <2> SUFFICES ASSUME NEW c \in S, \A d \in S : size[d] < size[c] => d \in P PROVE c \in P
    OBVIOUS
  <2>1. \A d \in S : Size(d) < Size(c) => HasSorted(n, d.a, d.begin, d.end, f[d])
    <3> HIDE DEF S, size
    <3>1. QED
      BY <1>1
  <2>2. HasSorted(n, c.a, c.begin, c.end, f[c])
    BY <1>2, <2>1
  <2>3. QED
    BY <2>2
<1>4. S = P
  <2>1. P \in SUBSET S
    OBVIOUS
  <2> HIDE DEF S, P, size
  <2>2. QED
    BY <1>1, <1>3, <2>1, SizeInduction
<1>5. \A c \in S : HasSorted(n, c.a, c.begin, c.end, f[c])
  BY <1>4
<1>6. QED
  <2> HIDE DEF P, size
  <2>1. QED
    BY <1>2, <1>5

LEMMA MergeSorts ==
    ASSUME NEW n \in Nat, NEW a \in [0 .. n - 1 -> Values]
    PROVE  HasSorted(n, a, 0, n - 1, MergeSort(a))
<1> DEFINE S == SortCalls(n)
           A == [0 .. n - 1 -> Values]
           size == SizesOf(n)
           F == [x \in [S -> A] \X S |-> IF MergeBody(x[1], x[2]) \in A THEN MergeBody(x[1], x[2]) ELSE x[2].a]
           sort == CHOOSE g : g = [c \in S |->
                      IF c.begin >= c.end THEN c.a
                      ELSE Merge(g[Call(g[Call(c.a, c.begin, (c.begin + c.end) \div 2)],
                                        (c.begin + c.end) \div 2 + 1, c.end)],
                                 c.begin, (c.begin + c.end) \div 2, c.end)]
<1>1. MergeSort(a) = sort[Call(a, 0, n - 1)]
  BY CallsAre, LengthIs DEF MergeSort
<1>2. size \in Measures(S, n) /\ \A c \in S : size[c] = Size(c)
  BY SizesAre
<1>3. F \in [[S -> A] \X S -> A]
  <2>1. \A c \in S : c.a \in A
    BY CallFacts
  <2> HIDE DEF S, A
  <2>2. QED
    BY <2>1
<1>4. \A f \in [S -> A] : \A c \in S : F[<<f, c>>] = IF MergeBody(f, c) \in A THEN MergeBody(f, c) ELSE c.a
  <2> HIDE DEF S, A
  <2>1. QED
    OBVIOUS
<1> HIDE DEF F
<1>5. \A f, g \in [S -> A] : \A c \in S :
         (\A d \in S : size[d] < size[c] => f[d] = g[d]) => F[<<f, c>>] = F[<<g, c>>]
  <2> SUFFICES ASSUME NEW f \in [S -> A], NEW g \in [S -> A], NEW c \in S, \A d \in S : size[d] < size[c] => f[d] = g[d]
      PROVE  F[<<f, c>>] = F[<<g, c>>]
    OBVIOUS
  <2>1. \A d \in S : Size(d) < Size(c) => f[d] = g[d]
    <3> HIDE DEF S, size
    <3>1. QED
      BY <1>2
  <2>2. MergeBody(f, c) = MergeBody(g, c)
    BY <2>1, MergeLocal
  <2> HIDE DEF S, A
  <2>3. QED
    BY <1>4, <2>2
<1>6. PICK f \in [S -> A] : \A c \in S : f[c] = F[<<f, c>>]
  <2>1. A # {}
    OBVIOUS
  <2> HIDE DEF S, A, size, sort
  <2>2. DependsOnSmaller(S, A, size, F)
    BY <1>3, <1>5 DEF DependsOnSmaller
  <2>3. HasSolution(S, A, F)
    BY <1>2, <2>1, <2>2, Recursion
  <2>4. QED
    BY <2>3 DEF HasSolution
<1>7. \A c \in S : f[c] = MergeBody(f, c)
  <2>1. \A c \in S : MergeBody(f, c) \in A => f[c] = MergeBody(f, c)
    <3> HIDE DEF S, A
    <3>1. QED
      BY <1>4, <1>6
  <2>2. QED
    BY <2>1, MergeCalls
<1>8. f = [c \in S |->
         IF c.begin >= c.end THEN c.a
         ELSE Merge(f[Call(f[Call(c.a, c.begin, (c.begin + c.end) \div 2)],
                           (c.begin + c.end) \div 2 + 1, c.end)],
                    c.begin, (c.begin + c.end) \div 2, c.end)]
  <2> HIDE DEF S, A
  <2>1. f = [c \in S |-> MergeBody(f, c)]
    BY <1>7
  <2>2. QED
    BY <2>1 DEF MergeBody, Mid
<1>9. sort = [c \in S |->
         IF c.begin >= c.end THEN c.a
         ELSE Merge(sort[Call(sort[Call(c.a, c.begin, (c.begin + c.end) \div 2)],
                              (c.begin + c.end) \div 2 + 1, c.end)],
                    c.begin, (c.begin + c.end) \div 2, c.end)]
  <2> HIDE DEF S
  <2>1. QED
    BY <1>8
<1> HIDE DEF sort
<1>10. \A c \in S : sort[c] = MergeBody(sort, c)
  <2> HIDE DEF S
  <2>1. QED
    BY <1>9 DEF MergeBody, Mid
<1>11. \A c \in S : HasSorted(n, c.a, c.begin, c.end, sort[c])
  BY <1>10, MergeCalls
<1>12. /\ Call(a, 0, n - 1) \in S
       /\ Call(a, 0, n - 1).a = a /\ Call(a, 0, n - 1).begin = 0 /\ Call(a, 0, n - 1).end = n - 1
  <2>1. 0 \in 0 .. n /\ n - 1 \in -1 .. n - 1
    OBVIOUS
  <2>2. QED
    BY <2>1, CallIs
<1>13. QED
  <2> HIDE DEF S
  <2>1. QED
    BY <1>1, <1>11, <1>12

-----------------------------------------------------------------------------
(* Quick sort and selection *)

\* What holds whenever the exchange starts a turn: what i has passed is not above the pivot, which
\* stays in front, and what j has passed is.
Exchanging(n, x, begin, end) ==
    {t \in [a : [0 .. n - 1 -> Values], i : begin + 1 .. end + 1, j : begin .. end] :
        /\ Rearranged(x, t.a, n, begin + 1, end)
        /\ \A k \in begin + 1 .. t.i - 1 : t.a[k] <= x[begin]
        /\ \A k \in t.j + 1 .. end : t.a[k] > x[begin]}

\* Where i and j stop.
Up(t, end, pivot) ==
    CHOOSE x \in t.i .. end + 1 : (x > end \/ t.a[x] > pivot) /\ \A y \in t.i .. x - 1 : t.a[y] <= pivot
Down(t, begin, pivot) ==
    CHOOSE x \in begin - 1 .. t.j : (x < begin \/ t.a[x] <= pivot) /\ \A y \in x + 1 .. t.j : t.a[y] > pivot

LEMMA ExchangingFacts ==
    ASSUME NEW n \in Nat, NEW x \in [0 .. n - 1 -> Values], NEW begin \in Nat, NEW end \in Nat, begin < end,
           end <= n - 1, NEW t \in Exchanging(n, x, begin, end)
    PROVE  /\ t.a \in [0 .. n - 1 -> Values] /\ t.i \in begin + 1 .. end + 1 /\ t.j \in begin .. end
           /\ Rearranged(x, t.a, n, begin + 1, end)
           /\ \A k \in begin + 1 .. t.i - 1 : t.a[k] <= x[begin]
           /\ \A k \in t.j + 1 .. end : t.a[k] > x[begin]
           /\ t.a[begin] = x[begin] /\ x[begin] \in Nat
           /\ \A k \in 0 .. n - 1 : t.a[k] \in Nat
<1>1. /\ t.a \in [0 .. n - 1 -> Values] /\ t.i \in begin + 1 .. end + 1 /\ t.j \in begin .. end
      /\ Rearranged(x, t.a, n, begin + 1, end)
      /\ \A k \in begin + 1 .. t.i - 1 : t.a[k] <= x[begin]
      /\ \A k \in t.j + 1 .. end : t.a[k] > x[begin]
  BY DEF Exchanging
<1>2. t.a[begin] = x[begin]
  <2>1. begin + 1 \in Int /\ end \in Int /\ begin \in 0 .. n - 1 /\ begin < begin + 1
    OBVIOUS
  <2>2. QED
    BY <1>1, <2>1, RearrangedFacts
<1>3. x[begin] \in Nat /\ \A k \in 0 .. n - 1 : t.a[k] \in Nat
  <2>1. begin \in 0 .. n - 1
    OBVIOUS
  <2>2. QED
    BY <1>1, <2>1, ValuesAssumption
<1>4. QED
  BY <1>1, <1>2, <1>3

LEMMA UpFacts ==
    ASSUME NEW n \in Nat, NEW x \in [0 .. n - 1 -> Values], NEW begin \in Nat, NEW end \in Nat, begin < end,
           end <= n - 1, NEW t \in Exchanging(n, x, begin, end), NEW up, up = Up(t, end, x[begin])
    PROVE  /\ up \in t.i .. end + 1
           /\ up > end \/ t.a[up] > x[begin]
           /\ \A y \in t.i .. up - 1 : t.a[y] <= x[begin]
<1> DEFINE pivot == x[begin]
           Stop == {y \in t.i .. end + 1 : y > end \/ t.a[y] > pivot}
           i == t.i
<1>1. i \in begin + 1 .. end + 1 /\ pivot \in Nat /\ \A k \in 0 .. n - 1 : t.a[k] \in Nat
  BY ExchangingFacts
<1>2. end + 1 \in Stop /\ Stop \in SUBSET Nat
  BY <1>1
<1>3. PICK y \in Stop : \A z \in Stop : y <= z
  <2> HIDE DEF Stop
  <2>1. QED
    BY <1>2, LeastNumber
<1>4. y \in t.i .. end + 1 /\ (y > end \/ t.a[y] > pivot)
  OBVIOUS
<1>5. ASSUME NEW z \in t.i .. y - 1 PROVE t.a[z] <= pivot
  <2>1. z \in t.i .. end + 1 /\ z \in 0 .. n - 1 /\ z <= end /\ ~(y <= z)
    BY <1>1, <1>4
  <2>2. z \notin Stop
    <3> HIDE DEF Stop
    <3>1. QED
      BY <1>3, <2>1
  <2>3. ~(t.a[z] > pivot)
    BY <2>1, <2>2
  <2>4. QED
    BY <1>1, <2>1, <2>3
<1>6. \E z \in t.i .. end + 1 : (z > end \/ t.a[z] > pivot) /\ \A w \in t.i .. z - 1 : t.a[w] <= pivot
  BY <1>4, <1>5
<1>7. QED
  <2> HIDE DEF pivot, Stop, i
  <2>1. up = CHOOSE z \in t.i .. end + 1 : (z > end \/ t.a[z] > pivot) /\ \A w \in t.i .. z - 1 : t.a[w] <= pivot
    BY DEF Up, pivot
  <2>2. /\ up \in t.i .. end + 1
        /\ up > end \/ t.a[up] > pivot
        /\ \A w \in t.i .. up - 1 : t.a[w] <= pivot
    BY <1>6, <2>1
  <2>3. QED
    BY <2>2 DEF pivot

LEMMA DownFacts ==
    ASSUME NEW n \in Nat, NEW x \in [0 .. n - 1 -> Values], NEW begin \in Nat, NEW end \in Nat, begin < end,
           end <= n - 1, NEW t \in Exchanging(n, x, begin, end), NEW down, down = Down(t, begin, x[begin])
    PROVE  /\ down \in begin .. t.j
           /\ t.a[down] <= x[begin]
           /\ \A y \in down + 1 .. t.j : t.a[y] > x[begin]
<1> DEFINE pivot == x[begin]
           Stop == {y \in begin - 1 .. t.j : y < begin \/ t.a[y] <= pivot}
           j == t.j
<1>1. j \in begin .. end /\ pivot \in Nat /\ t.a[begin] = pivot /\ \A k \in 0 .. n - 1 : t.a[k] \in Nat
  BY ExchangingFacts
<1>2. begin \in Stop /\ Stop \in SUBSET Int /\ j \in Int /\ \A y \in Stop : y <= j
  BY <1>1
<1>3. PICK y \in Stop : \A z \in Stop : z <= y
  <2> HIDE DEF Stop, j
  <2>1. QED
    BY <1>2, GreatestNumber
<1>4. y \in begin - 1 .. t.j /\ (y < begin \/ t.a[y] <= pivot)
  OBVIOUS
<1>5. ASSUME NEW z \in y + 1 .. t.j PROVE t.a[z] > pivot
  <2>1. z \in begin - 1 .. t.j /\ ~(z <= y)
    BY <1>1, <1>4
  <2>2. z \notin Stop
    <3> HIDE DEF Stop
    <3>1. QED
      BY <1>3, <2>1
  <2>3. ~(z < begin) /\ ~(t.a[z] <= pivot)
    BY <2>1, <2>2
  <2>4. z \in 0 .. n - 1
    BY <1>1, <2>1, <2>3
  <2>5. QED
    BY <1>1, <2>3, <2>4
<1>6. \E z \in begin - 1 .. t.j : (z < begin \/ t.a[z] <= pivot) /\ \A w \in z + 1 .. t.j : t.a[w] > pivot
  BY <1>4, <1>5
<1>7. QED
  <2>1. down = CHOOSE z \in begin - 1 .. t.j : (z < begin \/ t.a[z] <= pivot) /\ \A w \in z + 1 .. t.j : t.a[w] > pivot
    BY DEF Down
  <2>2. /\ down \in begin - 1 .. t.j
        /\ down < begin \/ t.a[down] <= pivot
        /\ \A w \in down + 1 .. t.j : t.a[w] > pivot
    <3> HIDE DEF pivot, Stop, j
    <3>1. QED
      BY <1>6, <2>1
  <2>3. ~(down < begin)
    <3>1. SUFFICES ASSUME down < begin PROVE FALSE
      OBVIOUS
    <3>2. begin \in down + 1 .. t.j
      BY <1>1, <2>2, <3>1
    <3>3. t.a[begin] > pivot
      BY <2>2, <3>2
    <3>4. QED
      BY <1>1, <3>3
  <2>4. QED
    BY <2>2, <2>3

\* After a turn with an exchange the next one moves both i and j.
WillMove(x, begin, t) == t.a[t.i] <= x[begin] /\ t.a[t.j] > x[begin]

\* A turn of the loop: what has been passed stays on its side, and unless the turn is the first
\* both i and j move.
LEMMA ExchangeTurn ==
    ASSUME NEW n \in Nat, NEW x \in [0 .. n - 1 -> Values], NEW begin \in Nat, NEW end \in Nat, begin < end,
           end <= n - 1, NEW t \in Exchanging(n, x, begin, end), t.i <= t.j,
           NEW u, u = ExchangeOnce(t, begin, end)
    PROVE  /\ u \in Exchanging(n, x, begin, end)
           /\ u.i <= u.j => WillMove(x, begin, u)
           /\ t.i <= u.i /\ u.j <= t.j
           /\ WillMove(x, begin, t) => t.i + 1 <= u.i /\ u.j <= t.j - 1
<1> DEFINE pivot == x[begin]
           up == Up(t, end, pivot)
           down == Down(t, begin, pivot)
           a == IF up < down THEN Swapped(t.a, up, down) ELSE t.a
           i == t.i
           j == t.j
           b == t.a
<1>1. /\ b \in [0 .. n - 1 -> Values] /\ i \in begin + 1 .. end + 1 /\ j \in begin .. end
      /\ Rearranged(x, b, n, begin + 1, end)
      /\ \A k \in begin + 1 .. i - 1 : b[k] <= pivot
      /\ \A k \in j + 1 .. end : b[k] > pivot
      /\ b[begin] = pivot /\ pivot \in Nat
      /\ \A k \in 0 .. n - 1 : b[k] \in Nat
  BY ExchangingFacts
<1>2. /\ up \in i .. end + 1
      /\ up > end \/ b[up] > pivot
      /\ \A y \in i .. up - 1 : b[y] <= pivot
  <2>1. up = Up(t, end, x[begin])
    OBVIOUS
  <2> HIDE DEF up
  <2>2. QED
    BY <2>1, UpFacts
<1>3. /\ down \in begin .. j
      /\ b[down] <= pivot
      /\ \A y \in down + 1 .. j : b[y] > pivot
  <2>1. down = Down(t, begin, x[begin])
    OBVIOUS
  <2> HIDE DEF down
  <2>2. QED
    BY <2>1, DownFacts
<1>4. u = [a |-> a, i |-> up, j |-> down]
  <2>1. b[begin] = pivot
    BY <1>1
  <2>2. QED
    BY <2>1 DEF ExchangeOnce, Up, Down
<1>a. i <= j
  OBVIOUS
<1>b. WillMove(x, begin, t) <=> b[i] <= pivot /\ b[j] > pivot
  BY DEF WillMove
<1> HIDE DEF up, down, i, j, b, pivot
<1>5. \A k \in begin + 1 .. up - 1 : b[k] <= pivot
  <2>1. \A k \in begin + 1 .. up - 1 : k \in begin + 1 .. i - 1 \/ k \in i .. up - 1
    BY <1>1, <1>2
  <2>2. QED
    BY <1>1, <1>2, <2>1
<1>6. \A k \in down + 1 .. end : b[k] > pivot
  <2>1. \A k \in down + 1 .. end : k \in down + 1 .. j \/ k \in j + 1 .. end
    BY <1>1, <1>3
  <2>2. QED
    BY <1>1, <1>3, <2>1
<1>7. b[i] <= pivot /\ b[j] > pivot => i + 1 <= up /\ down <= j - 1
  <2> SUFFICES ASSUME b[i] <= pivot, b[j] > pivot PROVE i + 1 <= up /\ down <= j - 1
    OBVIOUS
  <2>1. up # i
    <3>1. SUFFICES ASSUME up = i PROVE FALSE
      OBVIOUS
    <3>2. i \in 0 .. n - 1 /\ i <= end
      BY <1>1, <1>a
    <3>3. b[i] > pivot
      BY <1>1, <1>2, <3>1, <3>2
    <3>4. b[i] \in Nat
      BY <1>1, <3>2
    <3>5. QED
      BY <1>1, <3>3, <3>4
  <2>2. down # j
    <3>1. SUFFICES ASSUME down = j PROVE FALSE
      OBVIOUS
    <3>2. j \in 0 .. n - 1
      BY <1>1
    <3>3. b[j] \in Nat /\ b[j] <= pivot
      BY <1>1, <1>3, <3>1, <3>2
    <3>4. QED
      BY <1>1, <3>3
  <2>3. QED
    BY <1>1, <1>2, <1>3, <2>1, <2>2
<1>8. i <= up /\ down <= j
  BY <1>1, <1>2, <1>3
<1>9. CASE up < down
  <2>0. up \in 0 .. n - 1 /\ down \in 0 .. n - 1 /\ up \in begin + 1 .. end /\ down \in begin + 1 .. end /\ up # down
    BY <1>1, <1>2, <1>3, <1>9
  <2>1. b[up] > pivot
    BY <1>2, <2>0
  <2>2. a \in [0 .. n - 1 -> Values] /\ \A k \in 0 .. n - 1 : a[k] = IF k = up THEN b[down] ELSE IF k = down THEN b[up] ELSE b[k]
    <3>1. a = Swapped(b, up, down)
      BY <1>9 DEF b
    <3> HIDE DEF a
    <3>2. b \in [0 .. n - 1 -> Values]
      BY <1>1
    <3>3. Swapped(b, up, down) = [k \in 0 .. n - 1 |-> IF k = up THEN b[down] ELSE IF k = down THEN b[up] ELSE b[k]]
      BY <2>0, <3>2 DEF Swapped
    <3>4. \A k \in 0 .. n - 1 : b[k] \in Values
      BY <3>2
    <3>5. QED
      BY <2>0, <3>1, <3>3, <3>4
  <2>3. Rearranged(x, a, n, begin + 1, end)
    <3>1. a = Swapped(b, up, down)
      BY <1>9 DEF b
    <3> HIDE DEF a
    <3>2. begin + 1 \in Int /\ end \in Int
      OBVIOUS
    <3>3. Rearranged(b, a, n, begin + 1, end)
      BY <1>1, <2>0, <3>1, <3>2, RearrangedSwapped
    <3>4. QED
      BY <1>1, <3>2, <3>3, RearrangedTwice
  <2> HIDE DEF a
  <2>4. \A k \in begin + 1 .. up - 1 : a[k] <= pivot
    <3> SUFFICES ASSUME NEW k \in begin + 1 .. up - 1 PROVE a[k] <= pivot
      OBVIOUS
    <3>1. k \in 0 .. n - 1 /\ k # up /\ k # down
      BY <1>9, <2>0
    <3>2. QED
      BY <1>5, <2>2, <3>1
  <2>5. \A k \in down + 1 .. end : a[k] > pivot
    <3> SUFFICES ASSUME NEW k \in down + 1 .. end PROVE a[k] > pivot
      OBVIOUS
    <3>1. k \in 0 .. n - 1 /\ k # up /\ k # down
      BY <1>9, <2>0
    <3>2. QED
      BY <1>6, <2>2, <3>1
  <2>6. a[up] <= pivot /\ a[down] > pivot
    BY <1>3, <2>0, <2>1, <2>2
  <2>7. u \in Exchanging(n, x, begin, end)
    <3>1. up \in begin + 1 .. end + 1 /\ down \in begin .. end
      BY <2>0
    <3>2. QED
      BY <1>4, <2>2, <2>3, <2>4, <2>5, <3>1 DEF Exchanging, pivot
  <2>8. u.i = up /\ u.j = down /\ u.a = a
    BY <1>4
  <2>9. WillMove(x, begin, u)
    BY <2>6, <2>8 DEF WillMove, pivot
  <2>10. QED
    BY <1>7, <1>8, <1>b, <2>7, <2>8, <2>9 DEF i, j
<1>10. CASE ~(up < down)
  <2>1. a = b
    BY <1>10 DEF b
  <2> HIDE DEF a
  <2>2. down < up
    <3>1. SUFFICES ASSUME up = down PROVE FALSE
      BY <1>1, <1>2, <1>3, <1>10
    <3>2. up \in 0 .. n - 1 /\ up <= end
      BY <1>1, <1>3, <3>1
    <3>3. b[up] > pivot /\ b[up] <= pivot /\ b[up] \in Nat
      BY <1>1, <1>2, <1>3, <3>1, <3>2
    <3>4. QED
      BY <1>1, <3>3
  <2>3. up \in begin + 1 .. end + 1 /\ down \in begin .. end
    BY <1>1, <1>2, <1>3
  <2>4. u \in Exchanging(n, x, begin, end)
    <3>1. /\ a \in [0 .. n - 1 -> Values] /\ Rearranged(x, a, n, begin + 1, end)
          /\ \A k \in begin + 1 .. up - 1 : a[k] <= pivot
          /\ \A k \in down + 1 .. end : a[k] > pivot
      BY <1>1, <1>5, <1>6, <2>1
    <3>2. QED
      BY <1>4, <2>3, <3>1 DEF Exchanging, pivot
  <2>5. u.i = up /\ u.j = down
    BY <1>4
  <2>6. ~(u.i <= u.j)
    BY <2>2, <2>3, <2>5
  <2>7. QED
    BY <1>7, <1>8, <1>b, <2>4, <2>5, <2>6 DEF i, j
<1>11. QED
  BY <1>9, <1>10

\* Two cursors that both move are closer to each other by two.
LEMMA Narrower ==
    ASSUME NEW i \in Int, NEW j \in Int, NEW up \in Int, NEW down \in Int, NEW size \in Int, NEW m \in Int,
           i + 1 <= up, down <= j - 1, j - i + 1 <= size - m
    PROVE  down - up + 1 <= size - (m + 1)
  OBVIOUS

\* The turns of the loop run out before i and j can still meet.
LEMMA ExchangeEnds ==
    ASSUME NEW n \in Nat, NEW x \in [0 .. n - 1 -> Values], NEW begin \in Nat, NEW end \in Nat, begin < end,
           end <= n - 1
    PROVE  Exchange(x, begin, end) \in Exchanging(n, x, begin, end) /\ Exchange(x, begin, end).i > Exchange(x, begin, end).j
<1> DEFINE S == Exchanging(n, x, begin, end)
           size == end - begin + 1
           first == [a |-> x, i |-> begin + 1, j |-> end]
           F == [t \in S |-> IF t.i > t.j THEN t ELSE ExchangeOnce(t, begin, end)]
           turn == CHOOSE g : g = [m \in 0 .. size |->
                      IF m = 0 THEN [a |-> x, i |-> begin + 1, j |-> end]
                      ELSE IF g[m - 1].i > g[m - 1].j THEN g[m - 1] ELSE ExchangeOnce(g[m - 1], begin, end)]
<1>0. Exchange(x, begin, end) = turn[size]
  BY DEF Exchange
<1>1. size \in Nat
  OBVIOUS
<1>2. first \in S
  <2>1. begin + 1 \in Int /\ end \in Int /\ begin + 1 \in begin + 1 .. end + 1 /\ end \in begin .. end
    OBVIOUS
  <2>2. Rearranged(x, x, n, begin + 1, end)
    BY <2>1, RearrangedSame
  <2>3. QED
    BY <2>1, <2>2 DEF Exchanging
<1>3. \A t \in S : t.i \in Int /\ t.j \in Int
  BY DEF Exchanging
<1>4. \A t \in S : ~(t.i > t.j) => ExchangeOnce(t, begin, end) \in S
  <2> SUFFICES ASSUME NEW t \in S, ~(t.i > t.j) PROVE ExchangeOnce(t, begin, end) \in S
    OBVIOUS
  <2>1. t.i <= t.j
    BY <1>3
  <2>2. QED
    BY <2>1, ExchangeTurn
<1>5. F \in [S -> S] /\ \A t \in S : F[t] = IF t.i > t.j THEN t ELSE ExchangeOnce(t, begin, end)
  <2> HIDE DEF S
  <2>1. QED
    BY <1>4
<1>6. PICK f \in [0 .. size -> S] : Iterates(f, first, F, size)
  <2> HIDE DEF F, first, size, S, turn
  <2>1. QED
    BY <1>1, <1>2, <1>5, Iterated
<1>7. \A m \in 0 .. size : f[m] =
         IF m = 0 THEN [a |-> x, i |-> begin + 1, j |-> end]
         ELSE IF f[m - 1].i > f[m - 1].j THEN f[m - 1] ELSE ExchangeOnce(f[m - 1], begin, end)
  <2>1. f[0] = first /\ \A m \in 1 .. size : f[m] = F[f[m - 1]]
    BY <1>6 DEF Iterates
  <2>2. \A m \in 0 .. size : m = 0 \/ (m \in 1 .. size /\ m - 1 \in 0 .. size /\ m # 0)
    BY <1>1
  <2> HIDE DEF F, size, S, turn
  <2>3. \A m \in 1 .. size : m - 1 \in 0 .. size /\ f[m - 1] \in S
    BY <1>1, <2>2
  <2>4. ASSUME NEW m \in 1 .. size
        PROVE  f[m] = IF f[m - 1].i > f[m - 1].j THEN f[m - 1] ELSE ExchangeOnce(f[m - 1], begin, end)
    BY <1>5, <2>1, <2>3
  <2>5. QED
    BY <2>1, <2>2, <2>4
<1>8. f = [m \in 0 .. size |->
         IF m = 0 THEN [a |-> x, i |-> begin + 1, j |-> end]
         ELSE IF f[m - 1].i > f[m - 1].j THEN f[m - 1] ELSE ExchangeOnce(f[m - 1], begin, end)]
  <2> HIDE DEF F, size, S, turn
  <2>1. QED
    BY <1>7
<1>9. turn = [m \in 0 .. size |->
         IF m = 0 THEN [a |-> x, i |-> begin + 1, j |-> end]
         ELSE IF turn[m - 1].i > turn[m - 1].j THEN turn[m - 1] ELSE ExchangeOnce(turn[m - 1], begin, end)]
  <2> HIDE DEF size
  <2>1. QED
    BY <1>8
<1> HIDE DEF turn, F
<1>10. turn[0] = first /\ \A m \in Nat : m + 1 <= size =>
          turn[m + 1] = IF turn[m].i > turn[m].j THEN turn[m] ELSE ExchangeOnce(turn[m], begin, end)
  <2>1. turn[0] = first
    BY <1>1, <1>9
  <2>2. \A m \in Nat : m + 1 <= size => m + 1 \in 0 .. size /\ m + 1 # 0 /\ (m + 1) - 1 = m
    BY <1>1
  <2> HIDE DEF size, first
  <2>3. QED
    BY <1>9, <2>1, <2>2
\* After m turns: over, or at the start, or about to move with no more than size - m elements left between.
<1> DEFINE Left(m) == \/ turn[m].i > turn[m].j
                      \/ m = 0
                      \/ WillMove(x, begin, turn[m]) /\ turn[m].j - turn[m].i + 1 <= size - m
           T == {m \in Nat : m <= size => turn[m] \in S /\ Left(m)}
<1>11. 0 \in T
  <2> HIDE DEF S
  <2>1. QED
    BY <1>2, <1>10
<1>12. ASSUME NEW m \in T PROVE m + 1 \in T
  <2>1. m \in Nat /\ (m <= size => turn[m] \in S /\ Left(m))
    OBVIOUS
  <2>2. SUFFICES ASSUME m + 1 <= size PROVE turn[m + 1] \in S /\ Left(m + 1)
    <3> HIDE DEF S, Left, size
    <3>1. QED
      BY <2>1
  <2>3. turn[m] \in S /\ Left(m)
    BY <1>1, <2>1, <2>2
  <2>4. turn[m + 1] = IF turn[m].i > turn[m].j THEN turn[m] ELSE ExchangeOnce(turn[m], begin, end)
    BY <1>10, <2>1, <2>2
  <2> DEFINE t == turn[m]
             u == turn[m + 1]
  <2>5. t.i \in begin + 1 .. end + 1 /\ t.j \in begin .. end
    BY <2>3, ExchangingFacts
  <2>6. CASE t.i > t.j
    <3>1. turn[m + 1] = turn[m]
      BY <2>4, <2>6
    <3> HIDE DEF S, size
    <3>2. QED
      BY <2>3, <2>6, <3>1
  <2>7. CASE ~(t.i > t.j)
    <3>1. t.i <= t.j
      BY <2>5, <2>7
    <3>2. u = ExchangeOnce(t, begin, end)
      BY <2>4, <2>7
    <3>3. t \in Exchanging(n, x, begin, end)
      BY <2>3
    <3>a. m = 0 \/ (WillMove(x, begin, t) /\ t.j - t.i + 1 <= size - m)
      <4> HIDE DEF size
      <4>1. QED
        BY <2>3, <2>7
    <3> HIDE DEF t, u
    <3>4. /\ u \in Exchanging(n, x, begin, end)
          /\ u.i <= u.j => WillMove(x, begin, u)
          /\ t.i <= u.i /\ u.j <= t.j
          /\ WillMove(x, begin, t) => t.i + 1 <= u.i /\ u.j <= t.j - 1
      BY <3>1, <3>2, <3>3, ExchangeTurn
    <3>5. u.i \in begin + 1 .. end + 1 /\ u.j \in begin .. end
      BY <3>4, ExchangingFacts
    <3>6. u.i > u.j \/ (WillMove(x, begin, u) /\ u.j - u.i + 1 <= size - (m + 1))
      <4>1. CASE u.i > u.j
        BY <4>1
      <4>2. CASE u.i <= u.j
        <5>1. CASE m = 0
          <6>1. u.j - u.i + 1 <= size - 1
            BY <3>5
          <6>2. QED
            BY <3>4, <4>2, <5>1, <6>1
        <5>2. CASE WillMove(x, begin, t) /\ t.j - t.i + 1 <= size - m
          <6>1. t.i + 1 <= u.i /\ u.j <= t.j - 1
            BY <3>4, <5>2
          <6>2. u.j - u.i + 1 <= size - (m + 1)
            <7>1. t.i \in Int /\ t.j \in Int /\ u.i \in Int /\ u.j \in Int
              BY <2>5, <3>5
            <7>2. size \in Int /\ m \in Int /\ t.j - t.i + 1 <= size - m
              BY <1>1, <2>1, <5>2
            <7> HIDE DEF size, t, u
            <7>3. QED
              BY <6>1, <7>1, <7>2, Narrower
          <6>3. QED
            BY <3>4, <4>2, <6>2
        <5>3. QED
          BY <3>a, <5>1, <5>2
      <4>3. QED
        BY <3>5, <4>1, <4>2
    <3>7. QED
      <4> HIDE DEF size
      <4>1. QED
        BY <3>4, <3>6 DEF u
  <2>8. QED
    BY <2>6, <2>7
<1>13. turn[size] \in S /\ Left(size)
  <2>1. T \subseteq Nat
    OBVIOUS
  <2>2. Nat \subseteq T
    <3> HIDE DEF T
    <3>1. QED
      BY <1>11, <1>12, <2>1, SetInduction
  <2>3. size \in T
    <3> HIDE DEF T, size
    <3>1. QED
      BY <1>1, <2>2
  <2> HIDE DEF Left, S
  <2>4. QED
    BY <1>1, <2>3
<1>14. turn[size].i > turn[size].j
  <2> DEFINE t == turn[size]
  <2>1. t.i \in begin + 1 .. end + 1 /\ t.j \in begin .. end
    BY <1>13, ExchangingFacts
  <2>2. t.i > t.j \/ size = 0 \/ t.j - t.i + 1 <= size - size
    BY <1>13
  <2> HIDE DEF t
  <2>3. t.i > t.j
    BY <2>1, <2>2
  <2>4. QED
    BY <2>3 DEF t
<1>15. QED
  <2> HIDE DEF size
  <2>1. QED
    BY <1>0, <1>13, <1>14

\* What a partition leaves: nothing before the pivot is above it, and everything behind it is.
HasPartitioned(n, x, begin, end, r) ==
    /\ r \in [a : [0 .. n - 1 -> Values], at : begin .. end]
    /\ Rearranged(x, r.a, n, begin, end)
    /\ \A k \in begin .. r.at : r.a[k] <= r.a[r.at]
    /\ \A k \in r.at + 1 .. end : r.a[r.at] < r.a[k]

\* The last exchange of a partition puts the pivot between the two parts.
LEMMA PivotPlaced ==
    ASSUME NEW n \in Nat, NEW x \in [0 .. n - 1 -> Values], NEW begin \in Nat, NEW end \in Nat, begin < end,
           end <= n - 1, NEW t \in Exchanging(n, x, begin, end), t.i > t.j
    PROVE  HasPartitioned(n, x, begin, end, [a |-> Swapped(t.a, begin, t.j), at |-> t.j])
<1> DEFINE b == t.a
           j == t.j
           pivot == x[begin]
           y == Swapped(b, begin, j)
<1>1. /\ b \in [0 .. n - 1 -> Values] /\ t.i \in begin + 1 .. end + 1 /\ j \in begin .. end
      /\ Rearranged(x, b, n, begin + 1, end)
      /\ \A k \in begin + 1 .. t.i - 1 : b[k] <= pivot
      /\ \A k \in j + 1 .. end : b[k] > pivot
      /\ b[begin] = pivot /\ pivot \in Nat
      /\ \A k \in 0 .. n - 1 : b[k] \in Nat
  BY ExchangingFacts
<1>2. t.i > j
  OBVIOUS
<1> HIDE DEF b, j, pivot
<1>3. \A k \in begin .. j : b[k] <= pivot
  <2> SUFFICES ASSUME NEW k \in begin .. j PROVE b[k] <= pivot
    OBVIOUS
  <2>1. CASE k = begin
    BY <1>1, <2>1
  <2>2. CASE k # begin
    <3>1. k \in begin + 1 .. t.i - 1
      BY <1>1, <1>2, <2>2
    <3>2. QED
      BY <1>1, <3>1
  <2>3. QED
    BY <2>1, <2>2
<1>4. begin \in 0 .. n - 1 /\ j \in 0 .. n - 1 /\ begin \in begin .. end /\ j \in begin .. end /\ begin \in Int /\ end \in Int
  BY <1>1
<1>5. \A k \in 0 .. n - 1 : b[k] \in Values
  BY <1>1
<1>6. y = [k \in 0 .. n - 1 |-> IF k = begin THEN b[j] ELSE IF k = j THEN b[begin] ELSE b[k]]
  BY <1>1, <1>4 DEF Swapped
<1> HIDE DEF y
<1>7. y \in [0 .. n - 1 -> Values]
  BY <1>4, <1>5, <1>6
<1>8. \A k \in 0 .. n - 1 : y[k] = IF k = begin THEN b[j] ELSE IF k = j THEN b[begin] ELSE b[k]
  BY <1>6
<1>9. y[j] = pivot
  BY <1>1, <1>4, <1>8
<1>10. \A k \in begin .. j : y[k] <= y[j]
  <2> SUFFICES ASSUME NEW k \in begin .. j PROVE y[k] <= pivot
    BY <1>9
  <2>1. k \in 0 .. n - 1 /\ j \in begin .. j /\ begin \in begin .. j
    BY <1>4
  <2>2. b[k] <= pivot /\ b[j] <= pivot /\ b[begin] <= pivot
    BY <1>3, <2>1
  <2>3. QED
    BY <1>8, <2>1, <2>2
<1>11. \A k \in j + 1 .. end : y[j] < y[k]
  <2> SUFFICES ASSUME NEW k \in j + 1 .. end PROVE pivot < y[k]
    BY <1>9
  <2>1. k \in 0 .. n - 1 /\ k # begin /\ k # j
    BY <1>4
  <2>2. b[k] > pivot /\ b[k] \in Nat
    BY <1>1, <2>1
  <2>3. QED
    BY <1>1, <1>8, <2>1, <2>2
<1>12. Rearranged(x, y, n, begin, end)
  <2>1. begin <= begin + 1 /\ end <= end /\ begin + 1 \in Int
    BY <1>4
  <2>2. Rearranged(x, b, n, begin, end)
    BY <1>1, <1>4, <2>1, RearrangedWider
  <2>3. Rearranged(b, y, n, begin, end)
    BY <1>1, <1>4, RearrangedSwapped DEF y
  <2>4. QED
    BY <1>4, <2>2, <2>3, RearrangedTwice
<1>13. QED
  <2>1. HasPartitioned(n, x, begin, end, [a |-> y, at |-> j])
    BY <1>4, <1>7, <1>10, <1>11, <1>12 DEF HasPartitioned
  <2>2. QED
    BY <2>1 DEF y, b, j

LEMMA Partitioning ==
    ASSUME NEW n \in Nat, NEW x \in [0 .. n - 1 -> Values], NEW begin \in Nat, NEW end \in Int, end <= n - 1,
           NEW r \in Partition(x, begin, end)
    PROVE  begin < end /\ HasPartitioned(n, x, begin, end, r)
<1>1. PICK p \in begin .. end - 1 :
         r = [a |-> Swapped(Exchange(Swapped(x, begin, p), begin, end).a, begin, Exchange(Swapped(x, begin, p), begin, end).j),
              at |-> Exchange(Swapped(x, begin, p), begin, end).j]
  BY DEF Partition, ChoosePivot
<1>2. begin < end /\ end \in Nat /\ begin \in 0 .. n - 1 /\ p \in 0 .. n - 1 /\ begin \in begin .. end /\ p \in begin .. end /\ begin \in Int
  OBVIOUS
<1> DEFINE y == Swapped(x, begin, p)
           t == Exchange(y, begin, end)
<1>3. y \in [0 .. n - 1 -> Values] /\ Rearranged(x, y, n, begin, end)
  BY <1>2, SwappedIs, RearrangedSwapped
<1>4. t \in Exchanging(n, y, begin, end) /\ t.i > t.j
  <2> HIDE DEF y
  <2>1. QED
    BY <1>2, <1>3, ExchangeEnds
<1>5. r = [a |-> Swapped(t.a, begin, t.j), at |-> t.j]
  BY <1>1
<1> HIDE DEF y, t
<1>6. HasPartitioned(n, y, begin, end, r)
  BY <1>2, <1>3, <1>4, <1>5, PivotPlaced
<1>7. Rearranged(x, r.a, n, begin, end)
  <2>1. Rearranged(y, r.a, n, begin, end)
    BY <1>6 DEF HasPartitioned
  <2>2. QED
    BY <1>2, <1>3, <2>1, RearrangedTwice
<1>8. QED
  BY <1>2, <1>6, <1>7 DEF HasPartitioned

\* Sorting both parts of a partition is sorting.
LEMMA PartsSorted ==
    ASSUME NEW n \in Nat, NEW x, NEW begin \in Nat, NEW end \in Nat, begin < end, end <= n - 1,
           NEW r, HasPartitioned(n, x, begin, end, r),
           NEW l, HasSorted(n, r.a, begin, r.at - 1, l),
           NEW z, HasSorted(n, l, r.at + 1, end, z)
    PROVE  HasSorted(n, x, begin, end, z)
<1> DEFINE y == r.a
           at == r.at
           v == y[at]
<1>1. /\ y \in [0 .. n - 1 -> Values] /\ at \in begin .. end
      /\ Rearranged(x, y, n, begin, end)
      /\ \A k \in begin .. at : y[k] <= v
      /\ \A k \in at + 1 .. end : v < y[k]
  BY DEF HasPartitioned
<1>2. l \in [0 .. n - 1 -> Values] /\ InRange(l, begin, at - 1) /\ Rearranged(y, l, n, begin, at - 1)
  BY DEF HasSorted
<1>3. z \in [0 .. n - 1 -> Values] /\ InRange(z, at + 1, end) /\ Rearranged(l, z, n, at + 1, end)
  BY DEF HasSorted
<1> HIDE DEF y, at
<1>4. begin \in Int /\ at - 1 \in Int /\ at + 1 \in Int /\ end \in Int
  BY <1>1
<1>5. v \in Nat /\ \A k \in 0 .. n - 1 : y[k] \in Nat /\ l[k] \in Nat /\ z[k] \in Nat
  <2>1. at \in 0 .. n - 1
    BY <1>1
  <2>2. QED
    BY <1>1, <1>2, <1>3, <2>1, ValuesAssumption
<1>6. /\ \A k \in 0 .. n - 1 : k < begin \/ at - 1 < k => l[k] = y[k]
      /\ \A k \in 0 .. n - 1 : k \in begin .. at - 1 => \E j \in 0 .. n - 1 : j \in begin .. at - 1 /\ l[k] = y[j]
  <2> DEFINE hi == at - 1
  <2>1. hi \in Int /\ Rearranged(y, l, n, begin, hi)
    BY <1>2, <1>4
  <2> HIDE DEF hi
  <2>2. /\ \A k \in 0 .. n - 1 : k < begin \/ hi < k => l[k] = y[k]
        /\ \A k \in 0 .. n - 1 : k \in begin .. hi => \E j \in 0 .. n - 1 : j \in begin .. hi /\ l[k] = y[j]
    BY <1>4, <2>1, RearrangedFacts
  <2>3. QED
    BY <2>2 DEF hi
<1>7. /\ \A k \in 0 .. n - 1 : k < at + 1 \/ end < k => z[k] = l[k]
      /\ \A k \in 0 .. n - 1 : k \in at + 1 .. end => \E j \in 0 .. n - 1 : j \in at + 1 .. end /\ z[k] = l[j]
  <2> DEFINE lo == at + 1
  <2>1. lo \in Int /\ Rearranged(l, z, n, lo, end)
    BY <1>3, <1>4
  <2> HIDE DEF lo
  <2>a. end \in Int
    OBVIOUS
  <2>2. \A k \in 0 .. n - 1 : k < lo \/ end < k => z[k] = l[k]
    BY <2>1, <2>a, RearrangedFacts
  <2>3. \A k \in 0 .. n - 1 : k \in lo .. end => \E j \in 0 .. n - 1 : j \in lo .. end /\ z[k] = l[j]
    BY <2>1, <2>a, RearrangedFacts
  <2>4. QED
    BY <2>2, <2>3 DEF lo
<1>8. \A k \in begin .. at - 1 : z[k] = l[k] /\ z[k] <= v
  <2> SUFFICES ASSUME NEW k \in begin .. at - 1 PROVE z[k] = l[k] /\ z[k] <= v
    OBVIOUS
  <2>1. k \in 0 .. n - 1 /\ k < at + 1
    BY <1>1
  <2>2. PICK j \in 0 .. n - 1 : j \in begin .. at - 1 /\ l[k] = y[j]
    BY <1>6, <2>1
  <2>3. j \in begin .. at
    BY <1>1, <2>2
  <2>4. QED
    BY <1>1, <1>7, <2>1, <2>2, <2>3
<1>9. z[at] = v
  <2>1. at \in 0 .. n - 1 /\ at < at + 1 /\ at - 1 < at
    BY <1>1
  <2>2. QED
    BY <1>6, <1>7, <2>1
<1>10. \A k \in at + 1 .. end : v < z[k]
  <2> SUFFICES ASSUME NEW k \in at + 1 .. end PROVE v < z[k]
    OBVIOUS
  <2>1. k \in 0 .. n - 1
    BY <1>1
  <2>2. PICK j \in 0 .. n - 1 : j \in at + 1 .. end /\ z[k] = l[j]
    BY <1>7, <2>1
  <2>3. at - 1 < j
    BY <1>1, <2>2
  <2>4. l[j] = y[j]
    BY <1>6, <2>2, <2>3
  <2>5. QED
    BY <1>1, <2>2, <2>4
<1>11. InRange(z, begin, end)
  <2> SUFFICES ASSUME NEW i \in begin .. end, NEW j \in begin .. end, i < j PROVE z[i] <= z[j]
    BY DEF InRange
  <2>0. i \in 0 .. n - 1 /\ j \in 0 .. n - 1 /\ z[i] \in Nat /\ z[j] \in Nat
    BY <1>5
  <2>1. CASE j < at
    <3>1. i \in begin .. at - 1 /\ j \in begin .. at - 1
      BY <1>1, <2>1
    <3>2. l[i] <= l[j]
      BY <1>2, <3>1 DEF InRange
    <3>3. QED
      BY <1>8, <3>1, <3>2
  <2>2. CASE j = at
    <3>1. i \in begin .. at - 1
      BY <1>1, <2>2
    <3>2. QED
      BY <1>8, <1>9, <2>2, <3>1
  <2>3. CASE at < j /\ i < at
    <3>1. i \in begin .. at - 1 /\ j \in at + 1 .. end
      BY <1>1, <2>3
    <3>2. z[i] <= v /\ v < z[j]
      BY <1>8, <1>10, <3>1
    <3>3. QED
      BY <1>5, <2>0, <3>2
  <2>4. CASE at < j /\ i = at
    <3>1. j \in at + 1 .. end
      BY <1>1, <2>4
    <3>2. z[i] = v /\ v < z[j]
      BY <1>9, <1>10, <2>4, <3>1
    <3>3. QED
      BY <1>5, <2>0, <3>2
  <2>5. CASE at < j /\ at < i
    <3>1. i \in at + 1 .. end /\ j \in at + 1 .. end
      BY <1>1, <2>5
    <3>2. QED
      BY <1>3, <3>1 DEF InRange
  <2>6. QED
    BY <1>1, <2>1, <2>2, <2>3, <2>4, <2>5
<1>12. Rearranged(x, z, n, begin, end)
  <2>1. begin <= begin /\ at - 1 <= end /\ begin <= at + 1 /\ end <= end
    BY <1>1
  <2>2. Rearranged(y, l, n, begin, end)
    BY <1>2, <1>4, <2>1, RearrangedWider
  <2>3. Rearranged(l, z, n, begin, end)
    BY <1>3, <1>4, <2>1, RearrangedWider
  <2>4. Rearranged(x, l, n, begin, end)
    BY <1>1, <1>4, <2>2, RearrangedTwice
  <2>5. QED
    BY <1>4, <2>3, <2>4, RearrangedTwice
<1>13. QED
  BY <1>3, <1>11, <1>12 DEF HasSorted

PartsBody(f, c, r) == UNION {f[Call(l, r.at + 1, c.end)] : l \in f[Call(r.a, c.begin, r.at - 1)]}
QuickBody(f, c) ==
    IF c.begin >= c.end THEN {c.a} ELSE UNION {PartsBody(f, c, r) : r \in Partition(c.a, c.begin, c.end)}

AllSorted(n, c, R) == \A r \in R : HasSorted(n, c.a, c.begin, c.end, r)

\* The calls for the two parts of a partition, and that they are smaller than the call for the whole.
LEMMA PartCalls ==
    ASSUME NEW n \in Nat, NEW c \in SortCalls(n), NEW r \in Partition(c.a, c.begin, c.end)
    PROVE  /\ c.begin < c.end /\ c.end \in Nat /\ c.begin \in Nat /\ c.end <= n - 1
           /\ c.a \in [0 .. n - 1 -> Values]
           /\ HasPartitioned(n, c.a, c.begin, c.end, r)
           /\ r.a \in [0 .. n - 1 -> Values] /\ r.at \in c.begin .. c.end
           /\ \A x \in [0 .. n - 1 -> Values] :
                 /\ Call(x, c.begin, r.at - 1) \in SortCalls(n) /\ Size(Call(x, c.begin, r.at - 1)) < Size(c)
                 /\ Call(x, c.begin, r.at - 1).a = x /\ Call(x, c.begin, r.at - 1).begin = c.begin
                 /\ Call(x, c.begin, r.at - 1).end = r.at - 1
                 /\ Call(x, r.at + 1, c.end) \in SortCalls(n) /\ Size(Call(x, r.at + 1, c.end)) < Size(c)
                 /\ Call(x, r.at + 1, c.end).a = x /\ Call(x, r.at + 1, c.end).begin = r.at + 1
                 /\ Call(x, r.at + 1, c.end).end = c.end
<1> DEFINE y == c.a
           begin == c.begin
           end == c.end
           at == r.at
<1>1. y \in [0 .. n - 1 -> Values] /\ begin \in Nat /\ begin <= n /\ end \in Int /\ end <= n - 1
      /\ Size(c) = IF begin <= end THEN end - begin + 1 ELSE 0
  BY CallFacts DEF Size
<1>2. r \in Partition(y, begin, end)
  OBVIOUS
<1> HIDE DEF y, begin, end
<1>3. begin < end /\ HasPartitioned(n, y, begin, end, r)
  BY <1>1, <1>2, Partitioning
<1>4. r.a \in [0 .. n - 1 -> Values] /\ at \in begin .. end
  BY <1>3 DEF HasPartitioned
<1> HIDE DEF at
<1>5. ASSUME NEW x \in [0 .. n - 1 -> Values]
      PROVE  /\ Call(x, begin, at - 1) \in SortCalls(n) /\ Size(Call(x, begin, at - 1)) < Size(c)
             /\ Call(x, begin, at - 1).a = x /\ Call(x, begin, at - 1).begin = begin
             /\ Call(x, begin, at - 1).end = at - 1
  <2> DEFINE hi == at - 1
  <2>1. begin \in 0 .. n /\ hi \in -1 .. n - 1 /\ hi \in Int /\ hi < end
    BY <1>1, <1>3, <1>4
  <2> HIDE DEF hi
  <2>2. /\ Call(x, begin, hi) \in SortCalls(n)
        /\ Call(x, begin, hi).a = x /\ Call(x, begin, hi).begin = begin /\ Call(x, begin, hi).end = hi
        /\ Size(Call(x, begin, hi)) = IF begin <= hi THEN hi - begin + 1 ELSE 0
    BY <2>1, CallIs
  <2>3. Size(Call(x, begin, hi)) < Size(c)
    BY <1>1, <1>3, <2>1, <2>2
  <2>4. QED
    BY <2>2, <2>3 DEF hi
<1>6. ASSUME NEW x \in [0 .. n - 1 -> Values]
      PROVE  /\ Call(x, at + 1, end) \in SortCalls(n) /\ Size(Call(x, at + 1, end)) < Size(c)
             /\ Call(x, at + 1, end).a = x /\ Call(x, at + 1, end).begin = at + 1
             /\ Call(x, at + 1, end).end = end
  <2> DEFINE lo == at + 1
  <2>1. lo \in 0 .. n /\ end \in -1 .. n - 1 /\ lo \in Int /\ begin < lo
    BY <1>1, <1>3, <1>4
  <2> HIDE DEF lo
  <2>2. /\ Call(x, lo, end) \in SortCalls(n)
        /\ Call(x, lo, end).a = x /\ Call(x, lo, end).begin = lo /\ Call(x, lo, end).end = end
        /\ Size(Call(x, lo, end)) = IF lo <= end THEN end - lo + 1 ELSE 0
    BY <2>1, CallIs
  <2>3. Size(Call(x, lo, end)) < Size(c)
    BY <1>1, <1>3, <2>1, <2>2
  <2>4. QED
    BY <2>2, <2>3 DEF lo
<1>7. end \in Nat
  BY <1>1, <1>3
<1>8. QED
  BY <1>1, <1>3, <1>4, <1>5, <1>6, <1>7 DEF y, begin, end, at

LEMMA QuickCall ==
    ASSUME NEW n \in Nat, NEW f, NEW c \in SortCalls(n),
           \A d \in SortCalls(n) : Size(d) < Size(c) => AllSorted(n, d, f[d])
    PROVE  AllSorted(n, c, QuickBody(f, c))
<1>1. c.a \in [0 .. n - 1 -> Values] /\ c.begin \in Nat /\ c.begin <= n /\ c.end \in Int /\ c.end <= n - 1
  BY CallFacts
<1>2. CASE c.begin >= c.end
  <2>1. QuickBody(f, c) = {c.a}
    BY <1>2 DEF QuickBody
  <2>2. HasSorted(n, c.a, c.begin, c.end, c.a)
    BY <1>1, <1>2, NothingToSort
  <2>3. QED
    BY <2>1, <2>2 DEF AllSorted
<1>3. CASE c.begin < c.end
  <2>1. SUFFICES ASSUME NEW z \in QuickBody(f, c) PROVE HasSorted(n, c.a, c.begin, c.end, z)
    BY DEF AllSorted
  <2>a. ~(c.begin >= c.end)
    BY <1>1, <1>3
  <2>2. PICK r \in Partition(c.a, c.begin, c.end) : z \in PartsBody(f, c, r)
    BY <2>a DEF QuickBody
  <2>3. PICK l \in f[Call(r.a, c.begin, r.at - 1)] : z \in f[Call(l, r.at + 1, c.end)]
    BY <2>2 DEF PartsBody
  <2>4. HasSorted(n, r.a, c.begin, r.at - 1, l)
    <3> DEFINE d == Call(r.a, c.begin, r.at - 1)
    <3>1. d \in SortCalls(n) /\ Size(d) < Size(c) /\ d.a = r.a /\ d.begin = c.begin /\ d.end = r.at - 1
      BY PartCalls
    <3> HIDE DEF d
    <3>2. AllSorted(n, d, f[d])
      BY <3>1
    <3>3. l \in f[d]
      BY DEF d
    <3>4. QED
      BY <3>1, <3>2, <3>3 DEF AllSorted
  <2>5. l \in [0 .. n - 1 -> Values]
    BY <2>4 DEF HasSorted
  <2>6. HasSorted(n, l, r.at + 1, c.end, z)
    <3> DEFINE d == Call(l, r.at + 1, c.end)
    <3>1. d \in SortCalls(n) /\ Size(d) < Size(c) /\ d.a = l /\ d.begin = r.at + 1 /\ d.end = c.end
      BY <2>5, PartCalls
    <3> HIDE DEF d
    <3>2. AllSorted(n, d, f[d])
      BY <3>1
    <3>3. z \in f[d]
      BY <2>3 DEF d
    <3>4. QED
      BY <3>1, <3>2, <3>3 DEF AllSorted
  <2>7. HasPartitioned(n, c.a, c.begin, c.end, r) /\ c.end \in Nat
    BY PartCalls
  <2>8. QED
    <3> DEFINE begin == c.begin
               end == c.end
    <3>1. begin \in Nat /\ end \in Nat /\ begin < end /\ end <= n - 1 /\ HasPartitioned(n, c.a, begin, end, r)
          /\ HasSorted(n, r.a, begin, r.at - 1, l) /\ HasSorted(n, l, r.at + 1, end, z)
      BY <1>1, <1>3, <2>4, <2>6, <2>7
    <3> HIDE DEF begin, end
    <3>2. HasSorted(n, c.a, begin, end, z)
      BY <3>1, PartsSorted
    <3>3. QED
      BY <3>2 DEF begin, end
<1>4. QED
  BY <1>1, <1>2, <1>3

LEMMA QuickLocal ==
    ASSUME NEW n \in Nat, NEW f \in [SortCalls(n) -> SUBSET [0 .. n - 1 -> Values]],
           NEW g \in [SortCalls(n) -> SUBSET [0 .. n - 1 -> Values]], NEW c \in SortCalls(n),
           \A d \in SortCalls(n) : Size(d) < Size(c) => f[d] = g[d]
    PROVE  QuickBody(f, c) = QuickBody(g, c)
<1>1. ASSUME NEW r \in Partition(c.a, c.begin, c.end)
      PROVE  /\ f[Call(r.a, c.begin, r.at - 1)] = g[Call(r.a, c.begin, r.at - 1)]
             /\ \A l \in f[Call(r.a, c.begin, r.at - 1)] : f[Call(l, r.at + 1, c.end)] = g[Call(l, r.at + 1, c.end)]
  <2> DEFINE d == Call(r.a, c.begin, r.at - 1)
             e(l) == Call(l, r.at + 1, c.end)
  <2>1. d \in SortCalls(n) /\ Size(d) < Size(c)
    BY PartCalls
  <2>2. \A l \in [0 .. n - 1 -> Values] : e(l) \in SortCalls(n) /\ Size(e(l)) < Size(c)
    BY PartCalls
  <2> HIDE DEF d, e
  <2>3. f[d] = g[d] /\ f[d] \in SUBSET [0 .. n - 1 -> Values]
    BY <2>1
  <2>4. \A l \in f[d] : f[e(l)] = g[e(l)]
    BY <2>2, <2>3
  <2>5. QED
    BY <2>3, <2>4 DEF d, e
<1>2. ASSUME NEW r \in Partition(c.a, c.begin, c.end)
      PROVE  PartsBody(f, c, r) = PartsBody(g, c, r)
  BY <1>1 DEF PartsBody
<1>3. QED
  BY <1>2 DEF QuickBody

LEMMA QuickCalls ==
    ASSUME NEW n \in Nat, NEW f,
           \A c \in SortCalls(n) : QuickBody(f, c) \in SUBSET [0 .. n - 1 -> Values] => f[c] = QuickBody(f, c)
    PROVE  \A c \in SortCalls(n) : f[c] = QuickBody(f, c) /\ AllSorted(n, c, f[c])
<1> DEFINE S == SortCalls(n)
           P == {c \in S : AllSorted(n, c, f[c])}
           size == SizesOf(n)
<1>1. size \in Measures(S, n) /\ \A c \in S : size[c] = Size(c)
  BY SizesAre
<1>2. ASSUME NEW c \in S, \A d \in S : Size(d) < Size(c) => AllSorted(n, d, f[d])
      PROVE  f[c] = QuickBody(f, c) /\ AllSorted(n, c, f[c])
  <2>1. AllSorted(n, c, QuickBody(f, c))
    BY <1>2, QuickCall
  <2>2. QuickBody(f, c) \in SUBSET [0 .. n - 1 -> Values]
    BY <2>1 DEF AllSorted, HasSorted
  <2>3. QED
    BY <2>1, <2>2
<1>3. \A c \in S : (\A d \in S : size[d] < size[c] => d \in P) => c \in P
  <2> SUFFICES ASSUME NEW c \in S, \A d \in S : size[d] < size[c] => d \in P PROVE c \in P
    OBVIOUS
  <2>1. \A d \in S : Size(d) < Size(c) => AllSorted(n, d, f[d])
    <3> HIDE DEF S, size
    <3>1. QED
      BY <1>1
  <2>2. AllSorted(n, c, f[c])
    BY <1>2, <2>1
  <2>3. QED
    BY <2>2
<1>4. S = P
  <2>1. P \in SUBSET S
    OBVIOUS
  <2> HIDE DEF S, P, size
  <2>2. QED
    BY <1>1, <1>3, <2>1, SizeInduction
<1>5. \A c \in S : AllSorted(n, c, f[c])
  BY <1>4
<1>6. QED
  <2> HIDE DEF P, size
  <2>1. QED
    BY <1>2, <1>5

LEMMA QuickSorts ==
    ASSUME NEW n \in Nat, NEW a \in [0 .. n - 1 -> Values]
    PROVE  \A r \in QuickSort(a) : HasSorted(n, a, 0, n - 1, r)
<1> DEFINE S == SortCalls(n)
           A == SUBSET [0 .. n - 1 -> Values]
           size == SizesOf(n)
           F == [x \in [S -> A] \X S |-> IF QuickBody(x[1], x[2]) \in A THEN QuickBody(x[1], x[2]) ELSE {}]
           sort == CHOOSE g : g = [c \in S |->
                      IF c.begin >= c.end THEN {c.a}
                      ELSE UNION {UNION {g[Call(l, r.at + 1, c.end)] : l \in g[Call(r.a, c.begin, r.at - 1)]} :
                                     r \in Partition(c.a, c.begin, c.end)}]
<1>1. QuickSort(a) = sort[Call(a, 0, n - 1)]
  BY CallsAre, LengthIs DEF QuickSort
<1>2. size \in Measures(S, n) /\ \A c \in S : size[c] = Size(c)
  BY SizesAre
<1>3. F \in [[S -> A] \X S -> A]
  <2>1. {} \in A
    OBVIOUS
  <2> HIDE DEF S, A
  <2>2. QED
    BY <2>1
<1>4. \A f \in [S -> A] : \A c \in S : F[<<f, c>>] = IF QuickBody(f, c) \in A THEN QuickBody(f, c) ELSE {}
  <2> HIDE DEF S, A
  <2>1. QED
    OBVIOUS
<1> HIDE DEF F
<1>5. \A f, g \in [S -> A] : \A c \in S :
         (\A d \in S : size[d] < size[c] => f[d] = g[d]) => F[<<f, c>>] = F[<<g, c>>]
  <2> SUFFICES ASSUME NEW f \in [S -> A], NEW g \in [S -> A], NEW c \in S, \A d \in S : size[d] < size[c] => f[d] = g[d]
      PROVE  F[<<f, c>>] = F[<<g, c>>]
    OBVIOUS
  <2>1. \A d \in S : Size(d) < Size(c) => f[d] = g[d]
    <3> HIDE DEF S, size
    <3>1. QED
      BY <1>2
  <2>2. QuickBody(f, c) = QuickBody(g, c)
    BY <2>1, QuickLocal
  <2> HIDE DEF S, A
  <2>3. QED
    BY <1>4, <2>2
<1>6. PICK f \in [S -> A] : \A c \in S : f[c] = F[<<f, c>>]
  <2>1. A # {}
    OBVIOUS
  <2> HIDE DEF S, A, size, sort
  <2>2. DependsOnSmaller(S, A, size, F)
    BY <1>3, <1>5 DEF DependsOnSmaller
  <2>3. HasSolution(S, A, F)
    BY <1>2, <2>1, <2>2, Recursion
  <2>4. QED
    BY <2>3 DEF HasSolution
<1>7. \A c \in S : f[c] = QuickBody(f, c)
  <2>1. \A c \in S : QuickBody(f, c) \in A => f[c] = QuickBody(f, c)
    <3> HIDE DEF S, A
    <3>1. QED
      BY <1>4, <1>6
  <2>2. QED
    BY <2>1, QuickCalls
<1>8. f = [c \in S |->
         IF c.begin >= c.end THEN {c.a}
         ELSE UNION {UNION {f[Call(l, r.at + 1, c.end)] : l \in f[Call(r.a, c.begin, r.at - 1)]} :
                        r \in Partition(c.a, c.begin, c.end)}]
  <2> HIDE DEF S, A
  <2>1. f = [c \in S |-> QuickBody(f, c)]
    BY <1>7
  <2>2. QED
    BY <2>1 DEF QuickBody, PartsBody
<1>9. sort = [c \in S |->
         IF c.begin >= c.end THEN {c.a}
         ELSE UNION {UNION {sort[Call(l, r.at + 1, c.end)] : l \in sort[Call(r.a, c.begin, r.at - 1)]} :
                        r \in Partition(c.a, c.begin, c.end)}]
  <2> HIDE DEF S
  <2>1. QED
    BY <1>8
<1> HIDE DEF sort
<1>10. \A c \in S : sort[c] = QuickBody(sort, c)
  <2> HIDE DEF S
  <2>1. QED
    BY <1>9 DEF QuickBody, PartsBody
<1>11. \A c \in S : AllSorted(n, c, sort[c])
  BY <1>10, QuickCalls
<1>12. /\ Call(a, 0, n - 1) \in S
       /\ Call(a, 0, n - 1).a = a /\ Call(a, 0, n - 1).begin = 0 /\ Call(a, 0, n - 1).end = n - 1
  <2>1. 0 \in 0 .. n /\ n - 1 \in -1 .. n - 1
    OBVIOUS
  <2>2. QED
    BY <2>1, CallIs
<1>13. QED
  <2> HIDE DEF S
  <2>1. QED
    BY <1>1, <1>11, <1>12 DEF AllSorted

-----------------------------------------------------------------------------
(* random_select: a call looks for the k-th smallest of a range.           *)
SelectCalls(n) == [a : [0 .. n - 1 -> Values], begin : 0 .. n, end : -1 .. n - 1, k : 1 .. n]
Found(n) == [a : [0 .. n - 1 -> Values], at : 0 .. n - 1]

\* What a call does: nothing before the element found is above it, nothing behind it is below it.
HasSelected(n, x, begin, end, k, r) ==
    /\ r \in Found(n)
    /\ Rearranged(x, r.a, n, begin, end)
    /\ k <= end - begin + 1 =>
          /\ r.at = begin + k - 1
          /\ \A i \in begin .. r.at : r.a[i] <= r.a[r.at]
          /\ \A i \in r.at .. end : r.a[r.at] <= r.a[i]

LEMMA SearchesAre ==
    ASSUME NEW n \in Nat, NEW a \in [0 .. n - 1 -> Values] PROVE Searches(a) = SelectCalls(n)
  BY LengthIs DEF Searches, Contents, SelectCalls

LEMMA SearchFacts ==
    ASSUME NEW n \in Nat, NEW c \in SelectCalls(n)
    PROVE  /\ c.a \in [0 .. n - 1 -> Values] /\ c.begin \in 0 .. n /\ c.end \in -1 .. n - 1 /\ c.k \in 1 .. n
           /\ Size(c) \in 0 .. n
           /\ c.begin \in Nat /\ c.end \in Int /\ c.k \in Nat
  BY DEF SelectCalls, Size

LEMMA SearchIs ==
    ASSUME NEW n \in Nat, NEW a \in [0 .. n - 1 -> Values], NEW begin \in 0 .. n, NEW end \in -1 .. n - 1, NEW k \in 1 .. n
    PROVE  /\ Search(a, begin, end, k) \in SelectCalls(n)
           /\ Search(a, begin, end, k).a = a /\ Search(a, begin, end, k).begin = begin
           /\ Search(a, begin, end, k).end = end /\ Search(a, begin, end, k).k = k
           /\ Size(Search(a, begin, end, k)) = IF begin <= end THEN end - begin + 1 ELSE 0
  BY DEF Search, SelectCalls, Size

LEMMA FoundFacts ==
    ASSUME NEW n \in Nat, NEW r \in Found(n)
    PROVE  r.a \in [0 .. n - 1 -> Values] /\ r.at \in 0 .. n - 1 /\ \A i \in 0 .. n - 1 : r.a[i] \in Nat
  BY ValuesAssumption DEF Found

\* The pivot is the element looked for.
LEMMA SelectsPivot ==
    ASSUME NEW n \in Nat, NEW x, NEW begin \in Nat, NEW end \in Nat, begin < end, end <= n - 1,
           NEW r, HasPartitioned(n, x, begin, end, r)
    PROVE  HasSelected(n, x, begin, end, r.at - begin + 1, r)
<1>1. /\ r \in [a : [0 .. n - 1 -> Values], at : begin .. end]
      /\ Rearranged(x, r.a, n, begin, end)
      /\ \A k \in begin .. r.at : r.a[k] <= r.a[r.at]
      /\ \A k \in r.at + 1 .. end : r.a[r.at] < r.a[k]
  BY DEF HasPartitioned
<1>2. r \in Found(n) /\ r.at \in begin .. end
  BY <1>1 DEF Found
<1>3. \A i \in 0 .. n - 1 : r.a[i] \in Nat
  BY <1>2, FoundFacts
<1>4. \A i \in r.at .. end : r.a[r.at] <= r.a[i]
  <2> SUFFICES ASSUME NEW i \in r.at .. end PROVE r.a[r.at] <= r.a[i]
    OBVIOUS
  <2>1. r.at \in 0 .. n - 1 /\ i \in 0 .. n - 1
    BY <1>2
  <2>2. r.a[r.at] \in Nat /\ r.a[i] \in Nat
    BY <1>3, <2>1
  <2>3. CASE i = r.at
    BY <2>2, <2>3
  <2>4. CASE i # r.at
    <3>1. i \in r.at + 1 .. end
      BY <1>2, <2>4
    <3>2. r.a[r.at] < r.a[i]
      BY <1>1, <3>1
    <3>3. QED
      BY <2>2, <3>2
  <2>5. QED
    BY <2>3, <2>4
<1>5. r.at = begin + (r.at - begin + 1) - 1
  BY <1>2
<1>6. QED
  BY <1>1, <1>2, <1>4, <1>5 DEF HasSelected

\* It is in the part before the pivot, and found there.
LEMMA SelectsBefore ==
    ASSUME NEW n \in Nat, NEW x, NEW begin \in Nat, NEW end \in Nat, begin < end, end <= n - 1,
           NEW r, HasPartitioned(n, x, begin, end, r), NEW k \in 1 .. n, k < r.at - begin + 1,
           NEW z, HasSelected(n, r.a, begin, r.at - 1, k, z)
    PROVE  HasSelected(n, x, begin, end, k, z)
<1> DEFINE y == r.a
           at == r.at
           w == z.a
           hi == at - 1
           m == z.at
<1>1. /\ y \in [0 .. n - 1 -> Values] /\ at \in begin .. end
      /\ Rearranged(x, y, n, begin, end)
      /\ \A i \in begin .. at : y[i] <= y[at]
      /\ \A i \in at + 1 .. end : y[at] < y[i]
  BY DEF HasPartitioned
<1>2. k < at - begin + 1
  OBVIOUS
<1>3. z \in Found(n) /\ Rearranged(y, w, n, begin, hi)
      /\ (k <= hi - begin + 1 => /\ m = begin + k - 1
                                 /\ \A i \in begin .. m : w[i] <= w[m]
                                 /\ \A i \in m .. hi : w[m] <= w[i])
  BY DEF HasSelected
<1>4. w \in [0 .. n - 1 -> Values] /\ m \in 0 .. n - 1 /\ \A i \in 0 .. n - 1 : w[i] \in Nat
  BY <1>3, FoundFacts
<1>5. \A i \in 0 .. n - 1 : y[i] \in Nat
  BY <1>1, ValuesAssumption
<1> HIDE DEF y, at, w, m
<1>6. hi \in Int /\ hi <= end /\ hi = at - 1 /\ begin \in Int /\ end \in Int /\ k <= hi - begin + 1
  BY <1>1, <1>2
<1> HIDE DEF hi
<1>7. /\ \A i \in 0 .. n - 1 : i < begin \/ hi < i => w[i] = y[i]
      /\ \A i \in 0 .. n - 1 : i \in begin .. hi => \E j \in 0 .. n - 1 : j \in begin .. hi /\ w[i] = y[j]
  BY <1>3, <1>6, RearrangedFacts
<1>8. Rearranged(x, w, n, begin, end)
  <2>1. begin <= begin
    OBVIOUS
  <2>2. Rearranged(y, w, n, begin, end)
    BY <1>3, <1>6, <2>1, RearrangedWider
  <2>3. QED
    BY <1>1, <1>6, <2>2, RearrangedTwice
<1>9. m = begin + k - 1 /\ m \in begin .. hi /\ \A i \in begin .. m : w[i] <= w[m]
  BY <1>3, <1>6
<1>10. \A i \in m .. end : w[m] <= w[i]
  <2> SUFFICES ASSUME NEW i \in m .. end PROVE w[m] <= w[i]
    OBVIOUS
  <2>1. CASE i <= hi
    <3>1. i \in m .. hi
      BY <1>6, <1>9, <2>1
    <3>2. QED
      BY <1>3, <1>6, <3>1
  <2>2. CASE ~(i <= hi)
    <3>1. i \in at .. end /\ i \in 0 .. n - 1 /\ hi < i
      BY <1>1, <1>4, <1>6, <1>9, <2>2
    <3>2. PICK j \in 0 .. n - 1 : j \in begin .. hi /\ w[m] = y[j]
      BY <1>4, <1>7, <1>9
    <3>3. j \in begin .. at /\ at \in 0 .. n - 1
      BY <1>1, <1>6, <3>2
    <3>4. y[j] <= y[at]
      BY <1>1, <3>3
    <3>5. y[at] <= y[i]
      <4>1. CASE i = at
        BY <1>5, <3>3, <4>1
      <4>2. CASE i # at
        <5>1. i \in at + 1 .. end
          BY <1>1, <3>1, <4>2
        <5>2. y[at] < y[i]
          BY <1>1, <5>1
        <5>3. QED
          BY <1>5, <3>1, <3>3, <5>2
      <4>3. QED
        BY <4>1, <4>2
    <3>6. w[i] = y[i] /\ y[i] \in Nat /\ y[j] \in Nat /\ y[at] \in Nat
      BY <1>5, <1>7, <3>1, <3>2, <3>3
    <3>7. QED
      BY <3>2, <3>4, <3>5, <3>6
  <2>3. QED
    BY <2>1, <2>2
<1>11. QED
  BY <1>3, <1>8, <1>9, <1>10 DEF HasSelected, w, m

\* It is in the part behind the pivot.
LEMMA SelectsBehind ==
    ASSUME NEW n \in Nat, NEW x, NEW begin \in Nat, NEW end \in Nat, begin < end, end <= n - 1,
           NEW r, HasPartitioned(n, x, begin, end, r), NEW k \in 1 .. n, k > r.at - begin + 1,
           NEW z, HasSelected(n, r.a, r.at + 1, end, k - (r.at - begin + 1), z)
    PROVE  HasSelected(n, x, begin, end, k, z)
<1> DEFINE y == r.a
           at == r.at
           w == z.a
           lo == at + 1
           m == z.at
<1>1. /\ y \in [0 .. n - 1 -> Values] /\ at \in begin .. end
      /\ Rearranged(x, y, n, begin, end)
      /\ \A i \in begin .. at : y[i] <= y[at]
      /\ \A i \in at + 1 .. end : y[at] < y[i]
  BY DEF HasPartitioned
<1>2. k > at - begin + 1
  OBVIOUS
<1>3. z \in Found(n) /\ Rearranged(y, w, n, lo, end)
      /\ (k - (at - begin + 1) <= end - lo + 1 =>
             /\ m = lo + (k - (at - begin + 1)) - 1
             /\ \A i \in lo .. m : w[i] <= w[m]
             /\ \A i \in m .. end : w[m] <= w[i])
  BY DEF HasSelected
<1>4. w \in [0 .. n - 1 -> Values] /\ m \in 0 .. n - 1 /\ \A i \in 0 .. n - 1 : w[i] \in Nat
  BY <1>3, FoundFacts
<1>5. \A i \in 0 .. n - 1 : y[i] \in Nat
  BY <1>1, ValuesAssumption
<1> HIDE DEF y, at, w, m
<1>6. lo \in Int /\ begin <= lo /\ lo = at + 1 /\ begin \in Int /\ end \in Int
  BY <1>1
<1> HIDE DEF lo
<1>7. /\ \A i \in 0 .. n - 1 : i < lo \/ end < i => w[i] = y[i]
      /\ \A i \in 0 .. n - 1 : i \in lo .. end => \E j \in 0 .. n - 1 : j \in lo .. end /\ w[i] = y[j]
  BY <1>3, <1>6, RearrangedFacts
<1>8. Rearranged(x, w, n, begin, end)
  <2>1. end <= end
    OBVIOUS
  <2>2. Rearranged(y, w, n, begin, end)
    BY <1>3, <1>6, <2>1, RearrangedWider
  <2>3. QED
    BY <1>1, <1>6, <2>2, RearrangedTwice
<1>9. ASSUME k <= end - begin + 1
      PROVE  m = begin + k - 1 /\ (\A i \in begin .. m : w[i] <= w[m]) /\ \A i \in m .. end : w[m] <= w[i]
  <2>1. k - (at - begin + 1) <= end - lo + 1
    BY <1>1, <1>6, <1>9
  <2>2. /\ m = lo + (k - (at - begin + 1)) - 1
        /\ \A i \in lo .. m : w[i] <= w[m]
        /\ \A i \in m .. end : w[m] <= w[i]
    BY <1>3, <2>1
  <2>3. m = begin + k - 1 /\ m \in lo .. end
    BY <1>1, <1>2, <1>6, <1>9, <2>2
  <2>4. ASSUME NEW i \in begin .. m PROVE w[i] <= w[m]
    <3>1. CASE lo <= i
      <4>1. i \in lo .. m
        BY <1>6, <3>1
      <4>2. QED
        BY <2>2, <4>1
    <3>2. CASE ~(lo <= i)
      <4>1. i \in begin .. at /\ i \in 0 .. n - 1 /\ i < lo
        BY <1>1, <1>4, <1>6, <3>2
      <4>2. PICK j \in 0 .. n - 1 : j \in lo .. end /\ w[m] = y[j]
        BY <1>4, <1>7, <2>3
      <4>3. j \in at + 1 .. end /\ at \in 0 .. n - 1
        BY <1>1, <1>6, <4>2
      <4>4. y[i] <= y[at] /\ y[at] < y[j]
        BY <1>1, <4>1, <4>3
      <4>5. w[i] = y[i] /\ y[i] \in Nat /\ y[j] \in Nat /\ y[at] \in Nat
        BY <1>5, <1>7, <4>1, <4>2, <4>3
      <4>6. QED
        BY <4>2, <4>4, <4>5
    <3>3. QED
      BY <3>1, <3>2
  <2>5. QED
    BY <2>2, <2>3, <2>4
<1>10. QED
  BY <1>3, <1>8, <1>9 DEF HasSelected, w, m

Human(c, r) == r.at - c.begin + 1
SelectBranch(f, c, r) ==
    LET human == r.at - c.begin + 1 IN
    IF c.k = human THEN {r}
    ELSE IF c.k < human THEN f[Search(r.a, c.begin, r.at - 1, c.k)]
    ELSE f[Search(r.a, r.at + 1, c.end, c.k - human)]
SelectBody(f, c) ==
    IF c.begin = c.end THEN {[a |-> c.a, at |-> c.begin]}
    ELSE UNION {SelectBranch(f, c, r) : r \in Partition(c.a, c.begin, c.end)}

AllSelected(n, c, R) == \A r \in R : HasSelected(n, c.a, c.begin, c.end, c.k, r)

\* The calls for the two parts of a partition are smaller than the call for the whole.
LEMMA BranchCalls ==
    ASSUME NEW n \in Nat, NEW c \in SelectCalls(n), NEW r \in Partition(c.a, c.begin, c.end)
    PROVE  /\ c.begin < c.end /\ c.end \in Nat /\ c.begin \in Nat /\ c.end <= n - 1
           /\ HasPartitioned(n, c.a, c.begin, c.end, r)
           /\ r.a \in [0 .. n - 1 -> Values] /\ r.at \in c.begin .. c.end
           /\ Search(r.a, c.begin, r.at - 1, c.k) \in SelectCalls(n)
           /\ Size(Search(r.a, c.begin, r.at - 1, c.k)) < Size(c)
           /\ c.k > Human(c, r) =>
                 /\ Search(r.a, r.at + 1, c.end, c.k - Human(c, r)) \in SelectCalls(n)
                 /\ Size(Search(r.a, r.at + 1, c.end, c.k - Human(c, r))) < Size(c)
<1> DEFINE y == c.a
           begin == c.begin
           end == c.end
           k == c.k
           at == r.at
           x == r.a
<1>1. y \in [0 .. n - 1 -> Values] /\ begin \in Nat /\ begin <= n /\ end \in Int /\ end <= n - 1 /\ k \in 1 .. n
      /\ Size(c) = IF begin <= end THEN end - begin + 1 ELSE 0
  BY SearchFacts DEF Size
<1>2. r \in Partition(y, begin, end)
  OBVIOUS
<1>h. Human(c, r) = at - begin + 1
  BY DEF Human
<1> DEFINE human == Human(c, r)
<1> HIDE DEF y, begin, end, k, human
<1>3. begin < end /\ HasPartitioned(n, y, begin, end, r)
  BY <1>1, <1>2, Partitioning
<1>4. x \in [0 .. n - 1 -> Values] /\ at \in begin .. end
  BY <1>3 DEF HasPartitioned
<1> HIDE DEF at, x
<1>5. Search(x, begin, at - 1, k) \in SelectCalls(n) /\ Size(Search(x, begin, at - 1, k)) < Size(c)
  <2> DEFINE hi == at - 1
  <2>1. begin \in 0 .. n /\ hi \in -1 .. n - 1 /\ hi \in Int /\ hi < end
    BY <1>1, <1>3, <1>4
  <2> HIDE DEF hi
  <2>2. /\ Search(x, begin, hi, k) \in SelectCalls(n)
        /\ Size(Search(x, begin, hi, k)) = IF begin <= hi THEN hi - begin + 1 ELSE 0
    BY <1>1, <1>4, <2>1, SearchIs
  <2>3. Size(Search(x, begin, hi, k)) < Size(c)
    BY <1>1, <1>3, <2>1, <2>2
  <2>4. QED
    BY <2>2, <2>3 DEF hi
<1>6. ASSUME k > human
      PROVE  Search(x, at + 1, end, k - human) \in SelectCalls(n) /\ Size(Search(x, at + 1, end, k - human)) < Size(c)
  <2> DEFINE lo == at + 1
             rest == k - human
  <2>0. human = at - begin + 1
    BY <1>h DEF human
  <2>1. lo \in 0 .. n /\ end \in -1 .. n - 1 /\ lo \in Int /\ begin < lo
    BY <1>1, <1>3, <1>4
  <2>2. rest \in 1 .. n
    BY <1>1, <1>4, <1>6, <2>0
  <2> HIDE DEF lo, rest
  <2>3. /\ Search(x, lo, end, rest) \in SelectCalls(n)
        /\ Size(Search(x, lo, end, rest)) = IF lo <= end THEN end - lo + 1 ELSE 0
    BY <1>4, <2>1, <2>2, SearchIs
  <2>4. Size(Search(x, lo, end, rest)) < Size(c)
    BY <1>1, <1>3, <2>1, <2>3
  <2>5. QED
    BY <2>3, <2>4 DEF lo, rest
<1>7. end \in Nat
  BY <1>1, <1>3
<1>8. QED
  BY <1>1, <1>3, <1>4, <1>5, <1>6, <1>7 DEF y, begin, end, k, at, x, human

LEMMA SelectCall ==
    ASSUME NEW n \in Nat, NEW f, NEW c \in SelectCalls(n),
           \A d \in SelectCalls(n) : Size(d) < Size(c) => AllSelected(n, d, f[d])
    PROVE  AllSelected(n, c, SelectBody(f, c))
<1>1. c.a \in [0 .. n - 1 -> Values] /\ c.begin \in Nat /\ c.begin <= n /\ c.end \in Int /\ c.end <= n - 1 /\ c.k \in 1 .. n
  BY SearchFacts
<1>2. CASE c.begin = c.end
  <2> DEFINE r == [a |-> c.a, at |-> c.begin]
  <2>1. SelectBody(f, c) = {r}
    BY <1>2 DEF SelectBody
  <2>2. HasSelected(n, c.a, c.begin, c.end, c.k, r)
    <3>1. r \in Found(n) /\ r.a = c.a /\ r.at = c.begin
      BY <1>1, <1>2 DEF Found
    <3>2. Rearranged(c.a, r.a, n, c.begin, c.end)
      BY <1>1, <3>1, RearrangedSame
    <3>3. c.k <= c.end - c.begin + 1 => r.at = c.begin + c.k - 1
      BY <1>1, <1>2, <3>1
    <3>4. r.a[r.at] \in Nat
      BY <3>1, FoundFacts
    <3>5. \A i : i \in c.begin .. r.at \/ i \in r.at .. c.end => i = r.at
      BY <1>1, <1>2, <3>1
    <3> HIDE DEF r
    <3>6. QED
      BY <3>1, <3>2, <3>3, <3>4, <3>5 DEF HasSelected
  <2>3. QED
    BY <2>1, <2>2 DEF AllSelected
<1>3. CASE c.begin # c.end
  <2>1. SUFFICES ASSUME NEW z \in SelectBody(f, c) PROVE HasSelected(n, c.a, c.begin, c.end, c.k, z)
    BY DEF AllSelected
  <2>2. PICK r \in Partition(c.a, c.begin, c.end) : z \in SelectBranch(f, c, r)
    BY <1>3 DEF SelectBody
  <2> DEFINE begin == c.begin
             end == c.end
             k == c.k
             human == Human(c, r)
  <2>3. /\ begin \in Nat /\ end \in Nat /\ begin < end /\ end <= n - 1 /\ HasPartitioned(n, c.a, begin, end, r)
        /\ r.at \in begin .. end /\ k \in 1 .. n /\ human = r.at - begin + 1
    BY <1>1, BranchCalls DEF Human
  <2>4. CASE k = human
    <3>1. z = r
      BY <2>2, <2>4 DEF SelectBranch, Human
    <3>2. HasSelected(n, c.a, begin, end, r.at - begin + 1, r)
      <4> HIDE DEF begin, end, k, human
      <4>1. QED
        BY <2>3, SelectsPivot
    <3>3. QED
      BY <2>3, <2>4, <3>1, <3>2
  <2>5. CASE k < human
    <3> DEFINE d == Search(r.a, begin, r.at - 1, k)
    <3>1. z \in f[d]
      BY <1>1, <2>2, <2>3, <2>5 DEF SelectBranch, Human
    <3>2. d \in SelectCalls(n) /\ Size(d) < Size(c)
      BY BranchCalls
    <3>3. d.a = r.a /\ d.begin = begin /\ d.end = r.at - 1 /\ d.k = k
      BY DEF Search
    <3> HIDE DEF d
    <3>4. AllSelected(n, d, f[d])
      BY <3>2
    <3> HIDE DEF begin, end, k, human
    <3>5. HasSelected(n, r.a, begin, r.at - 1, k, z)
      BY <3>1, <3>3, <3>4 DEF AllSelected
    <3>6. k < r.at - begin + 1
      BY <2>3, <2>5
    <3>7. HasSelected(n, c.a, begin, end, k, z)
      BY <2>3, <3>5, <3>6, SelectsBefore
    <3>8. QED
      BY <3>7 DEF begin, end, k
  <2>6. CASE k > human
    <3> DEFINE d == Search(r.a, r.at + 1, end, k - human)
    <3>1. z \in f[d]
      BY <1>1, <2>2, <2>3, <2>6 DEF SelectBranch, Human
    <3>2. d \in SelectCalls(n) /\ Size(d) < Size(c)
      BY <2>6, BranchCalls
    <3>3. d.a = r.a /\ d.begin = r.at + 1 /\ d.end = end /\ d.k = k - human
      BY DEF Search
    <3> HIDE DEF d
    <3>4. AllSelected(n, d, f[d])
      BY <3>2
    <3> HIDE DEF begin, end, k, human
    <3>5. HasSelected(n, r.a, r.at + 1, end, k - (r.at - begin + 1), z)
      BY <2>3, <3>1, <3>3, <3>4 DEF AllSelected
    <3>6. k > r.at - begin + 1
      BY <2>3, <2>6
    <3>7. HasSelected(n, c.a, begin, end, k, z)
      BY <2>3, <3>5, <3>6, SelectsBehind
    <3>8. QED
      BY <3>7 DEF begin, end, k
  <2>7. QED
    BY <2>3, <2>4, <2>5, <2>6
<1>4. QED
  BY <1>2, <1>3

LEMMA SelectLocal ==
    ASSUME NEW n \in Nat, NEW f, NEW g, NEW c \in SelectCalls(n),
           \A d \in SelectCalls(n) : Size(d) < Size(c) => f[d] = g[d]
    PROVE  SelectBody(f, c) = SelectBody(g, c)
<1>1. ASSUME NEW r \in Partition(c.a, c.begin, c.end)
      PROVE  SelectBranch(f, c, r) = SelectBranch(g, c, r)
  <2>1. c.begin \in Nat /\ c.k \in Nat /\ r.at \in c.begin .. c.end /\ Human(c, r) = r.at - c.begin + 1 /\ c.end \in Nat
    BY SearchFacts, BranchCalls DEF Human
  <2>2. CASE c.k = Human(c, r)
    BY <2>2 DEF SelectBranch, Human
  <2>3. CASE c.k < Human(c, r)
    <3>1. f[Search(r.a, c.begin, r.at - 1, c.k)] = g[Search(r.a, c.begin, r.at - 1, c.k)]
      BY BranchCalls
    <3>2. c.k < r.at - c.begin + 1 /\ c.k # r.at - c.begin + 1
      BY <2>1, <2>3
    <3>3. QED
      BY <3>1, <3>2 DEF SelectBranch
  <2>4. CASE c.k > Human(c, r)
    <3>1. f[Search(r.a, r.at + 1, c.end, c.k - Human(c, r))] = g[Search(r.a, r.at + 1, c.end, c.k - Human(c, r))]
      BY <2>4, BranchCalls
    <3>2. ~(c.k < Human(c, r)) /\ c.k # Human(c, r)
      BY <2>1, <2>4
    <3>3. QED
      BY <3>1, <3>2 DEF SelectBranch, Human
  <2>5. QED
    BY <2>1, <2>2, <2>3, <2>4
<1>2. QED
  BY <1>1 DEF SelectBody

SearchSizes(n) == [c \in SelectCalls(n) |-> Size(c)]

LEMMA SearchSizesAre ==
    ASSUME NEW n \in Nat
    PROVE  SearchSizes(n) \in Measures(SelectCalls(n), n) /\ \A c \in SelectCalls(n) : SearchSizes(n)[c] = Size(c)
<1>1. \A c \in SelectCalls(n) : Size(c) \in 0 .. n
  BY SearchFacts
<1>2. QED
  BY <1>1 DEF SearchSizes, Measures

LEMMA SelectCallsAll ==
    ASSUME NEW n \in Nat, NEW f,
           \A c \in SelectCalls(n) : SelectBody(f, c) \in SUBSET Found(n) => f[c] = SelectBody(f, c)
    PROVE  \A c \in SelectCalls(n) : f[c] = SelectBody(f, c) /\ AllSelected(n, c, f[c])
<1> DEFINE S == SelectCalls(n)
           P == {c \in S : AllSelected(n, c, f[c])}
           size == SearchSizes(n)
<1>1. size \in Measures(S, n) /\ \A c \in S : size[c] = Size(c)
  BY SearchSizesAre
<1>2. ASSUME NEW c \in S, \A d \in S : Size(d) < Size(c) => AllSelected(n, d, f[d])
      PROVE  f[c] = SelectBody(f, c) /\ AllSelected(n, c, f[c])
  <2>1. AllSelected(n, c, SelectBody(f, c))
    BY <1>2, SelectCall
  <2>2. SelectBody(f, c) \in SUBSET Found(n)
    BY <2>1 DEF AllSelected, HasSelected
  <2>3. QED
    BY <2>1, <2>2
<1>3. \A c \in S : (\A d \in S : size[d] < size[c] => d \in P) => c \in P
  <2> SUFFICES ASSUME NEW c \in S, \A d \in S : size[d] < size[c] => d \in P PROVE c \in P
    OBVIOUS
  <2>1. \A d \in S : Size(d) < Size(c) => AllSelected(n, d, f[d])
    <3> HIDE DEF S, size
    <3>1. QED
      BY <1>1
  <2>2. AllSelected(n, c, f[c])
    BY <1>2, <2>1
  <2>3. QED
    BY <2>2
<1>4. S = P
  <2>1. P \in SUBSET S
    OBVIOUS
  <2> HIDE DEF S, P, size
  <2>2. QED
    BY <1>1, <1>3, <2>1, SizeInduction
<1>5. \A c \in S : AllSelected(n, c, f[c])
  BY <1>4
<1>6. QED
  <2> HIDE DEF P, size
  <2>1. QED
    BY <1>2, <1>5

LEMMA Selects ==
    ASSUME NEW n \in Nat, NEW a \in [0 .. n - 1 -> Values], NEW k \in 1 .. n
    PROVE  \A r \in RandomSelect(a, k) : HasSelected(n, a, 0, n - 1, k, r)
<1> DEFINE S == SelectCalls(n)
           A == SUBSET Found(n)
           size == SearchSizes(n)
           F == [x \in [S -> A] \X S |-> IF SelectBody(x[1], x[2]) \in A THEN SelectBody(x[1], x[2]) ELSE {}]
           G(g) == [c \in S |->
                      IF c.begin = c.end THEN {[a |-> c.a, at |-> c.begin]}
                      ELSE UNION {LET human == r.at - c.begin + 1 IN
                                  IF c.k = human THEN {r}
                                  ELSE IF c.k < human THEN g[Search(r.a, c.begin, r.at - 1, c.k)]
                                  ELSE g[Search(r.a, r.at + 1, c.end, c.k - human)] :
                                      r \in Partition(c.a, c.begin, c.end)}]
           select == CHOOSE g : g = G(g)
<1>1. RandomSelect(a, k) = select[Search(a, 0, n - 1, k)]
  BY SearchesAre, LengthIs DEF RandomSelect
<1>2. size \in Measures(S, n) /\ \A c \in S : size[c] = Size(c)
  BY SearchSizesAre
<1>3. F \in [[S -> A] \X S -> A]
  <2>1. {} \in A
    OBVIOUS
  <2> HIDE DEF S, A
  <2>2. QED
    BY <2>1
<1>4. \A f \in [S -> A] : \A c \in S : F[<<f, c>>] = IF SelectBody(f, c) \in A THEN SelectBody(f, c) ELSE {}
  <2> HIDE DEF S, A
  <2>1. QED
    OBVIOUS
<1> HIDE DEF F
<1>5. \A f, g \in [S -> A] : \A c \in S :
         (\A d \in S : size[d] < size[c] => f[d] = g[d]) => F[<<f, c>>] = F[<<g, c>>]
  <2> SUFFICES ASSUME NEW f \in [S -> A], NEW g \in [S -> A], NEW c \in S, \A d \in S : size[d] < size[c] => f[d] = g[d]
      PROVE  F[<<f, c>>] = F[<<g, c>>]
    OBVIOUS
  <2>1. \A d \in S : Size(d) < Size(c) => f[d] = g[d]
    <3> HIDE DEF S, size
    <3>1. QED
      BY <1>2
  <2>2. SelectBody(f, c) = SelectBody(g, c)
    BY <2>1, SelectLocal
  <2> HIDE DEF S, A
  <2>3. QED
    BY <1>4, <2>2
<1>6. PICK f \in [S -> A] : \A c \in S : f[c] = F[<<f, c>>]
  <2>1. A # {}
    OBVIOUS
  <2> HIDE DEF S, A, size, select
  <2>2. DependsOnSmaller(S, A, size, F)
    BY <1>3, <1>5 DEF DependsOnSmaller
  <2>3. HasSolution(S, A, F)
    BY <1>2, <2>1, <2>2, Recursion
  <2>4. QED
    BY <2>3 DEF HasSolution
<1>7. \A c \in S : f[c] = SelectBody(f, c)
  <2>1. \A c \in S : SelectBody(f, c) \in A => f[c] = SelectBody(f, c)
    <3> HIDE DEF S, A
    <3>1. QED
      BY <1>4, <1>6
  <2>2. QED
    BY <2>1, SelectCallsAll
<1>8. f = G(f)
  <2> HIDE DEF S, A
  <2>1. f = [c \in S |-> SelectBody(f, c)]
    BY <1>7
  <2>2. QED
    BY <2>1 DEF SelectBody, SelectBranch
<1>9. select = G(select)
  <2> HIDE DEF G
  <2>1. QED
    BY <1>8
<1> HIDE DEF select
<1>10. \A c \in S : select[c] = SelectBody(select, c)
  <2> HIDE DEF S
  <2>1. QED
    BY <1>9 DEF SelectBody, SelectBranch
<1>11. \A c \in S : AllSelected(n, c, select[c])
  BY <1>10, SelectCallsAll
<1>12. /\ Search(a, 0, n - 1, k) \in S
       /\ Search(a, 0, n - 1, k).a = a /\ Search(a, 0, n - 1, k).begin = 0
       /\ Search(a, 0, n - 1, k).end = n - 1 /\ Search(a, 0, n - 1, k).k = k
  <2>1. 0 \in 0 .. n /\ n - 1 \in -1 .. n - 1
    OBVIOUS
  <2>2. QED
    BY <2>1, SearchIs
<1>13. QED
  <2> HIDE DEF S
  <2>1. QED
    BY <1>1, <1>11, <1>12 DEF AllSelected

\* Nothing before the k-th is above it and nothing behind it below: so fewer than k are below it.
LEMMA SelectedRank ==
    ASSUME NEW n \in Nat, NEW a \in [0 .. n - 1 -> Values], NEW k \in 1 .. n, NEW r,
           HasSelected(n, a, 0, n - 1, k, r)
    PROVE  /\ Rearranged(a, r.a, n, 0, n - 1) /\ r.a \in [0 .. n - 1 -> Values]
           /\ Cardinality({i \in 0 .. n - 1 : a[i] < r.a[r.at]}) < k
           /\ Cardinality({i \in 0 .. n - 1 : a[i] <= r.a[r.at]}) >= k
<1> DEFINE y == r.a
           v == y[r.at]
           W == {w \in Nat : w < v}
           U == {w \in Nat : w <= v}
<1>1. /\ r \in Found(n) /\ Rearranged(a, y, n, 0, n - 1) /\ r.at = k - 1
      /\ \A i \in 0 .. k - 1 : y[i] <= v
      /\ \A i \in k - 1 .. n - 1 : v <= y[i]
  BY DEF HasSelected
<1>2. y \in [0 .. n - 1 -> Values] /\ r.at \in 0 .. n - 1 /\ \A i \in 0 .. n - 1 : y[i] \in Nat
  BY <1>1, FoundFacts
<1>3. v \in Nat /\ \A i \in 0 .. n - 1 : a[i] \in Nat
  BY <1>2, ValuesAssumption
<1> HIDE DEF v
<1>4. Among(n, a, W) = {i \in 0 .. n - 1 : a[i] < v} /\ Among(n, a, U) = {i \in 0 .. n - 1 : a[i] <= v}
  BY <1>3 DEF Among
<1>5. Cardinality(Among(n, a, W)) = Cardinality(Among(n, y, W)) /\ Cardinality(Among(n, a, U)) = Cardinality(Among(n, y, U))
  <2> HIDE DEF W, U
  <2>1. QED
    BY <1>1, RearrangedCounts
<1>6. Among(n, y, W) \subseteq 0 .. k - 2
  <2> SUFFICES ASSUME NEW i \in 0 .. n - 1, y[i] < v PROVE i \in 0 .. k - 2
    BY DEF Among
  <2>1. ~(i \in k - 1 .. n - 1)
    BY <1>1, <1>2, <1>3
  <2>2. QED
    BY <2>1
<1>7. 0 .. k - 1 \subseteq Among(n, y, U)
  BY <1>1, <1>2 DEF Among
<1>8. Among(n, y, U) \subseteq 0 .. n - 1
  BY DEF Among
<1> HIDE DEF W, U
<1>9. IsFiniteSet(0 .. n - 1) /\ IsFiniteSet(0 .. k - 2) /\ Cardinality(0 .. k - 2) = k - 1 /\ Cardinality(0 .. k - 1) = k
  <2>1. 0 \in Int /\ n - 1 \in Int /\ k - 1 \in Int /\ k - 2 \in Int
    OBVIOUS
  <2>2. IsFiniteSet(0 .. n - 1) /\ IsFiniteSet(0 .. k - 2)
    BY <2>1, FS_Interval
  <2>3. Cardinality(0 .. k - 2) = IF 0 > k - 2 THEN 0 ELSE (k - 2) - 0 + 1
    BY <2>1, FS_Interval
  <2>4. Cardinality(0 .. k - 1) = IF 0 > k - 1 THEN 0 ELSE (k - 1) - 0 + 1
    BY <2>1, FS_Interval
  <2>5. QED
    BY <2>2, <2>3, <2>4
<1>10. Cardinality(Among(n, y, W)) <= k - 1 /\ Cardinality(Among(n, y, W)) \in Nat
  <2> DEFINE X == Among(n, y, W)
             Y == 0 .. k - 2
  <2>1. X \subseteq Y /\ IsFiniteSet(Y) /\ Cardinality(Y) = k - 1
    BY <1>6, <1>9
  <2> HIDE DEF X, Y
  <2>2. IsFiniteSet(X) /\ Cardinality(X) <= Cardinality(Y)
    BY <2>1, FS_Subset
  <2>3. Cardinality(X) \in Nat
    BY <2>2, FS_CardinalityType
  <2>4. QED
    BY <2>1, <2>2, <2>3 DEF X
<1>11. k <= Cardinality(Among(n, y, U)) /\ Cardinality(Among(n, y, U)) \in Nat
  <2> DEFINE X == Among(n, y, U)
             Y == 0 .. k - 1
             D == 0 .. n - 1
  <2>1. Y \subseteq X /\ X \subseteq D /\ IsFiniteSet(D) /\ Cardinality(Y) = k
    BY <1>7, <1>8, <1>9
  <2> HIDE DEF X, Y, D
  <2>2. IsFiniteSet(X)
    BY <2>1, FS_Subset
  <2>3. Cardinality(Y) <= Cardinality(X) /\ Cardinality(X) \in Nat
    BY <2>1, <2>2, FS_Subset, FS_CardinalityType
  <2>4. QED
    BY <2>1, <2>3 DEF X
<1>12. Cardinality({i \in 0 .. n - 1 : a[i] < v}) < k
  BY <1>4, <1>5, <1>10
<1>13. Cardinality({i \in 0 .. n - 1 : a[i] <= v}) >= k
  BY <1>4, <1>5, <1>11
<1>14. QED
  BY <1>1, <1>2, <1>12, <1>13 DEF v

-----------------------------------------------------------------------------
(* radix_sort: a turn orders the elements by one digit and leaves those    *)
(* with the same digit in the order they were in.                          *)

\* Division, for a divisor that is not a numeral.
LEMMA Divided ==
    ASSUME NEW m \in Nat \ {0}, NEW x \in Nat
    PROVE  /\ x \div m \in Nat /\ x % m \in Nat
           /\ x % m < m
           /\ x = m * (x \div m) + (x % m)
<1>1. m \in Int /\ m > 0 /\ x \in Int /\ x >= 0
  OBVIOUS
<1>2. x % m \in 0 .. m - 1 /\ x \div m \in Int /\ x = m * (x \div m) + (x % m)
  BY <1>1
<1>3. x \div m >= 0
  <2> DEFINE q == x \div m
  <2>1. q \in Int /\ x = m * q + (x % m) /\ x % m < m
    BY <1>2
  <2> HIDE DEF q
  <2>2. SUFFICES ASSUME q <= -1 PROVE FALSE
    BY <2>1 DEF q
  <2>3. m * q <= m * (-1)
    BY <1>1, <2>1, <2>2
  <2>4. QED
    BY <1>1, <1>2, <2>1, <2>3
<1>4. QED
  BY <1>2, <1>3

LEMMA Multiples ==
    ASSUME NEW m \in Nat, NEW p \in Int, NEW q \in Int, p < q
    PROVE  m * p + m <= m * q
<1>1. m * q = m * p + m * (q - p)
  OBVIOUS
<1>2. m * (q - p) >= m
  <2> DEFINE d == q - p - 1
  <2>1. d \in Nat /\ q - p = d + 1
    OBVIOUS
  <2> HIDE DEF d
  <2>2. m * (d + 1) = m * d + m
    BY <2>1
  <2>3. m * d \in Nat
    BY <2>1
  <2>4. QED
    BY <2>1, <2>2, <2>3
<1>3. QED
  BY <1>1, <1>2

LEMMA RemainderIs ==
    ASSUME NEW m \in Nat \ {0}, NEW x \in Nat, NEW q \in Int, NEW r \in 0 .. m - 1, x = m * q + r
    PROVE  x % m = r
<1> DEFINE p == x \div m
           u == x % m
<1>1. p \in Int /\ u \in 0 .. m - 1 /\ x = m * p + u
  BY Divided
<1> HIDE DEF p, u
<1>2. m * p \in Int /\ m * q \in Int
  BY <1>1
<1>3. ~(p < q)
  <2>1. SUFFICES ASSUME p < q PROVE FALSE
    OBVIOUS
  <2>2. m * p + m <= m * q
    BY <1>1, <2>1, Multiples
  <2>3. QED
    BY <1>1, <1>2, <2>2
<1>4. ~(q < p)
  <2>1. SUFFICES ASSUME q < p PROVE FALSE
    OBVIOUS
  <2>2. m * q + m <= m * p
    BY <1>1, <2>1, Multiples
  <2>3. QED
    BY <1>1, <1>2, <2>2
<1>5. p = q
  BY <1>1, <1>3, <1>4
<1>6. u = r
  BY <1>1, <1>2, <1>5
<1>7. QED
  BY <1>6 DEF u

\* The last digits of a number are those of its digit at w and the ones below.
LEMMA DigitsAre ==
    ASSUME NEW w \in Nat \ {0}, NEW x \in Nat
    PROVE  /\ (x \div w) % RADIX \in 0 .. RADIX - 1 /\ x % w \in 0 .. w - 1
           /\ x % (RADIX * w) = w * ((x \div w) % RADIX) + (x % w)
<1> DEFINE q == x \div w
           r == x % w
           p == q \div RADIX
           d == q % RADIX
           m == RADIX * w
<1>1. q \in Nat /\ r \in Nat /\ r < w /\ x = w * q + r
  BY Divided
<1>2. p \in Nat /\ d \in Nat /\ d < RADIX /\ q = RADIX * p + d
  <2> HIDE DEF q
  <2>1. QED
    BY <1>1, RadixAssumption, Divided
<1> HIDE DEF q, r, p, d
<1>3. m \in Nat \ {0}
  BY RadixAssumption
<1>4. x = m * p + (w * d + r)
  <2>1. w * q = w * (RADIX * p) + w * d
    BY <1>2, RadixAssumption
  <2>2. w * (RADIX * p) = m * p
    BY <1>2, RadixAssumption
  <2>3. w * (RADIX * p) \in Int /\ w * d \in Int
    BY <1>2, RadixAssumption
  <2>4. QED
    BY <1>1, <2>1, <2>2, <2>3
<1>5. w * d + r \in 0 .. m - 1
  <2>1. w * d + w <= w * RADIX
    BY <1>2, Multiples, RadixAssumption
  <2>2. w * RADIX = m /\ w * d \in Nat
    BY <1>2, RadixAssumption
  <2>3. QED
    BY <1>1, <1>3, <2>1, <2>2
<1> HIDE DEF m
<1>6. x % m = w * d + r
  <2> DEFINE t == w * d + r
  <2>1. t \in 0 .. m - 1 /\ x = m * p + t
    BY <1>4, <1>5
  <2> HIDE DEF t
  <2>2. x % m = t
    BY <1>2, <1>3, <2>1, RemainderIs
  <2>3. QED
    BY <2>2 DEF t
<1>7. QED
  <2>1. d \in 0 .. RADIX - 1 /\ r \in 0 .. w - 1
    BY <1>1, <1>2, RadixAssumption
  <2>2. x % m = w * d + r
    BY <1>6
  <2>3. d = (x \div w) % RADIX /\ r = x % w /\ m = RADIX * w
    BY DEF d, r, m, q
  <2> HIDE DEF m
  <2>4. QED
    BY <2>1, <2>2, <2>3

\* The next digit decides, and between equal ones the digits below it.
LEMMA DigitDecides ==
    ASSUME NEW w \in Nat \ {0}, NEW x \in Nat, NEW y \in Nat,
           \/ (x \div w) % RADIX < (y \div w) % RADIX
           \/ (x \div w) % RADIX = (y \div w) % RADIX /\ x % w <= y % w
    PROVE  x % (RADIX * w) <= y % (RADIX * w)
<1> DEFINE d == (x \div w) % RADIX
           e == (y \div w) % RADIX
           r == x % w
           u == y % w
<1>1. d \in Nat /\ r \in 0 .. w - 1 /\ x % (RADIX * w) = w * d + r
  <2>1. d \in 0 .. RADIX - 1 /\ r \in 0 .. w - 1
    BY DigitsAre
  <2>2. x % (RADIX * w) = w * d + r
    BY DigitsAre
  <2>3. d \in Nat
    <3> HIDE DEF d
    <3>1. QED
      BY <2>1, RadixAssumption
  <2>4. QED
    BY <2>1, <2>2, <2>3
<1>2. e \in Nat /\ u \in 0 .. w - 1 /\ y % (RADIX * w) = w * e + u
  <2>1. e \in 0 .. RADIX - 1 /\ u \in 0 .. w - 1
    BY DigitsAre
  <2>2. y % (RADIX * w) = w * e + u
    BY DigitsAre
  <2>3. e \in Nat
    <3> HIDE DEF e
    <3>1. QED
      BY <2>1, RadixAssumption
  <2>4. QED
    BY <2>1, <2>2, <2>3
<1>3. d < e \/ (d = e /\ r <= u)
  OBVIOUS
<1> HIDE DEF d, e, r, u
<1>4. w * d \in Int /\ w * e \in Int
  BY <1>1, <1>2
<1>5. CASE d < e
  <2>1. w * d + w <= w * e
    BY <1>1, <1>2, <1>5, Multiples
  <2>2. QED
    BY <1>1, <1>2, <1>4, <2>1
<1>6. CASE d = e /\ r <= u
  BY <1>1, <1>2, <1>4, <1>6
<1>7. QED
  BY <1>3, <1>5, <1>6

LEMMA Weights ==
    /\ \A b \in 0 .. 4 : Weight[b] \in Nat \ {0}
    /\ Weight[0] = 1
    /\ \A b \in 0 .. 3 : Weight[b + 1] = RADIX * Weight[b]
<1> DEFINE G(g) == [byte \in 0 .. 4 |-> IF byte = 0 THEN 1 ELSE RADIX * g[byte - 1]]
           w2 == RADIX * RADIX
           w3 == RADIX * w2
           w4 == RADIX * w3
           f == [b \in 0 .. 4 |-> IF b = 0 THEN 1 ELSE IF b = 1 THEN RADIX ELSE IF b = 2 THEN w2 ELSE IF b = 3 THEN w3 ELSE w4]
<1>1. Weight = CHOOSE g : g = G(g)
  BY DEF Weight
<1>2. f = G(f)
  <2>1. RADIX \in Nat /\ RADIX * 1 = RADIX
    BY RadixAssumption
  <2> HIDE DEF w2, w3, w4
  <2>2. f[0] = 1 /\ f[1] = RADIX /\ f[2] = w2 /\ f[3] = w3 /\ f[4] = w4
    OBVIOUS
  <2>3. \A b \in 0 .. 4 : b = 0 \/ b = 1 \/ b = 2 \/ b = 3 \/ b = 4
    OBVIOUS
  <2>4. G(f)[0] = 1 /\ G(f)[1] = RADIX * f[0] /\ G(f)[2] = RADIX * f[1] /\ G(f)[3] = RADIX * f[2] /\ G(f)[4] = RADIX * f[3]
    OBVIOUS
  <2>5. \A b \in 0 .. 4 : f[b] = G(f)[b]
    <3> HIDE DEF f, G
    <3>1. QED
      BY <2>1, <2>2, <2>3, <2>4 DEF w2, w3, w4
  <2>6. DOMAIN f = 0 .. 4 /\ f = [b \in 0 .. 4 |-> f[b]]
    OBVIOUS
  <2>7. G(f) = [b \in 0 .. 4 |-> G(f)[b]]
    OBVIOUS
  <2> HIDE DEF f, G
  <2>8. QED
    BY <2>5, <2>6, <2>7
<1>3. Weight = G(Weight)
  <2> HIDE DEF G, f
  <2>1. QED
    BY <1>1, <1>2
<1>4. Weight[0] = 1 /\ \A b \in 0 .. 3 : Weight[b + 1] = RADIX * Weight[b]
  <2>1. \A b \in 0 .. 4 : Weight[b] = IF b = 0 THEN 1 ELSE RADIX * Weight[b - 1]
    BY <1>3
  <2>2. \A b \in 0 .. 3 : b + 1 \in 0 .. 4 /\ b + 1 # 0 /\ (b + 1) - 1 = b
    OBVIOUS
  <2>3. QED
    BY <2>1, <2>2
<1>5. \A x \in Nat \ {0} : RADIX * x \in Nat \ {0}
  BY RadixAssumption
<1>6. Weight[0] \in Nat \ {0} /\ Weight[1] \in Nat \ {0} /\ Weight[2] \in Nat \ {0} /\ Weight[3] \in Nat \ {0} /\ Weight[4] \in Nat \ {0}
  <2>0. Weight[1] = RADIX * Weight[0] /\ Weight[2] = RADIX * Weight[1] /\ Weight[3] = RADIX * Weight[2] /\ Weight[4] = RADIX * Weight[3]
    BY <1>4
  <2>1. Weight[0] \in Nat \ {0}
    BY <1>4
  <2>2. Weight[1] \in Nat \ {0}
    BY <1>5, <2>0, <2>1
  <2>3. Weight[2] \in Nat \ {0}
    BY <1>5, <2>0, <2>2
  <2>4. Weight[3] \in Nat \ {0}
    BY <1>5, <2>0, <2>3
  <2>5. QED
    BY <1>5, <2>0, <2>1, <2>2, <2>3, <2>4
<1>7. \A b \in 0 .. 4 : b = 0 \/ b = 1 \/ b = 2 \/ b = 3 \/ b = 4
  OBVIOUS
<1>8. \A b \in 0 .. 4 : Weight[b] \in Nat \ {0}
  BY <1>6, <1>7
<1>9. QED
  BY <1>4, <1>8

\* The elements whose digit is lower, and those before i with the same digit.
Lower(n, d, i) == {j \in 0 .. n - 1 : d[j] < d[i]}
Alike(d, i) == {j \in 0 .. i - 1 : d[j] = d[i]}
Earlier(n, d, i) == {j \in 0 .. n - 1 : d[j] < d[i] \/ (d[j] = d[i] /\ j < i)}
Rank(n, d, i) == Cardinality(Lower(n, d, i)) + Cardinality(Alike(d, i))

LEMMA RankCounts ==
    ASSUME NEW n \in Nat, NEW d \in [0 .. n - 1 -> Nat], NEW i \in 0 .. n - 1
    PROVE  Rank(n, d, i) = Cardinality(Earlier(n, d, i)) /\ IsFiniteSet(Earlier(n, d, i))
<1> DEFINE D == 0 .. n - 1
           S == Lower(n, d, i)
           T == Alike(d, i)
<1>1. IsFiniteSet(D)
  <2>1. 0 \in Int /\ n - 1 \in Int
    OBVIOUS
  <2>2. QED
    BY <2>1, FS_Interval
<1>2. S \subseteq D /\ T \subseteq D
  BY DEF Lower, Alike
<1>3. S \cap T = {}
  BY DEF Lower, Alike
<1>4. S \cup T = Earlier(n, d, i)
  BY DEF Lower, Alike, Earlier
<1>5. Rank(n, d, i) = Cardinality(S) + Cardinality(T)
  BY DEF Rank
<1> HIDE DEF D, S, T
<1>6. IsFiniteSet(S) /\ IsFiniteSet(T)
  BY <1>1, <1>2, FS_Subset
<1>7. IsFiniteSet(S \cup T) /\ Cardinality(S \cup T) = Cardinality(S) + Cardinality(T) - Cardinality(S \cap T)
  BY <1>6, FS_Union
<1>8. Cardinality(S \cap T) = 0 /\ Cardinality(S) \in Nat /\ Cardinality(T) \in Nat
  BY <1>3, <1>6, FS_EmptySet, FS_CardinalityType
<1>9. Cardinality(S \cup T) = Cardinality(S) + Cardinality(T)
  BY <1>7, <1>8
<1>10. Cardinality(Earlier(n, d, i)) = Cardinality(S) + Cardinality(T) /\ IsFiniteSet(Earlier(n, d, i))
  BY <1>4, <1>7, <1>9
<1>11. QED
  BY <1>5, <1>10

\* Of two elements the earlier one has the lower rank, and no rank is too large.
LEMMA RankGrows ==
    ASSUME NEW n \in Nat, NEW d \in [0 .. n - 1 -> Nat], NEW i \in 0 .. n - 1
    PROVE  /\ Rank(n, d, i) \in 0 .. n - 1
           /\ \A k \in 0 .. n - 1 : i \in Earlier(n, d, k) => Rank(n, d, i) < Rank(n, d, k)
<1> DEFINE E(k) == Earlier(n, d, k)
<1>1. \A k \in 0 .. n - 1 : Rank(n, d, k) = Cardinality(E(k)) /\ IsFiniteSet(E(k))
  BY RankCounts
<1>2. i \notin E(i)
  BY DEF Earlier
<1>3. ASSUME NEW k \in 0 .. n - 1, i \in E(k) PROVE E(i) \cup {i} \subseteq E(k)
  <2>1. \A j \in 0 .. n - 1 : d[j] \in Nat
    OBVIOUS
  <2>2. QED
    BY <1>3, <2>1 DEF Earlier
<1>4. E(i) \cup {i} \subseteq 0 .. n - 1
  BY DEF Earlier
<1> HIDE DEF E
<1>5. Cardinality(E(i) \cup {i}) = Cardinality(E(i)) + 1 /\ Cardinality(E(i)) \in Nat
  BY <1>1, <1>2, FS_AddElement, FS_CardinalityType
<1>6. ASSUME NEW S, IsFiniteSet(S), E(i) \cup {i} \subseteq S PROVE Cardinality(E(i)) + 1 <= Cardinality(S)
  <2> DEFINE T == E(i) \cup {i}
  <2>1. T \in SUBSET S
    BY <1>6
  <2>2. Cardinality(T) = Cardinality(E(i)) + 1
    BY <1>5
  <2> HIDE DEF T
  <2>3. Cardinality(T) <= Cardinality(S)
    BY <1>6, <2>1, FS_Subset
  <2>4. QED
    BY <2>2, <2>3
<1>7. IsFiniteSet(0 .. n - 1) /\ Cardinality(0 .. n - 1) = n
  <2>1. 0 \in Int /\ n - 1 \in Int
    OBVIOUS
  <2>2. IsFiniteSet(0 .. n - 1) /\ Cardinality(0 .. n - 1) = IF 0 > n - 1 THEN 0 ELSE (n - 1) - 0 + 1
    BY <2>1, FS_Interval
  <2>3. QED
    BY <2>2
<1>8. Cardinality(E(i)) + 1 <= n
  BY <1>4, <1>6, <1>7
<1>9. ASSUME NEW k \in 0 .. n - 1, i \in E(k) PROVE Rank(n, d, i) < Rank(n, d, k)
  <2>1. IsFiniteSet(E(k)) /\ Rank(n, d, k) = Cardinality(E(k)) /\ E(i) \cup {i} \subseteq E(k)
    BY <1>1, <1>3, <1>9
  <2>2. Cardinality(E(i)) + 1 <= Cardinality(E(k))
    BY <1>6, <2>1
  <2>3. Cardinality(E(k)) \in Nat
    BY <2>1, FS_CardinalityType
  <2>4. QED
    BY <1>1, <1>5, <2>1, <2>2, <2>3
<1>10. QED
  BY <1>1, <1>5, <1>8, <1>9 DEF E

\* So the ranks are the places of the elements in a stable order.
Places(n, d, q) ==
    /\ q \in Shifts(n, 0, n - 1)
    /\ \A p \in 0 .. n - 1 : q[p] = CHOOSE i \in 0 .. n - 1 : Rank(n, d, i) = p
    /\ \A p, l \in 0 .. n - 1 : p < l => d[q[p]] < d[q[l]] \/ (d[q[p]] = d[q[l]] /\ q[p] < q[l])

LEMMA RanksPlace ==
    ASSUME NEW n \in Nat, NEW d \in [0 .. n - 1 -> Nat]
    PROVE  \E q \in Shifts(n, 0, n - 1) : Places(n, d, q)
<1> DEFINE D == 0 .. n - 1
           rank == [i \in D |-> Rank(n, d, i)]
           q == [p \in D |-> CHOOSE i \in D : Rank(n, d, i) = p]
<1>1. rank \in [D -> D] /\ \A i \in D : rank[i] = Rank(n, d, i)
  BY RankGrows
<1>2. \A i, k \in D : i \in Earlier(n, d, k) => rank[i] < rank[k]
  BY RankGrows
<1>3. \A i, k \in D : i # k => i \in Earlier(n, d, k) \/ k \in Earlier(n, d, i)
  <2>1. \A i \in D : d[i] \in Nat
    OBVIOUS
  <2>2. QED
    BY <2>1 DEF Earlier
<1>4. \A p \in D : q[p] = CHOOSE i \in D : Rank(n, d, i) = p
  OBVIOUS
<1> HIDE DEF rank
<1>5. \A i, k \in D : rank[i] = rank[k] => i = k
  <2>1. \A i \in D : rank[i] \in Nat
    BY <1>1
  <2> HIDE DEF D
  <2>2. \A i, k \in D : ~(rank[i] < rank[k]) \/ rank[i] # rank[k]
    BY <2>1
  <2>3. QED
    BY <1>2, <1>3, <2>2
<1>6. \A p \in D : \E i \in D : rank[i] = p
  BY <1>1, <1>5, Onto
<1>7. q \in [D -> D] /\ \A p \in D : rank[q[p]] = p
  <2>1. \A p \in D : q[p] \in D /\ Rank(n, d, q[p]) = p
    <3> SUFFICES ASSUME NEW p \in D PROVE q[p] \in D /\ Rank(n, d, q[p]) = p
      OBVIOUS
    <3>1. \E i \in D : Rank(n, d, i) = p
      BY <1>1, <1>6
    <3> HIDE DEF D
    <3>2. QED
      BY <3>1
  <2>2. q = [p \in D |-> q[p]]
    OBVIOUS
  <2> HIDE DEF D, q
  <2>3. q \in [D -> D]
    BY <2>1, <2>2
  <2>4. QED
    BY <1>1, <2>1, <2>3
<1> HIDE DEF q
<1>8. q \in Shifts(n, 0, n - 1)
  <2>1. \A p, l \in D : q[p] = q[l] => p = l
    BY <1>7
  <2>2. \A p \in D : ~(p < 0 \/ n - 1 < p)
    OBVIOUS
  <2>3. QED
    BY <1>7, <2>1, <2>2 DEF Shifts
<1>9. ASSUME NEW p \in D, NEW l \in D, p < l PROVE d[q[p]] < d[q[l]] \/ (d[q[p]] = d[q[l]] /\ q[p] < q[l])
  <2>1. q[p] \in D /\ q[l] \in D /\ rank[q[p]] = p /\ rank[q[l]] = l
    BY <1>7
  <2>2. q[p] # q[l]
    BY <1>9, <2>1
  <2>3. ~(q[l] \in Earlier(n, d, q[p]))
    <3>1. SUFFICES ASSUME q[l] \in Earlier(n, d, q[p]) PROVE FALSE
      OBVIOUS
    <3>2. l < p
      BY <1>2, <2>1, <3>1
    <3>3. QED
      BY <1>9, <3>2
  <2>4. q[p] \in Earlier(n, d, q[l])
    BY <1>3, <2>1, <2>2, <2>3
  <2>5. QED
    BY <2>4 DEF Earlier
<1>10. Places(n, d, q)
  BY <1>4, <1>8, <1>9 DEF Places
<1>11. QED
  BY <1>8, <1>10

\* A turn of radix_sort.
LEMMA RadixTurn ==
    ASSUME NEW n \in Nat, NEW V \in SUBSET Nat, NEW x \in [0 .. n - 1 -> V], NEW byte \in 0 .. 3,
           \A i, j \in 0 .. n - 1 : i < j => x[i] % Weight[byte] <= x[j] % Weight[byte]
    PROVE  /\ Radix(byte, x) \in [0 .. n - 1 -> V]
           /\ Rearranged(x, Radix(byte, x), n, 0, n - 1)
           /\ \A i, j \in 0 .. n - 1 : i < j => Radix(byte, x)[i] % Weight[byte + 1] <= Radix(byte, x)[j] % Weight[byte + 1]
<1> DEFINE D == 0 .. n - 1
           w == Weight[byte]
           DigitOf(v) == (v \div w) % RADIX
           d == [i \in D |-> DigitOf(x[i])]
           y == Radix(byte, x)
<1>1. w \in Nat \ {0} /\ Weight[byte + 1] = RADIX * w
  BY Weights
<1>2. \A i \in D : x[i] \in Nat /\ x[i] \in V
  OBVIOUS
<1>3. \A v \in Nat : DigitOf(v) \in Nat
  <2> SUFFICES ASSUME NEW v \in Nat PROVE DigitOf(v) \in Nat
    OBVIOUS
  <2> HIDE DEF w
  <2>1. DigitOf(v) \in 0 .. RADIX - 1
    BY <1>1, DigitsAre
  <2> HIDE DEF DigitOf
  <2>2. QED
    BY <2>1, RadixAssumption
<1>4. d \in [D -> Nat] /\ \A i \in D : d[i] = DigitOf(x[i])
  <2> HIDE DEF D, DigitOf
  <2>1. QED
    BY <1>2, <1>3
<1>5. /\ \A p \in D : y[p] = x[CHOOSE i \in D : Rank(n, d, i) = p]
      /\ y = [p \in D |-> y[p]]
  <2>1. DOMAIN x = D
    OBVIOUS
  <2>2. \A i \in D : Lower(n, d, i) = {j \in D : DigitOf(x[j]) < DigitOf(x[i])}
    <3> HIDE DEF DigitOf, d
    <3>1. QED
      BY <1>4 DEF Lower
  <2>3. \A i \in D : Alike(d, i) = {j \in 0 .. i - 1 : DigitOf(x[j]) = DigitOf(x[i])}
    <3>1. \A i \in D : \A j \in 0 .. i - 1 : j \in D
      OBVIOUS
    <3> HIDE DEF DigitOf, d
    <3>2. QED
      BY <1>4, <3>1 DEF Alike
  <2> DEFINE place(i) == Cardinality({j \in D : DigitOf(x[j]) < DigitOf(x[i])})
                       + Cardinality({j \in 0 .. i - 1 : DigitOf(x[j]) = DigitOf(x[i])})
  <2>4. \A i \in D : place(i) = Rank(n, d, i)
    <3> HIDE DEF d, DigitOf
    <3>1. QED
      BY <2>2, <2>3 DEF Rank
  <2>5. y = [p \in D |-> x[CHOOSE i \in D : place(i) = p]]
    BY <2>1 DEF Radix
  <2> HIDE DEF place, D, y, d
  <2>6. \A p \in D : (CHOOSE i \in D : place(i) = p) = (CHOOSE i \in D : Rank(n, d, i) = p)
    BY <2>4
  <2>7. \A p \in D : y[p] = x[CHOOSE i \in D : place(i) = p]
    BY <2>5
  <2>8. y = [p \in D |-> y[p]]
    BY <2>5
  <2>9. ASSUME NEW p \in D PROVE y[p] = x[CHOOSE i \in D : Rank(n, d, i) = p]
    BY <2>6, <2>7
  <2>10. QED
    BY <2>8, <2>9
<1> HIDE DEF d, y
<1>6. PICK q \in Shifts(n, 0, n - 1) : Places(n, d, q)
  BY <1>4, RanksPlace
<1>7. /\ \A p \in D : q[p] = CHOOSE i \in D : Rank(n, d, i) = p
      /\ \A p, l \in D : p < l => d[q[p]] < d[q[l]] \/ (d[q[p]] = d[q[l]] /\ q[p] < q[l])
  BY <1>6 DEF Places
<1>8. \A p \in D : q[p] \in D
  BY DEF Shifts
<1>9. \A p \in D : y[p] = x[q[p]]
  BY <1>5, <1>7
<1>10. y \in [D -> V]
  <2>1. \A p \in D : x[q[p]] \in V
    BY <1>2, <1>8
  <2>2. \A p \in D : y[p] \in V
    BY <1>9, <2>1
  <2> HIDE DEF D
  <2>3. QED
    BY <1>5, <2>2
<1>11. Rearranged(x, y, n, 0, n - 1)
  BY <1>9 DEF Rearranged
<1>12. ASSUME NEW i \in D, NEW j \in D, i < j PROVE y[i] % (RADIX * w) <= y[j] % (RADIX * w)
  <2> DEFINE u == x[q[i]]
             v == x[q[j]]
  <2>1. q[i] \in D /\ q[j] \in D /\ y[i] = u /\ y[j] = v
    BY <1>8, <1>9
  <2>2. u \in Nat /\ v \in Nat /\ d[q[i]] = DigitOf(u) /\ d[q[j]] = DigitOf(v)
    BY <1>2, <1>4, <2>1
  <2>3. DigitOf(u) < DigitOf(v) \/ (DigitOf(u) = DigitOf(v) /\ q[i] < q[j])
    BY <1>7, <1>12, <2>2
  <2>4. q[i] < q[j] => u % w <= v % w
    BY <2>1
  <2> HIDE DEF u, v, w
  <2>5. u % (RADIX * w) <= v % (RADIX * w)
    BY <1>1, <2>2, <2>3, <2>4, DigitDecides
  <2>6. QED
    BY <2>1, <2>5
<1>13. QED
  <2>1. \A i, j \in D : i < j => y[i] % Weight[byte + 1] <= y[j] % Weight[byte + 1]
    BY <1>1, <1>12
  <2>2. QED
    BY <1>10, <1>11, <2>1 DEF y

LEMMA RadixSorts ==
    ASSUME NEW n \in Nat, NEW a \in [0 .. n - 1 -> 0 .. Weight[4] - 1]
    PROVE  /\ RadixSort(a) \in [0 .. n - 1 -> 0 .. Weight[4] - 1]
           /\ Rearranged(a, RadixSort(a), n, 0, n - 1)
           /\ InRange(RadixSort(a), 0, n - 1)
<1> DEFINE V == 0 .. Weight[4] - 1
           b == Radix(0, a)
           c == Radix(1, b)
           d == Radix(2, c)
           e == Radix(3, d)
           DigitsOrdered(x, byte) == \A i, j \in 0 .. n - 1 : i < j => x[i] % Weight[byte] <= x[j] % Weight[byte]
           Is(x, byte) == x \in [0 .. n - 1 -> V] /\ Rearranged(a, x, n, 0, n - 1) /\ DigitsOrdered(x, byte)
<1>1. Weight[4] \in Nat \ {0} /\ Weight[0] = 1
  BY Weights
<1>2. V \in SUBSET Nat
  BY <1>1
<1>3. 0 \in Int /\ n - 1 \in Int
  OBVIOUS
<1>4. Is(a, 0)
  <2>1. \A i \in 0 .. n - 1 : a[i] \in Nat
    BY <1>2
  <2>2. \A v \in Nat : v % 1 = 0
    OBVIOUS
  <2>3. DigitsOrdered(a, 0)
    BY <1>1, <2>1, <2>2
  <2>4. QED
    BY <1>3, <2>3, RearrangedSame
<1> HIDE DEF V
<1>5. ASSUME NEW x, NEW byte \in 0 .. 3, Is(x, byte) PROVE Is(Radix(byte, x), byte + 1)
  <2>1. x \in [0 .. n - 1 -> V] /\ Rearranged(a, x, n, 0, n - 1)
    BY <1>5
  <2>2. \A i, j \in 0 .. n - 1 : i < j => x[i] % Weight[byte] <= x[j] % Weight[byte]
    BY <1>5
  <2> DEFINE y == Radix(byte, x)
  <2>3. y \in [0 .. n - 1 -> V] /\ Rearranged(x, y, n, 0, n - 1) /\ DigitsOrdered(y, byte + 1)
    BY <1>2, <2>1, <2>2, RadixTurn
  <2> HIDE DEF y
  <2>4. Rearranged(a, y, n, 0, n - 1)
    BY <1>3, <2>1, <2>3, RearrangedTwice
  <2>5. QED
    BY <2>3, <2>4 DEF y
<1> HIDE DEF Is
<1>6. Is(b, 1)
  <2>1. Is(Radix(0, a), 0 + 1)
    BY <1>4, <1>5
  <2>2. QED
    BY <2>1
<1>7. Is(c, 2)
  <2> HIDE DEF b
  <2>1. Is(Radix(1, b), 1 + 1)
    BY <1>5, <1>6
  <2>2. QED
    BY <2>1
<1>8. Is(d, 3)
  <2> HIDE DEF c
  <2>1. Is(Radix(2, c), 2 + 1)
    BY <1>5, <1>7
  <2>2. QED
    BY <2>1
<1>9. Is(e, 4)
  <2> HIDE DEF d
  <2>1. Is(Radix(3, d), 3 + 1)
    BY <1>5, <1>8
  <2>2. QED
    BY <2>1
<1>10. RadixSort(a) = e
  BY DEF RadixSort
<1> HIDE DEF e
<1>11. e \in [0 .. n - 1 -> V] /\ Rearranged(a, e, n, 0, n - 1)
       /\ \A i, j \in 0 .. n - 1 : i < j => e[i] % Weight[4] <= e[j] % Weight[4]
  BY <1>9 DEF Is
<1>12. \A v \in V : v % Weight[4] = v
  <2> DEFINE m == Weight[4]
  <2>1. m \in Nat \ {0} /\ V = 0 .. m - 1
    BY <1>1 DEF V
  <2> HIDE DEF m
  <2>2. ASSUME NEW v \in V PROVE v % m = v
    <3>1. v \in 0 .. m - 1 /\ v = m * 0 + v /\ v \in Nat /\ 0 \in Int
      BY <2>1
    <3>2. QED
      BY <2>1, <3>1, RemainderIs
  <2>3. QED
    BY <2>2 DEF m
<1>13. \A i, j \in 0 .. n - 1 : i < j => e[i] <= e[j]
  BY <1>11, <1>12
<1>14. QED
  BY <1>10, <1>11, <1>13 DEF InRange, V

-----------------------------------------------------------------------------
(* shuffle: every turn swaps two elements.                                 *)
LEMMA Shuffling ==
    ASSUME NEW n \in Nat, NEW m \in 2 .. n, NEW R \in SUBSET [0 .. n - 1 -> Values]
    PROVE  /\ SwappedDown(R, n - m + 1) \in SUBSET [0 .. n - 1 -> Values]
           /\ \A y \in SwappedDown(R, n - m + 1) : \E x \in R : Rearranged(x, y, n, 0, n - 1)
<1> DEFINE i == n - m + 1
<1>1. i \in 0 .. n - 1 /\ i \in Nat
  OBVIOUS
<1>2. SwappedDown(R, n - m + 1) = {Swapped(r, i, j) : r \in R, j \in 0 .. i}
  BY DEF SwappedDown
<1> HIDE DEF i
<1>3. ASSUME NEW y \in SwappedDown(R, n - m + 1)
      PROVE  y \in [0 .. n - 1 -> Values] /\ \E x \in R : Rearranged(x, y, n, 0, n - 1)
  <2>1. PICK x \in R, j \in 0 .. i : y = Swapped(x, i, j)
    BY <1>2
  <2>2. x \in [0 .. n - 1 -> Values] /\ j \in 0 .. n - 1 /\ 0 \in Int /\ n - 1 \in Int
    BY <1>1, <2>1
  <2>3. y \in [0 .. n - 1 -> Values] /\ Rearranged(x, y, n, 0, n - 1)
    BY <1>1, <2>1, <2>2, SwappedIs, RearrangedSwapped
  <2>4. QED
    BY <2>3
<1>4. QED
  BY <1>3

LEMMA Shuffles ==
    ASSUME NEW n \in Nat, NEW a \in [0 .. n - 1 -> Values]
    PROVE  \A r \in Shuffle(a) : r \in [0 .. n - 1 -> Values] /\ Rearranged(a, r, n, 0, n - 1)
<1> DEFINE S == SUBSET [0 .. n - 1 -> Values]
           F == [c \in (1 .. n) \X S |-> IF c[1] <= 1 THEN {a} ELSE SwappedDown(c[2], n - c[1] + 1)]
           G(g) == [m \in 0 .. n |-> IF m <= 1 THEN {a}
                                     ELSE SwappedDown(g[m - 1], n - m + 1)]
           turn == CHOOSE g : g = G(g)
<1>0. Shuffle(a) = turn[n]
  BY LengthIs DEF Shuffle
<1>1. F \in [(1 .. n) \X S -> S]
  <2>1. ASSUME NEW m \in 1 .. n, NEW R \in S PROVE (IF m <= 1 THEN {a} ELSE SwappedDown(R, n - m + 1)) \in S
    <3>1. {a} \in S
      OBVIOUS
    <3>2. CASE m > 1
      <4>1. m \in 2 .. n
        BY <3>2
      <4>2. QED
        BY <3>1, <4>1, Shuffling
    <3>3. QED
      BY <3>1, <3>2
  <2> HIDE DEF S
  <2>2. QED
    BY <2>1
<1>2. PICK f \in [0 .. n -> S] : Folds(f, {a}, F, n)
  <2>1. {a} \in S
    OBVIOUS
  <2> HIDE DEF S, F, turn, G
  <2>2. QED
    BY <1>1, <2>1, Folded
<1>3. f[0] = {a} /\ \A m \in 1 .. n : f[m] = IF m <= 1 THEN {a} ELSE SwappedDown(f[m - 1], n - m + 1)
  <2>1. f[0] = {a} /\ \A m \in 1 .. n : f[m] = F[<<m, f[m - 1]>>]
    BY <1>2 DEF Folds
  <2>2. \A m \in 1 .. n : f[m - 1] \in S
    BY <1>2
  <2> HIDE DEF S, turn, G
  <2>3. \A m \in 1 .. n : F[<<m, f[m - 1]>>] = IF m <= 1 THEN {a} ELSE SwappedDown(f[m - 1], n - m + 1)
    BY <2>2
  <2> HIDE DEF F
  <2>4. ASSUME NEW m \in 1 .. n PROVE f[m] = IF m <= 1 THEN {a} ELSE SwappedDown(f[m - 1], n - m + 1)
    <3>1. f[m] = F[<<m, f[m - 1]>>]
      BY <2>1
    <3>2. F[<<m, f[m - 1]>>] = IF m <= 1 THEN {a} ELSE SwappedDown(f[m - 1], n - m + 1)
      BY <2>3
    <3>3. QED
      BY <3>1, <3>2
  <2>5. QED
    BY <2>1, <2>4
<1> HIDE DEF F
<1>4. f = G(f)
  <2>1. \A m \in 0 .. n : f[m] = IF m <= 1 THEN {a} ELSE SwappedDown(f[m - 1], n - m + 1)
    BY <1>3
  <2> HIDE DEF S, turn
  <2>2. f = [m \in 0 .. n |-> IF m <= 1 THEN {a} ELSE SwappedDown(f[m - 1], n - m + 1)]
    BY <1>2, <2>1
  <2>3. QED
    BY <2>2
<1>5. turn = G(turn)
  <2> HIDE DEF G
  <2>1. QED
    BY <1>4
<1> HIDE DEF turn
<1>6. \A m \in 0 .. n : turn[m] = IF m <= 1 THEN {a} ELSE SwappedDown(turn[m - 1], n - m + 1)
  BY <1>5
<1> HIDE DEF G
<1> DEFINE Is(r) == r \in [0 .. n - 1 -> Values] /\ Rearranged(a, r, n, 0, n - 1)
           T == {m \in Nat : m <= n => \A r \in turn[m] : Is(r)}
<1>7. 0 \in Int /\ n - 1 \in Int
  OBVIOUS
<1>8. Is(a)
  BY <1>7, RearrangedSame
<1>9. 0 \in T
  <2> HIDE DEF Is
  <2>1. turn[0] = {a}
    BY <1>6
  <2>2. QED
    BY <1>8, <2>1
<1>10. ASSUME NEW m \in T PROVE m + 1 \in T
  <2>1. m \in Nat
    OBVIOUS
  <2>2. SUFFICES ASSUME m + 1 <= n, NEW r \in turn[m + 1] PROVE Is(r)
    <3> HIDE DEF Is
    <3>1. QED
      BY <2>1
  <2>3. m + 1 \in 0 .. n /\ (m + 1) - 1 = m /\ m <= n
    BY <2>1, <2>2
  <2>4. CASE m + 1 <= 1
    <3> HIDE DEF Is
    <3>1. turn[m + 1] = {a}
      BY <1>6, <2>3, <2>4
    <3>2. QED
      BY <1>8, <2>2, <3>1
  <2>5. CASE ~(m + 1 <= 1)
    <3> DEFINE R == turn[m]
    <3>1. \A x \in R : Is(x)
      <4> HIDE DEF Is
      <4>1. QED
        BY <2>3
    <3>2. R \in SUBSET [0 .. n - 1 -> Values]
      BY <3>1
    <3>3. m + 1 \in 2 .. n
      BY <2>1, <2>2, <2>5
    <3>4. turn[m + 1] = SwappedDown(R, n - (m + 1) + 1)
      BY <1>6, <2>3, <2>5
    <3> HIDE DEF R
    <3>5. r \in SwappedDown(R, n - (m + 1) + 1)
      BY <2>2, <3>4
    <3>6. r \in [0 .. n - 1 -> Values] /\ \E x \in R : Rearranged(x, r, n, 0, n - 1)
      BY <3>2, <3>3, <3>5, Shuffling
    <3>7. PICK x \in R : Rearranged(x, r, n, 0, n - 1)
      BY <3>6
    <3>8. Rearranged(a, x, n, 0, n - 1)
      BY <3>1, <3>7
    <3>9. QED
      BY <1>7, <3>6, <3>7, <3>8, RearrangedTwice
  <2>6. QED
    BY <2>4, <2>5
<1>11. n \in T
  <2>0. T \subseteq Nat
    OBVIOUS
  <2> HIDE DEF T
  <2>1. QED
    BY <1>9, <1>10, <2>0, SetInduction
<1>12. QED
  <2>1. \A r \in turn[n] : Is(r)
    <3> HIDE DEF Is
    <3>1. QED
      BY <1>11
  <2>2. QED
    BY <1>0, <2>1

-----------------------------------------------------------------------------
(* remove_dup: what is left of a sequence when some elements are removed.  *)
\* The elements of p are some of those of q in the same order, among them the first i.
KeptAt(q, p, i, h) ==
    /\ \A k, l \in 1 .. Len(p) : k < l => h[k] < h[l]
    /\ \A k \in 1 .. Len(p) : k <= i => h[k] = k
    /\ \A k \in 1 .. Len(p) : p[k] = q[h[k]]
Kept(q, p, i) == \E h \in [1 .. Len(p) -> 1 .. Len(q)] : KeptAt(q, p, i, h)

AtMostTwice(q) == \A k, l, m \in 1 .. Len(q) : k < l /\ l < m => ~(q[k] = q[l] /\ q[l] = q[m])
Unique(q, i) == \A k, l \in 1 .. Len(q) : k <= i /\ l # k => q[l] # q[k]
SameValues(q, p) == \A k \in 1 .. Len(q) : \E l \in 1 .. Len(p) : p[l] = q[k]

LEMMA SameTwice ==
    ASSUME NEW q, NEW p, NEW r, SameValues(q, p), SameValues(p, q), SameValues(p, r), SameValues(r, p)
    PROVE  SameValues(q, r) /\ SameValues(r, q)
<1>1. ASSUME NEW k \in 1 .. Len(q) PROVE \E m \in 1 .. Len(r) : r[m] = q[k]
  <2>1. PICK l \in 1 .. Len(p) : p[l] = q[k]
    BY DEF SameValues
  <2>2. PICK m \in 1 .. Len(r) : r[m] = p[l]
    BY DEF SameValues
  <2>3. QED
    BY <2>1, <2>2
<1>2. ASSUME NEW k \in 1 .. Len(r) PROVE \E m \in 1 .. Len(q) : q[m] = r[k]
  <2>1. PICK l \in 1 .. Len(p) : p[l] = r[k]
    BY DEF SameValues
  <2>2. PICK m \in 1 .. Len(q) : q[m] = p[l]
    BY DEF SameValues
  <2>3. QED
    BY <2>1, <2>2
<1>3. QED
  BY <1>1, <1>2 DEF SameValues

LEMMA KeptAll == ASSUME NEW q \in Seq(Values), NEW i \in Nat PROVE Kept(q, q, i)
<1> DEFINE h == [k \in 1 .. Len(q) |-> k]
<1>1. h \in [1 .. Len(q) -> 1 .. Len(q)] /\ KeptAt(q, q, i, h)
  BY DEF KeptAt
<1>2. QED
  BY <1>1 DEF Kept

LEMMA KeptTwice ==
    ASSUME NEW q \in Seq(Values), NEW p \in Seq(Values), NEW i \in Nat, Kept(q, p, i), AtMostTwice(q)
    PROVE  AtMostTwice(p)
<1>1. PICK h \in [1 .. Len(p) -> 1 .. Len(q)] : KeptAt(q, p, i, h)
  BY DEF Kept
<1>2. /\ \A k, l \in 1 .. Len(p) : k < l => h[k] < h[l]
      /\ \A k \in 1 .. Len(p) : p[k] = q[h[k]]
      /\ \A k \in 1 .. Len(p) : h[k] \in 1 .. Len(q)
  BY <1>1 DEF KeptAt
<1>3. SUFFICES ASSUME NEW k \in 1 .. Len(p), NEW l \in 1 .. Len(p), NEW m \in 1 .. Len(p), k < l, l < m
      PROVE  ~(p[k] = p[l] /\ p[l] = p[m])
  BY DEF AtMostTwice
<1>4. h[k] \in 1 .. Len(q) /\ h[l] \in 1 .. Len(q) /\ h[m] \in 1 .. Len(q) /\ h[k] < h[l] /\ h[l] < h[m]
  BY <1>2, <1>3
<1>5. ~(q[h[k]] = q[h[l]] /\ q[h[l]] = q[h[m]])
  BY <1>4 DEF AtMostTwice
<1>6. QED
  BY <1>2, <1>5

LEMMA KeptUnique ==
    ASSUME NEW q \in Seq(Values), NEW p \in Seq(Values), NEW i \in Nat, NEW j \in Nat, j <= i, Kept(q, p, i), Unique(q, j)
    PROVE  Unique(p, j)
<1>1. PICK h \in [1 .. Len(p) -> 1 .. Len(q)] : KeptAt(q, p, i, h)
  BY DEF Kept
<1>2. /\ \A k, l \in 1 .. Len(p) : k < l => h[k] < h[l]
      /\ \A k \in 1 .. Len(p) : k <= i => h[k] = k
      /\ \A k \in 1 .. Len(p) : p[k] = q[h[k]]
      /\ \A k \in 1 .. Len(p) : h[k] \in 1 .. Len(q)
  BY <1>1 DEF KeptAt
<1>3. ASSUME NEW k \in 1 .. Len(p), NEW l \in 1 .. Len(p), k <= j, l # k PROVE p[l] # p[k]
  <2>1. h[k] # h[l] /\ h[k] \in 1 .. Len(q) /\ h[l] \in 1 .. Len(q)
    <3>1. k < l \/ l < k
      BY <1>3
    <3>2. h[k] \in 1 .. Len(q) /\ h[l] \in 1 .. Len(q)
      BY <1>2
    <3>3. h[k] < h[l] \/ h[l] < h[k]
      BY <1>2, <3>1
    <3>4. QED
      BY <3>2, <3>3
  <2>2. h[k] = k
    BY <1>2, <1>3
  <2>3. q[h[l]] # q[h[k]]
    BY <1>3, <2>1, <2>2 DEF Unique
  <2>4. QED
    BY <1>2, <2>3
<1>4. QED
  BY <1>3 DEF Unique

LEMMA KeptTwiceOver ==
    ASSUME NEW q \in Seq(Values), NEW p \in Seq(Values), NEW r \in Seq(Values), NEW i \in Nat, Kept(q, p, i), Kept(p, r, i)
    PROVE  Kept(q, r, i)
<1>1. PICK h \in [1 .. Len(p) -> 1 .. Len(q)] : KeptAt(q, p, i, h)
  BY DEF Kept
<1>2. PICK g \in [1 .. Len(r) -> 1 .. Len(p)] : KeptAt(p, r, i, g)
  BY DEF Kept
<1> DEFINE e == [k \in 1 .. Len(r) |-> h[g[k]]]
<1>3. \A k \in 1 .. Len(r) : g[k] \in 1 .. Len(p) /\ h[g[k]] \in 1 .. Len(q) /\ e[k] = h[g[k]]
  OBVIOUS
<1>4. e \in [1 .. Len(r) -> 1 .. Len(q)]
  BY <1>3
<1> HIDE DEF e
<1>5. KeptAt(q, r, i, e)
  BY <1>1, <1>2, <1>3 DEF KeptAt
<1>6. QED
  BY <1>4, <1>5 DEF Kept

LEMMA KeptRest ==
    ASSUME NEW q \in Seq(Values), NEW i \in Nat, NEW j \in 1 .. Len(q), i < j
    PROVE  Kept(q, RemoveAt(q, j), i)
<1> DEFINE p == RemoveAt(q, j)
           h == [k \in 1 .. Len(p) |-> IF k < j THEN k ELSE k + 1]
<1>1. p \in Seq(Values) /\ Len(p) = Len(q) - 1 /\ \A k \in 1 .. Len(q) - 1 : p[k] = IF k < j THEN q[k] ELSE q[k + 1]
  BY ClosedOver
<1> HIDE DEF p
<1>2. \A k \in 1 .. Len(p) : h[k] = IF k < j THEN k ELSE k + 1
  OBVIOUS
<1>3. h \in [1 .. Len(p) -> 1 .. Len(q)]
  BY <1>1
<1> HIDE DEF h
<1>4. KeptAt(q, p, i, h)
  BY <1>1, <1>2 DEF KeptAt
<1>5. QED
  BY <1>3, <1>4 DEF Kept, p

\* What closing over copies of the i-th element behind it has left when it has come to j.
HasDropped(q, p, i, j) ==
    /\ p \in Seq(Values) /\ i <= Len(p)
    /\ Kept(q, p, i) /\ SameValues(q, p) /\ SameValues(p, q)
    /\ AtMostTwice(q) => \A l \in i + 1 .. j : l <= Len(p) => p[l] # p[i]

LEMMA ClosedIs ==
    ASSUME NEW q \in Seq(Values), NEW i \in Nat, NEW j \in Nat \ {0}
    PROVE  Closed(q, i, j) \in Seq(Values) /\ Len(Closed(q, i, j)) <= Len(q)
<1>1. CASE j <= Len(q) /\ q[j] = q[i]
  <2>1. j \in 1 .. Len(q) /\ Len(q) \in Nat
    BY <1>1
  <2>2. RemoveAt(q, j) \in Seq(Values) /\ Len(RemoveAt(q, j)) = Len(q) - 1
    BY <2>1, ClosedOver
  <2>3. QED
    BY <1>1, <2>1, <2>2 DEF Closed
<1>2. CASE ~(j <= Len(q) /\ q[j] = q[i])
  BY <1>2 DEF Closed
<1>3. QED
  BY <1>1, <1>2

LEMMA ClosingOnce ==
    ASSUME NEW q \in Seq(Values), NEW p, NEW i \in Nat \ {0}, NEW j \in Nat, i < j, HasDropped(q, p, i, j - 1)
    PROVE  HasDropped(q, Closed(p, i, j), i, j)
<1>1. /\ p \in Seq(Values) /\ i <= Len(p)
      /\ Kept(q, p, i) /\ SameValues(q, p) /\ SameValues(p, q)
      /\ AtMostTwice(q) => \A l \in i + 1 .. j - 1 : l <= Len(p) => p[l] # p[i]
  BY DEF HasDropped
<1>0. Len(p) \in Nat
  BY <1>1
<1>2. CASE ~(j <= Len(p) /\ p[j] = p[i])
  <2>1. AtMostTwice(q) => \A l \in i + 1 .. j : l <= Len(p) => p[l] # p[i]
    <3>1. \A l \in i + 1 .. j : l \in i + 1 .. j - 1 \/ l = j
      OBVIOUS
    <3>2. QED
      BY <1>1, <1>2, <3>1
  <2>2. Closed(p, i, j) = p
    BY <1>2 DEF Closed
  <2>3. QED
    BY <1>1, <2>1, <2>2 DEF HasDropped
<1>3. CASE j <= Len(p) /\ p[j] = p[i]
  <2> DEFINE r == RemoveAt(p, j)
  <2>1. j \in 1 .. Len(p)
    BY <1>3
  <2>2. r \in Seq(Values) /\ Len(r) = Len(p) - 1 /\ \A k \in 1 .. Len(p) - 1 : r[k] = IF k < j THEN p[k] ELSE p[k + 1]
    BY <1>1, <2>1, ClosedOver
  <2>3. Kept(p, r, i)
    BY <1>1, <2>1, KeptRest
  <2>4. Closed(p, i, j) = r
    BY <1>3 DEF Closed
  <2> HIDE DEF r
  <2>5. i \in 1 .. Len(p) /\ i <= Len(r) /\ r[i] = p[i] /\ i \in 1 .. Len(r)
    BY <1>0, <1>1, <1>3, <2>2
  <2>6. SameValues(p, r)
    <3> SUFFICES ASSUME NEW k \in 1 .. Len(p) PROVE \E l \in 1 .. Len(r) : r[l] = p[k]
      BY DEF SameValues
    <3>1. CASE k < j
      <4>1. k \in 1 .. Len(r) /\ r[k] = p[k]
        BY <1>0, <2>1, <2>2, <3>1
      <4>2. QED
        BY <4>1
    <3>2. CASE k = j
      BY <1>3, <2>5, <3>2
    <3>3. CASE k > j
      <4>1. k - 1 \in 1 .. Len(r) /\ r[k - 1] = p[k]
        BY <1>0, <2>1, <2>2, <3>3
      <4>2. QED
        BY <4>1
    <3>4. QED
      BY <2>1, <3>1, <3>2, <3>3
  <2>7. SameValues(r, p)
    <3> SUFFICES ASSUME NEW k \in 1 .. Len(r) PROVE \E l \in 1 .. Len(p) : p[l] = r[k]
      BY DEF SameValues
    <3>1. k \in 1 .. Len(p) - 1 /\ k \in 1 .. Len(p) /\ k + 1 \in 1 .. Len(p)
      BY <1>0, <2>2
    <3>2. r[k] = IF k < j THEN p[k] ELSE p[k + 1]
      BY <2>2, <3>1
    <3>3. QED
      BY <3>1, <3>2
  <2>8. SameValues(q, r) /\ SameValues(r, q)
    BY <1>1, <2>6, <2>7, SameTwice
  <2>9. Kept(q, r, i)
    BY <1>1, <2>2, <2>3, KeptTwiceOver
  <2>10. ASSUME AtMostTwice(q), NEW l \in i + 1 .. j, l <= Len(r) PROVE r[l] # r[i]
    <3>1. l \in 1 .. Len(p) - 1 /\ l \in 1 .. Len(p) /\ l + 1 \in 1 .. Len(p)
      BY <1>0, <2>2, <2>10
    <3>2. CASE l < j
      <4>1. l \in i + 1 .. j - 1
        BY <3>2
      <4>2. p[l] # p[i]
        BY <1>1, <2>10, <3>1, <4>1
      <4>3. QED
        BY <2>2, <2>5, <3>1, <3>2, <4>2
    <3>3. CASE ~(l < j)
      <4>1. l = j
        BY <3>3
      <4>2. r[l] = p[l + 1] /\ j < l + 1
        BY <2>2, <3>1, <3>3, <4>1
      <4>3. AtMostTwice(p)
        BY <1>1, <2>10, KeptTwice
      <4>4. ~(p[i] = p[j] /\ p[j] = p[l + 1])
        BY <2>1, <2>5, <3>1, <4>2, <4>3 DEF AtMostTwice
      <4>5. QED
        BY <1>3, <2>5, <4>2, <4>4
    <3>4. QED
      BY <3>2, <3>3
  <2>11. QED
    BY <2>2, <2>4, <2>5, <2>8, <2>9, <2>10 DEF HasDropped
<1>4. QED
  BY <1>2, <1>3

\* Drop: one element's copies behind it.
LEMMA Dropping ==
    ASSUME NEW q \in Seq(Values), NEW i \in 1 .. Len(q)
    PROVE  HasDropped(q, Drop(q, i), i, Len(q))
<1> DEFINE n == Len(q)
           S == Seq(Values)
           F == [c \in (1 .. n) \X S |-> IF c[1] <= i THEN q ELSE Closed(c[2], i, c[1])]
           G(g) == [j \in 0 .. n |-> IF j <= i THEN q ELSE Closed(g[j - 1], i, j)]
           turn == CHOOSE g : g = G(g)
<1>0. Drop(q, i) = turn[n]
  BY DEF Drop
<1>n. n \in Nat /\ i \in Nat \ {0} /\ i <= n /\ q \in S
  OBVIOUS
<1>1. F \in [(1 .. n) \X S -> S]
  <2>1. ASSUME NEW m \in 1 .. n, NEW x \in S PROVE (IF m <= i THEN q ELSE Closed(x, i, m)) \in S
    BY <1>n, ClosedIs
  <2> HIDE DEF S, n
  <2>2. QED
    BY <2>1
<1>2. PICK f \in [0 .. n -> S] : Folds(f, q, F, n)
  <2> HIDE DEF S, F, turn, G, n
  <2>2. QED
    BY <1>n, <1>1, Folded
<1>3. f[0] = q /\ \A m \in 1 .. n : f[m] = IF m <= i THEN q ELSE Closed(f[m - 1], i, m)
  <2>1. f[0] = q /\ \A m \in 1 .. n : f[m] = F[<<m, f[m - 1]>>]
    BY <1>2 DEF Folds
  <2> HIDE DEF turn, G, n
  <2>2. \A m \in 1 .. n : f[m - 1] \in S
    BY <1>2, <1>n
  <2> HIDE DEF S
  <2>3. \A m \in 1 .. n : F[<<m, f[m - 1]>>] = IF m <= i THEN q ELSE Closed(f[m - 1], i, m)
    BY <2>2
  <2> HIDE DEF F
  <2>4. ASSUME NEW m \in 1 .. n PROVE f[m] = IF m <= i THEN q ELSE Closed(f[m - 1], i, m)
    <3>1. f[m] = F[<<m, f[m - 1]>>]
      BY <2>1
    <3>2. F[<<m, f[m - 1]>>] = IF m <= i THEN q ELSE Closed(f[m - 1], i, m)
      BY <2>3
    <3>3. QED
      BY <3>1, <3>2
  <2>5. QED
    BY <2>1, <2>4
<1> HIDE DEF F
<1>4. f = G(f)
  <2> HIDE DEF S, turn, n
  <2>1. \A m \in 0 .. n : f[m] = IF m <= i THEN q ELSE Closed(f[m - 1], i, m)
    BY <1>3, <1>n
  <2>2. QED
    BY <1>2, <2>1
<1>5. turn = G(turn)
  <2> HIDE DEF G
  <2>1. QED
    BY <1>4
<1> HIDE DEF turn
<1>6. \A j \in 0 .. n : turn[j] = IF j <= i THEN q ELSE Closed(turn[j - 1], i, j)
  BY <1>5
<1> HIDE DEF G, S, n
<1> DEFINE T == {j \in Nat : j <= n => HasDropped(q, turn[j], i, j)}
<1>7. ASSUME NEW j \in 0 .. n, j <= i PROVE HasDropped(q, turn[j], i, j)
  <2>1. turn[j] = q
    BY <1>6, <1>7
  <2>2. i <= Len(q)
    BY <1>n DEF n
  <2>3. Kept(q, q, i) /\ SameValues(q, q)
    BY <1>n, KeptAll DEF SameValues
  <2>4. \A l \in i + 1 .. j : FALSE
    BY <1>n, <1>7
  <2>5. HasDropped(q, q, i, j)
    BY <2>2, <2>3, <2>4 DEF HasDropped
  <2>6. QED
    BY <2>1, <2>5
<1>8. 0 \in T
  BY <1>n, <1>7
<1>9. ASSUME NEW j \in T PROVE j + 1 \in T
  <2>1. j \in Nat
    OBVIOUS
  <2>2. SUFFICES ASSUME j + 1 <= n PROVE HasDropped(q, turn[j + 1], i, j + 1)
    BY <2>1
  <2>3. j \in 0 .. n /\ j + 1 \in 0 .. n /\ (j + 1) - 1 = j /\ HasDropped(q, turn[j], i, j)
    BY <1>n, <2>1, <2>2
  <2>4. CASE j + 1 <= i
    BY <1>7, <2>3, <2>4
  <2>5. CASE ~(j + 1 <= i)
    <3> DEFINE k == j + 1
               p == turn[j]
    <3>1. k \in Nat /\ i < k /\ HasDropped(q, p, i, k - 1) /\ turn[k] = Closed(p, i, k)
      BY <1>n, <1>6, <2>1, <2>3, <2>5
    <3> HIDE DEF k, p
    <3>2. HasDropped(q, Closed(p, i, k), i, k)
      BY <1>n, <3>1, ClosingOnce
    <3>3. HasDropped(q, turn[k], i, k)
      BY <3>1, <3>2
    <3>4. QED
      BY <3>3 DEF k
  <2>6. QED
    BY <2>4, <2>5
<1>10. n \in T
  <2>0. T \subseteq Nat
    OBVIOUS
  <2> HIDE DEF T
  <2>1. QED
    BY <1>n, <1>8, <1>9, <2>0, SetInduction
<1>11. HasDropped(q, turn[n], i, n)
  BY <1>n, <1>10
<1>12. QED
  BY <1>0, <1>11 DEF n

\* Behind the end there is nothing to close over.
LEMMA DroppingNothing ==
    ASSUME NEW q \in Seq(Values), NEW i \in Nat, i > Len(q)
    PROVE  Drop(q, i) = q
<1> DEFINE n == Len(q)
           G(g) == [j \in 0 .. n |-> IF j <= i THEN q ELSE Closed(g[j - 1], i, j)]
           turn == CHOOSE g : g = G(g)
           f == [j \in 0 .. n |-> q]
<1>0. Drop(q, i) = turn[n]
  BY DEF Drop
<1>1. n \in Nat /\ n < i
  OBVIOUS
<1> HIDE DEF n
<1>2. \A j \in 0 .. n : j <= i
  BY <1>1
<1>3. \A g : G(g) = f
  BY <1>2
<1>4. turn = G(turn)
  <2> HIDE DEF G, f
  <2>1. f = G(f)
    BY <1>3
  <2>2. QED
    BY <2>1
<1> HIDE DEF turn, G
<1>5. turn = f
  BY <1>3, <1>4
<1>6. turn[n] = q
  BY <1>1, <1>5
<1>7. QED
  BY <1>0, <1>6

\* What a turn of the outer loop leaves.
HasDeduped(q, p, i) ==
    /\ p \in Seq(Values) /\ Len(p) <= Len(q)
    /\ SameValues(q, p) /\ SameValues(p, q)
    /\ AtMostTwice(q) => AtMostTwice(p) /\ Unique(p, i)

LEMMA KeptShorter ==
    ASSUME NEW q \in Seq(Values), NEW p \in Seq(Values), NEW i \in Nat, Kept(q, p, i)
    PROVE  Len(p) <= Len(q)
<1>1. PICK h \in [1 .. Len(p) -> 1 .. Len(q)] : KeptAt(q, p, i, h)
  BY DEF Kept
<1>2. \A k, l \in 1 .. Len(p) : k < l => h[k] < h[l]
  BY <1>1 DEF KeptAt
<1>3. Len(p) \in Nat /\ Len(q) \in Nat /\ \A k \in 1 .. Len(p) : h[k] \in 1 .. Len(q)
  OBVIOUS
<1> DEFINE T == {k \in Nat : k \in 1 .. Len(p) => k <= h[k]}
<1>4. 0 \in T
  OBVIOUS
<1>5. ASSUME NEW k \in T PROVE k + 1 \in T
  <2>1. k \in Nat
    OBVIOUS
  <2>2. SUFFICES ASSUME k + 1 \in 1 .. Len(p) PROVE k + 1 <= h[k + 1]
    BY <2>1
  <2>3. h[k + 1] \in 1 .. Len(q)
    BY <1>3, <2>2
  <2>4. CASE k = 0
    BY <2>3, <2>4
  <2>5. CASE k # 0
    <3>1. k \in 1 .. Len(p) /\ k < k + 1
      BY <1>3, <2>1, <2>2, <2>5
    <3>2. k <= h[k] /\ h[k] < h[k + 1] /\ h[k] \in 1 .. Len(q)
      BY <1>2, <1>3, <2>2, <3>1
    <3>3. QED
      BY <2>1, <2>3, <3>2
  <2>6. QED
    BY <2>4, <2>5
<1>6. Nat \subseteq T
  <2>0. T \subseteq Nat
    OBVIOUS
  <2> HIDE DEF T
  <2>1. QED
    BY <1>4, <1>5, <2>0, SetInduction
<1>7. CASE Len(p) = 0
  BY <1>3, <1>7
<1>8. CASE Len(p) # 0
  <2>1. Len(p) \in 1 .. Len(p) /\ Len(p) \in T
    BY <1>3, <1>6, <1>8
  <2>2. Len(p) <= h[Len(p)] /\ h[Len(p)] \in 1 .. Len(q)
    BY <1>3, <2>1
  <2>3. QED
    BY <1>3, <2>2
<1>9. QED
  BY <1>7, <1>8

LEMMA DropTurn ==
    ASSUME NEW q \in Seq(Values), NEW p, NEW i \in Nat \ {0}, HasDeduped(q, p, i - 1)
    PROVE  HasDeduped(q, Drop(p, i), i)
<1> DEFINE r == Drop(p, i)
           h == i - 1
<1>1. /\ p \in Seq(Values) /\ Len(p) <= Len(q)
      /\ SameValues(q, p) /\ SameValues(p, q)
      /\ AtMostTwice(q) => AtMostTwice(p) /\ Unique(p, h)
  BY DEF HasDeduped
<1>2. Len(p) \in Nat /\ Len(q) \in Nat /\ h \in Nat /\ h <= i /\ i = h + 1
  BY <1>1
<1> HIDE DEF h
<1>3. CASE i > Len(p)
  <2>1. r = p
    BY <1>1, <1>3, DroppingNothing
  <2>2. Unique(p, h) => Unique(p, i)
    <3>1. \A k \in 1 .. Len(p) : k <= h
      BY <1>2, <1>3
    <3>2. QED
      BY <3>1 DEF Unique
  <2> HIDE DEF r
  <2>3. HasDeduped(q, r, i)
    BY <1>1, <2>1, <2>2 DEF HasDeduped
  <2>4. QED
    BY <2>3 DEF r
<1>4. CASE ~(i > Len(p))
  <2>1. i \in 1 .. Len(p)
    BY <1>2, <1>4
  <2>2. HasDropped(p, r, i, Len(p))
    BY <1>1, <2>1, Dropping
  <2> HIDE DEF r
  <2>3. /\ r \in Seq(Values) /\ i <= Len(r)
        /\ Kept(p, r, i) /\ SameValues(p, r) /\ SameValues(r, p)
        /\ AtMostTwice(p) => \A l \in i + 1 .. Len(p) : l <= Len(r) => r[l] # r[i]
    BY <2>2 DEF HasDropped
  <2>4. Len(r) \in Nat /\ Len(r) <= Len(p)
    BY <1>1, <2>3, KeptShorter
  <2>5. SameValues(q, r) /\ SameValues(r, q)
    BY <1>1, <2>3, SameTwice
  <2>6. ASSUME AtMostTwice(q) PROVE AtMostTwice(r) /\ Unique(r, i)
    <3>1. AtMostTwice(p) /\ Unique(p, h)
      BY <1>1, <2>6
    <3>2. AtMostTwice(r)
      BY <1>1, <2>3, <3>1, KeptTwice
    <3>3. Unique(r, h)
      BY <1>1, <1>2, <2>3, <3>1, KeptUnique
    <3>4. ASSUME NEW k \in 1 .. Len(r), NEW l \in 1 .. Len(r), k <= i, l # k PROVE r[l] # r[k]
      <4>1. CASE k <= h
        BY <3>3, <3>4, <4>1 DEF Unique
      <4>2. CASE ~(k <= h)
        <5>1. k = i
          BY <1>2, <3>4, <4>2
        <5>2. CASE l <= h
          <6>1. r[k] # r[l]
            BY <3>3, <3>4, <5>2 DEF Unique
          <6>2. QED
            BY <6>1
        <5>3. CASE ~(l <= h)
          <6>1. l \in i + 1 .. Len(p) /\ l <= Len(r)
            BY <1>2, <2>4, <3>4, <5>1, <5>3
          <6>2. r[l] # r[i]
            BY <2>3, <3>1, <6>1
          <6>3. QED
            BY <5>1, <6>2
        <5>4. QED
          BY <5>2, <5>3
      <4>3. QED
        BY <4>1, <4>2
    <3>5. QED
      BY <3>2, <3>4 DEF Unique
  <2>7. Len(r) <= Len(q)
    BY <1>1, <1>2, <2>4
  <2>8. HasDeduped(q, r, i)
    BY <2>3, <2>5, <2>6, <2>7 DEF HasDeduped
  <2>9. QED
    BY <2>8 DEF r
<1>5. QED
  BY <1>3, <1>4

LEMMA DropIs ==
    ASSUME NEW q \in Seq(Values), NEW i \in Nat \ {0}
    PROVE  Drop(q, i) \in Seq(Values)
<1>1. CASE i > Len(q)
  BY <1>1, DroppingNothing
<1>2. CASE ~(i > Len(q))
  <2>1. i \in 1 .. Len(q)
    BY <1>2
  <2>2. QED
    BY <2>1, Dropping DEF HasDropped
<1>3. QED
  BY <1>1, <1>2

\* The outer loop.
LEMMA Deduping ==
    ASSUME NEW q \in Seq(Values)
    PROVE  HasDeduped(q, Dedup(q), Len(q))
<1> DEFINE n == Len(q)
           S == Seq(Values)
           F == [c \in (1 .. n) \X S |-> Drop(c[2], c[1])]
           G(g) == [i \in 0 .. n |-> IF i = 0 THEN q ELSE Drop(g[i - 1], i)]
           turn == CHOOSE g : g = G(g)
<1>0. Dedup(q) = turn[n]
  BY DEF Dedup
<1>n. n \in Nat /\ q \in S
  OBVIOUS
<1>1. F \in [(1 .. n) \X S -> S]
  <2>1. ASSUME NEW m \in 1 .. n, NEW x \in S PROVE Drop(x, m) \in S
    BY DropIs
  <2> HIDE DEF S, n
  <2>2. QED
    BY <2>1
<1>2. PICK f \in [0 .. n -> S] : Folds(f, q, F, n)
  <2> HIDE DEF S, F, turn, G, n
  <2>2. QED
    BY <1>n, <1>1, Folded
<1>3. f[0] = q /\ \A m \in 1 .. n : f[m] = Drop(f[m - 1], m)
  <2>1. f[0] = q /\ \A m \in 1 .. n : f[m] = F[<<m, f[m - 1]>>]
    BY <1>2 DEF Folds
  <2> HIDE DEF turn, G, n
  <2>2. \A m \in 1 .. n : f[m - 1] \in S
    BY <1>2, <1>n
  <2> HIDE DEF S
  <2>3. \A m \in 1 .. n : F[<<m, f[m - 1]>>] = Drop(f[m - 1], m)
    BY <2>2
  <2> HIDE DEF F
  <2>4. QED
    BY <2>1, <2>3
<1> HIDE DEF F
<1>4. f = G(f)
  <2> HIDE DEF S, turn, n
  <2>1. \A m \in 0 .. n : f[m] = IF m = 0 THEN q ELSE Drop(f[m - 1], m)
    <3>1. \A m \in 0 .. n : m = 0 \/ m \in 1 .. n
      BY <1>n
    <3>2. QED
      BY <1>3, <3>1
  <2>2. QED
    BY <1>2, <2>1
<1>5. turn = G(turn)
  <2> HIDE DEF G
  <2>1. QED
    BY <1>4
<1> HIDE DEF turn
<1>6. \A i \in 0 .. n : turn[i] = IF i = 0 THEN q ELSE Drop(turn[i - 1], i)
  BY <1>5
<1> HIDE DEF G, S, n
<1> DEFINE T == {i \in Nat : i <= n => HasDeduped(q, turn[i], i)}
<1>7. 0 \in T
  <2>1. turn[0] = q
    BY <1>6, <1>n
  <2>2. SameValues(q, q) /\ Unique(q, 0) /\ Len(q) <= Len(q)
    <3>1. \A k \in 1 .. Len(q) : ~(k <= 0)
      OBVIOUS
    <3>2. QED
      BY <3>1 DEF SameValues, Unique
  <2>3. HasDeduped(q, q, 0)
    BY <2>2 DEF HasDeduped
  <2>4. QED
    BY <2>1, <2>3
<1>8. ASSUME NEW i \in T PROVE i + 1 \in T
  <2>1. i \in Nat
    OBVIOUS
  <2>2. SUFFICES ASSUME i + 1 <= n PROVE HasDeduped(q, turn[i + 1], i + 1)
    BY <2>1
  <2> DEFINE k == i + 1
             p == turn[i]
  <2>3. k \in Nat \ {0} /\ HasDeduped(q, p, k - 1) /\ turn[k] = Drop(p, k)
    <3>1. i <= n /\ k \in 0 .. n /\ k - 1 = i /\ k # 0
      BY <1>n, <2>1, <2>2
    <3>2. HasDeduped(q, p, i)
      BY <3>1
    <3>3. QED
      BY <1>6, <3>1, <3>2
  <2> HIDE DEF k, p
  <2>4. HasDeduped(q, Drop(p, k), k)
    BY <2>3, DropTurn
  <2>5. HasDeduped(q, turn[k], k)
    BY <2>3, <2>4
  <2>6. QED
    BY <2>5 DEF k
<1>9. n \in T
  <2>0. T \subseteq Nat
    OBVIOUS
  <2> HIDE DEF T
  <2>1. QED
    BY <1>n, <1>7, <1>8, <2>0, SetInduction
<1>10. HasDeduped(q, turn[n], n)
  BY <1>n, <1>9
<1>11. QED
  BY <1>0, <1>10 DEF n

\* Two of a kind are no three, and one of a kind is one.
LEMMA Three ==
    ASSUME NEW S, IsFiniteSet(S), NEW i \in S, NEW j \in S, NEW k \in S, i # j, j # k, i # k
    PROVE  ~(Cardinality(S) <= 2)
<1> DEFINE A == {} \cup {i}
           B == A \cup {j}
           C == B \cup {k}
<1>1. IsFiniteSet({}) /\ Cardinality({}) = 0
  BY FS_EmptySet
<1>2. IsFiniteSet(A) /\ Cardinality(A) = 1
  <2>1. i \notin {}
    OBVIOUS
  <2>2. IsFiniteSet(A) /\ Cardinality(A) = Cardinality({}) + 1
    BY <1>1, <2>1, FS_AddElement
  <2>3. QED
    BY <1>1, <2>2
<1>3. j \notin A
  OBVIOUS
<1>4. k \notin B
  OBVIOUS
<1>5. C \in SUBSET S
  OBVIOUS
<1> HIDE DEF A
<1>6. IsFiniteSet(B) /\ Cardinality(B) = 2
  <2>1. IsFiniteSet(B) /\ Cardinality(B) = Cardinality(A) + 1
    BY <1>2, <1>3, FS_AddElement
  <2>2. QED
    BY <1>2, <2>1
<1> HIDE DEF B
<1>7. IsFiniteSet(C) /\ Cardinality(C) = 3
  <2>1. IsFiniteSet(C) /\ Cardinality(C) = Cardinality(B) + 1
    BY <1>4, <1>6, FS_AddElement
  <2>2. QED
    BY <1>6, <2>1
<1> HIDE DEF C
<1>8. Cardinality(C) <= Cardinality(S) /\ Cardinality(S) \in Nat
  BY <1>5, FS_Subset, FS_CardinalityType
<1>9. QED
  BY <1>7, <1>8

LEMMA RemovesDup ==
    ASSUME NEW n \in Nat, NEW a \in [0 .. n - 1 -> Values]
    PROVE  /\ {RemoveDup(a)[i] : i \in DOMAIN RemoveDup(a)} = {a[i] : i \in DOMAIN a}
           /\ (\A i \in DOMAIN a : Count(a, a[i]) <= 2)
                => \A i \in DOMAIN RemoveDup(a) : Count(RemoveDup(a), RemoveDup(a)[i]) = 1
<1> DEFINE q == [i \in 1 .. n |-> a[i - 1]]
           p == Dedup(q)
           r == [i \in 0 .. Len(p) - 1 |-> p[i + 1]]
<1>1. RemoveDup(a) = r
  BY LengthIs DEF RemoveDup
<1>2. q \in Seq(Values) /\ Len(q) = n /\ \A i \in 1 .. n : q[i] = a[i - 1]
  OBVIOUS
<1> HIDE DEF q
<1>3. HasDeduped(q, p, n)
  BY <1>2, Deduping
<1> HIDE DEF p
<1>4. /\ p \in Seq(Values) /\ Len(p) <= n
      /\ SameValues(q, p) /\ SameValues(p, q)
      /\ AtMostTwice(q) => Unique(p, n)
  BY <1>2, <1>3 DEF HasDeduped
<1>5. Len(p) \in Nat /\ DOMAIN r = 0 .. Len(p) - 1 /\ \A i \in 0 .. Len(p) - 1 : r[i] = p[i + 1]
  BY <1>4
<1>6. DOMAIN a = 0 .. n - 1
  OBVIOUS
<1> HIDE DEF r
<1>7. \A i \in DOMAIN r : \E j \in DOMAIN a : a[j] = r[i]
  <2> SUFFICES ASSUME NEW i \in 0 .. Len(p) - 1 PROVE \E j \in 0 .. n - 1 : a[j] = r[i]
    BY <1>5, <1>6
  <2>1. i + 1 \in 1 .. Len(p) /\ r[i] = p[i + 1]
    BY <1>5
  <2>2. PICK k \in 1 .. Len(q) : q[k] = p[i + 1]
    BY <1>4, <2>1 DEF SameValues
  <2>3. k - 1 \in 0 .. n - 1 /\ a[k - 1] = q[k]
    BY <1>2, <2>2
  <2>4. QED
    BY <2>1, <2>2, <2>3
<1>8. \A j \in DOMAIN a : \E i \in DOMAIN r : a[j] = r[i]
  <2> SUFFICES ASSUME NEW j \in 0 .. n - 1 PROVE \E i \in 0 .. Len(p) - 1 : a[j] = r[i]
    BY <1>5, <1>6
  <2>1. j + 1 \in 1 .. Len(q) /\ j + 1 \in 1 .. n /\ q[j + 1] = a[j]
    <3>1. j + 1 \in 1 .. n /\ (j + 1) - 1 = j
      OBVIOUS
    <3>2. QED
      BY <1>2, <3>1
  <2>2. PICK k \in 1 .. Len(p) : p[k] = q[j + 1]
    BY <1>4, <2>1 DEF SameValues
  <2>3. k - 1 \in 0 .. Len(p) - 1 /\ (k - 1) + 1 = k
    BY <1>5
  <2>4. r[k - 1] = p[k]
    BY <1>5, <2>3
  <2>5. QED
    BY <2>1, <2>2, <2>3, <2>4
<1>9. {r[i] : i \in DOMAIN r} = {a[i] : i \in DOMAIN a}
  BY <1>7, <1>8
<1>10. ASSUME \A i \in DOMAIN a : Count(a, a[i]) <= 2, NEW i \in DOMAIN r PROVE Count(r, r[i]) = 1
  <2>1. AtMostTwice(q)
    <3> SUFFICES ASSUME NEW k \in 1 .. Len(q), NEW l \in 1 .. Len(q), NEW m \in 1 .. Len(q), k < l, l < m,
                        q[k] = q[l], q[l] = q[m]
                 PROVE  FALSE
      BY DEF AtMostTwice
    <3> DEFINE S == {x \in DOMAIN a : a[x] = a[k - 1]}
               u == k - 1
               v == l - 1
               w == m - 1
    <3>1. u \in DOMAIN a /\ v \in DOMAIN a /\ w \in DOMAIN a /\ u # v /\ v # w /\ u # w
      BY <1>2, <1>6
    <3>2. a[u] = q[k] /\ a[v] = q[l] /\ a[w] = q[m]
      BY <1>2
    <3>3. u \in S /\ v \in S /\ w \in S
      BY <3>1, <3>2
    <3>4. IsFiniteSet(S)
      <4>1. 0 \in Int /\ n - 1 \in Int
        OBVIOUS
      <4>2. IsFiniteSet(0 .. n - 1)
        BY <4>1, FS_Interval
      <4>3. S \in SUBSET (0 .. n - 1)
        BY <1>6
      <4> HIDE DEF S
      <4>4. QED
        BY <4>2, <4>3, FS_Subset
    <3>5. Count(a, a[u]) = Cardinality(S)
      BY DEF Count
    <3> HIDE DEF S, u, v, w
    <3>6. ~(Cardinality(S) <= 2)
      BY <3>1, <3>3, <3>4, Three
    <3>7. QED
      BY <1>10, <3>1, <3>5, <3>6
  <2>2. Unique(p, n)
    BY <1>4, <2>1
  <2>3. \A j \in DOMAIN r : j # i => r[j] # r[i]
    <3> SUFFICES ASSUME NEW j \in 0 .. Len(p) - 1, j # i PROVE r[j] # r[i]
      BY <1>5
    <3>1. i \in 0 .. Len(p) - 1
      BY <1>5
    <3>2. i + 1 \in 1 .. Len(p) /\ j + 1 \in 1 .. Len(p) /\ i + 1 <= n /\ j + 1 # i + 1
      BY <1>4, <1>5, <3>1
    <3>3. p[j + 1] # p[i + 1]
      BY <2>2, <3>2 DEF Unique
    <3>4. QED
      BY <1>5, <3>1, <3>3
  <2>4. {j \in DOMAIN r : r[j] = r[i]} = {i}
    BY <2>3
  <2>5. Cardinality({i}) = 1
    BY FS_Singleton
  <2>6. QED
    BY <2>4, <2>5 DEF Count
<1>11. QED
  BY <1>1, <1>9, <1>10

-----------------------------------------------------------------------------
(* What a call returns.                                                    *)

\* The array a call is made for, and which element it is to find.
Input(n, V) == s.a \in [0 .. n - 1 -> V] /\ (kind = "select" => s.k \in 1 .. n)

SortingInv ==
    /\ kind \in SortingKinds
    /\ \E n \in Nat : Input(n, IF kind = "radix" THEN 0 .. Weight[4] - 1 ELSE Values)
    /\ model # <<>> => \E r \in Outcomes(s) : model = <<r>>

\* What SortingIsRight says of an outcome.
RightOutcome(a, k, r) ==
    /\ kind # "dedup" => IsPermutation(a, r.a)
    /\ kind \in {"insertion", "merge", "quick", "radix"} =>
          \A i, j \in DOMAIN r.a : i < j => r.a[i] <= r.a[j]
    /\ kind = "select" =>
          /\ Cardinality({i \in DOMAIN a : a[i] < r.a[r.at]}) < k
          /\ Cardinality({i \in DOMAIN a : a[i] <= r.a[r.at]}) >= k
    /\ kind = "dedup" =>
          /\ {r.a[i] : i \in DOMAIN r.a} = {a[i] : i \in DOMAIN a}
          /\ (\A i \in DOMAIN a : Count(a, a[i]) <= 2) => \A i \in DOMAIN r.a : Count(r.a, r.a[i]) = 1

LEMMA SortedIsRight ==
    ASSUME NEW n \in Nat, NEW V, NEW a \in [0 .. n - 1 -> V], NEW y \in [0 .. n - 1 -> V],
           Rearranged(a, y, n, 0, n - 1), InRange(y, 0, n - 1), NEW k, kind \notin {"select", "dedup"}
    PROVE  RightOutcome(a, k, Plain(y))
<1>1. IsPermutation(a, y)
  BY RearrangedPermutes
<1>2. Plain(y).a = y /\ DOMAIN y = 0 .. n - 1
  BY DEF Plain
<1>3. \A i, j \in DOMAIN y : i < j => y[i] <= y[j]
  BY <1>2 DEF InRange
<1>4. kind # "select" /\ kind # "dedup"
  OBVIOUS
<1>5. QED
  BY <1>1, <1>2, <1>3, <1>4 DEF RightOutcome

LEMMA OutcomeIsRight ==
    ASSUME SortingInv, NEW r \in Outcomes(s)
    PROVE  RightOutcome(s.a, s.k, r)
<1> DEFINE a == s.a
<1>1. kind \in SortingKinds
  BY DEF SortingInv
<1>2. CASE kind = "radix"
  <2>1. PICK n \in Nat : a \in [0 .. n - 1 -> 0 .. Weight[4] - 1]
    BY <1>2 DEF SortingInv, Input
  <2>2. r = Plain(RadixSort(a))
    BY <1>2 DEF Outcomes
  <2> HIDE DEF a
  <2>3. /\ RadixSort(a) \in [0 .. n - 1 -> 0 .. Weight[4] - 1]
        /\ Rearranged(a, RadixSort(a), n, 0, n - 1)
        /\ InRange(RadixSort(a), 0, n - 1)
    BY <2>1, RadixSorts
  <2>4. RightOutcome(a, s.k, Plain(RadixSort(a)))
    BY <1>2, <2>1, <2>3, SortedIsRight
  <2>5. QED
    BY <2>2, <2>4 DEF a
<1>3. CASE kind # "radix"
  <2>1. PICK n \in Nat : a \in [0 .. n - 1 -> Values] /\ (kind = "select" => s.k \in 1 .. n)
    BY <1>3 DEF SortingInv, Input
  <2>2. CASE kind = "insertion"
    <3>1. r = Plain(InsertionSort(a))
      BY <2>2 DEF Outcomes
    <3> HIDE DEF a
    <3>2. /\ InsertionSort(a) \in [0 .. n - 1 -> Values]
          /\ Rearranged(a, InsertionSort(a), n, 0, n - 1)
          /\ InRange(InsertionSort(a), 0, n - 1)
      BY <2>1, ValuesAssumption, InsertionSorts
    <3>3. RightOutcome(a, s.k, Plain(InsertionSort(a)))
      BY <2>1, <2>2, <3>2, SortedIsRight
    <3>4. QED
      BY <3>1, <3>3 DEF a
  <2>3. CASE kind = "merge"
    <3>1. r = Plain(MergeSort(a))
      BY <2>3 DEF Outcomes
    <3> HIDE DEF a
    <3>2. /\ MergeSort(a) \in [0 .. n - 1 -> Values]
          /\ Rearranged(a, MergeSort(a), n, 0, n - 1)
          /\ InRange(MergeSort(a), 0, n - 1)
      BY <2>1, MergeSorts DEF HasSorted
    <3>3. RightOutcome(a, s.k, Plain(MergeSort(a)))
      BY <2>1, <2>3, <3>2, SortedIsRight
    <3>4. QED
      BY <3>1, <3>3 DEF a
  <2>4. CASE kind = "quick"
    <3>1. PICK y \in QuickSort(a) : r = Plain(y)
      BY <2>4 DEF Outcomes
    <3> HIDE DEF a
    <3>2. /\ y \in [0 .. n - 1 -> Values]
          /\ Rearranged(a, y, n, 0, n - 1)
          /\ InRange(y, 0, n - 1)
      BY <2>1, QuickSorts DEF HasSorted
    <3>3. RightOutcome(a, s.k, Plain(y))
      BY <2>1, <2>4, <3>2, SortedIsRight
    <3>4. QED
      BY <3>1, <3>3 DEF a
  <2>5. CASE kind = "select"
    <3> DEFINE k == s.k
    <3>1. r \in RandomSelect(a, k)
      BY <2>5 DEF Outcomes
    <3>2. k \in 1 .. n
      BY <2>1, <2>5
    <3> HIDE DEF a, k
    <3>3. HasSelected(n, a, 0, n - 1, k, r)
      BY <2>1, <3>1, <3>2, Selects
    <3>4. /\ Rearranged(a, r.a, n, 0, n - 1) /\ r.a \in [0 .. n - 1 -> Values]
          /\ Cardinality({i \in 0 .. n - 1 : a[i] < r.a[r.at]}) < k
          /\ Cardinality({i \in 0 .. n - 1 : a[i] <= r.a[r.at]}) >= k
      BY <2>1, <3>2, <3>3, SelectedRank
    <3>5. IsPermutation(a, r.a)
      BY <2>1, <3>4, RearrangedPermutes
    <3>6. DOMAIN a = 0 .. n - 1
      BY <2>1
    <3>7. RightOutcome(a, k, r)
      BY <2>5, <3>4, <3>5, <3>6 DEF RightOutcome
    <3>8. QED
      BY <3>7 DEF a, k
  <2>6. CASE kind = "shuffle"
    <3>1. PICK y \in Shuffle(a) : r = Plain(y)
      BY <2>6 DEF Outcomes
    <3> HIDE DEF a
    <3>2. y \in [0 .. n - 1 -> Values] /\ Rearranged(a, y, n, 0, n - 1)
      BY <2>1, Shuffles
    <3>3. IsPermutation(a, y)
      BY <2>1, <3>2, RearrangedPermutes
    <3>4. RightOutcome(a, s.k, Plain(y))
      BY <2>6, <3>3 DEF RightOutcome, Plain
    <3>5. QED
      BY <3>1, <3>4 DEF a
  <2>7. CASE kind = "dedup"
    <3>1. r = Plain(RemoveDup(a))
      BY <2>7 DEF Outcomes
    <3> HIDE DEF a
    <3>2. /\ {RemoveDup(a)[i] : i \in DOMAIN RemoveDup(a)} = {a[i] : i \in DOMAIN a}
          /\ (\A i \in DOMAIN a : Count(a, a[i]) <= 2)
               => \A i \in DOMAIN RemoveDup(a) : Count(RemoveDup(a), RemoveDup(a)[i]) = 1
      BY <2>1, RemovesDup
    <3>3. Plain(RemoveDup(a)).a = RemoveDup(a)
      BY DEF Plain
    <3>4. RightOutcome(a, s.k, Plain(RemoveDup(a)))
      BY <2>7, <3>2, <3>3 DEF RightOutcome
    <3>5. QED
      BY <3>1, <3>4 DEF a
  <2>8. QED
    BY <1>1, <1>3, <2>2, <2>3, <2>4, <2>5, <2>6, <2>7 DEF SortingKinds
<1>4. QED
  BY <1>2, <1>3

LEMMA SortingStarts == SortingInit => SortingInv
<1> SUFFICES ASSUME SortingInit PROVE SortingInv
  OBVIOUS
<1>1. PICK a \in Inputs : \E k \in IF kind = "select" THEN 1 .. Length(a) ELSE {1} : s = [a |-> a, k |-> k]
  BY DEF SortingInit
<1>2. PICK k \in IF kind = "select" THEN 1 .. Length(a) ELSE {1} : s = [a |-> a, k |-> k]
  BY <1>1
<1> DEFINE V == IF kind = "radix" THEN 0 .. Weight[4] - 1 ELSE Values
<1>3. \E max \in Nat : a \in Arrays(V, max)
  BY LengthsAssumption DEF Inputs
<1>4. PICK max \in Nat : a \in Arrays(V, max)
  BY <1>3
<1> HIDE DEF V
<1>5. Length(a) \in Nat /\ a \in [0 .. Length(a) - 1 -> V]
  BY <1>4, ArrayIs
<1>6. Input(Length(a), V)
  BY <1>2, <1>5 DEF Input
<1>7. QED
  BY <1>5, <1>6 DEF SortingInit, SortingInv, V

LEMMA SortingKeeps == SortingInv /\ [SortingNext]_part => SortingInv'
<1> SUFFICES ASSUME SortingInv, [SortingNext]_part PROVE SortingInv'
  OBVIOUS
<1>1. kind' = kind /\ s' = s
  BY DEF SortingNext, Run, part
<1>2. model' # <<>> => \E r \in Outcomes(s) : model' = <<r>>
  BY DEF SortingNext, Run, part, SortingInv
<1>3. Outcomes(s)' = Outcomes(s)
  BY <1>1 DEF Outcomes
<1>4. Input(0, Values)' = Input(0, Values) /\ \A n \in Nat : \A V : Input(n, V)' = Input(n, V)
  BY <1>1 DEF Input
<1>5. QED
  BY <1>1, <1>2, <1>3, <1>4 DEF SortingInv

LEMMA SortingInvRight == SortingInv => SortingIsRight
<1> SUFFICES ASSUME SortingInv, model # <<>> PROVE SortingIsRight
  BY DEF SortingIsRight
<1>1. PICK r \in Outcomes(s) : model = <<r>>
  BY DEF SortingInv
<1>2. model[1] = r
  BY <1>1
<1>3. RightOutcome(s.a, s.k, r)
  BY OutcomeIsRight
<1>4. QED
  BY <1>2, <1>3 DEF RightOutcome, SortingIsRight

\* However the coins of the algorithms fall, sorting yields the input's elements in order, selection
\* the k-th smallest, shuffling a permutation; removing duplicates keeps every value, and once only
\* if no value occurs three times (lib/insertion_sort.h, merge_sort.h, quick_sort.h, radix_sort.h,
\* random_select.h, shuffle.h, generic.h).
THEOREM SortingSorts == SortingSpec => []SortingIsRight
<1>1. SortingInit => SortingInv
  BY SortingStarts
<1>2. SortingInv /\ [SortingNext]_part => SortingInv'
  BY SortingKeeps
<1>3. SortingInv => SortingIsRight
  BY SortingInvRight
<1>4. QED
  BY <1>1, <1>2, <1>3, PTL DEF SortingSpec
=============================================================================
