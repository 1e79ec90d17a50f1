------------------------------ MODULE Induction ------------------------------
(***************************************************************************)
(* Induction over the naturals in a form that the provers can use: about a *)
(* set of numbers, not about a predicate.  And what follows from it about  *)
(* the loops of the code and about sorting: a function can be iterated,    *)
(* and folded over the turns of a loop; a sequence of numbers has a        *)
(* greatest element and can be sorted.  At the end, facts of arithmetic    *)
(* and of sequences that several of the proofs use.                        *)
(***************************************************************************)
EXTENDS Integers, Sequences, WellFoundedInduction, TLAPS

\* The order of the naturals as a relation, which the library's theorem is about.
LEMMA NatLess == ASSUME NEW x \in Nat, NEW y \in Nat, x < y PROVE <<x, y>> \in OpToRel(<, Nat)
  BY DEF OpToRel

\* Induction for a set instead of a predicate: from the naturals' being well founded.
LEMMA SetInduction == ASSUME NEW T, T \subseteq Nat, 0 \in T, \A n \in T : n + 1 \in T PROVE Nat \subseteq T
<1> DEFINE R == OpToRel(<, Nat)
           D == Nat \ T
<1>1. IsWellFoundedOn(R, Nat)
  BY NatLessThanWellFounded
<1>2. \A x, y \in Nat : x < y => <<x, y>> \in R
  BY NatLess
<1> HIDE DEF R
<1>3. SUFFICES ASSUME D # {} PROVE FALSE
  OBVIOUS
<1>4. PICK x \in D : \A y \in D : ~(<<y, x>> \in R)
  <2>1. D \subseteq Nat
    OBVIOUS
  <2> HIDE DEF D
  <2>2. QED
    BY <1>1, <1>3, <2>1, WFMin
<1>5. x \in Nat /\ x # 0 /\ x \notin T
  OBVIOUS
<1>6. x - 1 \in Nat /\ x - 1 < x /\ (x - 1) + 1 = x
  BY <1>5
<1>7. x - 1 \in T
  <2>1. SUFFICES ASSUME x - 1 \notin T PROVE FALSE
    OBVIOUS
  <2>2. x - 1 \in D
    BY <1>6, <2>1
  <2>3. <<x - 1, x>> \in R
    BY <1>2, <1>5, <1>6
  <2>4. QED
    BY <1>4, <2>2, <2>3
<1>8. QED
  BY <1>5, <1>6, <1>7

\* f counts off the turns of F.
Iterates(f, first, F, size) == f[0] = first /\ \A n \in 1 .. size : f[n] = F[f[n - 1]]

\* A function can be iterated.
LEMMA Iterated ==
    ASSUME NEW S, NEW first \in S, NEW F \in [S -> S], NEW size \in Nat
    PROVE  \E f \in [0 .. size -> S] : Iterates(f, first, F, size)
<1> DEFINE Is(f, z) == f[0] = first /\ \A n \in 1 .. z : f[n] = F[f[n - 1]]
           T == {z \in Nat : \E f \in [0 .. z -> S] : Is(f, z)}
<1>1. 0 \in T
  <2>1. [n \in 0 .. 0 |-> first] \in [0 .. 0 -> S] /\ Is([n \in 0 .. 0 |-> first], 0)
    OBVIOUS
  <2>2. QED
    BY <2>1
<1>2. ASSUME NEW z \in T PROVE z + 1 \in T
  <2>1. z \in Nat
    OBVIOUS
  <2>2. PICK f \in [0 .. z -> S] : Is(f, z)
    OBVIOUS
  <2> DEFINE g == [n \in 0 .. z + 1 |-> IF n = z + 1 THEN F[f[z]] ELSE f[n]]
  <2>3. \A n \in 0 .. z + 1 : n \in 0 .. z \/ n = z + 1
    BY <2>1
  <2>4. F[f[z]] \in S
    BY <2>1
  <2>5. g \in [0 .. z + 1 -> S]
    BY <2>1, <2>3, <2>4
  <2>6. g[z + 1] = F[f[z]] /\ \A n \in 0 .. z : g[n] = f[n]
    BY <2>1
  <2>7. Is(g, z + 1)
    <3> HIDE DEF g
    <3>1. g[0] = first
      BY <2>1, <2>2, <2>6
    <3>2. ASSUME NEW n \in 1 .. z + 1 PROVE g[n] = F[g[n - 1]]
      <4>1. CASE n = z + 1
        BY <2>1, <2>6, <4>1
      <4>2. CASE n # z + 1
        BY <2>1, <2>2, <2>6, <4>2
      <4>3. QED
        BY <4>1, <4>2
    <3>3. QED
      BY <3>1, <3>2
  <2>8. QED
    <3> HIDE DEF g, Is
    <3>1. QED
      BY <2>1, <2>5, <2>7
<1>3. Nat \subseteq T
  <2>0. T \subseteq Nat
    OBVIOUS
  <2> HIDE DEF T
  <2>1. QED
    BY <2>0, <1>1, <1>2, SetInduction
<1>4. QED
  BY <1>3 DEF Iterates

\* f counts off the turns of F, which tells them apart.
Folds(f, first, F, size) == f[0] = first /\ \A n \in 1 .. size : f[n] = F[<<n, f[n - 1]>>]

\* A function can be folded over a sequence.
LEMMA Folded ==
    ASSUME NEW S, NEW first \in S, NEW size \in Nat, NEW F \in [(1 .. size) \X S -> S]
    PROVE  \E f \in [0 .. size -> S] : Folds(f, first, F, size)
<1> DEFINE Is(f, z) == f[0] = first /\ \A n \in 1 .. z : f[n] = F[<<n, f[n - 1]>>]
           T == {z \in Nat : z <= size => \E f \in [0 .. z -> S] : Is(f, z)}
<1>1. 0 \in T
  <2>1. [n \in 0 .. 0 |-> first] \in [0 .. 0 -> S] /\ Is([n \in 0 .. 0 |-> first], 0)
    OBVIOUS
  <2>2. QED
    BY <2>1
<1>2. ASSUME NEW z \in T PROVE z + 1 \in T
  <2>1. z \in Nat
    OBVIOUS
  <2>a. SUFFICES ASSUME z + 1 <= size PROVE \E f \in [0 .. z + 1 -> S] : Is(f, z + 1)
    BY <2>1
  <2>2. PICK f \in [0 .. z -> S] : Is(f, z)
    BY <2>1, <2>a
  <2> DEFINE g == [n \in 0 .. z + 1 |-> IF n = z + 1 THEN F[<<z + 1, f[z]>>] ELSE f[n]]
  <2>3. \A n \in 0 .. z + 1 : n \in 0 .. z \/ n = z + 1
    BY <2>1
  <2>4. F[<<z + 1, f[z]>>] \in S
    BY <2>1, <2>a
  <2>5. g \in [0 .. z + 1 -> S]
    BY <2>1, <2>3, <2>4
  <2>6. g[z + 1] = F[<<z + 1, f[z]>>] /\ \A n \in 0 .. z : g[n] = f[n]
    BY <2>1
  <2>7. Is(g, z + 1)
    <3> HIDE DEF g
    <3>1. g[0] = first
      BY <2>1, <2>2, <2>6
    <3>2. ASSUME NEW n \in 1 .. z + 1 PROVE g[n] = F[<<n, g[n - 1]>>]
      <4>1. CASE n = z + 1
        BY <2>1, <2>6, <4>1
      <4>2. CASE n # z + 1
        BY <2>1, <2>2, <2>6, <4>2
      <4>3. QED
        BY <4>1, <4>2
    <3>3. QED
      BY <3>1, <3>2
  <2>8. QED
    <3> HIDE DEF g, Is
    <3>1. QED
      BY <2>5, <2>7
<1>3. size \in T
  <2>0. T \subseteq Nat
    OBVIOUS
  <2> HIDE DEF T
  <2>1. QED
    BY <2>0, <1>1, <1>2, SetInduction
<1>4. QED
  BY <1>3 DEF Folds

\* A sequence has a greatest element.
LEMMA Greatest ==
    ASSUME NEW n \in Nat, NEW q \in [1 .. n + 1 -> Nat]
    PROVE  \E k \in 1 .. n + 1 : \A j \in 1 .. n + 1 : q[j] <= q[k]
<1> DEFINE T == {z \in Nat : z <= n => \E k \in 1 .. z + 1 : \A j \in 1 .. z + 1 : q[j] <= q[k]}
<1>1. 0 \in T
  BY DEF T
<1>2. ASSUME NEW z \in T PROVE z + 1 \in T
  <2>0. z \in Nat
    OBVIOUS
  <2>1. SUFFICES ASSUME z + 1 <= n PROVE \E k \in 1 .. z + 2 : \A j \in 1 .. z + 2 : q[j] <= q[k]
    BY <2>0
  <2>2. PICK k \in 1 .. z + 1 : \A j \in 1 .. z + 1 : q[j] <= q[k]
    BY <2>0, <2>1
  <2> HIDE DEF T
  <2>3. \A j \in 1 .. z + 2 : j \in 1 .. z + 1 \/ j = z + 2
    BY <2>0
  <2>4. z + 2 \in 1 .. n + 1 /\ k \in 1 .. n + 1 /\ k \in 1 .. z + 2 /\ z + 2 \in 1 .. z + 2
    BY <2>0, <2>1
  <2>5. \A j \in 1 .. z + 2 : q[j] \in Nat
    BY <2>0, <2>1
  <2>6. CASE q[z + 2] <= q[k]
    <3>1. \A j \in 1 .. z + 2 : q[j] <= q[k]
      BY <2>2, <2>3, <2>6
    <3>2. QED
      BY <2>4, <3>1
  <2>7. CASE ~(q[z + 2] <= q[k])
    <3>1. \A j \in 1 .. z + 2 : q[j] <= q[z + 2]
      BY <2>2, <2>3, <2>4, <2>5, <2>7
    <3>2. QED
      BY <2>4, <3>1
  <2>8. QED
    BY <2>6, <2>7
<1>3. n \in T
  <2>0. T \subseteq Nat
    OBVIOUS
  <2> HIDE DEF T
  <2>1. QED
    BY <2>0, <1>1, <1>2, SetInduction
<1>4. QED
  BY <1>3

\* A sequence can be sorted.
LEMMA Sortable ==
    ASSUME NEW n \in Nat, NEW q \in [1 .. n -> Nat]
    PROVE  \E p \in [1 .. n -> 1 .. n] :
              /\ \A l \in 1 .. n : \E j \in 1 .. n : p[j] = l
              /\ \A j, l \in 1 .. n : j < l => q[p[j]] <= q[p[l]]
<1> DEFINE Sorts(p, r, z) == /\ p \in [1 .. z -> 1 .. z]
                             /\ \A l \in 1 .. z : \E j \in 1 .. z : p[j] = l
                             /\ \A j, l \in 1 .. z : j < l => r[p[j]] <= r[p[l]]
           Can(z) == \A r \in [1 .. z -> Nat] : \E p \in [1 .. z -> 1 .. z] : Sorts(p, r, z)
           T == {z \in Nat : Can(z)}
<1>1. 0 \in T
  <2>1. \A r : Sorts([j \in 1 .. 0 |-> j], r, 0)
    OBVIOUS
  <2>2. \A r : \E p \in [1 .. 0 -> 1 .. 0] : Sorts(p, r, 0)
    <3>1. [j \in 1 .. 0 |-> j] \in [1 .. 0 -> 1 .. 0]
      OBVIOUS
    <3> HIDE DEF Sorts
    <3>2. QED
      BY <2>1, <3>1
  <2>3. QED
    BY <2>2
<1>2. ASSUME NEW z \in T PROVE z + 1 \in T
  <2>0. z \in Nat
    OBVIOUS
  <2>1. SUFFICES ASSUME NEW r \in [1 .. z + 1 -> Nat] PROVE \E p \in [1 .. z + 1 -> 1 .. z + 1] : Sorts(p, r, z + 1)
    <3>1. Can(z + 1)
      BY <2>1
    <3> HIDE DEF Can
    <3>2. QED
      BY <2>0, <3>1
  <2>2. PICK k \in 1 .. z + 1 : \A j \in 1 .. z + 1 : r[j] <= r[k]
    BY <2>0, Greatest
  \* The greatest goes to the end, and the last takes its place.
  <2> DEFINE Other(j) == IF j = k THEN z + 1 ELSE j
             s == [j \in 1 .. z |-> r[Other(j)]]
  <2>3. s \in [1 .. z -> Nat]
    BY <2>0
  <2>4. PICK p \in [1 .. z -> 1 .. z] : Sorts(p, s, z)
    <3>1. \A x \in [1 .. z -> Nat] : \E p \in [1 .. z -> 1 .. z] : Sorts(p, x, z)
      OBVIOUS
    <3> HIDE DEF Sorts, s
    <3>2. QED
      BY <2>3, <3>1
  <2> DEFINE t == [j \in 1 .. z + 1 |-> IF j = z + 1 THEN k ELSE Other(p[j])]
  <2>5. \A j \in 1 .. z + 1 : j \in 1 .. z \/ j = z + 1
    BY <2>0
  <2>b. \A x \in 1 .. z : Other(x) \in 1 .. z + 1
    <3>1. TAKE x \in 1 .. z
    <3>2. x \in 1 .. z + 1 /\ z + 1 \in 1 .. z + 1
      BY <2>0
    <3>3. QED
      BY <3>2
  <2>c. \A j \in 1 .. z : p[j] \in 1 .. z /\ j \in 1 .. z + 1 /\ j # z + 1 /\ Other(p[j]) \in 1 .. z + 1
    <3> HIDE DEF Other, Sorts
    <3>1. \A j \in 1 .. z : p[j] \in 1 .. z
      BY <2>4
    <3>2. \A j \in 1 .. z : j \in 1 .. z + 1 /\ j # z + 1
      BY <2>0
    <3>3. QED
      BY <2>b, <3>1, <3>2
  <2>d. z + 1 \in 1 .. z + 1
    BY <2>0
  <2>6. /\ \A j \in 1 .. z : t[j] = Other(p[j]) /\ p[j] \in 1 .. z /\ j \in 1 .. z + 1
        /\ t[z + 1] = k /\ z + 1 \in 1 .. z + 1
    <3> HIDE DEF Other
    <3>1. QED
      BY <2>c, <2>d
  <2>7. t \in [1 .. z + 1 -> 1 .. z + 1]
    <3> HIDE DEF Other
    <3>1. QED
      BY <2>2, <2>5, <2>c
  <2>8. \A j \in 1 .. z : r[t[j]] = s[p[j]] /\ s[p[j]] \in Nat
    BY <2>0, <2>3, <2>6
  <2>9. \A j, l \in 1 .. z : j < l => s[p[j]] <= s[p[l]]
    BY <2>4
  <2>10. \A l \in 1 .. z : \E j \in 1 .. z : p[j] = l
    BY <2>4
  <2> HIDE DEF t, s
  <2>11. \A l \in 1 .. z + 1 : \E j \in 1 .. z + 1 : t[j] = l
    <3> SUFFICES ASSUME NEW l \in 1 .. z + 1 PROVE \E j \in 1 .. z + 1 : t[j] = l
      OBVIOUS
    <3>1. CASE l = k
      BY <2>6, <3>1
    <3>2. CASE l # k /\ l = z + 1
      <4>1. k \in 1 .. z
        BY <2>0, <2>5, <3>2
      <4>2. PICK j \in 1 .. z : p[j] = k
        BY <2>10, <4>1
      <4>3. QED
        BY <2>6, <3>2, <4>2
    <3>3. CASE l # k /\ l # z + 1
      <4>1. PICK j \in 1 .. z : p[j] = l
        BY <2>5, <2>10, <3>3
      <4>2. QED
        BY <2>6, <3>3, <4>1
    <3>4. QED
      BY <3>1, <3>2, <3>3
  <2>12. \A j, l \in 1 .. z + 1 : j < l => r[t[j]] <= r[t[l]]
    <3> SUFFICES ASSUME NEW j \in 1 .. z + 1, NEW l \in 1 .. z + 1, j < l PROVE r[t[j]] <= r[t[l]]
      OBVIOUS
    <3>1. CASE l = z + 1
      <4>1. t[j] \in 1 .. z + 1 /\ t[l] = k
        BY <2>6, <2>7, <3>1
      <4>2. QED
        BY <2>2, <4>1
    <3>2. CASE l # z + 1
      <4>1. j \in 1 .. z /\ l \in 1 .. z
        BY <2>0, <2>5, <3>2
      <4>2. QED
        BY <2>8, <2>9, <4>1
    <3>3. QED
      BY <3>1, <3>2
  <2>13. Sorts(t, r, z + 1)
    BY <2>7, <2>11, <2>12
  <2>14. QED
    <3> HIDE DEF Sorts
    <3>1. QED
      BY <2>7, <2>13
<1>3. n \in T
  <2>0. T \subseteq Nat
    OBVIOUS
  <2> HIDE DEF T
  <2>1. QED
    BY <2>0, <1>1, <1>2, SetInduction
<1>4. PICK p \in [1 .. n -> 1 .. n] : Sorts(p, q, n)
  <2> HIDE DEF Sorts
  <2>1. QED
    BY <1>3
<1>5. QED
  BY <1>4

\* A set of numbers that is not empty has a least one.
LEMMA LeastNumber == ASSUME NEW S \in SUBSET Nat, S # {} PROVE \E x \in S : \A y \in S : x <= y
<1> DEFINE T == {n \in Nat : \A x \in S : n <= x}
<1>1. SUFFICES ASSUME ~ \E x \in S : \A y \in S : x <= y PROVE FALSE
  OBVIOUS
<1>2. 0 \in T
  OBVIOUS
<1>3. ASSUME NEW n \in T PROVE n + 1 \in T
  <2>1. n \in Nat /\ \A x \in S : n <= x
    OBVIOUS
  <2>2. n \notin S
    BY <1>1, <2>1
  <2>3. ASSUME NEW x \in S PROVE n + 1 <= x
    BY <2>1, <2>2
  <2>4. QED
    BY <2>1, <2>3
<1>4. Nat \subseteq T
  <2>1. T \subseteq Nat
    OBVIOUS
  <2> HIDE DEF T
  <2>2. QED
    BY <1>2, <1>3, <2>1, SetInduction
<1>5. PICK x \in S : TRUE
  OBVIOUS
<1>6. x + 1 \in T
  BY <1>4, <1>5
<1>7. QED
  BY <1>5, <1>6

\* And a greatest one, if it is bounded.
LEMMA GreatestNumber ==
    ASSUME NEW S \in SUBSET Int, S # {}, NEW bound \in Int, \A x \in S : x <= bound
    PROVE  \E x \in S : \A y \in S : y <= x
<1> DEFINE R == {n \in Nat : bound - n \in S}
<1>1. \A x \in S : bound - x \in R
  OBVIOUS
<1>2. R \in SUBSET Nat /\ R # {}
  BY <1>1
<1>3. PICK n \in R : \A m \in R : n <= m
  <2> HIDE DEF R
  <2>1. QED
    BY <1>2, LeastNumber
<1>4. n \in Nat /\ bound - n \in S
  OBVIOUS
<1>5. \A y \in S : y <= bound - n
  <2> SUFFICES ASSUME NEW y \in S PROVE y <= bound - n
    OBVIOUS
  <2>1. n <= bound - y
    BY <1>1, <1>3
  <2>2. y \in Int
    OBVIOUS
  <2>3. QED
    BY <1>4, <2>1, <2>2
<1>6. QED
  BY <1>4, <1>5

\* F[<<f, c>>], the result of the call c when f has those of the calls made, depends on smaller calls only.
DependsOnSmaller(S, V, size, F) ==
    /\ F \in [[S -> V] \X S -> V]
    /\ \A f, g \in [S -> V] : \A c \in S :
          (\A d \in S : size[d] < size[c] => f[d] = g[d]) => F[<<f, c>>] = F[<<g, c>>]

\* The sizes of the calls, and a function defined by recursion.
Measures(S, bound) == [S -> 0 .. bound]
HasSolution(S, V, F) == \E f \in [S -> V] : \A c \in S : f[c] = F[<<f, c>>]

\* A function can be defined by recursion.
LEMMA Recursion ==
    ASSUME NEW S, NEW V, V # {}, NEW bound \in Nat, NEW size \in Measures(S, bound),
           NEW F, DependsOnSmaller(S, V, size, F)
    PROVE  HasSolution(S, V, F)
<1> DEFINE Is(f, z) == \A c \in S : size[c] < z => f[c] = F[<<f, c>>]
           T == {z \in Nat : \E f \in [S -> V] : Is(f, z)}
<1>v. PICK v \in V : TRUE
  OBVIOUS
<1>s. size \in [S -> 0 .. bound]
  BY DEF Measures
<1>0. /\ F \in [[S -> V] \X S -> V]
      /\ \A f, g \in [S -> V] : \A c \in S :
            (\A d \in S : size[d] < size[c] => f[d] = g[d]) => F[<<f, c>>] = F[<<g, c>>]
  BY DEF DependsOnSmaller
<1>1. 0 \in T
  <2>1. [c \in S |-> v] \in [S -> V]
    OBVIOUS
  <2>2. Is([c \in S |-> v], 0)
    <3>1. \A c \in S : ~(size[c] < 0)
      BY <1>s
    <3>2. QED
      BY <3>1
  <2> HIDE DEF Is
  <2>3. QED
    BY <2>1, <2>2
<1>2. ASSUME NEW z \in T PROVE z + 1 \in T
  <2>0. z \in Nat
    OBVIOUS
  <2>1. PICK f \in [S -> V] : Is(f, z)
    OBVIOUS
  <2> DEFINE g == [c \in S |-> F[<<f, c>>]]
  <2>2. \A c \in S : F[<<f, c>>] \in V
    BY <1>0
  <2>3. g \in [S -> V] /\ \A c \in S : g[c] = F[<<f, c>>]
    BY <2>2
  <2> HIDE DEF g
  <2>4. \A c \in S : size[c] < z => f[c] = g[c]
    BY <2>1, <2>3
  <2>5. Is(g, z + 1)
    <3> SUFFICES ASSUME NEW c \in S, size[c] < z + 1 PROVE g[c] = F[<<g, c>>]
      OBVIOUS
    <3>1. \A d \in S : size[d] < size[c] => f[d] = g[d]
      <4>1. \A d \in S : size[d] \in Nat
        BY <1>s
      <4>2. QED
        BY <2>0, <2>4, <4>1
    <3>2. F[<<f, c>>] = F[<<g, c>>]
      BY <1>0, <2>3, <3>1
    <3>3. QED
      BY <2>3, <3>2
  <2>6. QED
    <3> HIDE DEF Is
    <3>1. QED
      BY <2>0, <2>3, <2>5
<1>3. Nat \subseteq T
  <2>0. T \subseteq Nat
    OBVIOUS
  <2> HIDE DEF T
  <2>1. QED
    BY <2>0, <1>1, <1>2, SetInduction
<1>4. PICK f \in [S -> V] : Is(f, bound + 1)
  <2>1. bound + 1 \in T
    <3> HIDE DEF T
    <3>1. QED
      BY <1>3
  <2> HIDE DEF Is
  <2>2. QED
    BY <2>1
<1>5. \A c \in S : f[c] = F[<<f, c>>]
  <2>1. \A c \in S : size[c] \in 0 .. bound
    BY <1>s
  <2>2. QED
    BY <1>4, <2>1
<1>6. QED
  BY <1>5 DEF HasSolution

\* What holds of a call when it holds of all smaller ones holds of every call.
LEMMA SizeInduction ==
    ASSUME NEW S, NEW bound \in Nat, NEW size \in Measures(S, bound), NEW P \in SUBSET S,
           \A c \in S : (\A d \in S : size[d] < size[c] => d \in P) => c \in P
    PROVE  S = P
<1> DEFINE T == {z \in Nat : \A c \in S : size[c] < z => c \in P}
<1>0. \A c \in S : size[c] \in 0 .. bound
  BY DEF Measures
<1>1. \A c \in S : size[c] \in Nat
  BY <1>0
<1>2. 0 \in T
  BY <1>1
<1>3. ASSUME NEW z \in T PROVE z + 1 \in T
  BY <1>1
<1>4. Nat \subseteq T
  <2>0. T \subseteq Nat
    OBVIOUS
  <2> HIDE DEF T
  <2>1. QED
    BY <2>0, <1>2, <1>3, SetInduction
<1>5. bound + 1 \in T
  BY <1>4
<1>6. \A c \in S : size[c] < bound + 1
  BY <1>0
<1>7. QED
  BY <1>5, <1>6
-----------------------------------------------------------------------------
(* Arithmetic and sequences *)

\* Division, for any divisor.
LEMMA Division ==
    ASSUME NEW a \in Nat, NEW b \in Nat \ {0}
    PROVE  a \div b \in Nat /\ a % b \in 0 .. b - 1 /\ a = b * (a \div b) + (a % b)
OBVIOUS

\* A number below b * c has a quotient below c.
LEMMA DivisionBelow ==
    ASSUME NEW a \in Nat, NEW b \in Nat \ {0}, NEW c \in Nat \ {0}, a < b * c
    PROVE  a \div b < c
OBVIOUS

\* Two sequences, one after the other.
LEMMA JoinedIs ==
    ASSUME NEW S, NEW p \in Seq(S), NEW q \in Seq(S)
    PROVE  /\ p \o q \in Seq(S) /\ Len(p \o q) = Len(p) + Len(q)
           /\ \A i \in 1 .. Len(p) + Len(q) : (p \o q)[i] = IF i <= Len(p) THEN p[i] ELSE q[i - Len(p)]
  OBVIOUS

\* A sequence without its k-th element: those behind it move up.
LEMMA CutOut ==
    ASSUME NEW S, NEW q \in Seq(S), NEW k \in 1 .. Len(q)
    PROVE  /\ SubSeq(q, 1, k - 1) \o SubSeq(q, k + 1, Len(q)) \in Seq(S)
           /\ Len(SubSeq(q, 1, k - 1) \o SubSeq(q, k + 1, Len(q))) = Len(q) - 1
           /\ \A i \in 1 .. Len(q) - 1 : (SubSeq(q, 1, k - 1) \o SubSeq(q, k + 1, Len(q)))[i] = IF i < k THEN q[i] ELSE q[i + 1]
<1> DEFINE a == SubSeq(q, 1, k - 1)
           b == SubSeq(q, k + 1, Len(q))
<1>1. Len(q) \in Nat /\ k \in Nat /\ k >= 1 /\ k <= Len(q)
  OBVIOUS
<1>2. a \in Seq(S) /\ Len(a) = k - 1 /\ \A i \in 1 .. k - 1 : a[i] = q[i]
  OBVIOUS
<1>3. b \in Seq(S) /\ Len(b) = Len(q) - k /\ \A i \in 1 .. Len(q) - k : b[i] = q[k + i]
  OBVIOUS
<1> HIDE DEF a, b
<1>4. /\ a \o b \in Seq(S) /\ Len(a \o b) = Len(a) + Len(b)
      /\ \A i \in 1 .. Len(a) + Len(b) : (a \o b)[i] = IF i <= Len(a) THEN a[i] ELSE b[i - Len(a)]
  BY <1>2, <1>3, JoinedIs
<1>5. Len(a \o b) = Len(q) - 1
  BY <1>1, <1>2, <1>3, <1>4
<1>6. ASSUME NEW i \in 1 .. Len(q) - 1 PROVE (a \o b)[i] = IF i < k THEN q[i] ELSE q[i + 1]
  <2>1. (a \o b)[i] = IF i <= k - 1 THEN a[i] ELSE b[i - (k - 1)]
    BY <1>1, <1>2, <1>3, <1>4
  <2>2. CASE i < k
    BY <1>1, <1>2, <2>1, <2>2
  <2>3. CASE ~(i < k)
    <3>1. i - (k - 1) \in 1 .. Len(q) - k /\ k + (i - (k - 1)) = i + 1 /\ ~(i <= k - 1)
      BY <1>1, <2>3
    <3>2. QED
      BY <1>3, <2>1, <2>3, <3>1
  <2>4. QED
    BY <2>2, <2>3
<1>7. QED
  BY <1>4, <1>5, <1>6 DEF a, b

\* A quotient and its remainder are found in one way.
LEMMA QuotientIs ==
    ASSUME NEW d \in Nat \ {0}, NEW b \in Nat, NEW r \in 0 .. d - 1, NEW a, a = d * b + r
    PROVE  a \in Nat /\ a \div d = b /\ a % d = r
<1> DEFINE e == a \div d
           f == a % d
<1>1. d * b \in Nat /\ r \in Nat
  OBVIOUS
<1>2. a \in Nat
  <2> DEFINE g == d * b
  <2> HIDE DEF g
  <2>1. g \in Nat /\ a = g + r
    BY <1>1 DEF g
  <2>2. QED
    BY <1>1, <2>1
<1>3. e \in Nat /\ f \in 0 .. d - 1 /\ a = d * e + f
  BY <1>2, Division
<1> HIDE DEF e, f
<1>4. ~(e < b)
  <2>1. SUFFICES ASSUME e + 1 <= b PROVE FALSE
    BY <1>3
  <2>2. d * (e + 1) <= d * b /\ d * (e + 1) = d * e + d /\ d * e \in Nat
    BY <1>3, <2>1
  <2> DEFINE g == d * b
             h == d * e
  <2>3. h + d <= g /\ h + f = g + r /\ g \in Nat /\ h \in Nat /\ f < d
    BY <1>1, <1>3, <2>2
  <2> HIDE DEF g, h
  <2>4. QED
    BY <1>1, <1>3, <2>3
<1>5. ~(b < e)
  <2>1. SUFFICES ASSUME b + 1 <= e PROVE FALSE
    BY <1>3
  <2>2. d * (b + 1) <= d * e /\ d * (b + 1) = d * b + d /\ d * e \in Nat
    BY <1>3, <2>1
  <2> DEFINE g == d * b
             h == d * e
  <2>3. g + d <= h /\ h + f = g + r /\ g \in Nat /\ h \in Nat /\ r < d
    BY <1>1, <1>3, <2>2
  <2> HIDE DEF g, h
  <2>4. QED
    BY <1>1, <1>3, <2>3
<1>6. e = b
  BY <1>3, <1>4, <1>5
<1>7. f = r
  <2> DEFINE g == d * b
  <2>1. g \in Nat /\ g + f = g + r
    BY <1>1, <1>3, <1>6
  <2> HIDE DEF g
  <2>2. QED
    BY <1>1, <1>3, <2>1
<1>8. QED
  BY <1>2, <1>6, <1>7 DEF e, f

\* Induction up to a bound.
LEMMA UpTo == ASSUME NEW size \in Nat, NEW T, 0 \in T, \A n \in 1 .. size : n - 1 \in T => n \in T PROVE 0 .. size \subseteq T
<1> DEFINE U == {n \in Nat : n <= size => n \in T}
<1>1. 0 \in U
  OBVIOUS
<1>2. ASSUME NEW n \in U PROVE n + 1 \in U
  <2>1. n \in Nat /\ (n <= size => n \in T)
    OBVIOUS
  <2>2. SUFFICES ASSUME n + 1 <= size PROVE n + 1 \in T
    BY <2>1
  <2>3. n + 1 \in 1 .. size /\ (n + 1) - 1 = n /\ n <= size
    BY <2>1, <2>2
  <2>4. QED
    BY <2>1, <2>3
<1>3. Nat \subseteq U
  <2>1. U \subseteq Nat
    OBVIOUS
  <2> HIDE DEF U
  <2>2. QED
    BY <1>1, <1>2, <2>1, SetInduction
<1>4. QED
  BY <1>3
=============================================================================
