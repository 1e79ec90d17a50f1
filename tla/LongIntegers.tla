---------------------------- MODULE LongIntegers ----------------------------
(***************************************************************************)
(* The library's long integers (include/lib/integer.h).  A long integer is *)
(* a sequence of components, the least significant first; the operations   *)
(* keep their carries and the sizes of their results.                      *)
(***************************************************************************)
EXTENDS Integers, Sequences

CONSTANTS
    COMPONENT_BITS,     \* bits of a component; an int has twice as many
    TEN                 \* the base of a string's digits

ASSUME ComponentAssumption == COMPONENT_BITS \in Nat \ {0}

\* The powers of b, up to the nth.
Powers(b, n) == LET p[i \in 0 .. n] == IF i = 0 THEN 1 ELSE b * p[i - 1] IN p

PowerOfTwo == Powers(2, COMPONENT_BITS)

\* Max_COMPONENT + 1
BASE == PowerOfTwo[COMPONENT_BITS]

ASSUME TenAssumption == TEN \in 2 .. BASE - 1

Larger(m, n) == IF m > n THEN m ELSE n

\* The numbers that x's most significant components make, and all of them.
Leading(x) ==
    LET v[n \in 0 .. Len(x)] == IF n = 0 THEN 0 ELSE BASE * v[n - 1] + x[Len(x) + 1 - n]
    IN  v

Value(x) == Leading(x)[Len(x)]

StringValue(str) ==
    LET v[n \in 0 .. Len(str)] == IF n = 0 THEN 0 ELSE TEN * v[n - 1] + str[n] IN v[Len(str)]
-----------------------------------------------------------------------------
Component(x, i) == IF i \in DOMAIN x THEN x[i] ELSE 0

IsZero(x) == \A i \in DOMAIN x : x[i] = 0

\* operator=: x keeps its size.
Assigned(x, source) == [i \in DOMAIN x |-> Component(source, i)]

\* MUTANT: a carry that a carry causes is lost
SumShortCarry(x, rhs) ==
    LET carry(i) == IF Component(x, i) + Component(rhs, i) > BASE - 1 THEN 1 ELSE 0
    IN  [i \in 1 .. Larger(Len(x), Len(rhs)) + 1 |-> (carry(i - 1) + Component(x, i) + Component(rhs, i)) % BASE]

SumOf(x, rhs) ==
    LET n == Larger(Len(x), Len(rhs)) + 1
        carry[i \in 0 .. n] ==
            IF i > 0 /\ carry[i - 1] + Component(x, i) + Component(rhs, i) > BASE - 1 THEN 1 ELSE 0
    IN  [i \in 1 .. n |-> (carry[i - 1] + Component(x, i) + Component(rhs, i)) % BASE]

\* Only the components x has are computed.
Difference(x, right) ==
    LET borrow[i \in 0 .. Len(x)] ==
            IF i > 0 /\ Component(x, i) < Component(right, i) + borrow[i - 1] THEN 1 ELSE 0
    IN  [i \in 1 .. Larger(Len(x), Len(right)) |->
            IF i > Len(x) THEN 0 ELSE (x[i] - Component(right, i) - borrow[i - 1]) % BASE]

\* component * component is an int product: past its range it is undefined.
Multiplies(x, rhs) == \A i \in DOMAIN x : 2 * x[i] * rhs < BASE * BASE

TimesComponent(x, rhs) ==
    LET carry[i \in 0 .. Len(x) + 1] ==
            IF i = 0 THEN 0 ELSE (carry[i - 1] + Component(x, i) * rhs) \div BASE
    IN  [i \in 1 .. Len(x) + 1 |-> (carry[i - 1] + Component(x, i) * rhs) % BASE]

\* lidx >= 0 holds of every unsigned lidx, so that only a right operand with one
\* significant component keeps the inner loop inside the array; neither may be zero.
Convolves(x, rhs) == ~IsZero(x) /\ rhs[1] # 0 /\ \A i \in DOMAIN rhs : i > 1 => rhs[i] = 0

Product(x, rhs) ==
    LET product == TimesComponent(x, rhs[1])
    IN  [i \in 1 .. 2 * Larger(Len(x), Len(rhs)) |-> Component(product, i)]

DividedBy(x, rhs) ==
    LET dividend[i \in 1 .. Len(x)] ==
            x[i] + (IF i = Len(x) THEN 0 ELSE (dividend[i + 1] % rhs) * BASE)
    IN  [i \in DOMAIN x |-> dividend[i] \div rhs]

Bit(n, bit) == (n \div PowerOfTwo[bit]) % 2

Reduced(n, right) == IF n >= right THEN n - right ELSE n

\* The powers of two modulo right, doubled and added bit by bit.
Modulo(x, right) ==
    LET turns == Len(x) * COMPONENT_BITS
        bit(k) == Bit(x[k \div COMPONENT_BITS + 1], k % COMPONENT_BITS)
        r[k \in 0 .. turns] ==
            IF k = 0 THEN [power |-> 1, result |-> 0]
            ELSE [power  |-> Reduced(2 * r[k - 1].power, right),
                  result |-> IF bit(k - 1) = 0 THEN r[k - 1].result
                             ELSE Reduced(r[k - 1].result + r[k - 1].power, right)]
    IN  r[turns].result

\* A defect: compare never answers for equal numbers, its loop counts an unsigned below zero.
Compare(x, rhs) ==
    LET differ == {i \in 1 .. Larger(Len(x), Len(rhs)) : Component(x, i) # Component(rhs, i)}
        top == CHOOSE i \in differ : \A j \in differ : j <= i
    IN  IF differ = {} THEN "forever" ELSE IF Component(x, top) < Component(rhs, top) THEN "less" ELSE "more"

\* The size is the number of components that any number of so many digits fits in.
FromString(str) ==
    LET digits == Len(str)
        bound == Powers(TEN, digits)[digits]
        fits == Powers(BASE, digits)
        size == CHOOSE n \in 0 .. digits : fits[n] >= bound /\ (n = 0 \/ fits[n - 1] < bound)
        x[n \in 0 .. digits] ==
            IF n = 0 THEN [i \in 1 .. size |-> 0]
            ELSE Assigned(x[n - 1], SumOf(Assigned(x[n - 1], TimesComponent(x[n - 1], TEN)), <<str[n]>>))
    IN  x[digits]

\* Divided until nothing is left, in fewer turns than x counts; the last digit is found first.
ToDigits(x) ==
    LET left[n \in 0 .. Value(x)] == IF n = 0 THEN x ELSE DividedBy(left[n - 1], TEN)
        turns == CHOOSE n \in 0 .. Value(x) : IsZero(left[n]) /\ \A m \in 0 .. n - 1 : ~IsZero(left[m])
    IN  IF IsZero(x) THEN <<0>> ELSE [i \in 1 .. turns |-> Modulo(left[turns - i], TEN)]
=============================================================================
