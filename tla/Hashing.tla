------------------------------ MODULE Hashing -------------------------------
(***************************************************************************)
(* The library's hash functions (include/lib/prime.h, imath.h,             *)
(* universal_hash.h, hash_string.h) and what is built from them: the       *)
(* perfect hash table (perfect_hash.h) and the Bloom filter (bitset.h,     *)
(* bloom_filter.h).                                                        *)
(***************************************************************************)
EXTENDS Integers, Sequences, FiniteSets, SequencesExt

CONSTANTS
    KLEN,       \* cells of the array of a key's digits
    DIGITS,     \* those that a key of the tables fills: the rest of a[] meets zeros
    FUNCTIONS,  \* functions of a Bloom filter
    BITWIDTH    \* bits of an int; a uint64_t has twice as many

InWord(x) == x % 2^BITWIDTH

\* is_prime: division by the odd numbers whose square is at most n.
IsPrime(n) ==
    IF n % 2 = 0 \/ n < 2 THEN n = 2
    ELSE \A p \in 3 .. n : (p % 2 = 1 /\ p <= n \div p) => n % p # 0

PrimeAbove(n) == CHOOSE p \in n + 1 .. 2 * n + 2 : IsPrime(p) /\ \A q \in n + 1 .. p - 1 : ~IsPrime(q)

\* The quotient goes through an int: its upper half is lost, and the sign of the lower one
\* fills it when it becomes the key again.
Quotient(key, m) ==
    LET half == 2^(BITWIDTH - 1)
        quotient == InWord((key \div m) + half) - half
    IN  quotient % 2^(2 * BITWIDTH)

\* The loop ends at the first key whose quotient is 0, and that key is the last digit.  If
\* none of KLEN is, it writes behind the array: nothing is said of the digits then.
Overrun == <<>>

MBased(key, m) ==
    LET left[i \in 0 .. KLEN - 1] == IF i = 0 THEN key ELSE Quotient(left[i - 1], m)
        ends(i) == Quotient(left[i], m) = 0
        last == CHOOSE i \in 0 .. KLEN - 1 : ends(i) /\ \A j \in 0 .. i - 1 : ~ends(j)
    IN  IF ~\E i \in 0 .. KLEN - 1 : ends(i) THEN Overrun
        ELSE [i \in 1 .. last + 1 |-> IF i = last + 1 THEN InWord(left[i - 1]) ELSE left[i - 1] % m]

DotProduct(K, A) ==
    FoldLeft(LAMBDA sum, i : InWord(sum + (IF i \in DOMAIN K THEN K[i] * A[i] ELSE 0)), 0, [i \in 1 .. DIGITS |-> i])

\* What uhash_init can leave behind: rand() decides on a.
UHashes(max_element) ==
    [prime : {PrimeAbove(max_element)}, a : [1 .. DIGITS -> 0 .. PrimeAbove(max_element) - 1]]

UHashInteger(params, key) == DotProduct(MBased(key, params.prime), params.a) % params.prime

UHashBigint(params, digest) == digest[1] % params.prime

HashString(str) == FoldLeft(LAMBDA hash, c : InWord(31 * hash + c), 0, str)
-----------------------------------------------------------------------------
(* Perfect hash table: keys is in ascending order, params the first level *)

Colliding(params, keys, hash) == SelectSeq(keys, LAMBDA k : UHashInteger(params, k) = hash)

\* The functions lv2_slot_init can end with: it tries until one has no collision.
Separating(collides) ==
    {h \in UHashes(Len(collides) * Len(collides)) :
        \A i, j \in DOMAIN collides :
            UHashInteger(h, collides[i]) = UHashInteger(h, collides[j]) => i = j}

\* operator[]: the cell of the value.  A first-level slot keeps the last of its keys; lv2 is
\* the function its second level ended with.
CellOf(params, keys, lv2, key) ==
    LET hash == UHashInteger(params, key)
        collides == Colliding(params, keys, hash)
    IN  IF collides = <<>> THEN <<>>
        ELSE IF Last(collides) = key THEN <<hash>>
        ELSE IF Len(collides) > 1
                /\ \E i \in DOMAIN collides : collides[i] = key
                       /\ UHashInteger(lv2, collides[i]) = UHashInteger(lv2, key)
             THEN <<hash, UHashInteger(lv2, key)>> ELSE <<>>
-----------------------------------------------------------------------------
(* Bit set: the size is rounded up to whole bytes, and always by one bit at least *)

NewBitSet(num_bits) == [size |-> (num_bits \div 8 + 1) * 8, bits |-> {}]
SetBit(b, bit)   == IF bit >= b.size THEN b ELSE [b EXCEPT !.bits = @ \cup {bit}]
UnsetBit(b, bit) == IF bit >= b.size THEN b ELSE [b EXCEPT !.bits = @ \ {bit}]
TestBit(b, bit)  == bit < b.size /\ bit \in b.bits

(* Bloom filter: hashes is the sequence of its functions, whose a is never read *)

NewBloom(m) == [bitset |-> NewBitSet(m), hashes |-> [i \in 1 .. FUNCTIONS |-> [prime |-> PrimeAbove(m)]]]

BloomSet(f, digest) ==
    [f EXCEPT !.bitset = FoldLeft(LAMBDA b, h : SetBit(b, UHashBigint(h, digest)), @, f.hashes)]

BloomTest(f, digest) ==
    \A i \in DOMAIN f.hashes : TestBit(f.bitset, UHashBigint(f.hashes[i], digest))
=============================================================================
