------------------------------ MODULE Numbers -------------------------------
(***************************************************************************)
(* The library's long integers and its hash functions over every small     *)
(* input, and every sequence of calls on its filters.                      *)
(***************************************************************************)
EXTENDS Hashing, LongIntegers

CONSTANTS
    MaxComponents,      \* longest integers that are checked
    HashKeys,           \* keys of the hash functions
    WideKeys,           \* keys that are split into digits, up to the whole of a uint64_t
    Bases,              \* and the primes they are split by
    MaxElements,        \* most keys of a perfect hash table
    BloomSizes,         \* bits asked of a Bloom filter
    BitNumbers,         \* bits of a bit set of 16
    Digests             \* first words of the digests put into it

VARIABLES kind, s, model

vars == <<kind, s, model>>

Kinds == {"integer", "digits", "uhash", "perfect", "bloom", "bits"}

-----------------------------------------------------------------------------
Integers(n) == UNION {[1 .. k -> 0 .. BASE - 1] : k \in 1 .. n}

Ascending(set) == CHOOSE q \in [1 .. Cardinality(set) -> set] : \A i, j \in DOMAIN q : i < j => q[i] < q[j]

Init ==
    /\ kind \in Kinds
    /\ CASE kind = "integer" -> s \in Integers(MaxComponents)
         [] kind = "digits"  -> \E key \in WideKeys, m \in Bases : s = [key |-> key, m |-> m]
         [] kind = "uhash"   -> \E x, y \in HashKeys : s = [key |-> x, other |-> y]
         [] kind = "perfect" -> \E keys \in {k \in SUBSET HashKeys : Cardinality(k) \in 1 .. MaxElements} :
                                \E h \in UHashes(Cardinality(keys)) : s = [keys |-> Ascending(keys), params |-> h]
         [] kind = "bloom"   -> \E m \in BloomSizes : s = NewBloom(m)
         [] OTHER            -> s = NewBitSet(8)
    /\ model = {}

Put(digest) ==
    /\ kind = "bloom"
    /\ s' = BloomSet(s, <<digest>>) /\ model' = model \cup {digest}
    /\ UNCHANGED kind

Flip(bit) ==
    /\ kind = "bits"
    /\ \/ s' = SetBit(s, bit) /\ model' = model \cup {bit}
       \/ s' = UnsetBit(s, bit) /\ model' = model \ {bit}
    /\ UNCHANGED kind

Next == \/ \E digest \in Digests : Put(digest)
        \/ \E bit \in BitNumbers : Flip(bit)

Spec == Init /\ [][Next]_vars
-----------------------------------------------------------------------------
\* What the loops compute is what arithmetic says, in results that hold all of it.  The
\* order of two equal numbers is the exception: compare never answers (integer.h:293).
IntegersAgree ==
    /\ \A y \in Integers(MaxComponents) :
          /\ Value(SumOf(s, y)) = Value(s) + Value(y)
          /\ Value(s) >= Value(y) => Value(Difference(s, y)) = Value(s) - Value(y)
          /\ Convolves(s, y) /\ Multiplies(s, y[1]) => Value(Product(s, y)) = Value(s) * Value(y)
          /\ Compare(s, y) = CASE Value(s) < Value(y) -> "less" [] Value(s) > Value(y) -> "more"
                               [] OTHER -> "forever"
    /\ \A d \in 1 .. BASE - 1 :
          /\ Multiplies(s, d) => Value(TimesComponent(s, d)) = Value(s) * d
          /\ Value(DividedBy(s, d)) = Value(s) \div d
          /\ Modulo(s, d) = Value(s) % d
    /\ StringValue(ToDigits(s)) = Value(s)
    /\ Value(FromString(ToDigits(s))) = Value(s)

\* A key is split into its digits exactly when its first quotient fits into an int, as that
\* of every uint32_t does, or when its sign fills the upper half with a multiple of the
\* base.  The conversion at imath.h:44-46 spoils every other key, and in some bases the loop
\* then runs past the array.
DigitsAreExact ==
    LET digits == MBased(s.key, s.m)
        left[i \in 0 .. KLEN] == IF i = 0 THEN s.key ELSE left[i - 1] \div s.m
        exact == /\ digits # Overrun
                 /\ \A i \in DOMAIN digits : digits[i] = left[i - 1] % s.m
                 /\ left[Len(digits)] = 0
        harmless == left[1] < 2^BITWIDTH /\ (2^BITWIDTH - 1) % s.m = 0
    IN  exact <=> left[1] < 2^(BITWIDTH - 1) \/ harmless

\* Two keys collide under at most one in prime of the functions, however rand() picks them.
CollisionsAreRare ==
    LET prime == PrimeAbove(MaxElements)
        colliding == {h \in UHashes(MaxElements) : UHashInteger(h, s.key) = UHashInteger(h, s.other)}
    IN  s.key # s.other => Cardinality(colliding) * prime <= Cardinality(UHashes(MaxElements))

\* Every key has a cell that no other key has, and at least every second try at a second
\* level ends it.
PerfectIsPerfect ==
    \A hash \in 0 .. s.params.prime - 1 :
        LET collides == Colliding(s.params, s.keys, hash)
            separating == Separating(collides)
        IN  Len(collides) > 1 =>
                /\ 2 * Cardinality(separating) >= Cardinality(UHashes(Len(collides) * Len(collides)))
                /\ \A lv2 \in separating :
                      LET cell(i) == CellOf(s.params, s.keys, lv2, collides[i])
                      IN  \A i, j \in DOMAIN collides :
                              cell(i) # <<>> /\ (cell(i) = cell(j) => i = j)

\* What a filter forgets is exactly the strings whose hash is beyond its last bit: the prime
\* is above the number of bits asked for, and may be above the bits there are.
Forgets(digest) == \E i \in DOMAIN s.hashes : UHashBigint(s.hashes[i], <<digest>>) >= s.bitset.size

ForgetsBeyondTheEnd == \A digest \in model : BloomTest(s, <<digest>>) <=> ~Forgets(digest)

\* Long integers compute what arithmetic says, but compare never ends for equal ones; a key
\* is split into its digits unless its first quotient is cut to an int, and a Bloom filter
\* forgets exactly the strings that hash beyond its bits; universal hashing spreads
\* keys, a perfect hash table gives each key a cell of its own, and a bit set holds the bits
\* that were set in it (integer.h, imath.h, universal_hash.h, perfect_hash.h,
\* bloom_filter.h, bitset.h).
NumbersAgree ==
    CASE kind = "integer" -> IntegersAgree
      [] kind = "digits"  -> DigitsAreExact
      [] kind = "uhash"   -> CollisionsAreRare
      [] kind = "perfect" -> PerfectIsPerfect
      [] kind = "bloom"   -> ForgetsBeyondTheEnd
      [] kind = "bits"    -> \A bit \in BitNumbers : TestBit(s, bit) = (bit \in model /\ bit < 16)
      [] OTHER            -> TRUE
=============================================================================
