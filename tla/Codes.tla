------------------------------- MODULE Codes --------------------------------
(***************************************************************************)
(* The library's algorithms on strings: Huffman codes                      *)
(* (include/lib/huffman.h), the longest common subsequence (lcs.h with the *)
(* array of 2darray.h), word segmentation (word_seg.h), and the buffering  *)
(* and padding of the digests (sha1.h, md5.h).  The compression function   *)
(* of a digest is left uninterpreted: a digest is the sequence of blocks   *)
(* it was given.                                                           *)
(***************************************************************************)
EXTENDS Containers

CONSTANTS
    Symbols,        \* symbols of a sample, in ascending order: a sequence
    HighSymbols,    \* those of them that are negative as a char
    MaxFrequency,   \* most occurrences of one in the sample
    Letters,        \* letters of the strings of lcs
    MaxString,      \* their longest
    Characters,     \* characters of the words
    MaxWords,       \* words added to the dictionary
    BLOCK,          \* bytes of a block, 64 in the code
    LENGTH,         \* bytes of it that hold the message's length, 8 in the code
    WORD,           \* bits of the lower word of the length, 32 in the code
    HIGH,           \* values of its higher word, 2^32 in the code
    MaxChunk, MaxBytes

VARIABLES kind, s, model

vars == <<kind, s, model>>

Kinds == {"huffman", "lcs", "words", "sha1", "md5"}
-----------------------------------------------------------------------------
(* Huffman: a tree is [symbol] at a leaf, [left, right] at a node *)

HuffLeaf(symbol) == [symbol |-> symbol]
IsLeaf(node) == "symbol" \in DOMAIN node

\* MUTANT: the two rarest trees are put back at the least priority of the two
MergedCheaply(pq) == PQueue(Tail(Tail(pq)), [left |-> pq[1].value, right |-> pq[2].value], pq[1].priority)

Merged(pq) ==
    PQueue(Tail(Tail(pq)), [left |-> pq[1].value, right |-> pq[2].value], pq[1].priority + pq[2].priority)

\* recreate_from_freqs: freqs is a function from symbols to how often they occur.
HuffTree(freqs) ==
    LET pq == FoldLeft(LAMBDA q, c : IF freqs[c] = 0 THEN q ELSE PQueue(q, HuffLeaf(c), freqs[c]), <<>>, Symbols)
    IN  FoldLeft(LAMBDA q, i : Merged(q), pq, [i \in 1 .. Len(pq) - 1 |-> i])[1].value

\* build_symbol: the table of codes, as a set of pairs.
RECURSIVE BuildSymbol(_, _)
BuildSymbol(node, code) ==
    IF IsLeaf(node) THEN {<<node.symbol, code>>}
    ELSE BuildSymbol(node.left, Append(code, 0)) \cup BuildSymbol(node.right, Append(code, 1))

Code(tree, c) == (CHOOSE p \in BuildSymbol(tree, <<>>) : p[1] = c)[2]

\* The sample's symbols are taken as unsigned char, the message's as char: a negative one is
\* looked up where nothing is, like one that the sample has not.  The hash table makes up
\* an entry whose code is not written.
Garbled == <<"garbled">>

Encode(tree, msg) ==
    LET known == {p[1] : p \in BuildSymbol(tree, <<>>)} \ HighSymbols
    IN  IF \E i \in DOMAIN msg : msg[i] \notin known THEN Garbled
        ELSE FoldLeft(LAMBDA bits, c : bits \o Code(tree, c), <<>>, msg)

\* A leaf is printed and left when the next bit comes, the last one at the end.
Decode(tree, codes) ==
    LET flushed(r) == IF IsLeaf(r.node) THEN [node |-> tree, out |-> Append(r.out, r.node.symbol)] ELSE r
        step(r, bit) == LET f == flushed(r)
                        IN  [f EXCEPT !.node = IF bit = 0 THEN @.left ELSE @.right]
    IN  flushed(FoldLeft(step, [node |-> tree, out |-> <<>>], codes)).out
-----------------------------------------------------------------------------
(* Longest common subsequence *)

LcsLength(X, Y) ==
    LET A[i \in 0 .. Len(X), j \in 0 .. Len(Y)] ==
            IF i = 0 \/ j = 0 THEN 0
            ELSE IF X[i] = Y[j] THEN A[i - 1, j - 1] + 1
            ELSE IF A[i, j - 1] > A[i - 1, j] THEN A[i, j - 1] ELSE A[i - 1, j]
    IN  A

\* In the order in which the caller pops it off the stack.
RECURSIVE LcsBacktrack(_, _, _, _, _)
LcsBacktrack(A, X, Y, i, j) ==
    IF i = 0 \/ j = 0 THEN <<>>
    ELSE IF X[i] = Y[j] THEN Append(LcsBacktrack(A, X, Y, i - 1, j - 1), X[i])
    ELSE IF A[i, j - 1] > A[i - 1, j] THEN LcsBacktrack(A, X, Y, i, j - 1)
    ELSE LcsBacktrack(A, X, Y, i - 1, j)
-----------------------------------------------------------------------------
(* Word segmentation: how often each character was seen in each state *)

States == <<"SINGLE", "BEGIN", "MIDDLE", "END">>

\* SP and TP, in halves.
SP(i) == IF States[i] \in {"SINGLE", "BEGIN"} THEN 1 ELSE 0
TP(k, j) == IF (States[k] \in {"SINGLE", "END"}) = (States[j] \in {"SINGLE", "BEGIN"}) THEN 1 ELSE 0

StateAt(word, i) ==
    IF Len(word) = 1 THEN 1 ELSE IF i = 1 THEN 2 ELSE IF i = Len(word) THEN 4 ELSE 3

AddWord(SC, word) ==
    FoldLeft(LAMBDA c, i : [c EXCEPT ![word[i]][StateAt(word, i)] = @ + 1], SC, [i \in DOMAIN word |-> i])

\* A character's emission probabilities EP are SC over their sum, as of calc_all.  The sum
\* scales all of them, and 0 / 0 for a character never seen compares like 0, so that the
\* counts themselves stand for EP.
NoCounts == [c \in Characters |-> [i \in 1 .. 4 |-> 0]]
CalcAll(w) == [w EXCEPT !.EP = w.SC, !.reading = FALSE]

Best(n, f(_)) ==
    LET best == {k \in 1 .. n : f(k) > 0 /\ \A i \in 1 .. n : f(i) <= f(k)}
    IN  IF best = {} THEN 1 ELSE CHOOSE k \in best : \A i \in best : k <= i

Observed(EP, r, c) ==
    LET prob(j, k) == r.V[k] * TP(k, j) * EP[c][j]
        from == <<Best(4, LAMBDA k : prob(1, k)), Best(4, LAMBDA k : prob(2, k)),
                  Best(4, LAMBDA k : prob(3, k)), Best(4, LAMBDA k : prob(4, k))>>
    IN  [V |-> <<prob(1, from[1]), prob(2, from[2]), prob(3, from[3]), prob(4, from[4])>>,
         path |-> [j \in 1 .. 4 |-> Append(r.path[from[j]], j)]]

Run(EP, sentence) ==
    LET first == [V |-> <<SP(1) * EP[sentence[1]][1], SP(2) * EP[sentence[1]][2], 0, 0>>,
                  path |-> <<<<1>>, <<2>>, <<3>>, <<4>>>>]
        r == FoldLeft(LAMBDA x, c : Observed(EP, x, c), first, Tail(sentence))
    IN  r.path[Best(4, LAMBDA i : r.V[i])]
-----------------------------------------------------------------------------
(* Digests: the k-th byte of a message is k *)

PAD == -1
Zeros(n) == [i \in 1 .. n |-> 0]

NewSha == [low |-> 0, high |-> 0, block |-> <<>>, blocks |-> <<>>, computed |-> FALSE, corrupted |-> FALSE]

\* A block that is full is compressed.
ProcessBlock(c) == [c EXCEPT !.blocks = Append(@, c.block), !.block = <<>>]

Sha1Byte(c, byte) ==
    LET low == (c.low + 8) % 2^WORD
        high == IF low = 0 THEN (c.high + 1) % HIGH ELSE c.high
        d == [c EXCEPT !.block = Append(@, byte), !.low = low, !.high = high,
                       !.corrupted = low = 0 /\ high = 0]
    IN  IF c.corrupted THEN c ELSE IF Len(d.block) = BLOCK THEN ProcessBlock(d) ELSE d

Sha1Input(c, bytes) ==
    IF bytes = <<>> THEN c
    ELSE IF c.computed \/ c.corrupted THEN [c EXCEPT !.corrupted = TRUE]
    ELSE FoldLeft(Sha1Byte, c, bytes)

FilledTo(c, n) == [c EXCEPT !.block = @ \o Zeros(n - Len(@))]
Marked(c) == [c EXCEPT !.block = Append(@, PAD)]

Sha1Pad(c) ==
    LET padded == IF Len(c.block) > BLOCK - LENGTH - 1
                  THEN FilledTo(ProcessBlock(FilledTo(Marked(c), BLOCK)), BLOCK - LENGTH)
                  ELSE FilledTo(Marked(c), BLOCK - LENGTH)
    IN  ProcessBlock([padded EXCEPT !.block = @ \o <<c.high, c.low>>])

Sha1Final(c) ==
    IF c.corrupted \/ c.computed THEN c ELSE [Sha1Pad(c) EXCEPT !.computed = TRUE]

NewMD5 == [i |-> <<0, 0>>, in |-> Zeros(BLOCK), blocks |-> <<>>, computed |-> FALSE]

\* in keeps what was there when a block starts again.
MD5Byte(c, byte) ==
    LET at == c.mdi + 1
        in == [c.in EXCEPT ![at] = byte]
    IN  IF at = BLOCK THEN [c EXCEPT !.in = in, !.mdi = 0, !.blocks = Append(@, in)]
        ELSE [c EXCEPT !.in = in, !.mdi = at]

Mdi(c) == (c.i[1] \div 8) % BLOCK

MD5Update(c, bytes) ==
    LET added == (8 * Len(bytes)) % 2^WORD
        carry == IF (c.i[1] + added) % 2^WORD < c.i[1] THEN 1 ELSE 0
        i == <<(c.i[1] + added) % 2^WORD, (c.i[2] + carry + (8 * Len(bytes)) \div 2^WORD) % HIGH>>
        r == FoldLeft(MD5Byte, [mdi |-> Mdi(c), in |-> c.in, blocks |-> c.blocks], bytes)
    IN  [c EXCEPT !.i = i, !.in = r.in, !.blocks = r.blocks]

MD5Final(c) ==
    LET padLen == IF Mdi(c) < BLOCK - LENGTH THEN BLOCK - LENGTH - Mdi(c) ELSE 2 * BLOCK - LENGTH - Mdi(c)
        d == MD5Update(c, <<PAD>> \o Zeros(padLen - 1))
    IN  [d EXCEPT !.blocks = Append(@, SubSeq(d.in, 1, BLOCK - LENGTH) \o <<c.i[1], c.i[2]>>),
                  !.computed = TRUE]
-----------------------------------------------------------------------------
Strings(set, low, high) == UNION {[1 .. n -> set] : n \in low .. high}

Init ==
    /\ kind \in Kinds
    /\ CASE kind = "huffman" -> \E f \in [ToSet(Symbols) -> 0 .. MaxFrequency] :
                                    (\E c \in DOMAIN f : f[c] > 0) /\ s = f
         [] kind = "lcs"     -> \E X, Y \in Strings(Letters, 0, MaxString) : s = [X |-> X, Y |-> Y]
         [] kind = "words"   -> \E file \in BOOLEAN : s = [SC |-> NoCounts, EP |-> NoCounts, reading |-> file]
         [] kind = "sha1"    -> s = NewSha
         [] OTHER            -> s = NewMD5
    /\ model = IF kind = "words" THEN [added |-> <<>>, file |-> <<>>] ELSE 0

\* model has the words that were added and those of the file.  The constructor adds the
\* words of its file one by one; add_word can be called after it.
Learn(word) ==
    /\ kind = "words" /\ Len(model.added) < MaxWords
    /\ s' = [s EXCEPT !.SC = AddWord(@, word)]
    /\ model' = [model EXCEPT !.added = Append(@, word)]
    /\ UNCHANGED kind

\* The end of the file, which is not empty; behind a newline the last word is added once more.
Loaded(newline) ==
    LET again == IF newline THEN <<model.added[Len(model.added)]>> ELSE <<>>
        words == model.added \o again
    IN  /\ kind = "words" /\ s.reading /\ model.added # <<>>
        /\ s' = CalcAll([s EXCEPT !.SC = FoldLeft(AddWord, @, again)])
        /\ model' = [added |-> words, file |-> words]
        /\ UNCHANGED kind

\* Otherwise model counts the bytes of the message.
Feed(n) ==
    /\ kind \in {"sha1", "md5"} /\ model + n <= MaxBytes
    /\ LET bytes == [i \in 1 .. n |-> model + i]
       IN  \/ kind = "sha1" /\ s' = Sha1Input(s, bytes)
           \/ kind = "md5" /\ ~s.computed /\ s' = MD5Update(s, bytes)
    /\ model' = model + n
    /\ UNCHANGED kind

Finish ==
    /\ \/ kind = "sha1" /\ s' = Sha1Final(s)
       \/ kind = "md5" /\ ~s.computed /\ s' = MD5Final(s)
    /\ UNCHANGED <<kind, model>>

Next ==
    \/ \E word \in Strings(Characters, 1, 3) : Learn(word)
    \/ \E newline \in BOOLEAN : Loaded(newline)
    \/ \E n \in 0 .. MaxChunk : Feed(n)
    \/ Finish

Spec == Init /\ [][Next]_vars
-----------------------------------------------------------------------------
\* The least total of bits over all trees for a set of symbols.
RECURSIVE Cost(_, _)
Cost(freqs, set) ==
    IF Cardinality(set) <= 1 THEN 0
    ELSE LET splits == {Cost(freqs, T) + Cost(freqs, set \ T) : T \in SUBSET set \ {{}, set}}
         IN  (CHOOSE m \in splits : \A n \in splits : m <= n)
                 + FoldLeft(LAMBDA sum, c : IF c \in set THEN sum + freqs[c] ELSE sum, 0, Symbols)

\* A message of the sample's symbols comes back, but for two cases.  One with a symbol
\* that is negative as a char, 0x80 and above, is garbled (huffman.h:101), like one with a
\* symbol the sample has not.  With a single symbol the tree is a leaf and its code empty:
\* whatever was encoded, the symbol comes back once.
HuffmanIsOptimal ==
    LET used == {c \in DOMAIN s : s[c] > 0}
        tree == HuffTree(s)
        bits(c) == Len(Code(tree, c))
    IN  /\ FoldLeft(LAMBDA sum, c : IF c \in used THEN sum + s[c] * bits(c) ELSE sum, 0, Symbols) = Cost(s, used)
        /\ \A msg \in Strings(ToSet(Symbols), 0, 3) :
              IF ToSet(msg) \subseteq used \ HighSymbols
              THEN Decode(tree, Encode(tree, msg)) = IF Cardinality(used) > 1 THEN msg ELSE <<tree.symbol>>
              ELSE Encode(tree, msg) = Garbled

Subsequences(X) == {SelectSeq([i \in DOMAIN X |-> <<i, X[i]>>], LAMBDA p : p[1] \in I) : I \in SUBSET DOMAIN X}
Spelled(q) == [i \in DOMAIN q |-> q[i][2]]

LcsIsLongest ==
    LET A == LcsLength(s.X, s.Y)
        common == {Spelled(q) : q \in Subsequences(s.X)} \cap {Spelled(q) : q \in Subsequences(s.Y)}
        lcs == LcsBacktrack(A, s.X, s.Y, Len(s.X), Len(s.Y))
    IN  /\ lcs \in common /\ Len(lcs) = A[Len(s.X), Len(s.Y)]
        /\ \A q \in common : Len(q) <= Len(lcs)

\* Where the words of the file have a character: which one, and in which state.
Seen ==
    UNION {{<<k, i, model.file[k][i], StateAt(model.file[k], i)>> : i \in DOMAIN model.file[k]} :
               k \in DOMAIN model.file}

Likelihood(seen, sentence, states) ==
    FoldLeft(LAMBDA p, i : p * Cardinality({o \in seen : o[3] = sentence[i] /\ o[4] = states[i]}) *
                           (IF i = 1 THEN SP(states[1]) ELSE TP(states[i - 1], states[i])),
             1, [i \in DOMAIN sentence |-> i])

\* The words of the file decide alone: what add_word adds later counts for nothing, and
\* without a file every character is a word (word_seg.h:154 and 288).
SegmentationIsLikeliest ==
    LET seen == Seen
    IN  \A sentence \in Strings(Characters, 1, 3) :
            LET path == Run(s.EP, sentence)
                most == Likelihood(seen, sentence, path)
            IN  /\ Len(path) = Len(sentence)
                /\ model.file = <<>> => ToSet(path) = {1}
                /\ \A states \in [DOMAIN sentence -> 1 .. 4] : Likelihood(seen, sentence, states) <= most

\* The message, a mark, zeros up to the length, and the length, cut into blocks.
Standard(n, length) ==
    LET zeros == CHOOSE z \in 0 .. BLOCK - 1 : (n + 1 + z + LENGTH) % BLOCK = 0
        all == [i \in 1 .. n |-> i] \o <<PAD>> \o Zeros(zeros) \o length
    IN  [b \in 1 .. Len(all) \div BLOCK |-> SubSeq(all, (b - 1) * BLOCK + 1, b * BLOCK)]

TooLong == 8 * model >= 2^WORD * HIGH

DigestIsOfMessage ==
    IF kind = "md5"
    THEN s.computed => s.blocks = Standard(model, <<(8 * model) % 2^WORD, (8 * model) \div 2^WORD % HIGH>>)
    ELSE /\ TooLong => s.corrupted
         /\ s.computed /\ ~s.corrupted =>
                s.blocks = Standard(model, <<(8 * model) \div 2^WORD, (8 * model) % 2^WORD>>)

\* Huffman codes are as short as any and decode to what was encoded, if that was ASCII and
\* the sample has two symbols or more; the common subsequence is a longest one, the
\* segmentation a likeliest one by the words of the file, and a digest is that of the padded
\* message however the message was cut into pieces (huffman.h, lcs.h, word_seg.h, sha1.h,
\* md5.h).
CodesAreRight ==
    CASE kind = "huffman" -> HuffmanIsOptimal
      [] kind = "lcs"     -> LcsIsLongest
      [] kind = "words"   -> SegmentationIsLikeliest
      [] kind \in {"sha1", "md5"} -> DigestIsOfMessage
      [] OTHER            -> TRUE
=============================================================================
