------------------------------ MODULE Library -------------------------------
(***************************************************************************)
(* The algorithm library under include/lib: a behaviour uses one of its    *)
(* parts, kind, from its construction on.  s is what the part holds, model *)
(* what it should.                                                         *)
(***************************************************************************)
EXTENDS Queues, Sorting, Maps, LongIntegers

CONSTANTS
    MapKeys, MapValues, DosKeys, MaxDos, Points, MaxIvl, MaxDeleted,        \* Trees
    VertexIds, EdgeWeights, Order, Directed, Undirected, Positive, Signed,
    MaxLost, GridSizes, INT_MAX,                                            \* GraphAlgorithms
    MaxComponents, HashKeys, WideKeys, Bases,
    MaxElements, BloomSizes, BitNumbers, Digests,                           \* Numbers
    Symbols, HighSymbols, MaxFrequency, Letters, MaxString, Characters, MaxWords,
    BLOCK, LENGTH, WORD, HIGH, MaxChunk, MaxBytes                           \* Codes

ASSUME LibraryKeysAssumption ==
    /\ MapKeys \subseteq Nat /\ DosKeys \subseteq Nat /\ Points \subseteq Nat
    /\ HashKeys \subseteq Nat /\ WideKeys \subseteq Nat /\ Bases \subseteq Nat \ {0, 1}
ASSUME LibrarySizesAssumption ==
    /\ {MaxDos, MaxIvl, MaxDeleted, MaxLost} \subseteq Nat
    /\ {WORD, HIGH} \subseteq Nat \ {0} /\ GridSizes \subseteq (Nat \ {0}) \X (Nat \ {0})
ASSUME DigestsAssumption == LENGTH \in 1 .. BLOCK - 1 /\ 2^WORD % (8 * BLOCK) = 0
ASSUME FlowAssumption == INT_MAX \in Nat /\ INT_MAX < 1000

T == INSTANCE Trees
G == INSTANCE GraphAlgorithms
N == INSTANCE Numbers
C == INSTANCE Codes

Init == T!Init \/ MapsInit \/ QueuesInit \/ SortingInit \/ G!Init \/ N!Init \/ C!Init

Next ==
    \/ kind \in T!Kinds /\ T!Next
    \/ kind \in MapKinds /\ MapsNext
    \/ kind \in QueueKinds /\ QueuesNext
    \/ kind \in SortingKinds /\ SortingNext
    \/ kind \in G!Kinds /\ G!Next
    \/ kind \in N!Kinds /\ N!Next
    \/ kind \in C!Kinds /\ C!Next

Spec == Init /\ [][Next]_part
-----------------------------------------------------------------------------
\* What each part promises; the modules say it in full.

\* The trees hold what was put into them, in order and balanced, and find ranks and overlaps
\* from what the nodes carry, which a deletion gets wrong (rbtree.h, rbtree_defs.h,
\* dos_tree.h, interval_tree.h).
TreesAgree == kind \in T!Kinds => T!TreesAgree /\ T!AugmentedSearch

\* Graphs are the sets of vertices and edges they stand for and the searches complete
\* (directed_graph.h, undirected_graph.h, graph_search.h).
GraphsAgree == kind \in G!Kinds => G!GraphsAgree

\* The graph algorithms find the optimum, A* on square grids and Bellman-Ford without an
\* overflow (dijkstra.h, bellman_ford.h, prim_mst.h, edmonds_karp.h, astar.h).
AlgorithmsAreExact == kind \in G!Kinds => G!AlgorithmsAreExact

\* Long integers, hash functions and filters compute what they should, but for equal numbers
\* compared, digits of large keys, and strings that hash beyond a filter's bits (integer.h,
\* imath.h, universal_hash.h, perfect_hash.h, bloom_filter.h).
NumbersAgree == kind \in N!Kinds => N!NumbersAgree

\* Codes of symbols below 0x80, subsequences, segmentations by the words of the file, and the
\* padding of digests are right (huffman.h, lcs.h, word_seg.h, sha1.h, md5.h).
CodesAreRight == kind \in C!Kinds => C!CodesAreRight
=============================================================================
