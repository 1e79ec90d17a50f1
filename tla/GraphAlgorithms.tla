-------------------------- MODULE GraphAlgorithms ---------------------------
(***************************************************************************)
(* The library's graphs under every sequence of operations, and its        *)
(* algorithms on them: include/lib/dijkstra.h, bellman_ford.h, prim_mst.h, *)
(* edmonds_karp.h and, on a grid, astar.h.  s is the graph, model the      *)
(* vertices and edges it should have.                                      *)
(***************************************************************************)
EXTENDS Adjacency, FiniteSetsExt

CONSTANTS
    VertexIds,          \* vertices of the graphs that are changed
    EdgeWeights,        \* their weights, positive
    Order,              \* the vertex lists the algorithms start from: sequences
    Directed,           \* edges for Dijkstra, Bellman-Ford and the flow: a sequence
    Undirected,         \* edges for Prim
    Positive, Signed,   \* the weights an edge can have; 0 is no edge
    MaxLost,            \* bound: self-loops deleted from an undirected graph
    GridSizes,          \* A*'s grids: <<rows, columns>>
    INT_MAX             \* the largest int, 2^(w-1) - 1

VARIABLES kind, s, model

vars == <<kind, s, model>>

Kinds == {"directed", "undirected", "paths", "signed", "tree", "grid"}

UNDEFINED == -1
-----------------------------------------------------------------------------
(* Dijkstra: w is the workspace [Q, dist, previous] *)

\* MUTANT: the queue is not told of the shorter way
RelaxedQuietly(w, u, dist_u, v) ==
    LET alt == dist_u + v.weight
    IN  IF alt < w.dist[v.id]
        THEN [Q |-> w.Q, dist |-> [w.dist EXCEPT ![v.id] = alt],
              previous |-> [w.previous EXCEPT ![v.id] = u]]
        ELSE w

Relaxed(w, u, dist_u, v) ==
    LET alt == dist_u + v.weight
    IN  IF alt < w.dist[v.id]
        THEN [Q |-> HeapDecreaseKey(w.Q, v.id, alt),
              dist |-> [w.dist EXCEPT ![v.id] = alt],
              previous |-> [w.previous EXCEPT ![v.id] = u]]
        ELSE w

RECURSIVE Settle(_, _)
Settle(g, w) ==
    IF w.Q.size = 0 \/ w.Q.kvs[1].key = INT_MAX THEN w
    ELSE LET u == w.Q.kvs[1].value
             dist_u == w.Q.kvs[1].key
         IN  Settle(g, FoldLeft(LAMBDA x, v : Relaxed(x, u, dist_u, v),
                                [w EXCEPT !.Q = HeapDeleteMin(@)], g.adj[u]))

Dijkstra(g, source) ==
    LET others == SelectSeq(g.list, LAMBDA x : x # source)
        Q == FoldLeft(LAMBDA h, x : HeapInsert(h, INT_MAX, x),
                      HeapInsert(EmptyHeap(g.num_vertex), 0, source), others)
    IN  Settle(g, [Q |-> Q, dist |-> [x \in DOMAIN g.adj |-> IF x = source THEN 0 ELSE INT_MAX],
                   previous |-> [x \in DOMAIN g.adj |-> UNDEFINED]])
-----------------------------------------------------------------------------
(* Bellman-Ford: w is [dist, previous, overflow].  int addition wraps around, and overflow *)
(* notes that it did.                                                                      *)

IntOf(x) == IF x > INT_MAX THEN x - 2 * (INT_MAX + 1) ELSE x

RelaxEdge(w, u, dist_u, v) ==
    LET alt == dist_u + v.weight
        o   == [w EXCEPT !.overflow = @ \/ alt > INT_MAX]
    IN  IF IntOf(alt) < w.dist[v.id] THEN [o EXCEPT !.dist[v.id] = IntOf(alt), !.previous[v.id] = u] ELSE o

RelaxAll(g, w) ==
    FoldLeft(LAMBDA x, u : LET dist_u == x.dist[u] IN
                           FoldLeft(LAMBDA y, v : RelaxEdge(y, u, dist_u, v), x, g.adj[u]),
             w, g.list)

BellmanFord(g, source) ==
    LET start == [dist |-> [x \in DOMAIN g.adj |-> IF x = source THEN 0 ELSE INT_MAX],
                  previous |-> [x \in DOMAIN g.adj |-> UNDEFINED], overflow |-> FALSE]
    IN  FoldLeft(LAMBDA w, i : RelaxAll(g, w), start, [i \in 1 .. g.num_vertex - 1 |-> i])

HasNegativeCycle(g, w) ==
    \E u \in DOMAIN g.adj : \E i \in DOMAIN g.adj[u] :
        IntOf(w.dist[u] + g.adj[u][i].weight) < w.dist[g.adj[u][i].id]
-----------------------------------------------------------------------------
(* Prim: a heap of the edges of each vertex; the tree is a graph of its own *)

PrimHeaps(g) ==
    [x \in DOMAIN g.adj |->
        FoldLeft(LAMBDA h, v : HeapInsert(h, v.weight, v.id), EmptyHeap(g.neigh[x]), g.adj[x])]

\* Edges to vertices of the tree are taken off the top.
RECURSIVE Cleared(_, _)
Cleared(h, mst) ==
    IF h.size > 0 /\ HasVertex(mst, h.kvs[1].value) THEN Cleared(HeapDeleteMin(h), mst) ELSE h

Better(best, x) ==
    LET h == Cleared(best.heaps[x], best.mst)
        b == [best EXCEPT !.heaps[x] = h]
    IN  IF h.size > 0 /\ h.kvs[1].key < best.weight
        THEN [b EXCEPT !.weight = h.kvs[1].key, !.from = x, !.to = h.kvs[1].value] ELSE b

RECURSIVE Grow(_, _)
Grow(heaps, mst) ==
    LET b == FoldLeft(Better, [heaps |-> heaps, mst |-> mst, weight |-> INT_MAX, from |-> 0, to |-> 0], mst.list)
    IN  IF b.weight = INT_MAX THEN mst
        ELSE Grow([b.heaps EXCEPT ![b.from] = HeapDeleteMin(@)],
                  AddEdgeUndirected(AddVertex(mst, b.to), b.from, b.to, b.weight))

Prim(g) == Grow(PrimHeaps(g), AddVertex(EmptyGraph, g.list[1]))
-----------------------------------------------------------------------------
(* Edmonds-Karp: residual capacities between list positions *)

Residual(g) ==
    [p \in (DOMAIN g.list) \X (DOMAIN g.list) |->
        IF IsAdjacent(g, g.list[p[1]], g.list[p[2]]) THEN Weight(g, g.list[p[1]], g.list[p[2]]) ELSE 0]

\* Breadth first; m_pre[i] is set once for every position found, and the search ends at sink.
RECURSIVE FindPath(_, _, _, _)
FindPath(residual, sink, Q, pre) ==
    IF Q.size = 0 THEN [found |-> FALSE, pre |-> pre]
    ELSE LET p == FrontElement(Q)
             n == Cardinality(DOMAIN Q.elements)
             fresh == SelectSeq([i \in 1 .. n |-> i], LAMBDA i : residual[<<p, i>>] > 0 /\ pre[i] = 0)
             with == [i \in DOMAIN pre |-> IF \E k \in DOMAIN fresh : fresh[k] = i THEN p ELSE pre[i]]
         IN  IF with[sink] # 0 /\ pre[sink] = 0 THEN [found |-> TRUE, pre |-> with]
             ELSE FindPath(residual, sink, FoldLeft(Enqueue, Dequeue(Q), fresh), with)

\* The edges of the path that pre leads back from i.
RECURSIVE Back(_, _, _)
Back(pre, source, i) == IF i = source THEN {} ELSE {<<pre[i], i>>} \cup Back(pre, source, pre[i])

RECURSIVE Augment(_, _, _, _)
Augment(residual, source, sink, maxflow) ==
    LET n == CHOOSE k \in 1 .. Cardinality(DOMAIN residual) : k * k = Cardinality(DOMAIN residual)
        r == FindPath(residual, sink, Enqueue(EmptyQueue(n), source),
                      [i \in 1 .. n |-> IF i = source THEN source ELSE 0])
        path == Back(r.pre, source, sink)
        delta == Min({residual[e] : e \in path})
    IN  IF ~r.found THEN maxflow
        ELSE Augment([e \in DOMAIN residual |->
                         residual[e] - (IF e \in path THEN delta ELSE 0)
                                     + (IF <<e[2], e[1]>> \in path THEN delta ELSE 0)],
                     source, sink, maxflow + delta)

MaxFlow(g, source, sink) ==
    LET at(x) == SelectInSeq(g.list, LAMBDA y : y = x)
    IN  Augment(Residual(g), at(source), at(sink), 0)
-----------------------------------------------------------------------------
(* A*: g is [rows, cols, walls] and a cell <<row, column>>; every step to one of the eight *)
(* neighbours costs sqrt(2)                                                               *)

RECURSIVE Isqrt(_, _, _)
Isqrt(n, lo, hi) ==
    IF lo = hi THEN lo
    ELSE LET mid == (lo + hi + 1) \div 2
         IN  IF mid * mid <= n THEN Isqrt(n, mid, hi) ELSE Isqrt(n, lo, mid - 1)

\* The heap's int keys cut off the fraction of the cost of k steps and the straight distance.
Key(k, c, goal) ==
    LET square == (c[1] - goal[1]) * (c[1] - goal[1]) + (c[2] - goal[2]) * (c[2] - goal[2])
    IN  (Isqrt(2 * k * k * 1000000, 0, 30000) + Isqrt(square * 1000000, 0, 30000)) \div 1000

Grid(g) == (0 .. g.rows - 1) \X (0 .. g.cols - 1)
Near(c, d) == d # c /\ d[1] - c[1] \in -1 .. 1 /\ d[2] - c[2] \in -1 .. 1

\* The neighbours of c in the order of the loops: each number is held against the other
\* dimension.
Beside(g, c) ==
    SelectSeq([i \in 1 .. 9 |-> <<c[1] - 1 + ((i - 1) \div 3), c[2] - 1 + ((i - 1) % 3)>>],
              LAMBDA d : Near(c, d) /\ d[1] \in 0 .. g.cols - 1 /\ d[2] \in 0 .. g.rows - 1)

\* The cell where row d[1], column d[2] is found in the array.
Place(g, d) == <<(d[1] * g.cols + d[2]) \div g.cols, (d[1] * g.cols + d[2]) % g.cols>>

InHeap(h, value) == \E i \in 1 .. h.size : h.kvs[i].value = value

\* A shorter way to a cell of the open set is noted; the cell keeps its place in the heap.
\* A wall and a closed cell are passed over; a place outside the array ends what can be said.
Look(g, w, c, d, goal) ==
    LET n == Place(g, d)
        tentative == w.g_score[c] + 1
    IN  IF w.outside \/ n \notin Grid(g) THEN [w EXCEPT !.outside = TRUE]
        ELSE IF n \in g.walls \cup w.closedset \/ (InHeap(w.openset, n) /\ tentative >= w.g_score[n]) THEN w
        ELSE [w EXCEPT !.came_from[n] = c, !.g_score[n] = tentative,
                       !.openset = IF InHeap(@, n) THEN @ ELSE HeapInsert(@, Key(tentative, d, goal), n)]

RECURSIVE Explore(_, _, _)
Explore(g, w, goal) ==
    IF w.outside \/ w.openset.size = 0 \/ w.openset.kvs[1].value = goal THEN w
    ELSE LET c == w.openset.kvs[1].value
             u == [w EXCEPT !.openset = HeapDeleteMin(@), !.closedset = @ \cup {c}]
         IN  Explore(g, FoldLeft(LAMBDA x, d : Look(g, x, c, d, goal), u, Beside(g, c)), goal)

\* The path back from the goal, without its two ends; it ends in Nowhere when the hash table
\* is asked for a cell that was never put into it and makes up an entry.
Nowhere == <<-1, -1>>

RECURSIVE Trace(_, _, _)
Trace(came_from, start, c) ==
    IF came_from[c] = start THEN <<>>
    ELSE IF came_from[c] = Nowhere THEN <<Nowhere>>
    ELSE <<came_from[c]>> \o Trace(came_from, start, came_from[c])

AStar(g, start, goal) ==
    LET w == Explore(g, [openset |-> HeapInsert(EmptyHeap(g.rows * g.cols), 0, start), closedset |-> {},
                         came_from |-> [c \in Grid(g) |-> Nowhere], g_score |-> [c \in Grid(g) |-> 0],
                         outside |-> FALSE], goal)
        found == ~w.outside /\ w.openset.size > 0
    IN  [found |-> found, outside |-> w.outside,
         path |-> IF found THEN Trace(w.came_from, start, goal) ELSE <<>>]
-----------------------------------------------------------------------------
Built(order, edges, weights, add(_, _, _, _)) ==
    FoldLeft(LAMBDA g, i : IF weights[i] = 0 THEN g ELSE add(g, edges[i][1], edges[i][2], weights[i]),
             FoldLeft(AddVertex, EmptyGraph, order), [i \in DOMAIN edges |-> i])

Init ==
    /\ kind \in Kinds
    /\ CASE kind = "paths"  -> \E o \in Order, w \in [DOMAIN Directed -> Positive] : s = Built(o, Directed, w, AddEdgeDirected)
         [] kind = "signed" -> \E o \in Order, w \in [DOMAIN Directed -> Signed] : s = Built(o, Directed, w, AddEdgeDirected)
         [] kind = "tree"   -> \E o \in Order, w \in [DOMAIN Undirected -> Signed] : s = Built(o, Undirected, w, AddEdgeUndirected)
         [] kind = "grid"   -> \E d \in GridSizes : \E walls \in SUBSET ((0 .. d[1] - 1) \X (0 .. d[2] - 1)) :
                                 s = [rows |-> d[1], cols |-> d[2], walls |-> walls]
         [] OTHER           -> s = EmptyGraph
    /\ model = [V |-> {}, E |-> {}, lost |-> 0]

\* The undirected graph counts one edge too few for every self-loop that is deleted.
Step(k, g, v, e) ==
    LET loops == IF k = "undirected" THEN Cardinality({d \in model.E \ e : d[1] = d[2]}) ELSE 0
    IN  /\ kind = k /\ model.lost + loops <= MaxLost
        /\ s' = g /\ model' = [V |-> v, E |-> e, lost |-> model.lost + loops] /\ UNCHANGED kind

Without(id) == {e \in model.E : e[1] # id /\ e[2] # id}

ChangeVertex(id) ==
    \/ Step("directed", AddVertex(s, id), model.V \cup {id}, model.E)
    \/ Step("undirected", AddVertex(s, id), model.V \cup {id}, model.E)
    \/ Step("directed", DeleteVertexDirected(s, id), model.V \ {id}, Without(id))
    \/ kind = "undirected" /\ HasVertex(s, id) /\ Step("undirected", DeleteVertexUndirected(s, id), model.V \ {id}, Without(id))

Joins(x, y) == x \in model.V /\ y \in model.V /\ ~\E e \in model.E : e[1] = x /\ e[2] = y
Between(x, y) == {e \in model.E : e[1] = x /\ e[2] = y}

ChangeEdge(x, y, weight) ==
    \/ Step("directed", AddEdgeDirected(s, x, y, weight), model.V,
            IF Joins(x, y) THEN model.E \cup {<<x, y, weight>>} ELSE model.E)
    \/ Step("directed", DeleteEdgeDirected(s, x, y), model.V, model.E \ Between(x, y))
    \/ Step("undirected", AddEdgeUndirected(s, x, y, weight), model.V,
            IF Joins(x, y) THEN model.E \cup {<<x, y, weight>>, <<y, x, weight>>} ELSE model.E)
    \/ Step("undirected", DeleteEdgeUndirected(s, x, y), model.V,
            model.E \ (Between(x, y) \cup Between(y, x)))

Next ==
    \/ \E id \in VertexIds : ChangeVertex(id)
    \/ \E x, y \in VertexIds, weight \in EdgeWeights : ChangeEdge(x, y, weight)

Spec == Init /\ [][Next]_vars
-----------------------------------------------------------------------------
Entries == UNION {{<<x, s.adj[x][i].id, s.adj[x][i].weight>> : i \in DOMAIN s.adj[x]} : x \in DOMAIN s.adj}

\* A search from source visits what can be reached, each vertex once.
VisitsOnce(visited, source) == ToSet(visited) = Reachable(s, source) /\ IsInjective(visited)

Edges ==
    LET loops == Cardinality({e \in model.E : e[1] = e[2]})
    IN  IF kind = "directed" THEN Cardinality(model.E)
        ELSE (Cardinality(model.E) - loops) \div 2 + loops - model.lost

\* After any sequence of insertions and deletions a graph has exactly the vertices and
\* edges a set of edges would have; only the undirected edge of a vertex to itself is in
\* its list twice.  The counters agree with the lists, but for the undirected graph's
\* num_edges: each deleted self-loop has counted twice (undirected_graph.h:41-45 and 118-124),
\* so the count stays one too low for ever and wraps around below 0.  Both searches visit
\* exactly what can be reached, once, and the breadth-first one in order of distance
\* (directed_graph.h, undirected_graph.h, graph_search.h).
GraphsAgree ==
    kind \in {"directed", "undirected"} =>
        /\ ToSet(s.list) = model.V /\ Entries = model.E /\ DOMAIN s.adj = model.V
        /\ s.num_vertex = Len(s.list) /\ IsInjective(s.list)
        /\ \A x \in model.V :
              /\ s.neigh[x] = Len(s.adj[x])
              /\ \A y \in Neighbours(s, x) : Times(s, x, y) = IF kind = "undirected" /\ x = y THEN 2 ELSE 1
        /\ s.num_edges = Edges % UINTS
        /\ \A source \in model.V :
              LET bfs == BFS(s, source)
              IN  /\ VisitsOnce(bfs, source) /\ VisitsOnce(DFS(s, source), source)
                  /\ \A i, j \in DOMAIN bfs : i < j => Hops(s, source, bfs[i]) <= Hops(s, source, bfs[j])

Source == s.list[1]
Sink == s.list[Len(s.list)]

\* For what can be reached dist is the length of a shortest way and previous the last step
\* of one.
ShortestTo(w, y) ==
    LET d == Distance(s, Source, y)
        x == w.previous[y]
    IN  /\ w.dist[y] = d
        /\ IF y = Source THEN x = UNDEFINED
           ELSE y \in Neighbours(s, x) /\ d = Distance(s, Source, x) + Weight(s, x, y)

Unreached(w, y) == w.dist[y] = INT_MAX /\ w.previous[y] = UNDEFINED

Shortest(w) ==
    \A y \in DOMAIN s.adj : IF y \in Reachable(s, Source) THEN ShortestTo(w, y) ELSE Unreached(w, y)

Cut(S) == MapThenSumSet(LAMBDA e : e[3], {e \in Entries : e[1] \in S /\ e[2] \notin S})
Cuts == {Cut(S \cup {Source}) : S \in SUBSET (DOMAIN s.adj \ {Source, Sink})}

\* Every vertex has a neighbour earlier in the list, so that its first turn finds it
\* with a distance.
Orderly == \A i \in 2 .. Len(s.list) : \E j \in 1 .. i - 1 : IsAdjacent(s, s.list[j], s.list[i])

NegativeCycle ==
    \E x \in DOMAIN s.adj : \E y \in Neighbours(s, x) : Distance(s, y, x) + Weight(s, x, y) < 0

\* A way out of a vertex that is still at INT_MAX overflows when its weight is positive
\* (bellman_ford.h:107).  If that never happens, and it does not in an orderly list, the
\* negative cycle is found, or all the shortest ways; a vertex that cannot be reached keeps
\* INT_MAX unless a way of negative weight leads to it.  If it does happen some distance is wrong.
BellmanFordIsRight(w) ==
    /\ Orderly => ~w.overflow
    /\ ~w.overflow =>
          /\ HasNegativeCycle(s, w) = NegativeCycle
          /\ ~NegativeCycle => \A y \in DOMAIN s.adj :
                IF y \in Reachable(s, Source) THEN ShortestTo(w, y)
                ELSE Unreached(w, y) <=> \A x \in DOMAIN s.adj \ Reachable(s, Source) : Distance(s, x, y) >= 0
    /\ w.overflow => ~Shortest(w)

Total(edges) == MapThenSumSet(LAMBDA e : e[3], edges) \div 2

RECURSIVE Closure(_, _)
Closure(S, edges) ==
    LET T == S \cup {e[2] : e \in {d \in edges : d[1] \in S}} IN IF T = S THEN S ELSE Closure(T, edges)

Connects(edges) == Closure({Source}, edges) = DOMAIN s.adj

SpanningTrees ==
    LET pairs == {{e[1], e[2]} : e \in Entries}
        sets  == {P \in SUBSET pairs : Cardinality(P) = Cardinality(DOMAIN s.adj) - 1}
    IN  {T \in {{e \in Entries : {e[1], e[2]} \in P} : P \in sets} : Connects(T)}

\* The least number of steps around the walls from one of the cells, k before, to goal.
RECURSIVE Steps(_, _, _, _)
Steps(g, cells, goal, k) ==
    LET next == cells \cup {d \in Grid(g) \ g.walls : \E c \in cells : Near(c, d)}
    IN  IF goal \in cells THEN k ELSE IF next = cells THEN Infinite ELSE Steps(g, next, goal, k + 1)

WayIsRight(g, start, goal) ==
    LET steps == Steps(g, {start}, goal, 0)
        r == AStar(g, start, goal)
        path == <<goal>> \o r.path \o <<start>>
    IN  /\ ~r.outside /\ r.found = (steps < Infinite)
        /\ r.found => /\ \A i \in 1 .. Len(path) - 1 : Near(path[i], path[i + 1]) /\ path[i] \in Grid(g) \ g.walls
                      /\ Len(path) - 1 = steps

\* On a square grid every way is right, from a cell to another.  On any other grid without
\* walls some way is missed, or leaves the array, since the rows are held against the
\* columns (astar.h:128 and 130).  From a cell to itself the way is read from a table that
\* nothing was put into (astar.h:107).
AStarIsRight(g, start) ==
    LET goals == Grid(g) \ ({start} \cup g.walls)
    IN  /\ g.rows = g.cols => \A goal \in goals : WayIsRight(g, start, goal)
        /\ g.rows # g.cols /\ g.walls = {} => \E goal \in goals : ~WayIsRight(g, start, goal)
        /\ AStar(g, start, start) = [found |-> TRUE, outside |-> FALSE, path |-> <<Nowhere>>]

\* Dijkstra finds the shortest ways and Edmonds-Karp the least cut; Bellman-Ford finds
\* them with negative edges too, or the negative cycle, unless an int overflows; Prim's
\* tree is a lightest one, with negative weights too; A* finds a way of fewest steps when
\* there is one on a square grid, to another cell (dijkstra.h, edmonds_karp.h,
\* bellman_ford.h, prim_mst.h, astar.h).
AlgorithmsAreExact ==
    CASE kind = "paths" ->
            /\ Shortest(Dijkstra(s, Source))
            /\ MaxFlow(s, Source, Sink) = Min(Cuts)
      [] kind = "signed" ->
            BellmanFordIsRight(BellmanFord(s, Source))
      [] kind = "tree" ->
            Connects(Entries) =>
                LET mst == Prim(s)
                    tree == UNION {{<<x, mst.adj[x][i].id, mst.adj[x][i].weight>> :
                                        i \in DOMAIN mst.adj[x]} : x \in DOMAIN mst.adj}
                IN  tree \in SpanningTrees /\ Total(tree) = Min({Total(T) : T \in SpanningTrees})
      [] kind = "grid" ->
            <<0, 0>> \notin s.walls => AStarIsRight(s, <<0, 0>>)
      [] OTHER -> TRUE
=============================================================================
