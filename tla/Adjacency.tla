----------------------------- MODULE Adjacency ------------------------------
(***************************************************************************)
(* The library's graphs (include/lib/graph_defs.h, directed_graph.h,       *)
(* undirected_graph.h) and the searches on them (graph_search.h).  A graph *)
(* keeps its vertices and each vertex's neighbours in lists, in the order  *)
(* they were added, and counts both.                                       *)
(***************************************************************************)
EXTENDS Containers

EmptyGraph == [list |-> <<>>, adj |-> <<>>, neigh |-> <<>>, num_vertex |-> 0, num_edges |-> 0]

HasVertex(g, id) == \E i \in DOMAIN g.list : g.list[i] = id
IsAdjacent(g, x, y) == \E i \in DOMAIN g.adj[x] : g.adj[x][i].id = y
Vertex(id, weight) == [id |-> id, weight |-> weight]

AddVertex(g, id) ==
    IF HasVertex(g, id) THEN g
    ELSE [g EXCEPT !.list = Append(@, id),
                   !.adj   = [x \in DOMAIN @ \cup {id} |-> IF x = id THEN <<>> ELSE @[x]],
                   !.neigh = [x \in DOMAIN @ \cup {id} |-> IF x = id THEN 0 ELSE @[x]],
                   !.num_vertex = @ + 1]

\* Adjacent::delete_vertex: the first entry for id goes.
ForgetNeighbour(g, x, id) ==
    LET i == SelectInSeq(g.adj[x], LAMBDA v : v.id = id)
    IN  IF i = 0 THEN g ELSE [g EXCEPT !.adj[x] = RemoveAt(@, i), !.neigh[x] = @ - 1]

DropVertex(g, id) ==
    [g EXCEPT !.list = Remove(@, id),
              !.adj   = [x \in DOMAIN @ \ {id} |-> @[x]],
              !.neigh = [x \in DOMAIN @ \ {id} |-> @[x]],
              !.num_vertex = @ - 1]

Link(g, x, y, weight) == [g EXCEPT !.adj[x] = Append(@, Vertex(y, weight)), !.neigh[x] = @ + 1]

\* Every entry for y in x's list goes.
Times(g, x, y) == Len(SelectSeq(g.adj[x], LAMBDA v : v.id = y))
Unlinked(g, x, y) ==
    [g EXCEPT !.adj[x] = SelectSeq(@, LAMBDA v : v.id # y), !.neigh[x] = @ - Times(g, x, y)]

\* num_edges is a uint32_t.
Counting(g, n) == [g EXCEPT !.num_edges = (@ + n) % UINTS]

CanLink(g, x, y) == HasVertex(g, x) /\ HasVertex(g, y) /\ ~IsAdjacent(g, x, y)
CanUnlink(g, x, y) == HasVertex(g, x) /\ HasVertex(g, y) /\ IsAdjacent(g, x, y)
-----------------------------------------------------------------------------
(* DirectedGraph *)

DeleteVertexDirected(g, id) ==
    LET others == SelectSeq(g.list, LAMBDA x : x # id /\ IsAdjacent(g, x, id))
        u == FoldLeft(LAMBDA h, x : Counting(ForgetNeighbour(h, x, id), -1), g, others)
    IN  IF HasVertex(g, id) THEN DropVertex(Counting(u, -u.neigh[id]), id) ELSE g

AddEdgeDirected(g, x, y, weight) ==
    IF CanLink(g, x, y) THEN Counting(Link(g, x, y, weight), 1) ELSE g

DeleteEdgeDirected(g, x, y) ==
    IF CanUnlink(g, x, y) THEN Counting(Unlinked(g, x, y), -Times(g, x, y)) ELSE g

(* UndirectedGraph *)

\* MUTANT: the neighbours keep their entries
DeleteVertexKept(g, id) ==
    IF HasVertex(g, id) THEN DropVertex(Counting(g, -g.neigh[id]), id) ELSE g

DeleteVertexUndirected(g, id) ==
    LET u == FoldLeft(LAMBDA h, v : Counting(ForgetNeighbour(h, v.id, id), -1), g, g.adj[id])
    IN  IF HasVertex(g, id) THEN DropVertex(u, id) ELSE g

AddEdgeUndirected(g, x, y, weight) ==
    IF CanLink(g, x, y) THEN Counting(Link(Link(g, x, y, weight), y, x, weight), 1) ELSE g

DeleteEdgeUndirected(g, x, y) ==
    IF CanUnlink(g, x, y) THEN Counting(Unlinked(Unlinked(g, x, y), y, x), -Times(g, x, y)) ELSE g
-----------------------------------------------------------------------------
(* Searches: the sequence of vertices printed.  A vertex is marked when it is queued. *)

\* What a visit to t adds to the store, in list order.
Fresh(g, t, marked) == SelectSeq(g.adj[t], LAMBDA v : v.id \notin marked)
Ids(vs) == {vs[i].id : i \in DOMAIN vs}

RECURSIVE BreadthFirst(_, _, _, _)
BreadthFirst(g, q, marked, visited) ==
    IF q.size = 0 THEN visited
    ELSE LET t == FrontElement(q)
             fresh == Fresh(g, t, marked)
         IN  BreadthFirst(g, FoldLeft(LAMBDA p, v : Enqueue(p, v.id), Dequeue(q), fresh),
                          marked \cup Ids(fresh), Append(visited, t))

BFS(g, source) ==
    IF ~HasVertex(g, source) THEN <<>>
    ELSE BreadthFirst(g, Enqueue(EmptyQueue(g.num_vertex), source), {source}, <<>>)

RECURSIVE DepthFirst(_, _, _, _)
DepthFirst(g, st, marked, visited) ==
    IF st.size = 0 THEN visited
    ELSE LET t == At(st, 0)
             fresh == Fresh(g, t, marked)
         IN  DepthFirst(g, FoldLeft(LAMBDA p, v : Push(p, v.id), Pop(st), fresh),
                        marked \cup Ids(fresh), Append(visited, t))

DFS(g, source) ==
    IF ~HasVertex(g, source) THEN <<>>
    ELSE DepthFirst(g, Push(EmptyStack(g.num_vertex), source), {source}, <<>>)
-----------------------------------------------------------------------------
(* Reference: the simple ways of a graph *)

Infinite == 1000
Neighbours(g, x) == Ids(g.adj[x])
Weight(g, x, y) == g.adj[x][SelectInSeq(g.adj[x], LAMBDA v : v.id = y)].weight

\* The edges and the weight of every simple way from x to y through the vertices of rest.
RECURSIVE Ways(_, _, _, _)
Ways(g, x, y, rest) ==
    IF x = y THEN {[hops |-> 0, weight |-> 0]}
    ELSE UNION {{[hops |-> p.hops + 1, weight |-> p.weight + Weight(g, x, z)] : p \in Ways(g, z, y, rest \ {z})} :
                   z \in Neighbours(g, x) \cap rest}

WaysTo(g, x, y) == Ways(g, x, y, DOMAIN g.adj \ {x})

Least(set) == IF set = {} THEN Infinite ELSE CHOOSE d \in set : \A e \in set : d <= e
Hops(g, x, y) == Least({p.hops : p \in WaysTo(g, x, y)})
Distance(g, x, y) == Least({p.weight : p \in WaysTo(g, x, y)})
Reachable(g, x) == {y \in DOMAIN g.adj : WaysTo(g, x, y) # {}}
=============================================================================
