------------------------------- MODULE JGraph -------------------------------
(***************************************************************************)
(* The graph with JSON values, container/experimental/jgraph/jgraph.hpp.   *)
(* A vertex name gets an internal ID, its hash or the next one that is     *)
(* free; vertices, adjacency lists and edges are tables by internal IDs.   *)
(* The values of vertices and edges are JsonValue's.                       *)
(***************************************************************************)
EXTENDS Integers, FiniteSets, SequencesExt

CONSTANTS
    Hash,       \* murmur_hash_64a of each vertex name
    IdBits,     \* width of internal_id_type
    MaxEdges    \* bound: edges

Names == DOMAIN Hash
k_max_internal_id == 2 ^ IdBits - 1

VARIABLES
    m_vertex_id_table,   \* ID -> name
    m_vertex_storage,    \* ID -> vertex data, here its name
    m_adj_list,          \* ID -> the pairs of a neighbour's ID and an edge ID
    m_edge_storage,      \* edge ID -> the names of its ends; IDs are 1, 2, ...
    m_max_vid_distance,
    asked                \* history: the edges registered

vars == <<m_vertex_id_table, m_vertex_storage, m_adj_list, m_edge_storage,
          m_max_vid_distance, asked>>

\* Tables are functions on the IDs in them.
NoTable == [i \in {} |-> <<>>]
Put(table, id, x) == [i \in DOMAIN table \cup {id} |-> IF i = id THEN x ELSE table[i]]

Graph == [ids |-> m_vertex_id_table, vertices |-> m_vertex_storage, adj |-> m_adj_list,
          far |-> m_max_vid_distance]

Init == /\ m_vertex_id_table = NoTable /\ m_vertex_storage = NoTable
        /\ m_adj_list = NoTable /\ m_edge_storage = <<>>
        /\ m_max_vid_distance = 0 /\ asked = <<>>

-----------------------------------------------------------------------------
\* (hash + 1) % k_max_internal_id, in unsigned arithmetic, d times
IdAt(name, d) == (Hash[name] + d) % k_max_internal_id

priv_get_vertex_internal_id(g, name) ==
    LET Used(d) == IdAt(name, d) \in DOMAIN g.ids
        hits == {d \in 0 .. g.far : /\ \A e \in 0 .. d : Used(e)
                                    /\ g.ids[IdAt(name, d)] = name}
    IN  IF hits = {} THEN k_max_internal_id ELSE IdAt(name, Min(hits))

\* Mutant: the distance is not remembered.
GenerateNear(g, name) ==
    LET d == Min({e \in 0 .. k_max_internal_id : IdAt(name, e) \notin DOMAIN g.ids})
    IN  [id |-> IdAt(name, d), far |-> g.far]

priv_generate_vertex_internal_id(g, name) ==
    LET d == Min({e \in 0 .. k_max_internal_id : IdAt(name, e) \notin DOMAIN g.ids})
    IN  [id |-> IdAt(name, d), far |-> Max({d, g.far})]

\* The graph after register_vertex: unchanged if the vertex is there.
WithVertex(g, name) ==
    LET new == priv_generate_vertex_internal_id(g, name)
    IN  IF priv_get_vertex_internal_id(g, name) # k_max_internal_id THEN g
        ELSE [ids |-> Put(g.ids, new.id, name), vertices |-> Put(g.vertices, new.id, name),
              adj |-> Put(g.adj, new.id, <<>>), far |-> new.far]

Becomes(g) == /\ m_vertex_id_table' = g.ids /\ m_vertex_storage' = g.vertices
              /\ m_adj_list' = g.adj /\ m_max_vid_distance' = g.far

register_vertex(name) ==
    /\ Becomes(WithVertex(Graph, name))
    /\ UNCHANGED <<m_edge_storage, asked>>

\* Both ends are registered first; an undirected edge is listed at both.
register_edge(source, destination, undirected) ==
    LET g == WithVertex(WithVertex(Graph, source), destination)
        src == priv_get_vertex_internal_id(g, source)
        dst == priv_get_vertex_internal_id(g, destination)
        edge_id == Len(m_edge_storage) + 1
        there == [g.adj EXCEPT ![src] = Append(@, <<dst, edge_id>>)]
        back == [there EXCEPT ![dst] = Append(@, <<src, edge_id>>)]
    IN  /\ edge_id <= MaxEdges
        /\ Becomes([g EXCEPT !.adj = IF undirected THEN back ELSE there])
        /\ m_edge_storage' = Append(m_edge_storage, <<source, destination>>)
        /\ asked' = Append(asked, [source |-> source, destination |-> destination, undirected |-> undirected])

Next ==
    \/ \E n \in Names : register_vertex(n)
    \/ \E s, d \in Names, undirected \in BOOLEAN : register_edge(s, d, undirected)

Spec == Init /\ [][Next]_vars

-----------------------------------------------------------------------------
(* The queries.                                                            *)

Id(name) == priv_get_vertex_internal_id(Graph, name)
has_vertex(name) == Id(name) # k_max_internal_id

\* The edge IDs between begin and end of find_edges, and how many there are.
find_edges(s, d) ==
    IF has_vertex(s) /\ has_vertex(d)
    THEN SelectSeq(m_adj_list[Id(s)], LAMBDA e : e[1] = Id(d))
    ELSE <<>>
has_edges(s, d) == Len(find_edges(s, d))
degree(name) == IF has_vertex(name) THEN Len(m_adj_list[Id(name)]) ELSE 0

\* The ends an edge iterator shows.
Ends(e) == m_edge_storage[e[2]]

-----------------------------------------------------------------------------
(* Properties.                                                             *)

\* The registered edges from s to d, each undirected one counted both ways.
Count(s, d) ==
    Cardinality({i \in DOMAIN asked : asked[i].source = s /\ asked[i].destination = d})
    + Cardinality({i \in DOMAIN asked : /\ asked[i].undirected
                                        /\ asked[i].destination = s /\ asked[i].source = d})

\* However names collide and in whatever order vertices and edges come: a vertex
\* exists once and is found by its name, the queries count the edges that were
\* registered, and an edge found between two vertices has these as its ends.
GraphExact ==
    /\ \A i \in DOMAIN m_vertex_storage : Id(m_vertex_storage[i]) = i
    /\ DOMAIN m_adj_list = DOMAIN m_vertex_storage /\ m_vertex_id_table = m_vertex_storage
    /\ \A s, d \in Names :
          /\ has_edges(s, d) = Count(s, d)
          /\ \A i \in DOMAIN find_edges(s, d) : Ends(find_edges(s, d)[i]) \in {<<s, d>>, <<d, s>>}
    /\ \A s \in Names : degree(s) = FoldSet(LAMBDA d, n : n + Count(s, d), 0, Names)
=============================================================================
