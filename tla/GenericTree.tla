----------------------------- MODULE GenericTree -----------------------------
(***************************************************************************)
(* The generic tree (kernel/src/utils/generic_tree.c).  A node has a       *)
(* pointer to its parent, to its first child and to the next of its        *)
(* siblings (slide).  Memory is a function m from addresses to what is     *)
(* stored there; an operation gives the memory it leaves behind.           *)
(***************************************************************************)
EXTENDS Integers, Sequences, FiniteSetsExt

NULL == 0

generic_tree_node_init(data) ==
    [parent |-> NULL, slide |-> NULL, child |-> NULL, data |-> data]

\* The cells a walk from n along the pointers next meets.  It meets none twice,
\* so there is no step beyond the number of cells.
Chain(next, n) ==
    LET size == Cardinality(DOMAIN next)
        step == [w \in [met : Seq(Nat), node : Nat] |->
                    IF w.node = NULL THEN w
                    ELSE [met |-> Append(w.met, w.node), node |-> next[w.node]]]
        walk[k \in 0 .. size] ==
            IF k = 0 THEN [met |-> <<>>, node |-> n] ELSE step[walk[k - 1]]
    IN walk[size].met

\* The siblings from n on, and the last of them.
Siblings(m, n) == Chain([a \in DOMAIN m |-> m[a].slide], n)
LastSlide(m, n) == Siblings(m, n)[Len(Siblings(m, n))]

\* Defect: the parent pointer is not set.
InsertNoParent(m, parent, node) ==
    IF m[parent].child = NULL
    THEN [m EXCEPT ![parent].child = node]
    ELSE [m EXCEPT ![LastSlide(m, m[parent].child)].slide = node]

\* The node becomes the last child.
generic_tree_insert(m, parent, node) ==
    IF m[parent].child = NULL
    THEN [m EXCEPT ![parent].child = node, ![node].parent = parent]
    ELSE [m EXCEPT ![LastSlide(m, m[parent].child)].slide = node, ![node].parent = parent]

\* The sibling whose slide is node.
PrevSlide(m, first, node) ==
    CHOOSE k \in Range(Siblings(m, first)) : m[k].slide = node

\* Defect: the siblings after the node go with it.
RemoveCutsSlide(m, node) ==
    LET parent == m[node].parent
        linked == IF parent = NULL THEN m
                  ELSE IF m[parent].child = node
                       THEN [m EXCEPT ![parent].child = m[node].slide]
                       ELSE [m EXCEPT ![PrevSlide(m, m[parent].child, node)].slide = NULL]
    IN [linked EXCEPT ![node].parent = NULL, ![node].slide = NULL]

\* The node is taken out of its parent's children, with what is below it.  The
\* caller forgets the root when it is the node.
generic_tree_remove(m, node) ==
    LET parent == m[node].parent
        linked == IF parent = NULL THEN m
                  ELSE IF m[parent].child = node
                       THEN [m EXCEPT ![parent].child = m[node].slide]
                       ELSE [m EXCEPT ![PrevSlide(m, m[parent].child, node)].slide = m[node].slide]
    IN [linked EXCEPT ![node].parent = NULL, ![node].slide = NULL]

\* What there is to visit at a pointer.
Pointer(n) == IF n = NULL THEN <<>> ELSE <<n>>

\* The nodes in the order in which a search and a callback meet them: a node,
\* then all that is below its children, one after the other.  The recursion is
\* written with its stack: todo has the nodes that are still to be visited.
Visit(m, root) ==
    LET size == Cardinality(DOMAIN m)
        step == [w \in [met : Seq(Nat), todo : Seq(Nat)] |->
                    IF w.todo = <<>> THEN w
                    ELSE LET n == Head(w.todo)
                             slide == IF n = root THEN NULL ELSE m[n].slide
                         IN [met |-> Append(w.met, n),
                             todo |-> Pointer(m[n].child) \o Pointer(slide) \o Tail(w.todo)]]
        walk[k \in 0 .. size] ==
            IF k = 0 THEN [met |-> <<>>, todo |-> Pointer(root)] ELSE step[walk[k - 1]]
    IN walk[size].met

\* The first node whose data is one that comp accepts.
generic_tree_find(m, root, accepted) ==
    LET first == [nodes \in Seq(Nat) |->
                     LET hits == {i \in DOMAIN nodes : m[nodes[i]].data \in accepted}
                     IN IF hits = {} THEN NULL ELSE nodes[Min(hits)]]
    IN first[Visit(m, root)]
=============================================================================
