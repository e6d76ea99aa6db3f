------------------------------ MODULE LinkedList ------------------------------
(***************************************************************************)
(* The doubly linked list (kernel/src/utils/linked_list.c).  A list is the *)
(* record of its head, its tail and its size, and its nodes are in the     *)
(* memory m.  An operation gives the memory and the list it leaves.        *)
(***************************************************************************)
EXTENDS GenericTree

linked_list_init == [head |-> NULL, tail |-> NULL, size |-> 0]

linked_list_node_init(data) == [prev |-> NULL, next |-> NULL, data |-> data]

linked_list_append(m, list, node) ==
    IF list.head = NULL
    THEN [mem |-> [m EXCEPT ![node].prev = NULL, ![node].next = NULL],
          list |-> [head |-> node, tail |-> node, size |-> list.size + 1]]
    ELSE [mem |-> [m EXCEPT ![node].prev = list.tail, ![node].next = NULL, ![list.tail].next = node],
          list |-> [list EXCEPT !.tail = node, !.size = @ + 1]]

linked_list_remove(m, list, node) ==
    LET fwd == IF m[node].prev = NULL THEN m ELSE [m EXCEPT ![m[node].prev].next = m[node].next]
        bwd == IF m[node].next = NULL THEN fwd ELSE [fwd EXCEPT ![m[node].next].prev = m[node].prev]
    IN [mem |-> [bwd EXCEPT ![node].prev = NULL, ![node].next = NULL],
        list |-> [head |-> IF list.head = node THEN m[node].next ELSE list.head,
                  tail |-> IF list.tail = node THEN m[node].prev ELSE list.tail,
                  size |-> list.size - 1]]

\* Both take the node at the head.
linked_list_pop_head(list) == list.head
linked_list_pop_tail(list) == list.head

\* The nodes that linked_list_foreach meets, and those from the tail to the head.
Forward(m, n) == Chain([a \in DOMAIN m |-> m[a].next], n)
Backward(m, n) == Chain([a \in DOMAIN m |-> m[a].prev], n)

linked_list_node_swap(s, i, j) == [s EXCEPT ![i] = s[j], ![j] = s[i]]

\* The data, in the order of the nodes, after the two nested loops that
\* exchange a node's data with a later node's when comp puts it behind that:
\* behind holds the pairs for which comp is positive.
SortedData(s, behind) ==
    LET n == Len(s)
        pass[k \in 0 .. n * n] ==
            IF k = 0 THEN s
            ELSE LET i == ((k - 1) \div n) + 1
                     j == ((k - 1) % n) + 1
                     t == pass[k - 1]
                 IN IF i < j /\ <<t[i], t[j]>> \in behind THEN linked_list_node_swap(t, i, j) ELSE t
    IN pass[n * n]

linked_list_sort(m, list, behind) ==
    LET nodes == Forward(m, list.head)
        data == SortedData([i \in DOMAIN nodes |-> m[nodes[i]].data], behind)
    IN [a \in DOMAIN m |->
          IF \E i \in DOMAIN nodes : nodes[i] = a
          THEN [m[a] EXCEPT !.data = data[CHOOSE i \in DOMAIN nodes : nodes[i] = a]]
          ELSE m[a]]
=============================================================================
