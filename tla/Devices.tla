-------------------------------- MODULE Devices --------------------------------
(***************************************************************************)
(* The device registry (kernel/src/device/device.c) on its generic tree,   *)
(* and the lists of devices it hands out.                                  *)
(*                                                                         *)
(* Tree nodes and list nodes come from kmalloc.  A freed cell keeps its    *)
(* content until it is allocated again, as the kernel heap leaves it, so a *)
(* pointer to it goes astray only after that.  A device is the triple of a *)
(* name and two numbers.                                                   *)
(***************************************************************************)
EXTENDS LinkedList

CONSTANTS
    Device,      \* the devices but the computer
    NumCells,    \* cells of the heap
    MaxCalls     \* bound: calls of the registry after the boot

Addr == 1 .. NumCells
Computer == <<"computer", 0, 0>>
NoDevice == <<>>

ASSUME DevicesAssumption ==
    /\ NumCells \in Nat /\ MaxCalls \in Nat
    /\ Computer \notin Device

VARIABLES
    mem, used,   \* the cells, and those that are allocated
    root,        \* device_tree->root
    list,        \* the list handed out last, or NoList
    orphans,     \* history: the nodes below devices that were taken out
    calls

deviceVars == <<mem, used, root, list, orphans, calls>>

NoList == [head |-> -1, tail |-> -1, size |-> 0]

DevicesInit ==
    /\ mem = [a \in Addr |-> generic_tree_node_init(Computer)]
    /\ used = {} /\ root = NULL /\ list = NoList /\ orphans = {} /\ calls = 0

\* The cell kmalloc gives.
kmalloc == Min(Addr \ used)
HeapLeft == Addr \ used # {}

-----------------------------------------------------------------------------
(* What a device is *)

Bus(d) == CASE d[1] = "pci" -> "pci" [] d = Computer -> "reserved" [] OTHER -> "platform"
Type(d) ==
    CASE d[1] = "pci" -> "unknown" [] d = Computer -> "reserved" [] OTHER -> d[1]

Buses == {"pci", "platform"}
Types == {"unknown", "video", "keyboard", "storage"}

Nodes == Visit(mem, root)
Data(nodes) == [i \in DOMAIN nodes |-> mem[nodes[i]].data]
InTree == {mem[n].data : n \in Range(Nodes)}

-----------------------------------------------------------------------------
(* device.c *)

device_init ==
    /\ HeapLeft
    /\ mem' = [mem EXCEPT ![kmalloc] = generic_tree_node_init(Computer)]
    /\ used' = used \cup {kmalloc}
    /\ root' = kmalloc
    /\ UNCHANGED <<list, orphans, calls>>

\* The node that holds the device.
NodeOf(d) == generic_tree_find(mem, root, {d})

InsertBelow(d, parent_node) ==
    /\ HeapLeft
    /\ mem' = generic_tree_insert([mem EXCEPT ![kmalloc] = generic_tree_node_init(d)], parent_node, kmalloc)
    /\ used' = used \cup {kmalloc}
    /\ UNCHANGED <<root, list, orphans>>

device_register(d) == InsertBelow(d, root)

\* Defect: below the root whatever the parent.
RegisterAtRoot(d, parent) == IF NodeOf(parent) = NULL THEN UNCHANGED <<mem, used, root, list, orphans>> ELSE InsertBelow(d, root)

device_register_at(d, parent) ==
    IF NodeOf(parent) = NULL
    THEN UNCHANGED <<mem, used, root, list, orphans>>
    ELSE InsertBelow(d, NodeOf(parent))

\* Defect: the node is found but never freed.
UnregisterLeaks(d) ==
    LET n == NodeOf(d)
    IN IF n = NULL THEN UNCHANGED <<mem, used, root, list, orphans>>
       ELSE /\ mem' = generic_tree_remove(mem, n)
            /\ orphans' = orphans \cup (Range(Visit(mem, n)) \ {n})
            /\ UNCHANGED <<used, root, list>>

\* The node is freed; what is below it is neither freed nor to be found again.
device_unregister(d) ==
    LET n == NodeOf(d)
    IN IF n = NULL THEN UNCHANGED <<mem, used, root, list, orphans>>
       ELSE /\ mem' = generic_tree_remove(mem, n)
            /\ used' = used \ {n}
            /\ orphans' = orphans \cup (Range(Visit(mem, n)) \ {n})
            /\ UNCHANGED <<root, list>>

device_find_by_type(type) ==
    LET n == generic_tree_find(mem, root, {d \in Device : Type(d) = type})
    IN IF n = NULL THEN NoDevice ELSE mem[n].data

\* The callback is called at every node and appends a new list node for a hit.
FoundList(wanted) ==
    LET nodes == Nodes
        built[k \in 0 .. Len(nodes)] ==
            IF k = 0 THEN [mem |-> mem, used |-> used, list |-> linked_list_init]
            ELSE LET b == built[k - 1]
                     d == mem[nodes[k]].data
                     cell == Min(Addr \ b.used)
                     r == linked_list_append([b.mem EXCEPT ![cell] = linked_list_node_init(d)], b.list, cell)
                 IN IF d \notin wanted THEN b
                    ELSE [mem |-> r.mem, used |-> b.used \cup {cell}, list |-> r.list]
    IN built[Len(nodes)]

RoomFor(wanted) == Cardinality(Addr \ used) >= Cardinality({n \in Range(Nodes) : mem[n].data \in wanted})

HandOut(wanted) ==
    /\ list = NoList
    /\ RoomFor(wanted)
    /\ LET found == FoundList(wanted)
       IN mem' = found.mem /\ used' = found.used /\ list' = found.list
    /\ UNCHANGED <<root, orphans>>

device_find_all_by_type(type) == HandOut({d \in Device : Type(d) = type})
device_find_all_by_bustype(type) == HandOut({d \in Device : Bus(d) = type})

-----------------------------------------------------------------------------
(* What the caller does with its list *)

\* A node is removed and freed.
Drop(node) ==
    /\ list # NoList
    /\ IF node = NULL THEN UNCHANGED <<mem, used, list>>
       ELSE /\ mem' = linked_list_remove(mem, list, node).mem
            /\ list' = linked_list_remove(mem, list, node).list
            /\ used' = used \ {node}
    /\ UNCHANGED <<root, orphans>>

\* A comparison that puts larger numbers first.
Sort ==
    /\ list # NoList
    /\ mem' = linked_list_sort(mem, list, {p \in Device \X Device : p[1][3] < p[2][3]})
    /\ UNCHANGED <<used, root, list, orphans>>

\* Each node is freed, and its next is read after that.
linked_list_destroy ==
    /\ list # NoList
    /\ used' = used \ Range(Forward(mem, list.head))
    /\ list' = NoList
    /\ UNCHANGED <<mem, root, orphans>>

-----------------------------------------------------------------------------
(* Properties *)

\* The part of the type invariant about the registry and its heap.
DevicesTypeOK ==
    /\ used \subseteq Addr /\ root \in used \cup {NULL} /\ orphans \subseteq Addr
    /\ calls \in 0 .. MaxCalls
    /\ list.size \in 0 .. NumCells

\* The tree is one: every node is met once and is allocated, and is met below
\* the node its parent pointer names (generic_tree_insert, generic_tree_remove).
TreeSound ==
    LET nodes == Nodes
        tree == Range(nodes)
    IN /\ Len(nodes) = Cardinality(tree) /\ tree \subseteq used
       /\ \A n \in tree \ {root} :
             LET p == mem[n].parent
             IN p \in tree /\ p # n /\ n \in Range(Visit(mem, p))

\* A search by type gives a registered device of that type, and nothing only
\* when there is none: not after its node was taken out or lost, and whatever
\* branch it is in (device_find_by_type, generic_tree_find).
FoundByType ==
    root # NULL =>
        \A t \in Types :
            LET d == device_find_by_type(t)
                candidates == {e \in InTree : Type(e) = t}
            IN IF candidates = {} THEN d = NoDevice ELSE d \in candidates

\* A list is the same read from either end, has the size it says, and holds no
\* device twice and none that was not registered when it was handed out,
\* whatever was removed from it since (linked_list_append, linked_list_remove,
\* linked_list_sort).
ListSound ==
    list # NoList =>
        LET fwd == Forward(mem, list.head)
            bwd == Backward(mem, list.tail)
        IN /\ fwd = [i \in DOMAIN bwd |-> bwd[Len(bwd) + 1 - i]]
           /\ list.size = Len(fwd)
           /\ Cardinality(Range(Data(fwd))) = Len(fwd)
           /\ Range(fwd) \subseteq used

\* Every allocated cell is in the tree or in the list, but the nodes below a
\* device that was taken out: those are lost (device_unregister,
\* linked_list_destroy).
OnlyOrphansLost ==
    LET tree == Range(Nodes)
    IN /\ used = tree \cup orphans \cup (IF list = NoList THEN {} ELSE Range(Forward(mem, list.head)))
       /\ orphans \cap tree = {}
=============================================================================
