-------------------------------- MODULE MCVmm --------------------------------
(* Model-checking instances of Vmm. *)
EXTENDS Vmm

Available(first, last) ==
    [base |-> first, length |-> last - first + 1, available |-> TRUE]
Reserved(first, last) ==
    [base |-> first, length |-> last - first + 1, available |-> FALSE]

(***************************************************************************)
(* Real mode memory whose available part ends inside a page, as on every   *)
(* PC, the region of the kernel up to frame a, and a second one from frame *)
(* b to c behind a hole; and with that one region more than there are      *)
(* records for: the last one is lost.                                      *)
(***************************************************************************)
LowMap(a) ==
    {Available(0, 2), Reserved(3, (2 * PageSize) - 1),
     Available(2 * PageSize, (a * PageSize) - 1)}

LowMaps ==
    {LowMap(a) : a \in 4 .. 10}
    \cup {LowMap(a) \cup {Reserved(a * PageSize, (b * PageSize) - 1),
                          Available(b * PageSize, (c * PageSize) - 1)}
              : a \in 4 .. 7, b \in 8 .. 9, c \in 10 .. 12}
    \cup {LowMap(a) \cup {Reserved(a * PageSize, (8 * PageSize) - 1),
                          Available(8 * PageSize, (c * PageSize) - 1),
                          Available(13 * PageSize, (16 * PageSize) - 1)}
              : a \in 4 .. 7, c \in 9 .. 12}
=============================================================================
