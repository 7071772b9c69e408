--------------------------------- MODULE Heap ---------------------------------
(***************************************************************************)
(* What DXAllocate, DXReAllocate and DXFree promise (include/dx/memory.h): *)
(* a block that is handed out belongs to its user, and overlaps no other   *)
(* block, until it is freed.                                               *)
(***************************************************************************)
EXTENDS Integers

CONSTANT MaxSize    \* the arena's size, in units of the smallest block

VARIABLE used       \* [Units -> size of the user's block that starts there, or 0]

Units == 0 .. MaxSize - 1

\* The units of a block of n that starts at a.
Extent(a, n) == a .. a + n - 1

Apart(a, n) == \A c \in Units \ {a} : Extent(a, n) \cap Extent(c, used[c]) = {}

Init == used = [a \in Units |-> 0]

Allocate(a, n) ==
  /\ used[a] = 0 /\ Extent(a, n) \subseteq Units /\ Apart(a, n)
  /\ used' = [used EXCEPT ![a] = n]

Resize(a, n) ==
  /\ used[a] > 0 /\ Extent(a, n) \subseteq Units /\ Apart(a, n)
  /\ used' = [used EXCEPT ![a] = n]

Free(a) ==
  /\ used[a] > 0
  /\ used' = [used EXCEPT ![a] = 0]

Next == \E a \in Units :
          \/ Free(a)
          \/ \E n \in 1 .. MaxSize : Allocate(a, n) \/ Resize(a, n)

Spec == Init /\ [][Next]_used
===============================================================================
