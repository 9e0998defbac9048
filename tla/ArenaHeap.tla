------------------------------- MODULE ArenaHeap ------------------------------
(***************************************************************************)
(* What ArenaAllocator promises its callers (memory/arena.h): each call of *)
(* allocate returns an aligned block that no earlier block overlaps, until *)
(* reset gives all of them back at once.                                   *)
(***************************************************************************)
EXTENDS Naturals

CONSTANTS Sizes, Aligns     \* what callers ask for

VARIABLE blocks             \* blocks handed out since the last reset

Apart(x, y) == x.at + x.size <= y.at \/ y.at + y.size <= x.at

HandOut ==
  \E b \in blocks' :
    /\ blocks' = blocks \cup {b}
    /\ b.size \in Sizes /\ b.align \in Aligns /\ b.at % b.align = 0
    /\ \A x \in blocks : Apart(x, b)

GiveBack == blocks' = {}

HeapSpec == blocks = {} /\ [][HandOut \/ GiveBack]_blocks
===============================================================================
