-------------------------------- MODULE Heap ---------------------------------
(***************************************************************************)
(* What an allocator promises the owners of its blocks: blocks do not      *)
(* overlap, a block keeps its contents for as long as it is allocated, and *)
(* a block that is resized keeps as much of them as fits.                  *)
(***************************************************************************)
EXTENDS Integers, Sequences

CONSTANTS Address, Size

VARIABLE heap  (* heap[p]: what the owner of the block at p finds in it    *)

(* What an owner writes to the bytes of its block, one by one. *)
Fill(n) == [k \in 1..n |-> k]

Without(p) == [q \in DOMAIN heap \ {p} |-> heap[q]]

(* The bytes from p to p + n - 1 are in none of these blocks. *)
IsUnused(p, n, blocks) ==
  \A q \in DOMAIN blocks : p + n <= q \/ q + Len(blocks[q]) <= p

Put(p, contents, blocks) ==
  [q \in DOMAIN blocks \cup {p} |-> IF q = p THEN contents ELSE blocks[q]]

Init == heap = <<>>

Alloc(p, n) ==
  /\ IsUnused(p, n, heap)
  /\ heap' = Put(p, Fill(n), heap)

Free(p) ==
  /\ p \in DOMAIN heap
  /\ heap' = Without(p)

(* The block may move.  Its owner fills in what it has gained. *)
Realloc(p, q, n) ==
  /\ p \in DOMAIN heap
  /\ IsUnused(q, n, Without(p))
  /\ heap' = Put(q, [k \in 1..n |-> IF k <= Len(heap[p]) THEN heap[p][k]
                                    ELSE k], Without(p))

(* The allocator is destroyed, and with it all of its blocks. *)
Destroy == heap' = <<>>

Next ==
  \/ Destroy
  \/ \E p \in Address, n \in Size : Alloc(p, n)
  \/ \E p \in DOMAIN heap :
       Free(p) \/ \E q \in Address, n \in Size : Realloc(p, q, n)

Spec == Init /\ [][Next]_heap
=============================================================================
