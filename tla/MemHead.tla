------------------------------ MODULE MemHead -------------------------------
(***************************************************************************)
(* The static allocator (src/src/exec/exec_memory.c: exec_initmemhead,     *)
(* exec_staticalloc, exec_staticfree, exec_staticrealloc): blocks of one   *)
(* piece of memory, whose free nodes are linked in the order of their      *)
(* addresses.  Each operation takes a memheader mh and returns the one it  *)
(* leaves.                                                                 *)
(*                                                                         *)
(* A free node is written to the memory that is free: the C code keeps its *)
(* link and size there.  What that does to the contents of the blocks is   *)
(* part of the model.                                                      *)
(***************************************************************************)
EXTENDS Integers, Sequences, SequencesExt, FiniteSetsExt

CONSTANT Align  (* tmh_Align + 1 = sizeof(union TMemNode), a power of two  *)

ASSUME AlignAssumption == Align \in Nat \ {0}

TNULL == 0
Junk == 0   (* a byte that its owner has not written *)

(* (n + tmh_Align) & ~tmh_Align *)
RoundUp(n) == ((n + Align - 1) \div Align) * Align

(* tmn_Next is the order of the list. *)
FreeNode(at, size) == [at |-> at, size |-> size]

(* The memory has room for one free node at least. *)
InitMemHead(mem, size, lowfrag, large) ==
  LET n == (size \div Align) * Align IN
  [mem |-> mem, end |-> mem + n, free |-> n, lowfrag |-> lowfrag,
   large |-> large, list |-> <<FreeNode(mem, n)>>]

(* Nodes a block of n bytes can be taken from. *)
Candidates(mh, n) == {i \in DOMAIN mh.list : mh.list[i].size >= n}

(* The first fit, or the first of the best. *)
Fit(mh, n) ==
  LET best == Min({mh.list[i].size : i \in Candidates(mh, n)}) IN
  IF mh.lowfrag THEN Min({i \in Candidates(mh, n) : mh.list[i].size = best})
  ELSE Min(Candidates(mh, n))

(* Cut n bytes from the front of the i-th node. *)
Cut(list, i, n) ==
  IF list[i].size = n THEN RemoveAt(list, i)
  ELSE [list EXCEPT ![i] = FreeNode(@.at + n, @.size - n)]

StaticAlloc(mh, size) ==
  LET n == RoundUp(size) IN
  IF mh.free < n \/ Candidates(mh, n) = {}
  THEN [at |-> TNULL, mh |-> mh]
  ELSE LET i == Fit(mh, n) IN
       [at |-> mh.list[i].at,
        mh |-> [mh EXCEPT !.list = Cut(@, i, n), !.free = @ - n]]

(* The place of the first node after mem. *)
PlaceFor(list, mem) ==
  LET later == {i \in DOMAIN list : mem < list[i].at} IN
  IF later = {} THEN Len(list) + 1 ELSE Min(later)

(* A node goes there, and is concatenated with the one after it. *)
Insert(list, p, node) ==
  IF p <= Len(list) /\ list[p].at = node.at + node.size
  THEN [list EXCEPT ![p] = FreeNode(node.at, node.size + @.size)]
  ELSE InsertAt(list, p, node)

(* And with the one before it. *)
Merge(list, p) ==
  IF p > 1 /\ list[p - 1].at + list[p - 1].size = list[p].at
  THEN RemoveAt([list EXCEPT ![p - 1] = FreeNode(@.at, @.size + list[p].size)], p)
  ELSE list

(* Mutant: not concatenated with the previous free node. *)
StaticFreeForward(mh, mem, size) ==
  LET n == RoundUp(size) IN
  [mh EXCEPT !.free = @ + n, !.list = Insert(@, PlaceFor(@, mem), FreeNode(mem, n))]

(* The freed node goes to its place in the order of addresses and is       *)
(* concatenated with the free nodes before and after it that it touches.   *)
StaticFree(mh, mem, size) ==
  LET n == RoundUp(size)
      p == PlaceFor(mh.list, mem) IN
  [mh EXCEPT !.free = @ + n, !.list = Merge(Insert(@, p, FreeNode(mem, n)), p)]

(* A block that stays where it is and is given d bytes of the i-th node.   *)
Extend(mh, i, d) == [mh EXCEPT !.list = Cut(@, i, d), !.free = @ - d]

(* A block that ends at mend gives back its last d bytes; the i-th node is *)
(* the first one after it.                                                 *)
Truncate(mh, i, mend, d) ==
  [mh EXCEPT !.free = @ + d, !.list = Insert(@, i, FreeNode(mend - d, d))]

(* Mutant: the old block is freed before it is copied. *)
MoveFreesFirst(mh, mem, old, new) ==
  LET via == StaticFree(mh, mem, old)
      a   == StaticAlloc(via, new) IN
  IF a.at = TNULL THEN [at |-> TNULL, mh |-> mh, via |-> mh]
  ELSE [at |-> a.at, mh |-> a.mh, via |-> via]

(* Allocate, copy, free: the copy is made in the state via. *)
Move(mh, mem, old, new) ==
  LET a == StaticAlloc(mh, new) IN
  IF a.at = TNULL THEN [at |-> TNULL, mh |-> mh, via |-> mh]
  ELSE [at |-> a.at, mh |-> StaticFree(a.mh, mem, old), via |-> a.mh]

(* A block that shrinks gives back its end only if there is a free node    *)
(* after it; the last one is moved, and that may fail.                     *)
StaticRealloc(mh, mem, oldsize, newsize) ==
  LET old   == RoundUp(oldsize)
      new   == RoundUp(newsize)
      mend  == mem + old
      later == {i \in DOMAIN mh.list : mh.list[i].at >= mend}
      i     == Min(later)
      Stays(head) == [at |-> mem, mh |-> head, via |-> mh]
  IN CASE new = old -> Stays(mh)
       [] new > old /\ later # {} /\ mh.list[i].at = mend
            /\ mh.list[i].size >= new - old -> Stays(Extend(mh, i, new - old))
       [] new < old /\ later # {} -> Stays(Truncate(mh, i, mend, old - new))
       [] OTHER -> Move(mh, mem, old, new)

FreeBytes(mh) ==
  UNION {mh.list[i].at..(mh.list[i].at + mh.list[i].size - 1) : i \in DOMAIN mh.list}

(* What the memheader is for: the nodes lie in its memory in the order of  *)
(* their addresses, no two of them touch, and tmh_Free counts their bytes. *)
IsSound(mh) ==
  /\ \A i \in DOMAIN mh.list :
       /\ mh.list[i].size > 0
       /\ mh.list[i].at % Align = 0 /\ mh.list[i].size % Align = 0
       /\ mh.mem <= mh.list[i].at /\ mh.list[i].at + mh.list[i].size <= mh.end
       /\ \A j \in DOMAIN mh.list :
            i < j => mh.list[i].at + mh.list[i].size < mh.list[j].at
  /\ mh.free = Cardinality(FreeBytes(mh))
=============================================================================
