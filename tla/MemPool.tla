------------------------------- MODULE MemPool -------------------------------
(***************************************************************************)
(* Memory pools (src/src/exec/exec_memory.c: exec_CreatePool,              *)
(* exec_AllocPool, exec_FreePool, exec_ReallocPool): a list of puddles,    *)
(* each with a static allocator of its own.  A fixed pool has one puddle;  *)
(* any other takes them from a memory manager as it needs them, a large    *)
(* one for a single block above the threshold, and returns those that have *)
(* become free.                                                            *)
(*                                                                         *)
(* Each operation takes a pool pl and returns the one it leaves.  room is  *)
(* the piece of memory its memory manager would hand out, or None.         *)
(***************************************************************************)
EXTENDS MemHead

CONSTANTS
  Span,   (* the distance between two pieces of memory                      *)
  None

ASSUME SpanAssumption == Span \in Nat \ {0} /\ Span % Align = 0

(* f, but for x; f without x *)
With(f, x, y) == [z \in DOMAIN f \cup {x} |-> IF z = x THEN y ELSE f[z]]
DropKey(f, x) == [z \in DOMAIN f \ {x} |-> f[z]]

(* node + 1 *)
Memory(room) == room * Span

(* tpl_PudSize, tpl_ThresSize and tpl_MemManager mean nothing here. *)
FixedPool(flags, room, size) ==
  [flags |-> flags, list |-> <<room>>, pudsize |-> 0, thressize |-> 0,
   mm |-> None,
   head |-> [r \in {room} |->
               InitMemHead(Memory(room), size, "lowfrag" \in flags, FALSE)]]

GrowingPool(flags, pudsize, thressize, mm) ==
  [flags |-> flags, list |-> <<>>, pudsize |-> pudsize,
   thressize |-> thressize, mm |-> mm, head |-> <<>>]

IsFixed(pl) == "fixed" \in pl.flags

SetHead(pl, room, mh) == [pl EXCEPT !.head = With(@, room, mh)]
-----------------------------------------------------------------------------
(* Mutant: t > p is not corrected. *)
AdaptUnlimited(pl, size) ==
  LET t == pl.thressize + (size - pl.thressize \div 4) \div 4
      p == pl.pudsize + (t - pl.pudsize \div 8) \div 8
  IN [pl EXCEPT !.thressize = t, !.pudsize = p]

(* Auto-adapt the parameters: tend to 4x the typical size, and 8x that. *)
Adapt(pl, size) ==
  LET t == pl.thressize + (size - pl.thressize \div 4) \div 4
      p == pl.pudsize + (t - pl.pudsize \div 8) \div 8
  IN [pl EXCEPT !.thressize = t, !.pudsize = Max({p, t})]

(* The result of an allocation: asked is the size the pool has asked its   *)
(* memory manager for, or 0.                                               *)
Result(at, pl, asked) == [at |-> at, pool |-> pl, asked |-> asked]

(* A block of a puddle the pool has. *)
AllocFrom(pl, room, size) ==
  LET a == StaticAlloc(pl.head[room], size) IN
  Result(a.at, SetHead(pl, room, a.mh), 0)

(* Regular puddles are added at the head, large ones at the tail. *)
NewPuddle(pl, room, n, large, size) ==
  LET mh == InitMemHead(Memory(room), n, "lowfrag" \in pl.flags, large)
      a  == StaticAlloc(mh, size)
  IN IF room = None THEN Result(TNULL, pl, n)
     ELSE Result(a.at, SetHead([pl EXCEPT !.list = IF large THEN Append(@, room)
                                                   ELSE <<room>> \o @],
                               room, a.mh), n)

(* The puddles before the first large one that have room for the block. *)
Serving(pl, size) ==
  {i \in DOMAIN pl.list :
     /\ StaticAlloc(pl.head[pl.list[i]], size).at # TNULL
     /\ \A j \in 1..i : ~pl.head[pl.list[j]].large}

AllocPool(pl, size, room) ==
  IF IsFixed(pl) THEN AllocFrom(pl, Head(pl.list), size)
  ELSE LET q == IF "auto" \in pl.flags THEN Adapt(pl, size) ELSE pl IN
       IF size > RoundUp(q.thressize)
       THEN NewPuddle(q, room, RoundUp(size), TRUE, RoundUp(size))
       ELSE IF Serving(q, size) # {}
       THEN AllocFrom(q, q.list[Min(Serving(q, size))], size)
       ELSE NewPuddle(q, room, RoundUp(q.pudsize), FALSE, size)
-----------------------------------------------------------------------------
(* TNodeUp *)
NodeUp(list, i) ==
  IF i = 1 THEN list
  ELSE [list EXCEPT ![i] = list[i - 1], ![i - 1] = list[i]]

(* The puddle the block lies in. *)
Holds(pl, room, mem, size) ==
  pl.head[room].mem <= mem /\ mem + size <= pl.head[room].end
Holder(pl, mem, size) ==
  SelectInSeq(pl.list, LAMBDA room : Holds(pl, room, mem, size))

(* Mutant: a puddle that has become free is kept. *)
ReleaseKeeps(pl, mem, size) ==
  LET i == Holder(pl, mem, size) IN
  [SetHead(pl, pl.list[i], StaticFree(pl.head[pl.list[i]], mem, size))
     EXCEPT !.list = NodeUp(@, i)]

(* Free a block; flush its puddle if that is free now, else move it up. *)
Release(pl, mem, size) ==
  LET i    == Holder(pl, mem, size)
      room == pl.list[i]
      mh   == StaticFree(pl.head[room], mem, size) IN
  IF mh.free = mh.end - mh.mem
  THEN [pl EXCEPT !.list = RemoveAt(@, i), !.head = DropKey(@, room)]
  ELSE [SetHead(pl, room, mh) EXCEPT !.list = NodeUp(@, i)]

FreePool(pl, mem, size) ==
  IF IsFixed(pl)
  THEN SetHead(pl, Head(pl.list),
               StaticFree(pl.head[Head(pl.list)], mem, size))
  ELSE Release(pl, mem, size)

(* "this is no longer a large node": its block has been resized in place, *)
(* which is possible only if it needs as much memory as before.            *)
NoLongerLarge(pl, i) ==
  LET room == pl.list[i] IN
  IF pl.head[room].large
  THEN [pl EXCEPT !.list = <<room>> \o RemoveAt(@, i), !.head[room].large = FALSE]
  ELSE pl

(* Resize a block in its puddle; if that fails, allocate a new one from    *)
(* the pool, copy in the state via, and free the old one.                  *)
ReallocPool(pl, mem, old, new, room) ==
  LET i    == IF IsFixed(pl) THEN 1 ELSE Holder(pl, mem, old)
      here == pl.list[i]
      s == StaticRealloc(pl.head[here], mem, old, new)
      a == AllocPool(pl, new, room)
      Outcome(r, next, via) ==
        [at |-> r.at, pool |-> next, via |-> via, asked |-> r.asked]
  IN IF s.at # TNULL \/ IsFixed(pl)
     THEN Outcome(Result(s.at, pl, 0), NoLongerLarge(SetHead(pl, here, s.mh), i),
                  SetHead(pl, here, s.via))
     ELSE IF a.at = TNULL THEN Outcome(a, a.pool, a.pool)
     ELSE Outcome(a, Release(a.pool, mem, old), a.pool)
=============================================================================
