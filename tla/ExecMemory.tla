----------------------------- MODULE ExecMemory ------------------------------
(***************************************************************************)
(* Memory managers (src/src/exec/exec_memory.c: TAlloc, TRealloc, TFree,   *)
(* TCreateMemManager and the managers of the default build) with a pool on *)
(* top of one of them and the host's memory below.                         *)
(*                                                                         *)
(* The host has a few pieces of memory.  Managers, pools, puddles and      *)
(* messages are allocated from it like everything else, so that whatever   *)
(* needs memory may fail.  The managers for tracking, locking, pooled and  *)
(* static memory are not in the build (ENABLE_ADVANCED_MEMORY_MANAGERS):   *)
(* asking for one is a call that fails.                                    *)
(***************************************************************************)
EXTENDS MemPool

CONSTANTS
  Room,       (* the pieces of memory of the host                           *)
  Static,     (* a piece of memory some task has for a fixed pool           *)
  Size,       (* sizes of blocks of a pool                                  *)
  MemSize,    (* sizes of allocations from a manager                        *)
  PoolFlags,  (* combinations of "auto" and "lowfrag"                        *)
  FixedSize,  (* size of fixed pools                                        *)
  PudSize,    (* values of TPool_PudSize                                    *)
  ThresSize,  (* values of TPool_ThresSize                                  *)
  MaxPudSize, (* bound on tpl_PudSize                                       *)
  Others,     (* bound on managers and allocations other than the pool's   *)
  Base, Msg   (* texb_BaseMemManager and texb_MsgMemManager                 *)

ASSUME RoomAssumption == Room \subseteq Nat \ {0} /\ Static \in Nat \ (Room \cup {0})
ASSUME NamesAssumption ==
  {Base, Msg, None} \cap (Room \cup {Static}) = {} /\ Base # Msg /\ None \notin {Base, Msg}

(* Nobody asks for nothing.  A puddle fits into a piece of memory, and the *)
(* one of a fixed pool has room for a free node.                           *)
ASSUME PoolSizeAssumption ==
  /\ Size \subseteq Nat \ {0} /\ MemSize \subseteq Nat \ {0}
  /\ MaxPudSize \in Nat /\ PudSize \subseteq 0..MaxPudSize /\ ThresSize \subseteq Nat
  /\ RoundUp(MaxPudSize) <= Span /\ \A n \in Size : RoundUp(n) <= Span
  /\ FixedSize \in Align..Span
ASSUME FlagsAssumption == PoolFlags \subseteq SUBSET {"auto", "lowfrag"}

VARIABLES
  mem,    (* mem.hal[r]: size of the piece r the host has handed out        *)
          (* mem.info[r]: its TMemManagerInfo; mm is None if that is gone   *)
          (* mem.track[m]: tmm_TrackList of the message manager m           *)
  mms,    (* mms[m]: the type of the manager m that a task has created      *)
  held,   (* allocations that a task has from a manager                     *)
  pool,   (* the pool                                                       *)
  poolat, (* where its struct TMemPool is; None, if there is no pool        *)
  heap,   (* the pool's blocks, as their owners see them                    *)
  lost    (* history: allocations no one refers to                          *)

vars == <<mem, mms, held, pool, poolat, heap, lost>>
poolvars == <<pool, poolat, heap>>

Init ==
  /\ mem = [hal |-> <<>>, info |-> <<>>, track |-> [m \in {Msg} |-> {}]]
  /\ mms = <<>>
  /\ held = {}
  /\ pool = None
  /\ poolat = None
  /\ heap = <<>>
  /\ lost = {}
-----------------------------------------------------------------------------
(* sizeof(struct TNode) + sizeof(struct TMessage), sizeof(TMemManagerInfo), *)
(* and that of a memhead, a manager or a pool: none is zero.               *)
MessageSize == 2
InfoSize == 1
StructSize == 1

Type(m) == IF m = Base THEN "kernel" ELSE IF m = Msg THEN "message" ELSE mms[m]

HasPool == poolat # None

(* What a manager of this type asks the host for. *)
HalSize(type, n) == n + InfoSize + (IF type = "message" THEN MessageSize ELSE 0)

(* The memory the host hands out to this manager next. *)
NextRoom(m, from) ==
  IF Type(m) = "void" \/ Room \subseteq DOMAIN from.hal THEN None
  ELSE Min(Room \ DOMAIN from.hal)

(* TAlloc, where the memory is r. *)
Alloc(from, m, n, r) ==
  [hal   |-> With(from.hal, r, HalSize(Type(m), n)),
   info  |-> With(from.info, r, [mm |-> m, size |-> n]),
   track |-> IF Type(m) = "message" THEN [from.track EXCEPT ![m] = @ \cup {r}]
             ELSE from.track]

(* Mutant: exec_mmu_msgfree takes size for that of the whole. *)
ReturnedUserSize(from, r) == from.info[r].size + InfoSize

(* What TFree returns to the host. *)
Returned(from, r) == HalSize(Type(from.info[r].mm), from.info[r].size)

(* TFree of all of them.  THALFree: what is not returned is still taken.   *)
FreeAll(from, rooms) ==
  LET whole == {r \in rooms : from.hal[r] = Returned(from, r)} IN
  [hal   |-> [r \in DOMAIN from.hal \ whole |->
                IF r \in rooms THEN from.hal[r] - Returned(from, r) ELSE from.hal[r]],
   info  |-> [r \in DOMAIN from.info \ rooms |-> from.info[r]],
   track |-> [m \in DOMAIN from.track |->
                from.track[m] \ {r \in rooms : from.info[r].mm = m}]]

(* TFree *)
Free(from, r) == FreeAll(from, {r})
-----------------------------------------------------------------------------
(* TAlloc(m, n); messages are allocated from Msg. *)
MemAlloc(m, n) ==
  LET r == NextRoom(m, mem) IN
  /\ r # None
  /\ mem' = Alloc(mem, m, n, r)
  /\ held' = held \cup {r}
  /\ UNCHANGED <<mms, poolvars, lost>>

MemFree(r) ==
  /\ r \in held /\ mem.info[r].mm # None
  /\ mem' = Free(mem, r)
  /\ held' = held \ {r}
  /\ UNCHANGED <<mms, poolvars, lost>>

(* TRealloc succeeds: "messages cannot be reallocated". *)
MemRealloc(r, n) ==
  /\ r \in held /\ mem.info[r].mm # None
  /\ Type(mem.info[r].mm) # "message"
  /\ mem' = [mem EXCEPT
       !.hal[r] = @ - HalSize("kernel", mem.info[r].size) + HalSize("kernel", n),
       !.info[r].size = n]
  /\ UNCHANGED <<mms, held, poolvars, lost>>

Types == {"kernel", "message", "void", "pooled", "static", "tracking"}

(* Mutant: the static block is forgotten when exec_initmm fails. *)
CreateMemManagerKeeps(type) ==
  LET r  == NextRoom(Base, mem)
      m1 == Alloc(mem, Base, StructSize, r)
      r2 == NextRoom(Base, m1)
  IN /\ r # None
     /\ IF type \in {"kernel", "message", "void"}
        THEN /\ mem' = IF type = "message"
                       THEN [m1 EXCEPT !.track = With(@, r, {})] ELSE m1
             /\ mms' = With(mms, r, type)
             /\ UNCHANGED lost
        ELSE /\ r2 # None
             /\ mem' = Free(Alloc(m1, Base, StructSize, r2), r)
             /\ lost' = IF type = "pooled" THEN lost \cup {r2} ELSE lost
             /\ UNCHANGED mms
  /\ UNCHANGED <<held, poolvars>>

(* exec_CreateMemManager without an allocator.  exec_initmm knows no       *)
(* manager for pooled, static or tracked memory; the manager is freed      *)
(* again, and the static block, but not the internal pool.                 *)
CreateMemManager(type) ==
  LET r  == NextRoom(Base, mem)
      m1 == Alloc(mem, Base, StructSize, r)
      r2 == NextRoom(Base, m1)
      m2 == IF r2 = None THEN m1 ELSE Alloc(m1, Base, StructSize, r2)
  IN
  /\ r # None
  /\ \/ /\ type \in {"kernel", "message", "void"}
        /\ mem' = IF type = "message"
                  THEN [m1 EXCEPT !.track = With(@, r, {})] ELSE m1
        /\ mms' = With(mms, r, type)
        /\ UNCHANGED lost
     \/ /\ type = "pooled"
        /\ mem' = Free(m2, r)
        /\ lost' = IF r2 = None THEN lost ELSE lost \cup {r2}
        /\ UNCHANGED mms
     \/ /\ type = "static"
        /\ mem' = Free(IF r2 = None THEN m2 ELSE Free(m2, r2), r)
        /\ UNCHANGED <<mms, lost>>
     \/ /\ type = "tracking"
        /\ mem' = Free(m1, r)
        /\ UNCHANGED <<mms, lost>>
  /\ UNCHANGED <<held, poolvars>>

(* TDESTROY of a manager that no pool uses.  A message manager frees its   *)
(* messages; what was allocated from another one stays, with a pointer to  *)
(* a manager that is gone, and its owner can no longer free it.            *)
DestroyMemManager(m) ==
  LET messages == IF mms[m] = "message" THEN mem.track[m] ELSE {}
      left     == FreeAll(mem, messages)
      orphans  == {r \in DOMAIN left.info : left.info[r].mm = m}
      freed    == Free(left, m)
  IN /\ HasPool => pool.mm # m
     /\ mem' = [freed EXCEPT
          !.info = [r \in DOMAIN @ |->
                      IF r \in orphans THEN [@[r] EXCEPT !.mm = None] ELSE @[r]],
          !.track = DropKey(@, m)]
     /\ mms' = DropKey(mms, m)
     /\ held' = held \ (messages \cup orphans)
     /\ lost' = lost \cup orphans
     /\ UNCHANGED poolvars
-----------------------------------------------------------------------------
(* exec_CreatePool without TPool_StaticSize. *)
CreatePool(flags, m, pudsize, thressize) ==
  LET r == NextRoom(Base, mem) IN
  /\ ~HasPool /\ r # None
  /\ pudsize >= thressize
  /\ mem' = Alloc(mem, Base, StructSize, r)
  /\ pool' = GrowingPool(flags \cup {"free"}, pudsize, thressize, m)
  /\ poolat' = r
  /\ UNCHANGED <<mms, held, heap, lost>>

(* exec_CreatePool with TPool_StaticSize, for memory that the caller has.  *)
CreateFixedPool(flags) ==
  LET r == NextRoom(Base, mem) IN
  /\ ~HasPool /\ r # None
  /\ mem' = Alloc(mem, Base, StructSize, r)
  /\ pool' = FixedPool(flags \cup {"fixed"}, Static, FixedSize)
  /\ poolat' = r
  /\ UNCHANGED <<mms, held, heap, lost>>

(* The same, for memory of the manager m; without it there is no pool. *)
CreateFixedPoolFrom(flags, m) ==
  LET r  == NextRoom(Base, mem)
      m1 == Alloc(mem, Base, StructSize, r)
      r2 == NextRoom(m, m1)
  IN
  /\ ~HasPool /\ r # None
  /\ IF r2 = None
     THEN mem' = Free(m1, r) /\ UNCHANGED <<pool, poolat>>
     ELSE /\ mem' = Alloc(m1, m, FixedSize + StructSize, r2)
          /\ pool' = [FixedPool(flags \cup {"fixed", "free"}, r2, FixedSize)
                        EXCEPT !.mm = m]
          /\ poolat' = r
  /\ UNCHANGED <<mms, held, heap, lost>>

(* exec_destroypool *)
DestroyPool ==
  /\ HasPool
  /\ mem' = Free(FreeAll(mem, IF "free" \in pool.flags THEN Range(pool.list)
                              ELSE {}), poolat)
  /\ pool' = None
  /\ poolat' = None
  /\ heap' = <<>>
  /\ UNCHANGED <<mms, held, lost>>

(* Free nodes are written to the memory they describe. *)
InNode(a, pl) ==
  \E r \in DOMAIN pl.head : \E node \in Range(pl.head[r].list) :
    node.at <= a /\ a < node.at + Align

Seen(blocks, pl) ==
  [p \in DOMAIN blocks |->
     [k \in DOMAIN blocks[p] |->
        IF InNode(p + k - 1, pl) THEN Junk ELSE blocks[p][k]]]

(* The block at p, whose first bytes are old; its owner writes the rest. *)
Own(p, old, n, blocks, pl) ==
  Seen(With(blocks, p, [k \in 1..n |-> IF k <= Len(old) THEN old[k] ELSE k]), pl)

(* The memory a pool that was asked for some more has left the manager in. *)
Served(a, room, freed) ==
  FreeAll(IF a.asked = 0 \/ room = None THEN mem
          ELSE Alloc(mem, pool.mm, a.asked + StructSize, room), freed)

PoolRoom == IF IsFixed(pool) THEN None ELSE NextRoom(pool.mm, mem)

(* TAllocPool *)
PoolAlloc(n) ==
  /\ LET a == AllocPool(pool, n, PoolRoom) IN
     /\ pool' = a.pool
     /\ mem' = Served(a, PoolRoom, {})
     /\ heap' = IF a.at = TNULL THEN heap ELSE Own(a.at, <<>>, n, heap, a.pool)
  /\ UNCHANGED <<mms, held, poolat, lost>>

(* TFreePool *)
PoolFree(p) ==
  /\ p \in DOMAIN heap
  /\ LET pl == FreePool(pool, p, Len(heap[p])) IN
     /\ pool' = pl
     /\ mem' = FreeAll(mem, DOMAIN pool.head \ DOMAIN pl.head)
     /\ heap' = Seen(DropKey(heap, p), pl)
  /\ UNCHANGED <<mms, held, poolat, lost>>

(* TReallocPool of a block to a size that is not 0. *)
PoolRealloc(p, n) ==
  /\ p \in DOMAIN heap
  /\ LET a == ReallocPool(pool, p, Len(heap[p]), n, PoolRoom) IN
     /\ pool' = a.pool
     /\ mem' = Served(a, PoolRoom, DOMAIN pool.head \ DOMAIN a.pool.head)
     /\ heap' = IF a.at = TNULL THEN heap
                ELSE Own(a.at, IF a.at = p THEN heap[p] ELSE Seen(heap, a.via)[p],
                         n, DropKey(heap, p), a.pool)
  /\ UNCHANGED <<mms, held, poolat, lost>>

Managers == {Base, Msg} \cup DOMAIN mms

(* Bound: beside a pool there are few other allocations. *)
IsBounded ==
  HasPool => Cardinality(DOMAIN mem.hal \ DOMAIN pool.head) <= Others

MemNext ==
  \/ IsBounded /\ \E n \in MemSize : \E m \in Managers : MemAlloc(m, n)
  \/ \E r \in held : MemFree(r) \/ \E n \in MemSize : MemRealloc(r, n)
  \/ IsBounded /\ \E type \in Types : CreateMemManager(type)
  \/ \E m \in DOMAIN mms : DestroyMemManager(m)

PoolNext ==
  \/ \E flags \in PoolFlags : \E m \in Managers :
       \/ \E p \in PudSize, t \in ThresSize : CreatePool(flags, m, p, t)
       \/ CreateFixedPoolFrom(flags, m)
  \/ \E flags \in PoolFlags : CreateFixedPool(flags)
  \/ DestroyPool
  \/ \E p \in DOMAIN heap : PoolFree(p)
  \/ /\ HasPool
     /\ \E n \in Size :
          PoolAlloc(n) \/ \E p \in DOMAIN heap : PoolRealloc(p, n)
     /\ pool'.pudsize <= MaxPudSize

Next == MemNext \/ PoolNext

Spec == Init /\ [][Next]_vars
-----------------------------------------------------------------------------
Puddles == IF HasPool THEN DOMAIN pool.head ELSE {}

TypeOK ==
  /\ DOMAIN mem.hal \subseteq Room /\ DOMAIN mem.info = DOMAIN mem.hal
  /\ \A r \in DOMAIN mem.hal : mem.hal[r] \in Nat
  /\ DOMAIN mms \subseteq Room
  /\ held \subseteq Room /\ lost \subseteq Room
  /\ poolat \in Room \cup {None} /\ ~HasPool => heap = <<>>
  /\ Puddles \subseteq Room \cup {Static}

(* Nothing is lost, kept or returned in the wrong size, whatever fails:    *)
(* every piece of the host's memory belongs to exactly one manager, pool,  *)
(* puddle or task, but for what the code is known to lose, the pool of a   *)
(* manager that cannot be created and what a task has not returned to its  *)
(* manager in time.  The host will get back what it has given.             *)
HostMemoryIsOwned ==
  LET owners == <<DOMAIN mms, held, {poolat} \ {None}, Puddles \ {Static}, lost>>
  IN /\ DOMAIN mem.hal = UNION Range(owners)
     /\ \A i, j \in DOMAIN owners : i # j => owners[i] \cap owners[j] = {}
     /\ \A r \in DOMAIN mem.info :
          LET m == mem.info[r].mm IN
          m # None => /\ m \in Managers
                      /\ mem.hal[r] = HalSize(Type(m), mem.info[r].size)
                      /\ Type(m) = "message" => r \in mem.track[m]
     /\ \A m \in DOMAIN mem.track : \A r \in mem.track[m] :
          r \in DOMAIN mem.info /\ mem.info[r].mm = m

(* What the block at p takes of its puddle. *)
Bytes(p) == p..(p + RoundUp(Len(heap[p])) - 1)

BlocksIn(r) ==
  {p \in DOMAIN heap : pool.head[r].mem <= p /\ p < pool.head[r].end}

(* Free nodes and blocks make up the memory of every puddle, however it    *)
(* was split, merged and resized; and free nodes are merged wherever that  *)
(* is possible, so that a puddle from which all has been returned is whole *)
(* again.                                                                  *)
PuddlesAreTiled ==
  /\ \A r \in Puddles :
       /\ IsSound(pool.head[r])
       /\ FreeBytes(pool.head[r]) =
            (pool.head[r].mem..(pool.head[r].end - 1)) \ UNION {Bytes(p) : p \in DOMAIN heap}
  /\ \A p, q \in DOMAIN heap : p # q => Bytes(p) \cap Bytes(q) = {}

(* exec_AllocPool stops at the first large puddle: those have no room, and *)
(* no regular one is behind them.  None is kept for nothing.               *)
LargePuddlesAreLast ==
  HasPool /\ ~IsFixed(pool) =>
    /\ Range(pool.list) = DOMAIN pool.head
    /\ \A i \in DOMAIN pool.list :
         /\ BlocksIn(pool.list[i]) # {}
         /\ pool.head[pool.list[i]].large =>
              /\ pool.head[pool.list[i]].free = 0
              /\ \A j \in i..Len(pool.list) : pool.head[pool.list[j]].large

(* Nothing is lost of a pool's memory, and nothing it has is overlooked.   *)
PuddlesAreSound == PuddlesAreTiled /\ LargePuddlesAreLast

(* However a pool has adapted its parameters to the sizes it was asked     *)
(* for: if its manager hands out a puddle, the block is served.            *)
PoolServes ==
  HasPool /\ ~IsFixed(pool) =>
    \A n \in Size : AllocPool(pool, n, Static).at # TNULL

(* The blocks of a pool are those of an ideal heap: they do not overlap,   *)
(* and keep their contents when they, or others, are resized.              *)
Addresses == {Memory(r) + a : r \in Room \cup {Static},
                              a \in {k \in 0..(Span - 1) : k % Align = 0}}
Abstract == INSTANCE Heap WITH Address <- Addresses
ImplementsHeap == Abstract!Spec
=============================================================================
