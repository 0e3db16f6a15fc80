----------------------------- MODULE ServerIds ------------------------------
(***************************************************************************)
(* The numbers of a server's intervals (src/tek/class/server.lua,          *)
(* Server:allocId and Server:freeId): which of them are in use, the next   *)
(* to be given out, and a bound on those in use.  This module has them     *)
(* allocated and freed in any order; LuaServer has what they are for.      *)
(***************************************************************************)
EXTENDS Integers, FiniteSetsExt

CONSTANT MaxIds  (* bound on the number of ids                              *)

VARIABLE pool    (* self.Ids, self.NextId and self.NumIds                   *)

Init == pool = [ids |-> {}, next |-> 1, num |-> 0]

(* Mutant: the search for the next free id ends before the bound. *)
AllocIdBelow(p) ==
  LET free == (p.next + 1)..p.num \ p.ids IN
  [ids  |-> p.ids \cup {p.next},
   next |-> IF p.next = p.num + 1 THEN p.num + 2
            ELSE IF free = {} THEN p.next ELSE Min(free),
   num  |-> IF p.next = p.num + 1 THEN p.next ELSE p.num]

(* allocId gives out p.next, and looks for the first free id behind it. *)
AllocId(p) ==
  [ids  |-> p.ids \cup {p.next},
   next |-> IF p.next = p.num + 1 THEN p.num + 2
            ELSE Min((p.next + 1)..(p.num + 1) \ p.ids),
   num  |-> IF p.next = p.num + 1 THEN p.next ELSE p.num]

(* Mutant: the id before the last one freed is passed over. *)
FreeIdLowers(p, id) ==
  LET below == {i \in p.ids \ {id} : p.next < i /\ i < p.num}
      num == IF id < p.num \/ p.num <= p.next THEN p.num
             ELSE Max({p.next} \cup below) - 1
  IN [ids |-> p.ids \ {id}, num |-> num,
      next |-> IF id < p.num THEN Min({id, p.next}) ELSE Min({num, p.next})]

(* freeId: with the last id the bound comes down, to one more than the     *)
(* last in use behind p.next.                                              *)
FreeId(p, id) ==
  LET below == {i \in p.ids \ {id} : p.next < i /\ i < p.num}
      num == IF id < p.num \/ p.num <= p.next THEN p.num
             ELSE Max({p.next} \cup below) + 1
  IN [ids |-> p.ids \ {id}, num |-> num,
      next |-> IF id < p.num THEN Min({id, p.next}) ELSE Min({num, p.next})]

Next ==
  \/ pool.next <= MaxIds /\ pool' = AllocId(pool)
  \/ \E id \in pool.ids : pool' = FreeId(pool, id)

(* The next id is not in use, and no smaller one is free and forgotten.    *)
IsFree(p) ==
  /\ p.next \notin p.ids /\ 1..(p.next - 1) \subseteq p.ids
  /\ \A id \in p.ids : id <= p.num
  /\ p.next <= p.num + 1
=============================================================================
