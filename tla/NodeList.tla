------------------------------ MODULE NodeList -------------------------------
(***************************************************************************)
(* What a list is to its users: a sequence of nodes.  A node is in one     *)
(* list at most.                                                           *)
(***************************************************************************)
EXTENDS SequencesExt

CONSTANTS
  List, Node, None,
  Unnamed           (* handles without a name; every other has its own     *)

VARIABLES
  seq,    (* seq[l]: the nodes of the list l                               *)
  got     (* what the last call returned: a sequence of nodes              *)

vars == <<seq, got>>

In(l) == Range(seq[l])
IsFree(n) == \A l \in List : n \notin In(l)

Becomes(l, s, result) == seq' = [seq EXCEPT ![l] = s] /\ got' = result

Init == seq = [l \in List |-> <<>>] /\ got = <<>>

Add(l, n, i) == IsFree(n) /\ Becomes(l, InsertAt(seq[l], i, n), <<>>)

RemHead(l) ==
  IF seq[l] = <<>> THEN Becomes(l, <<>>, <<>>)
  ELSE Becomes(l, Tail(seq[l]), <<Head(seq[l])>>)

RemTail(l) ==
  IF seq[l] = <<>> THEN Becomes(l, <<>>, <<>>)
  ELSE Becomes(l, Front(seq[l]), <<Last(seq[l])>>)

Drop(l, i) == Becomes(l, RemoveAt(seq[l], i), <<>>)

(* A node and the one before it change places. *)
Up(l, i) ==
  Becomes(l, IF i = 1 THEN seq[l]
             ELSE [seq[l] EXCEPT ![i] = seq[l][i - 1], ![i - 1] = seq[l][i]], <<>>)

(* The first one without a name, or the one that has the name. *)
FindUnnamed(l) ==
  LET found == {i \in DOMAIN seq[l] : seq[l][i] \in Unnamed} IN
  Becomes(l, seq[l], IF found = {} THEN <<>> ELSE <<seq[l][Min(found)]>>)

Find(l, n) == Becomes(l, seq[l], IF n \in In(l) THEN <<n>> ELSE <<>>)

(* All nodes leave the list in its order. *)
Clear(l) == Becomes(l, <<>>, seq[l])

Next ==
  \E l \in List :
    \/ RemHead(l) \/ RemTail(l) \/ Clear(l) \/ FindUnnamed(l)
    \/ \E n \in Node :
         \/ \E i \in 1..(Len(seq[l]) + 1) : Add(l, n, i)
         \/ n \notin Unnamed /\ Find(l, n)
    \/ \E i \in DOMAIN seq[l] : Up(l, i) \/ Drop(l, i)

Spec == Init /\ [][Next]_vars
=============================================================================
