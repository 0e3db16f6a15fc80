------------------------------- MODULE TekList -------------------------------
(***************************************************************************)
(* Lists (src/src/teklib/teklib.c): doubly linked nodes between a head and *)
(* a tail that are nodes themselves, so that no operation needs to know if *)
(* it is at an end.  The pointers of a node that is in no list are what    *)
(* they were.  A program calls the operations on the nodes and lists for   *)
(* which they are meant: it adds a node that is free and removes or moves  *)
(* one that is not.                                                        *)
(***************************************************************************)
EXTENDS Naturals, Sequences, FiniteSets

CONSTANTS
  List, Node, None,
  Unnamed           (* nodes whose thn_Name is TNULL                        *)

VARIABLES
  succ,   (* tln_Succ                                                      *)
  pred,   (* tln_Pred                                                      *)
  got     (* what the last call returned: a sequence of nodes              *)

vars == <<succ, pred, got>>

HeadOf(l) == <<l, "head">>
TailOf(l) == <<l, "tail">>
Place == Node \cup (List \X {"head", "tail"})

(* The nodes on the way from a place to the end of the pointers next: those *)
(* that have a next one themselves.                                        *)
Chain(next, from) ==
  LET at[k \in 1..Cardinality(Node)] ==
        IF k = 1 THEN next[from]
        ELSE IF at[k - 1] = None THEN None ELSE next[at[k - 1]]
      nodes == {k \in DOMAIN at : at[k] # None /\ next[at[k]] # None}
  IN [k \in 1..Cardinality(nodes) |-> at[k]]

Forward(l) == Chain(succ, HeadOf(l))
Elements(l) == {n \in Node : \E i \in DOMAIN Forward(l) : Forward(l)[i] = n}
IsFree(n) == \A l \in List : n \notin Elements(l)
InList(n) == ~IsFree(n)

(* Nodes, heads and tails are different memory; a list is finite.          *)
ConstantsOK ==
  /\ IsFiniteSet(Node)
  /\ Node \cap (List \X {"head", "tail"}) = {} /\ None \notin Place

(* TInitList *)
Init ==
  /\ succ = [p \in Place |-> IF \E l \in List : p = HeadOf(l)
                             THEN TailOf(p[1]) ELSE None]
  /\ pred = [p \in Place |-> IF \E l \in List : p = TailOf(l)
                             THEN HeadOf(p[1]) ELSE None]
  /\ got = <<>>

AddHead(l, n) ==
  LET temp == succ[HeadOf(l)] IN
  /\ succ' = [succ EXCEPT ![HeadOf(l)] = n, ![n] = temp]
  /\ pred' = [pred EXCEPT ![n] = HeadOf(l), ![temp] = n]
  /\ got' = <<>>

AddTail(l, n) ==
  LET temp == pred[TailOf(l)] IN
  /\ pred' = [pred EXCEPT ![TailOf(l)] = n, ![n] = temp]
  /\ succ' = [succ EXCEPT ![n] = TailOf(l), ![temp] = n]
  /\ got' = <<>>

RemHead(l) ==
  LET temp == succ[HeadOf(l)] IN
  IF succ[temp] = None THEN got' = <<>> /\ UNCHANGED <<succ, pred>>
  ELSE /\ succ' = [succ EXCEPT ![HeadOf(l)] = succ[temp]]
       /\ pred' = [pred EXCEPT ![succ[temp]] = HeadOf(l)]
       /\ got' = <<temp>>

RemTail(l) ==
  LET temp == pred[TailOf(l)] IN
  IF pred[temp] = None THEN got' = <<>> /\ UNCHANGED <<succ, pred>>
  ELSE /\ pred' = [pred EXCEPT ![TailOf(l)] = pred[temp]]
       /\ succ' = [succ EXCEPT ![pred[temp]] = TailOf(l)]
       /\ got' = <<temp>>

(* TRemove *)
Unlink(n) ==
  /\ succ' = [succ EXCEPT ![pred[n]] = succ[n]]
  /\ pred' = [pred EXCEPT ![succ[n]] = pred[n]]
  /\ got' = <<>>

(* Mutant: the node before the pair still has the old first one behind it. *)
NodeUpForward(n) ==
  LET temp == pred[n] IN
  IF pred[temp] = None THEN got' = <<>> /\ UNCHANGED <<succ, pred>>
  ELSE /\ succ' = [succ EXCEPT ![temp] = succ[n], ![n] = temp]
       /\ pred' = [pred EXCEPT ![n] = pred[temp], ![temp] = n, ![succ[n]] = temp]
       /\ got' = <<>>

NodeUp(n) ==
  LET temp == pred[n] IN
  IF pred[temp] = None THEN got' = <<>> /\ UNCHANGED <<succ, pred>>
  ELSE /\ succ' = [succ EXCEPT ![pred[temp]] = n, ![temp] = succ[n], ![n] = temp]
       /\ pred' = [pred EXCEPT ![n] = pred[temp], ![temp] = n, ![succ[n]] = temp]
       /\ got' = <<>>

(* TInsert behind p, which may be the list's head; before it, if it is the *)
(* tail; at the head, if there is none.                                    *)
Insert(l, n, p) ==
  CASE p = None -> AddHead(l, n)
    [] p = TailOf(l) -> /\ succ' = [succ EXCEPT ![n] = p, ![pred[p]] = n]
                        /\ pred' = [pred EXCEPT ![n] = pred[p], ![p] = n]
                        /\ got' = <<>>
    [] OTHER -> /\ succ' = [succ EXCEPT ![n] = succ[p], ![p] = n]
                /\ pred' = [pred EXCEPT ![n] = p, ![succ[p]] = n]
                /\ got' = <<>>

(* TFindHandle: names are equal if both are TNULL. *)
FindHandle(l, named) ==
  LET same == {i \in DOMAIN Forward(l) : Forward(l)[i] \in named} IN
  /\ got' = IF same = {} THEN <<>>
            ELSE <<Forward(l)[CHOOSE i \in same : \A j \in same : i <= j]>>
  /\ UNCHANGED <<succ, pred>>

(* TDestroyList: each node is unlinked before its destructor is called,    *)
(* with its successor remembered.                                          *)
DestroyList(l) ==
  /\ succ' = [succ EXCEPT ![HeadOf(l)] = TailOf(l)]
  /\ pred' = [p \in Place |-> IF p \in Elements(l) \cup {TailOf(l)}
                              THEN HeadOf(l) ELSE pred[p]]
  /\ got' = Forward(l)

Next ==
  \/ \E l \in List :
       \/ RemHead(l) \/ RemTail(l) \/ DestroyList(l) \/ FindHandle(l, Unnamed)
       \/ \E n \in Node \ Unnamed : FindHandle(l, {n})
       \/ \E n \in Node :
            /\ IsFree(n)
            /\ \/ AddHead(l, n) \/ AddTail(l, n)
               \/ \E p \in Elements(l) \cup {None, HeadOf(l), TailOf(l)} :
                    Insert(l, n, p)
  \/ \E n \in Node : InList(n) /\ (Unlink(n) \/ NodeUp(n))

Spec == Init /\ [][Next]_vars
-----------------------------------------------------------------------------
(* The nodes of a list, provided that pointers forward and backward agree. *)
Linked(l) ==
  LET f == Forward(l)
      b == Chain(pred, TailOf(l)) IN
  IF Len(f) = Len(b) /\ \A i \in DOMAIN f : f[i] = b[Len(b) + 1 - i]
  THEN f ELSE <<None>>

(* Pointers forward and backward say the same, through every operation:    *)
(* each list is a sequence of nodes, no node is in two lists, and every    *)
(* call returns what it would return for the sequences.                    *)
Abstract == INSTANCE NodeList WITH seq <- [l \in List |-> Linked(l)]
ImplementsNodeList == Abstract!Spec
=============================================================================
