------------------------------- MODULE TekTags -------------------------------
(***************************************************************************)
(* Tag lists (src/src/teklib/teklib.c: TForEachTag, TGetTag).  An item is  *)
(* a tag with a value, or one of the control items: "done" ends the list,  *)
(* "more" goes on with another one, "gosub" has another one in between,    *)
(* "skip" passes over so many items, "ignore" over itself.                 *)
(***************************************************************************)
EXTENDS Integers, Sequences

CONSTANT None  (* no list, and no value                                    *)

VARIABLE lists  (* lists[i]: the items of a list; it refers to later ones  *)

Item(kind, value) == [tag |-> kind, value |-> value]

Value == {0, 1}
Plain == [tag : {"user"}, value : Value] \cup {Item("ignore", 0), Item("skip", 1)}
Nowhere == {Item("more", None), Item("gosub", None)}
Refers == {Item("more", 2), Item("gosub", 2)}

(* Two items before the last one, which has to be the end of its list: a   *)
(* program writes a list that ends, and skips no further than its end.     *)
ListOf(items, ends) ==
  {<<a, b, c>> : a \in items, b \in items \ {Item("skip", 1)}, c \in ends}

Init ==
  \E first \in ListOf(Plain \cup Nowhere \cup Refers,
                      {Item("done", 0), Item("more", 2), Item("more", None)}),
     second \in ListOf(Plain \cup Nowhere, {Item("done", 0), Item("more", None)}) :
    lists = <<first, second>>

Place == {1, 2} \X (1..3)
Start(list) == IF list = None THEN None ELSE <<list, 1>>
Behind(p, n) == <<p[1], p[2] + n>>
At(p) == lists[p[1]][p[2]]
-----------------------------------------------------------------------------
(* Mutant: what the hook has said in a list in between is forgotten. *)
AndThenAlways(sub, rest) ==
  [seen |-> sub.seen \o rest.seen, complete |-> rest.complete]

(* The walk goes on behind sub only if that is complete. *)
AndThen(sub, rest) ==
  IF sub.complete
  THEN [seen |-> sub.seen \o rest.seen, complete |-> rest.complete]
  ELSE sub

(* TForEachTag, from the start of the first list: the values its hook      *)
(* sees, if that returns FALSE for stop.  A list that ends in "more"       *)
(* without another list, or is none, is never complete.                    *)
ForEachTag(stop) ==
  LET walk[p \in Place \cup {None}] ==
        IF p = None THEN [seen |-> <<>>, complete |-> FALSE]
        ELSE LET item == At(p) IN
          CASE item.tag = "done"   -> [seen |-> <<>>, complete |-> TRUE]
            [] item.tag = "more"   -> walk[Start(item.value)]
            [] item.tag = "skip"   -> walk[Behind(p, 1 + item.value)]
            [] item.tag = "ignore" -> walk[Behind(p, 1)]
            [] item.tag = "gosub"  -> AndThen(walk[Start(item.value)],
                                              walk[Behind(p, 1)])
            [] OTHER -> AndThen([seen |-> <<item.value>>,
                                 complete |-> item.value # stop],
                                walk[Behind(p, 1)])
  IN walk[<<1, 1>>]

(* TGetTag: what a list in between has returned counts only if it is not   *)
(* the default.                                                            *)
GetTag(default) ==
  LET get[p \in Place \cup {None}] ==
        IF p = None THEN default
        ELSE LET item == At(p) IN
          CASE item.tag = "done"   -> default
            [] item.tag = "more"   -> get[Start(item.value)]
            [] item.tag = "skip"   -> get[Behind(p, 1 + item.value)]
            [] item.tag = "ignore" -> get[Behind(p, 1)]
            [] item.tag = "gosub"  -> IF get[Start(item.value)] # default
                                      THEN get[Start(item.value)]
                                      ELSE get[Behind(p, 1)]
            [] OTHER -> item.value
  IN get[<<1, 1>>]
-----------------------------------------------------------------------------
(* Each list that the first one goes through in between ends with "done".  *)
Ends == \A i \in DOMAIN lists : \A k \in DOMAIN lists[i] :
          lists[i][k] \notin Nowhere

(* The two ways to read a tag list agree, whatever it is made of: a hook   *)
(* that stops has seen what comes before that and no more; and TGetTag     *)
(* returns a value that the hook sees, the first one if that is not the    *)
(* default, and the default if the hook sees nothing.                      *)
TagsAgree ==
  LET all == ForEachTag(None).seen IN
  /\ \A v \in Value :
       LET seen == ForEachTag(v).seen
           upto == {i \in DOMAIN all : all[i] = v} IN
       seen = IF upto = {} THEN all
              ELSE SubSeq(all, 1, CHOOSE i \in upto : \A j \in upto : i <= j)
  /\ Ends =>
       \A default \in Value \cup {None} :
         LET got == GetTag(default) IN
         /\ all = <<>> => got = default
         /\ all # <<>> /\ all[1] # default => got = all[1]
         /\ got # default => \E i \in DOMAIN all : all[i] = got
=============================================================================
