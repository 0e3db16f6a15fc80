--------------------------- MODULE RecursiveMutex ---------------------------
(***************************************************************************)
(* What a TLock promises: a task may enter as often as it likes, but only  *)
(* while no other task is inside.                                          *)
(***************************************************************************)
EXTENDS Naturals

CONSTANT Task

VARIABLE depth  (* depth[t]: how often t has entered and not left *)

Init == depth = [t \in Task |-> 0]

Enter(t) ==
  /\ \A u \in Task \ {t} : depth[u] = 0
  /\ depth' = [depth EXCEPT ![t] = @ + 1]

Leave(t) ==
  /\ depth[t] > 0
  /\ depth' = [depth EXCEPT ![t] = @ - 1]

Next == \E t \in Task : Enter(t) \/ Leave(t)

Spec == Init /\ [][Next]_depth
=============================================================================
