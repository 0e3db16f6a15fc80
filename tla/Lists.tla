------------------------------- MODULE Lists -------------------------------
(***************************************************************************)
(* What specifications say about sequences and the library's modules say   *)
(* with a recursive operator, as a recursive function.                     *)
(***************************************************************************)
EXTENDS Naturals, Sequences

(* The elements of q that are in R, in order. *)
Select(q, R) ==
  LET upto[i \in 0..Len(q)] ==
        IF i = 0 THEN <<>>
        ELSE IF q[i] \in R THEN Append(upto[i - 1], q[i]) ELSE upto[i - 1]
  IN upto[Len(q)]
=============================================================================
