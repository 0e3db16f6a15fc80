----------------------------- MODULE Messaging -----------------------------
(***************************************************************************)
(* What message ports promise, without locks, signals or status flags: a   *)
(* message is posted to a task's inbox, taken from it in order by that     *)
(* task only, which may put it back, answered at most once by the task     *)
(* that took it, and, if the sender asked for a reply, collected by the    *)
(* sender with that answer.                                                *)
(***************************************************************************)
EXTENDS Naturals, SequencesExt

CONSTANTS Task, Msg, Verdict, None

VARIABLES
  inbox,    (* inbox[t]: messages posted to t and not yet taken             *)
  stage,    (* stage[m]: "free", "held", "posted", "taken", "answered"      *)
  keeper,   (* keeper[m]: the task that allocated or took m                 *)
  from,     (* from[m]: who collects the answer, None for a one-way message *)
  verdict   (* verdict[m]: the answer, None until there is one              *)

vars == <<inbox, stage, keeper, from, verdict>>

Init ==
  /\ inbox = [t \in Task |-> <<>>]
  /\ stage = [m \in Msg |-> "free"]
  /\ keeper = [m \in Msg |-> None]
  /\ from = [m \in Msg |-> None]
  /\ verdict = [m \in Msg |-> None]

Alloc(t, m) ==
  /\ stage[m] = "free"
  /\ stage' = [stage EXCEPT ![m] = "held"]
  /\ keeper' = [keeper EXCEPT ![m] = t]
  /\ UNCHANGED <<inbox, from, verdict>>

Post(t, s, m, sender) ==
  /\ stage[m] = "held" /\ keeper[m] = t
  /\ sender \in {t, None}
  /\ stage' = [stage EXCEPT ![m] = "posted"]
  /\ keeper' = [keeper EXCEPT ![m] = None]
  /\ from' = [from EXCEPT ![m] = sender]
  /\ UNCHANGED verdict
  /\ inbox' = [inbox EXCEPT ![s] = Append(@, m)]

Take(s) ==
  /\ inbox[s] # <<>>
  /\ stage' = [stage EXCEPT ![Head(inbox[s])] = "taken"]
  /\ keeper' = [keeper EXCEPT ![Head(inbox[s])] = s]
  /\ inbox' = [inbox EXCEPT ![s] = Tail(@)]
  /\ UNCHANGED <<from, verdict>>

PutBack(s, m) ==
  /\ stage[m] = "taken" /\ keeper[m] = s
  /\ stage' = [stage EXCEPT ![m] = "posted"]
  /\ keeper' = [keeper EXCEPT ![m] = None]
  /\ \E i \in 0..Len(inbox[s]) : inbox' = [inbox EXCEPT ![s] = InsertAt(@, i + 1, m)]
  /\ UNCHANGED <<from, verdict>>

Answer(s, m, v) ==
  /\ stage[m] = "taken" /\ keeper[m] = s
  /\ stage' = [stage EXCEPT ![m] = IF from[m] = None THEN "free" ELSE "answered"]
  /\ keeper' = [keeper EXCEPT ![m] = None]
  /\ IF from[m] = None THEN UNCHANGED verdict
     ELSE verdict' = [verdict EXCEPT ![m] = v]
  /\ UNCHANGED inbox
  /\ UNCHANGED from

Collect(t, m) ==
  /\ stage[m] = "answered" /\ from[m] = t
  /\ stage' = [stage EXCEPT ![m] = "held"]
  /\ keeper' = [keeper EXCEPT ![m] = t]
  /\ from' = [from EXCEPT ![m] = None]
  /\ verdict' = [verdict EXCEPT ![m] = None]
  /\ UNCHANGED inbox

Next ==
  \E t \in Task :
    \/ \E m \in Msg : Alloc(t, m) \/ Collect(t, m) \/ PutBack(t, m)
    \/ \E m \in Msg, s \in Task, r \in {t, None} : Post(t, s, m, r)
    \/ \E m \in Msg, v \in Verdict : Answer(t, m, v)
    \/ Take(t)

Spec == Init /\ [][Next]_vars
=============================================================================
