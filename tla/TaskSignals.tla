---------------------------- MODULE TaskSignals ----------------------------
(***************************************************************************)
(* What the HAL promises about task signals, whatever the host: every      *)
(* thread owns a set of pending signals; anybody may add to it, only its   *)
(* owner takes from it, and is told what it takes.  A wait returns exactly *)
(* the awaited signals that were pending, or, if it is timed, possibly     *)
(* nothing.                                                                *)
(*                                                                         *)
(* HalSignalPosix and HalSignalWin32 are shown to implement this module.   *)
(***************************************************************************)
CONSTANTS Thread, Signal

VARIABLES
  sig,    (* sig[t]: the signals pending at thread t                        *)
  mask,   (* mask[t]: the signals t is waiting for, {} when it is running   *)
  timed,  (* timed[t]: t's wait has a timeout                               *)
  got     (* got[t]: what t's last wait or Replace took from its signals    *)

vars == <<sig, mask, timed, got>>

Init ==
  /\ sig = [t \in Thread |-> {}]
  /\ mask = [t \in Thread |-> {}]
  /\ timed = [t \in Thread |-> FALSE]
  /\ got = [t \in Thread |-> {}]

(* Any thread sends signals S to thread t. *)
Raise(t, S) ==
  /\ sig' = [sig EXCEPT ![t] = @ \cup S]
  /\ UNCHANGED <<mask, timed, got>>

(* A running thread replaces those of its own signals that are in m by S,  *)
(* and is told which ones are gone.                                        *)
Replace(t, S, m) ==
  /\ mask[t] = {} /\ S \subseteq m
  /\ sig' = [sig EXCEPT ![t] = (@ \ m) \cup S]
  /\ got' = [got EXCEPT ![t] = sig[t] \cap (m \ S)]
  /\ UNCHANGED <<mask, timed>>

BeginWait(t, m, timeout) ==
  /\ mask[t] = {} /\ m # {}
  /\ mask' = [mask EXCEPT ![t] = m]
  /\ timed' = [timed EXCEPT ![t] = timeout]
  /\ UNCHANGED <<sig, got>>

EndWait(t) ==
  /\ sig[t] \cap mask[t] # {}
  /\ got' = [got EXCEPT ![t] = sig[t] \cap mask[t]]
  /\ sig' = [sig EXCEPT ![t] = @ \ mask[t]]
  /\ mask' = [mask EXCEPT ![t] = {}]
  /\ UNCHANGED timed

Timeout(t) ==
  /\ timed[t] /\ mask[t] # {}
  /\ got' = [got EXCEPT ![t] = {}]
  /\ mask' = [mask EXCEPT ![t] = {}]
  /\ UNCHANGED <<sig, timed>>

Next ==
  \E t \in Thread :
    \/ \E S \in SUBSET Signal : Raise(t, S)
    \/ \E S, m \in SUBSET Signal : Replace(t, S, m)
    \/ \E m \in SUBSET Signal, timeout \in BOOLEAN : BeginWait(t, m, timeout)
    \/ EndWait(t)
    \/ Timeout(t)

Spec == Init /\ [][Next]_vars

(* A wait that can end does end. *)
Fairness == \A t \in Thread : WF_vars(EndWait(t))

FairSpec == Spec /\ Fairness
=============================================================================
