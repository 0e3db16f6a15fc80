--------------------------- MODULE HalSignalPosix ---------------------------
(***************************************************************************)
(* Task signals in the POSIX HAL (src/src/hal/posix/hal.c).  Each thread   *)
(* has hth_SigState, a mutex and a condition variable only it waits on.    *)
(* A critical section of hth_SigMutex is one action; hal_wait is split     *)
(* where pthread_cond_wait gives the mutex up.                             *)
(***************************************************************************)
CONSTANTS Thread, Signal

VARIABLES
  sig,    (* hth_SigState                                                   *)
  mask,   (* the sigmask of the thread's hal_wait, {} outside of one        *)
  timed,  (* the thread is in hal_timedwaitevent rather than in hal_wait    *)
  got,    (* what its last wait, or hal_setsignal, took from hth_SigState   *)
  pc      (* "run", "check" (about to test hth_SigState), "asleep" (in      *)
          (* pthread_cond_wait)                                             *)

vars == <<sig, mask, timed, got, pc>>

Init ==
  /\ sig = [t \in Thread |-> {}]
  /\ mask = [t \in Thread |-> {}]
  /\ timed = [t \in Thread |-> FALSE]
  /\ got = [t \in Thread |-> {}]
  /\ pc = [t \in Thread |-> "run"]

(* pthread_cond_signal: the only possible sleeper goes back to its test. *)
CondSignal(t) ==
  pc' = [pc EXCEPT ![t] = IF @ = "asleep" THEN "check" ELSE @]

(* Mutant: wake the sleeper only if nothing was pending before. *)
PublishIfIdle(t, new) ==
  /\ sig' = [sig EXCEPT ![t] = new]
  /\ IF sig[t] # {} THEN UNCHANGED pc ELSE CondSignal(t)
  /\ UNCHANGED <<mask, timed>>

(* The value the state of t is given, and a wake-up if it has a new bit. *)
Publish(t, new) ==
  /\ sig' = [sig EXCEPT ![t] = new]
  /\ IF new \subseteq sig[t] THEN UNCHANGED pc ELSE CondSignal(t)
  /\ UNCHANGED <<mask, timed>>

HalSignal(t, S) == Publish(t, sig[t] \cup S) /\ UNCHANGED got

(* Mutant: the signals that are not in the mask are lost. *)
HalSetSignalAssigned(t, S, m) ==
  /\ pc[t] = "run"
  /\ Publish(t, S \cap m)
  /\ got' = [got EXCEPT ![t] = sig[t] \cap (m \ S)]

(* The caller gets the old state, and with it what it has cleared. *)
HalSetSignal(t, S, m) ==
  /\ pc[t] = "run"
  /\ Publish(t, (sig[t] \ m) \cup (S \cap m))
  /\ got' = [got EXCEPT ![t] = sig[t] \cap (m \ S)]

(* Entry of hal_wait or hal_timedwaitevent. *)
HalWait(t, m, timeout) ==
  /\ pc[t] = "run" /\ m # {}
  /\ mask' = [mask EXCEPT ![t] = m]
  /\ timed' = [timed EXCEPT ![t] = timeout]
  /\ pc' = [pc EXCEPT ![t] = "check"]
  /\ UNCHANGED <<sig, got>>

Return(t, S) ==
  /\ got' = [got EXCEPT ![t] = S]
  /\ mask' = [mask EXCEPT ![t] = {}]
  /\ pc' = [pc EXCEPT ![t] = "run"]
  /\ UNCHANGED timed

(* The body of the wait loop: take the awaited signals, or go to sleep. *)
TestSigState(t) ==
  /\ pc[t] = "check"
  /\ sig' = [sig EXCEPT ![t] = @ \ mask[t]]
  /\ \/ /\ sig[t] \cap mask[t] # {}
        /\ Return(t, sig[t] \cap mask[t])
     \/ /\ sig[t] \cap mask[t] = {}
        /\ pc' = [pc EXCEPT ![t] = "asleep"]
        /\ UNCHANGED <<mask, timed, got>>

(* POSIX allows pthread_cond_wait to return without a signal. *)
SpuriousWakeup(t) ==
  /\ pc[t] = "asleep"
  /\ pc' = [pc EXCEPT ![t] = "check"]
  /\ UNCHANGED <<sig, mask, timed, got>>

(* ETIMEDOUT leaves the loop with the empty result of the last test; what  *)
(* arrives before the mutex is held again stays pending, as it does when   *)
(* it arrives after this step.                                             *)
TimedOut(t) ==
  /\ timed[t] /\ pc[t] = "asleep"
  /\ Return(t, {})
  /\ UNCHANGED sig

Next ==
  \E t \in Thread :
    \/ \E S \in SUBSET Signal : HalSignal(t, S)
    \/ \E S, m \in SUBSET Signal : HalSetSignal(t, S, m)
    \/ \E m \in SUBSET Signal, timeout \in BOOLEAN : HalWait(t, m, timeout)
    \/ TestSigState(t)
    \/ SpuriousWakeup(t)
    \/ TimedOut(t)
-----------------------------------------------------------------------------
TypeOK ==
  /\ sig \in [Thread -> SUBSET Signal]
  /\ mask \in [Thread -> SUBSET Signal]
  /\ timed \in [Thread -> BOOLEAN]
  /\ got \in [Thread -> SUBSET Signal]
  /\ pc \in [Thread -> {"run", "check", "asleep"}]
  /\ \A t \in Thread : mask[t] = {} <=> pc[t] = "run"

(* A thread never sleeps on a signal it already has.  hal_signal wakes the *)
(* sleeper only when it adds a bit, so this holds only because every round *)
(* of the loop takes all awaited bits before it sleeps.                    *)
NoLostWakeup ==
  \A t \in Thread : pc[t] = "asleep" => sig[t] \cap mask[t] = {}
=============================================================================
