--------------------------- MODULE HalSignalWin32 ---------------------------
(***************************************************************************)
(* Task signals in the Win32 HAL (src/src/hal/winnt/hal.c), as configured  *)
(* with HAL_USE_ATOMICS.  A signaller publishes bits with an interlocked   *)
(* operation and sets an auto-reset event in a second step; the waiter     *)
(* takes bits with an interlocked operation and waits for the event.       *)
(***************************************************************************)
CONSTANTS Thread, Signal

VARIABLES
  sig,     (* hth_SigState                                                  *)
  mask,    (* the sigmask of the thread's wait, {} outside of one           *)
  timed,   (* the wait is hal_timedwaitevent                                *)
  got,     (* what its last wait, or hal_setsignal, took from hth_SigState  *)
  pc,      (* "run", "check" (about to test), "timeleft" (about to compute  *)
           (* the time left), "asleep" (in WaitForSingleObject), "publish"  *)
           (* (between the two operations of hal_setsignal)                 *)
  newsig,  (* the signals hal_setsignal is about to publish                 *)
  event,   (* hth_SigEvent is set                                           *)
  raising  (* raising[s]: the thread whose event s is about to set, if any  *)

vars == <<sig, mask, timed, got, pc, newsig, event, raising>>

Init ==
  /\ sig = [t \in Thread |-> {}]
  /\ mask = [t \in Thread |-> {}]
  /\ timed = [t \in Thread |-> FALSE]
  /\ got = [t \in Thread |-> {}]
  /\ pc = [t \in Thread |-> "run"]
  /\ newsig = [t \in Thread |-> {}]
  /\ event = [t \in Thread |-> FALSE]
  /\ raising = [t \in Thread |-> {}]

Running(t) == pc[t] = "run" /\ raising[t] = {}

(* Mutant: set the event only if nothing was pending before. *)
HalSignalIfIdle(s, t, S) ==
  /\ Running(s)
  /\ sig' = [sig EXCEPT ![t] = @ \cup S]
  /\ raising' = [raising EXCEPT ![s] = IF sig[t] # {} THEN {} ELSE {t}]
  /\ UNCHANGED <<mask, timed, got, pc, event, newsig>>

(* InterlockedOr of hal_signal; a new bit makes the caller set the event. *)
HalSignal(s, t, S) ==
  /\ Running(s)
  /\ sig' = [sig EXCEPT ![t] = @ \cup S]
  /\ raising' = [raising EXCEPT ![s] = IF S \subseteq sig[t] THEN {} ELSE {t}]
  /\ UNCHANGED <<mask, timed, got, pc, event, newsig>>

SetEvent(s) ==
  /\ raising[s] # {}
  /\ event' = [t \in Thread |-> event[t] \/ t \in raising[s]]
  /\ raising' = [raising EXCEPT ![s] = {}]
  /\ UNCHANGED <<sig, mask, timed, got, pc, newsig>>

(* hal_setsignal, first half: InterlockedAnd with ~sigmask | newsig, so a   *)
(* pending bit of newsig stays.  All callers pass newsig within sigmask,   *)
(* and are told which bits were cleared.                                   *)
HalSetSignal(t, S, m) ==
  /\ Running(t) /\ S \subseteq m
  /\ sig' = [sig EXCEPT ![t] = @ \ (m \ S)]
  /\ newsig' = [newsig EXCEPT ![t] = S]
  /\ got' = [got EXCEPT ![t] = sig[t] \cap (m \ S)]
  /\ pc' = [pc EXCEPT ![t] = IF S = {} THEN "run" ELSE "publish"]
  /\ UNCHANGED <<mask, timed, event, raising>>

(* Mutant: assign instead of InterlockedOr. *)
PublishSignalAssigned(t) ==
  /\ pc[t] = "publish"
  /\ sig' = [sig EXCEPT ![t] = newsig[t]]
  /\ newsig' = [newsig EXCEPT ![t] = {}]
  /\ pc' = [pc EXCEPT ![t] = "run"]
  /\ UNCHANGED <<mask, timed, got, event, raising>>

(* Second half: InterlockedOr with newsig; no event, the caller is awake. *)
PublishSignal(t) ==
  /\ pc[t] = "publish"
  /\ sig' = [sig EXCEPT ![t] = @ \cup newsig[t]]
  /\ newsig' = [newsig EXCEPT ![t] = {}]
  /\ pc' = [pc EXCEPT ![t] = "run"]
  /\ UNCHANGED <<mask, timed, got, event, raising>>

HalWait(t, m, timeout) ==
  /\ Running(t) /\ m # {}
  /\ mask' = [mask EXCEPT ![t] = m]
  /\ timed' = [timed EXCEPT ![t] = timeout]
  /\ pc' = [pc EXCEPT ![t] = "check"]
  /\ UNCHANGED <<sig, got, event, raising, newsig>>

Return(t, S) ==
  /\ got' = [got EXCEPT ![t] = S]
  /\ mask' = [mask EXCEPT ![t] = {}]
  /\ pc' = [pc EXCEPT ![t] = "run"]
  /\ UNCHANGED <<timed, event, raising, newsig>>

(* One interlocked operation takes the awaited bits. *)
TestSigState(t) ==
  /\ pc[t] = "check"
  /\ sig' = [sig EXCEPT ![t] = @ \ mask[t]]
  /\ \/ /\ sig[t] \cap mask[t] # {}
        /\ Return(t, sig[t] \cap mask[t])
     \/ /\ sig[t] \cap mask[t] = {}
        /\ pc' = [pc EXCEPT ![t] = IF timed[t] THEN "timeleft" ELSE "asleep"]
        /\ UNCHANGED <<mask, timed, got, event, raising, newsig>>

(* The deadline has passed: return the empty result of the last test. *)
TimedOut(t) ==
  /\ pc[t] = "timeleft"
  /\ Return(t, {})
  /\ UNCHANGED sig

(* Some milliseconds are left, or less than one: then test again at once. *)
TimeLeft(t) ==
  /\ pc[t] = "timeleft"
  /\ \E next \in {"asleep", "check"} : pc' = [pc EXCEPT ![t] = next]
  /\ UNCHANGED <<sig, mask, timed, got, event, raising, newsig>>

(* WaitForSingleObject returns, resetting the event. *)
WakeUp(t) ==
  /\ pc[t] = "asleep" /\ event[t]
  /\ event' = [event EXCEPT ![t] = FALSE]
  /\ pc' = [pc EXCEPT ![t] = "check"]
  /\ UNCHANGED <<sig, mask, timed, got, raising, newsig>>

SleepTimedOut(t) ==
  /\ pc[t] = "asleep" /\ timed[t]
  /\ pc' = [pc EXCEPT ![t] = "check"]
  /\ UNCHANGED <<sig, mask, timed, got, event, raising, newsig>>

Next ==
  \E t \in Thread :
    \/ \E s \in Thread, S \in SUBSET Signal : HalSignal(s, t, S)
    \/ SetEvent(t)
    \/ \E S, m \in SUBSET Signal : HalSetSignal(t, S, m)
    \/ PublishSignal(t)
    \/ \E m \in SUBSET Signal, timeout \in BOOLEAN : HalWait(t, m, timeout)
    \/ TestSigState(t) \/ TimeLeft(t) \/ TimedOut(t)
    \/ WakeUp(t) \/ SleepTimedOut(t)
-----------------------------------------------------------------------------
TypeOK ==
  /\ sig \in [Thread -> SUBSET Signal]
  /\ mask \in [Thread -> SUBSET Signal]
  /\ timed \in [Thread -> BOOLEAN]
  /\ got \in [Thread -> SUBSET Signal]
  /\ pc \in [Thread -> {"run", "check", "timeleft", "asleep", "publish"}]
  /\ newsig \in [Thread -> SUBSET Signal]
  /\ event \in [Thread -> BOOLEAN]
  /\ raising \in [Thread -> SUBSET Thread]
  /\ \A t \in Thread : mask[t] = {} <=> pc[t] \in {"run", "publish"}

(* A thread that sleeps although an awaited signal is pending is about to  *)
(* be woken: its event is set, or somebody is between publishing the bit   *)
(* and setting it.                                                         *)
NoLostWakeup ==
  \A t \in Thread :
    pc[t] = "asleep" /\ sig[t] \cap mask[t] # {} =>
      event[t] \/ \E s \in Thread : t \in raising[s]
=============================================================================
