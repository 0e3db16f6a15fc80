------------------------------ MODULE HalSignal ------------------------------
(***************************************************************************)
(* Task signals on either host.  The build chooses one of the two HALs;    *)
(* both have to keep the promises of TaskSignals, on which everything      *)
(* above the HAL relies.                                                   *)
(***************************************************************************)
CONSTANTS Thread, Signal

VARIABLES
  host,                          (* which HAL the program is built with     *)
  sigstate, mask, timed,         (* in the two modules sig, mask, timed,    *)
  result, at,                    (* got and pc                              *)
  newsig, event, raising         (* of HalSignalWin32 only                  *)

halvars == <<host, sigstate, mask, timed, result, at, newsig, event, raising>>

Posix == INSTANCE HalSignalPosix WITH sig <- sigstate, got <- result, pc <- at
Win32 == INSTANCE HalSignalWin32 WITH sig <- sigstate, got <- result, pc <- at

(* Win32!Init has Posix!Init as a part. *)
HalInit == host \in {"posix", "win32"} /\ Win32!Init

OnPosix(action) ==
  host = "posix" /\ action /\ UNCHANGED <<host, newsig, event, raising>>

OnWin32(action) == host = "win32" /\ action /\ UNCHANGED host

HalNext == OnPosix(Posix!Next) \/ OnWin32(Win32!Next)

HalSpec == HalInit /\ [][HalNext]_halvars

(* The host schedules every thread that is neither blocked nor asleep. *)
HalFairness ==
  \A t \in Thread :
    /\ WF_halvars(OnPosix(Posix!TestSigState(t)))
    /\ WF_halvars(OnWin32(Win32!TestSigState(t)))
    /\ WF_halvars(OnWin32(Win32!SetEvent(t)))
    /\ WF_halvars(OnWin32(Win32!WakeUp(t)))
    /\ WF_halvars(OnWin32(Win32!TimeLeft(t) \/ Win32!TimedOut(t)))

HalFairSpec == HalSpec /\ HalFairness
-----------------------------------------------------------------------------
SignalsTypeOK == IF host = "posix" THEN Posix!TypeOK ELSE Win32!TypeOK

(* On either host, a thread sleeps over an awaited signal it has only as   *)
(* long as a wake-up is on its way.                                        *)
NoLostWakeup == IF host = "posix" THEN Posix!NoLostWakeup ELSE Win32!NoLostWakeup

(* The mutex, the condition variable and the loop of one host, and the     *)
(* interlocked operations and the event of the other, behave like the      *)
(* atomic signal set of TaskSignals: nothing is lost, nothing is taken     *)
(* that was not awaited, and a wait that can end does end.                 *)
Abstract == INSTANCE TaskSignals WITH sig <- sigstate, got <- result
ImplementsTaskSignals == Abstract!FairSpec
=============================================================================
