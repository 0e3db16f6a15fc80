----------------------------- MODULE TimeDevice -----------------------------
(***************************************************************************)
(* The time device of the POSIX HAL (src/src/hal/posix/hal.c: hal_open,    *)
(* hal_close, hal_devfunc, hal_beginio, hal_abortio) and TWaitTime, which  *)
(* uses it (src/src/exec/exec_time.c, with TPutIO, TAbortIO and TWaitIO).  *)
(*                                                                         *)
(* A task puts its time request on the device task's port and waits for    *)
(* the reply (signal "single" on its sync port) or for another signal;     *)
(* then it aborts the request, which may just have expired, and clears     *)
(* "single".  The device task keeps the requests in hsp_ReqList under      *)
(* hsp_DevLock.  The lock is a variable here: the device task's pass over  *)
(* the list takes several steps.                                           *)
(*                                                                         *)
(* Times are relative to now, so that the model is finite without a last   *)
(* moment: deadlines count down as time passes (Tick).                     *)
(***************************************************************************)
EXTENDS Integers, Sequences, SequencesExt, FiniteSetsExt, Functions

CONSTANTS
  Task,
  MaxDt,   (* bound on the time a task asks for                             *)
  MaxLag,  (* bound on the time one pass of the device task takes           *)
  None

ASSUME NoneAssumption == {None, "dev"} \cap Task = {} /\ None # "dev"
ASSUME BoundsAssumption == MaxDt \in Nat \ {0} /\ MaxLag \in Nat

Infinity == MaxDt + 1  (* 0x7fffffffffffffff microseconds *)

VARIABLES
  refcount,  (* hsp_RefCount                                                *)
  devlock,   (* hsp_DevLock: None, "dev" or the closing task                *)
  port,      (* the device task's port: the tasks whose request is queued   *)
  reqs,      (* hsp_ReqList: the tasks whose request is in it               *)
  flags,     (* flags[t]: "none", "queued", "taken" (SENT), or "replied"    *)
             (* (and in t's sync port)                                      *)
  time,      (* time[t]: ttr_Time; the time asked for, and once in reqs the *)
             (* deadline; 0 when it has no meaning                          *)
  sig,       (* sig[t]: pending among "single" and "other"                  *)
  pc,        (* where in which call t is                                    *)
  got,       (* got[t]: what TWait returned to TWaitTime                    *)
  devsig,    (* pending at the device task, among "user" and "abort"        *)
  devpc,     (* where in hal_devfunc the device task is                     *)
  replying,  (* the task the device task is about to signal                 *)
  waittime,  (* waittime in hal_devfunc: the next deadline                  *)
  lag,       (* time since the device task has read curtime in this pass    *)
  aborted,   (* history: t's request was aborted, not answered              *)
  left       (* history: left[t] of the time t asked for is still to pass   *)

vars == <<refcount, devlock, port, reqs, flags, time, sig, pc, got, devsig,
          devpc, replying, waittime, lag, aborted, left>>
devvars == <<devsig, devpc, replying, waittime, lag>>
reqvars == <<port, reqs, flags, time, aborted, left>>
taskvars == <<sig, pc, got>>

Init ==
  /\ refcount = 0
  /\ devlock = None
  /\ port = <<>>
  /\ reqs = {}
  /\ flags = [t \in Task |-> "none"]
  /\ aborted = [t \in Task |-> FALSE]
  /\ time = [t \in Task |-> 0]
  /\ sig = [t \in Task |-> {}]
  /\ pc = [t \in Task |-> "closed"]
  /\ got = [t \in Task |-> {}]
  /\ devsig = {}
  /\ devpc = "off"
  /\ replying = None
  /\ waittime = Infinity
  /\ lag = 0
  /\ left = [t \in Task |-> 0]

Goto(t, label) == pc' = [pc EXCEPT ![t] = label]
Raise(t, s) == sig' = [sig EXCEPT ![t] = @ \cup {s}]

(* exec_returnmsg up to the signal: the request is in t's sync port. *)
Reply(t, isAborted) ==
  /\ flags' = [flags EXCEPT ![t] = "replied"]
  /\ aborted' = [aborted EXCEPT ![t] = isAborted]
-----------------------------------------------------------------------------
(* pthread_mutex_lock(&hps->hsp_DevLock) returns.  Mutant: it is missing. *)
DeviceLockMissing == TRUE

DeviceLockFree == devlock = None

(* hal_open, for a task's time request: the first starts the device task.  *)
Open(t) ==
  /\ pc[t] = "closed" /\ DeviceLockFree
  /\ refcount' = refcount + 1
  /\ IF devpc = "off"
     THEN /\ devpc' = "wait" /\ devsig' = {} /\ waittime' = Infinity
          /\ UNCHANGED <<replying, lag>>
     ELSE UNCHANGED devvars
  /\ Goto(t, "run")
  /\ UNCHANGED <<devlock, reqvars, sig, got>>

(* TPutIO in TWaitTime, up to the signal.  The port has its own lock: the  *)
(* device task may be in the middle of a pass.  TWaitDate does the same    *)
(* once hal_beginio has turned its date into a time from now, which may be *)
(* over.                                                                   *)
WaitTime(t, dt) ==
  /\ pc[t] = "run"
  /\ port' = Append(port, t)
  /\ flags' = [flags EXCEPT ![t] = "queued"]
  /\ time' = [time EXCEPT ![t] = dt]
  /\ left' = [left EXCEPT ![t] = dt]
  /\ Goto(t, "notify")
  /\ UNCHANGED <<refcount, devlock, reqs, aborted, sig, got, devvars>>

(* Mutant: the device task is not signalled. *)
NotifyForgotten(t) ==
  /\ pc[t] = "notify"
  /\ Goto(t, "wait")
  /\ UNCHANGED <<refcount, devlock, reqvars, sig, got, devvars>>

Notify(t) ==
  /\ pc[t] = "notify"
  /\ devsig' = devsig \cup {"user"}
  /\ Goto(t, "wait")
  /\ UNCHANGED <<refcount, devlock, reqvars, sig, got, devpc, replying,
                 waittime, lag>>

(* TWait(TTASK_SIG_SINGLE | sigmask) returns. *)
WaitReturn(t) ==
  /\ pc[t] = "wait" /\ sig[t] # {}
  /\ got' = [got EXCEPT ![t] = sig[t] \ {"single"}]
  /\ sig' = [sig EXCEPT ![t] = {}]
  /\ Goto(t, "abort")
  /\ UNCHANGED <<refcount, devlock, reqvars, devvars>>

(* hal_abortio.  The task replies to itself after it has released the      *)
(* device lock; no one else refers to the request any more.                *)
AbortIO(t) ==
  /\ pc[t] = "abort" /\ DeviceLockFree
  /\ \/ /\ flags[t] = "queued"
        /\ \E i \in DOMAIN port : port[i] = t /\ port' = RemoveAt(port, i)
        /\ Reply(t, TRUE) /\ Raise(t, "single")
        /\ UNCHANGED <<reqs, devsig>>
     \/ /\ flags[t] = "taken"
        /\ reqs' = reqs \ {t}
        /\ devsig' = devsig \cup {"user"}
        /\ Reply(t, TRUE) /\ Raise(t, "single")
        /\ UNCHANGED port
     \/ /\ flags[t] = "replied"
        /\ UNCHANGED <<port, reqs, flags, aborted, sig, devsig>>
  /\ Goto(t, "waitio")
  /\ UNCHANGED <<refcount, devlock, time, left, got, devpc, replying,
                 waittime, lag>>

(* TWaitIO finds the request replied and does not have to wait: take it    *)
(* off the port.  TSetSignal(0, TTASK_SIG_SINGLE), and TWaitTime returns   *)
(* got.                                                                    *)
WaitIO(t) ==
  /\ pc[t] = "waitio" /\ flags[t] = "replied"
  /\ flags' = [flags EXCEPT ![t] = "none"]
  /\ time' = [time EXCEPT ![t] = 0]
  /\ sig' = [sig EXCEPT ![t] = @ \ {"single"}]
  /\ got' = [got EXCEPT ![t] = {}]
  /\ aborted' = [aborted EXCEPT ![t] = FALSE]
  /\ left' = [left EXCEPT ![t] = 0]
  /\ Goto(t, "run")
  /\ UNCHANGED <<refcount, devlock, port, reqs, devvars>>

(* hal_close: the last one aborts the device task ... *)
Close(t) ==
  /\ pc[t] = "run" /\ DeviceLockFree
  /\ refcount' = refcount - 1
  /\ IF refcount = 1
     THEN /\ devlock' = t
          /\ devsig' = devsig \cup {"abort"}
          /\ Goto(t, "join")
     ELSE /\ Goto(t, "closed")
          /\ UNCHANGED <<devlock, devsig>>
  /\ UNCHANGED <<reqvars, sig, got, devpc, replying, waittime, lag>>

(* ... and joins it, with the device lock held. *)
Join(t) ==
  /\ pc[t] = "join" /\ devpc = "ended"
  /\ devlock' = None
  /\ devpc' = "off"
  /\ Goto(t, "closed")
  /\ UNCHANGED <<refcount, reqvars, sig, got, devsig, replying, waittime, lag>>

(* Some task sends t a signal of its mask, at a time when it can still end *)
(* the wait; a later one is left to the next wait.                         *)
Other(t) ==
  /\ pc[t] \in {"notify", "wait"}
  /\ Raise(t, "other")
  /\ UNCHANGED <<refcount, devlock, reqvars, pc, got, devvars>>
-----------------------------------------------------------------------------
(* hal_timedwaitevent returns: a signal or the deadline. *)
DevWake ==
  /\ devpc = "wait" /\ (devsig # {} \/ waittime <= 0)
  /\ devsig' = {}
  /\ devpc' = IF "abort" \in devsig THEN "ended" ELSE "lock"
  /\ UNCHANGED <<refcount, devlock, reqvars, taskvars, replying, waittime, lag>>

(* Lock, and read curtime. *)
DevLock ==
  /\ devpc = "lock" /\ DeviceLockFree
  /\ devlock' = "dev"
  /\ devpc' = "drain"
  /\ waittime' = Infinity
  /\ UNCHANGED <<refcount, reqvars, taskvars, devsig, replying, lag>>

(* Mutant: the time asked for is taken for a point in time. *)
DevGetAbsolute ==
  /\ devpc = "drain" /\ port # <<>>
  /\ LET t == Head(port) IN
     /\ flags' = [flags EXCEPT ![t] = "taken"]
     /\ time' = [time EXCEPT ![t] = 0 - lag]
     /\ reqs' = reqs \cup {t}
  /\ port' = Tail(port)
  /\ UNCHANGED <<refcount, devlock, aborted, left, taskvars, devvars>>

(* Move the next request to the list; its deadline is relative to curtime. *)
DevGet ==
  /\ devpc = "drain" /\ port # <<>>
  /\ LET t == Head(port) IN
     /\ flags' = [flags EXCEPT ![t] = "taken"]
     /\ time' = [time EXCEPT ![t] = @ - lag]
     /\ reqs' = reqs \cup {t}
  /\ port' = Tail(port)
  /\ UNCHANGED <<refcount, devlock, aborted, left, taskvars, devvars>>

DevScan ==
  /\ devpc = "drain" /\ port = <<>>
  /\ devpc' = "scan"
  /\ UNCHANGED <<refcount, devlock, reqvars, taskvars, devsig, replying,
                 waittime, lag>>

(* curtime has reached the deadline. *)
Expired(t) == time[t] + lag <= 0

(* Mutant: an expired request is not removed from the list. *)
DevReplyKeeps(t) ==
  /\ devpc = "scan" /\ t \in reqs /\ Expired(t)
  /\ Reply(t, FALSE)
  /\ replying' = t
  /\ devpc' = "signal"
  /\ UNCHANGED <<refcount, devlock, port, reqs, time, left, taskvars, devsig,
                 waittime, lag>>

(* Reply to an expired request: add it to the sync port, ... *)
DevReply(t) ==
  /\ devpc = "scan" /\ t \in reqs /\ Expired(t)
  /\ reqs' = reqs \ {t}
  /\ Reply(t, FALSE)
  /\ replying' = t
  /\ devpc' = "signal"
  /\ UNCHANGED <<refcount, devlock, port, time, left, taskvars, devsig,
                 waittime, lag>>

(* ... and signal its task. *)
DevSignal ==
  /\ devpc = "signal"
  /\ Raise(replying, "single")
  /\ replying' = None
  /\ devpc' = "scan"
  /\ UNCHANGED <<refcount, devlock, reqvars, pc, got, devsig, waittime, lag>>

(* Mutant: the latest deadline. *)
DevUnlockLatest ==
  /\ devpc = "scan" /\ \A t \in reqs : ~Expired(t)
  /\ waittime' = IF reqs = {} THEN Infinity
                 ELSE Max({Max({time[t], 0}) : t \in reqs})
  /\ devlock' = None
  /\ devpc' = "wait"
  /\ lag' = 0
  /\ UNCHANGED <<refcount, reqvars, taskvars, devsig, replying>>

(* The earliest deadline of those that remain. *)
DevUnlock ==
  /\ devpc = "scan" /\ \A t \in reqs : ~Expired(t)
  /\ waittime' = Min({Max({time[t], 0}) : t \in reqs} \cup {Infinity})
  /\ devlock' = None
  /\ devpc' = "wait"
  /\ lag' = 0
  /\ UNCHANGED <<refcount, reqvars, taskvars, devsig, replying>>

(* Time passes. *)
Tick ==
  /\ devlock = "dev" => lag < MaxLag
  /\ lag' = IF devlock = "dev" THEN lag + 1 ELSE lag
  /\ time' = [t \in Task |-> IF t \in reqs THEN Max({time[t] - 1, -MaxLag})
                             ELSE time[t]]
  /\ waittime' = IF waittime \in {0, Infinity} THEN waittime ELSE waittime - 1
  /\ left' = [t \in Task |-> IF flags[t] \in {"queued", "taken"} /\ left[t] > 0
                             THEN left[t] - 1 ELSE left[t]]
  /\ UNCHANGED <<refcount, devlock, port, reqs, flags, aborted, taskvars,
                 devsig, devpc, replying>>

DevNext ==
  \/ DevWake \/ DevLock \/ DevGet \/ DevScan \/ DevSignal \/ DevUnlock
  \/ \E t \in Task : DevReply(t)

TaskNext(t) ==
  \/ Open(t) \/ Close(t) \/ Join(t) \/ Other(t)
  \/ \E dt \in 0..MaxDt : WaitTime(t, dt)
  \/ Notify(t) \/ WaitReturn(t) \/ AbortIO(t) \/ WaitIO(t)

Next == Tick \/ DevNext \/ \E t \in Task : TaskNext(t)

Spec == Init /\ [][Next]_vars

(* Threads are scheduled, time passes, and a thread that asks for the      *)
(* device lock obtains it if it is free again and again.                   *)
Fairness ==
  /\ WF_vars(Tick)
  /\ WF_vars(DevNext) /\ SF_vars(DevLock)
  /\ \A t \in Task :
       /\ WF_vars(Notify(t) \/ WaitReturn(t) \/ WaitIO(t))
       /\ SF_vars(AbortIO(t)) /\ WF_vars(Join(t))

FairSpec == Spec /\ Fairness
-----------------------------------------------------------------------------
(* Those that have the device open. *)
Users == {t \in Task : pc[t] \notin {"closed", "join"}}

(* Those in TWaitTime. *)
Outstanding(t) == pc[t] \in {"notify", "wait", "abort", "waitio"}

TypeOK ==
  /\ refcount \in Nat
  /\ devlock \in Task \cup {None, "dev"}
  /\ port \in Seq(Task)
  /\ reqs \subseteq Task
  /\ flags \in [Task -> {"none", "queued", "taken", "replied"}]
  /\ aborted \in [Task -> BOOLEAN]
  /\ time \in [Task -> (-MaxLag)..MaxDt]
  /\ sig \in [Task -> SUBSET {"single", "other"}]
  /\ pc \in [Task -> {"closed", "run", "notify", "wait", "abort", "waitio",
                      "join"}]
  /\ got \in [Task -> SUBSET {"other"}]
  /\ devsig \subseteq {"user", "abort"}
  /\ devpc \in {"off", "wait", "lock", "drain", "scan", "signal", "ended"}
  /\ replying \in Task \cup {None}
  /\ waittime \in 0..Infinity
  /\ lag \in 0..MaxLag
  /\ left \in [Task -> 0..MaxDt]

(* TWaitTime leaves nothing behind: outside of it "single" is neither      *)
(* pending nor about to be signalled, whichever of expiry and abort came   *)
(* first.  exec_Lock waits for that signal and trusts it.                  *)
SingleIsQuiet ==
  \A t \in Task : ~Outstanding(t) =>
    "single" \notin sig[t] /\ replying # t

(* The request is in the place its flags tell hal_abortio to remove it     *)
(* from, in no other, and in none outside of TWaitTime, which leaves       *)
(* nothing else behind either (SingleIsQuiet).                             *)
RequestInOnePlace ==
  /\ SingleIsQuiet
  /\ IsInjective(port)
  /\ \A t \in Task :
       /\ Contains(port, t) <=> flags[t] = "queued"
       /\ t \in reqs <=> flags[t] = "taken"
       /\ flags[t] # "none" <=> Outstanding(t)

(* TWaitTime returns without a signal only if its request was answered,    *)
(* not aborted; and a request that is answered has waited its time, but    *)
(* for the duration of one pass of the device task, which reads the time   *)
(* before it takes the requests.                                           *)
NoSignalMeansExpired ==
  \A t \in Task :
    /\ pc[t] = "waitio" /\ got[t] = {} => ~aborted[t]
    /\ flags[t] = "replied" /\ ~aborted[t] => left[t] <= MaxLag

(* The device task is there, and not told to end, as long as some task has *)
(* the device open; and it does not sleep past a deadline or a queued      *)
(* request.                                                                *)
DeviceIsAlert ==
  /\ Users # {} => devpc \notin {"off", "ended"} /\ "abort" \notin devsig
  /\ devpc = "wait" /\ devsig = {} =>
       /\ \A t \in reqs : waittime <= Max({time[t], 0})
       /\ \A t \in Task : flags[t] = "queued" => pc[t] = "notify"

(* Every TWaitTime returns. *)
WaitTimeReturns == \A t \in Task : pc[t] = "notify" ~> pc[t] = "run"

(* The last hal_close ends: the device task says "goodbye from HAL device" *)
(* and is joined.                                                          *)
CloseReturns == \A t \in Task : pc[t] = "join" ~> pc[t] = "closed"
=============================================================================
