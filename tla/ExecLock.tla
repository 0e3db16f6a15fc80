------------------------------ MODULE ExecLock ------------------------------
(***************************************************************************)
(* TLock and TUnlock (src/src/exec/exec_api.c).  The lock is recursive.    *)
(* A task that finds it taken queues itself and waits for the signal       *)
(* TTASK_SIG_SINGLE; the last TUnlock of the owner hands the lock to the   *)
(* first waiter before it signals.  The waiter does not look at the lock   *)
(* again: what protects it is that no other use of "single" leaves that    *)
(* signal pending (ExecSync!SingleIsQuiet, TimeDevice!SingleIsQuiet).      *)
(*                                                                         *)
(* The critical sections under tlk_HLock are one action each; the signal   *)
(* of TUnlock is sent inside of it.                                        *)
(***************************************************************************)
EXTENDS Naturals, Sequences

CONSTANTS
  Task,
  MaxNest,  (* bound on the nesting a task may build up                     *)
  None

ASSUME NoneAssumption == None \notin Task
ASSUME NestAssumption == MaxNest \in Nat

VARIABLES
  owner,      (* tlk_Owner                                                  *)
  nest,       (* tlk_NestCount                                              *)
  waiters,    (* tlk_Waiters                                                *)
  waitcount,  (* tlk_WaitCount                                              *)
  sig,        (* sig[t]: the pending signals of t                           *)
  pc,         (* "idle", or "lockwait": in THALWait(TTASK_SIG_SINGLE)       *)
  depth       (* history: how many TLock calls of t have returned, less its *)
              (* TUnlock calls                                              *)

lockvars == <<owner, nest, waiters, waitcount, depth>>
vars == <<lockvars, sig, pc>>

Single(t) == "single" \in sig[t]

Init ==
  /\ owner = None
  /\ nest = 0
  /\ waiters = <<>>
  /\ waitcount = 0
  /\ sig = [t \in Task |-> {}]
  /\ pc = [t \in Task |-> "idle"]
  /\ depth = [t \in Task |-> 0]

(* TLock on a free lock, or on one the task already owns. *)
LockAtOnce(t) ==
  /\ pc[t] = "idle" /\ owner \in {None, t}
  /\ depth[t] < MaxNest
  /\ owner' = t
  /\ nest' = nest + 1
  /\ depth' = [depth EXCEPT ![t] = @ + 1]
  /\ UNCHANGED <<waiters, waitcount, sig, pc>>

(* TLock on a lock somebody else owns: queue and wait. *)
LockQueue(t) ==
  /\ pc[t] = "idle" /\ owner \notin {None, t}
  /\ MaxNest > 0
  /\ waiters' = Append(waiters, t)
  /\ waitcount' = waitcount + 1
  /\ pc' = [pc EXCEPT ![t] = "lockwait"]
  /\ UNCHANGED <<owner, nest, sig, depth>>

(* Mutant: TLock returns from the wait without a signal. *)
LockWokenEarly(t) ==
  /\ pc[t] = "lockwait"
  /\ sig' = [sig EXCEPT ![t] = @ \ {"single"}]
  /\ pc' = [pc EXCEPT ![t] = "idle"]
  /\ depth' = [depth EXCEPT ![t] = @ + 1]
  /\ UNCHANGED <<owner, nest, waiters, waitcount>>

(* The signal ends the wait, and TLock returns. *)
LockWoken(t) ==
  /\ pc[t] = "lockwait" /\ Single(t)
  /\ sig' = [sig EXCEPT ![t] = @ \ {"single"}]
  /\ pc' = [pc EXCEPT ![t] = "idle"]
  /\ depth' = [depth EXCEPT ![t] = @ + 1]
  /\ UNCHANGED <<owner, nest, waiters, waitcount>>

(* TUnlock by a task that has locked: undo one level of nesting, ... *)
UnlockNested(t) ==
  /\ nest - 1 # 0
  /\ nest' = nest - 1
  /\ UNCHANGED <<owner, waiters, waitcount, sig>>

(* Mutants of UnlockHandOver: with levels of nesting left; serve the last  *)
(* waiter; forget the signal.                                              *)
UnlockHandOverNested(t) ==
  /\ waitcount > 0
  /\ waiters' = Tail(waiters)
  /\ waitcount' = waitcount - 1
  /\ owner' = Head(waiters)
  /\ nest' = 1
  /\ sig' = [sig EXCEPT ![Head(waiters)] = @ \cup {"single"}]

UnlockHandOverLast(t) ==
  LET w == waiters[Len(waiters)] IN
  /\ nest - 1 = 0 /\ waitcount > 0
  /\ waiters' = SubSeq(waiters, 1, Len(waiters) - 1)
  /\ waitcount' = waitcount - 1
  /\ owner' = w
  /\ nest' = 1
  /\ sig' = [sig EXCEPT ![w] = @ \cup {"single"}]

UnlockHandOverSilent(t) ==
  /\ nest - 1 = 0 /\ waitcount > 0
  /\ waiters' = Tail(waiters)
  /\ waitcount' = waitcount - 1
  /\ owner' = Head(waiters)
  /\ nest' = 1
  /\ UNCHANGED sig

(* ... hand the lock to the first waiter and signal it, ... *)
UnlockHandOver(t) ==
  /\ nest - 1 = 0 /\ waitcount > 0
  /\ waiters' = Tail(waiters)
  /\ waitcount' = waitcount - 1
  /\ owner' = Head(waiters)
  /\ nest' = 1
  /\ sig' = [sig EXCEPT ![Head(waiters)] = @ \cup {"single"}]

(* Mutant of UnlockFree: leave the waiters behind. *)
UnlockFreeAlways(t) ==
  /\ nest - 1 = 0
  /\ nest' = 0
  /\ owner' = None
  /\ UNCHANGED <<waiters, waitcount, sig>>

(* ... or free it. *)
UnlockFree(t) ==
  /\ nest - 1 = 0 /\ waitcount = 0
  /\ nest' = 0
  /\ owner' = None
  /\ UNCHANGED <<waiters, waitcount, sig>>

Unlock(t) ==
  /\ pc[t] = "idle" /\ depth[t] > 0
  /\ UnlockNested(t) \/ UnlockHandOver(t) \/ UnlockFree(t)
  /\ depth' = [depth EXCEPT ![t] = @ - 1]
  /\ UNCHANGED pc

Next ==
  \E t \in Task : LockAtOnce(t) \/ LockQueue(t) \/ LockWoken(t) \/ Unlock(t)

Spec == Init /\ [][Next]_vars

(* Tasks are scheduled, and a task inside does not nest for ever: at any   *)
(* level it is at again and again it eventually unlocks.                   *)
Fairness ==
  \A t \in Task : /\ WF_vars(LockWoken(t))
                  /\ \A k \in 1..MaxNest : SF_vars(Unlock(t) /\ depth[t] = k)

FairSpec == Spec /\ Fairness
-----------------------------------------------------------------------------
TypeOK ==
  /\ owner \in Task \cup {None}
  /\ nest \in Nat
  /\ waiters \in Seq(Task)
  /\ waitcount \in Nat
  /\ sig \in [Task -> SUBSET {"single"}]
  /\ pc \in [Task -> {"idle", "lockwait"}]
  /\ depth \in [Task -> Nat]

(* A task whose TLock has returned owns the lock, and the nesting count is *)
(* the number of its own calls: nothing of a previous owner's is left.     *)
InsideOwns == \A t \in Task : depth[t] > 0 => owner = t /\ nest = depth[t]

(* A signal to a waiter and the ownership it stands for go together.       *)
WokenOwns == \A t \in Task : Single(t) => pc[t] = "lockwait" /\ owner = t

(* Nobody is forgotten: a task in TLock is queued, once, or already owns   *)
(* the lock and is signalled; and no one waits for a free lock.            *)
WaiterIsServed ==
  /\ \A t \in Task : pc[t] = "lockwait" /\ ~Single(t) =>
       \E i \in 1..Len(waiters) : waiters[i] = t
  /\ \A i, j \in 1..Len(waiters) : waiters[i] = waiters[j] => i = j
  /\ owner = None => waiters = <<>>

(* No barging: while tasks wait, ownership passes to the first of them.    *)
HandOverInOrder ==
  [][owner' # owner /\ waiters # <<>> => owner' = Head(waiters)]_vars

(* TLock implements a recursive mutex. *)
Mutex == INSTANCE RecursiveMutex
ImplementsMutex == Mutex!Spec
=============================================================================
