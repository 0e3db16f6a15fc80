------------------------------ MODULE ExecSync ------------------------------
(***************************************************************************)
(* Locks and ports of the same tasks (ExecLock and ExecPort together).     *)
(* TLock and TSendMsg wait for the same signal, "single"; a waiter for the *)
(* lock takes it for the lock, without looking.                            *)
(*                                                                         *)
(* A task that is inside the lock waits for nothing else: it may put, get  *)
(* and return messages, but neither send synchronously nor wait for its    *)
(* port.  Otherwise two tasks could wait for one another.                  *)
(***************************************************************************)
EXTENDS ExecLock

CONSTANTS Client, Server, Msg

VARIABLES queue, flags, rport, target, cur, holder, answer

portvars == <<queue, flags, rport, target, cur, holder, answer>>
syncvars == <<vars, portvars>>

Port == INSTANCE ExecPort

ASSUME MemberAssumption == Client \cup Server \subseteq Task
ASSUME NoPortAssumption == None \notin Port!Port \cup Msg

SyncInit == Init /\ Port!Init

LockNext == Next /\ UNCHANGED portvars

PortNext ==
  /\ Port!Next /\ UNCHANGED lockvars
  /\ \A t \in Task :
       depth[t] > 0 => cur'[t] = None /\ pc'[t] \in {"idle", "notify"}

SyncNext == LockNext \/ PortNext

SyncSpec == SyncInit /\ [][SyncNext]_syncvars

(* As for the parts. *)
SyncFairSpec == SyncSpec /\ Fairness /\ Port!Fairness
-----------------------------------------------------------------------------
(* A task has a signal "single" pending or on its way only while it sends  *)
(* a message synchronously, or if the lock it waits for is its own now.    *)
SingleIsQuiet ==
  \A t \in Task : cur[t] = None =>
    /\ Single(t) => pc[t] = "lockwait" /\ owner = t
    /\ \A s \in Task : target[s] # Port!SyncPort(t)

(* TLock and TSendMsg return, if the owners leave the lock and the servers *)
(* serve, even if a server waits for the lock when the request comes.      *)
Blocked(t) == pc[t] = "lockwait" \/ cur[t] # None
CallsReturn == \A t \in Task : Blocked(t) ~> ~Blocked(t)
=============================================================================
