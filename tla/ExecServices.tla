---------------------------- MODULE ExecServices ----------------------------
(***************************************************************************)
(* How tasks reach one another, each way by itself: messages (ExecPort),   *)
(* ports of their own (ExecUserPort) and an atom (ExecAtom).  A behaviour  *)
(* is one of one of them; the others stay as they are initially, where no  *)
(* step of theirs that fairness is about is possible.                      *)
(***************************************************************************)
EXTENDS ExecAtom

CONSTANTS
  PortTask, Client, Server, Msg,               (* of ExecPort               *)
  Owner, Returner, SigNum, PortMem             (* of ExecUserPort           *)


VARIABLES
  part,                                        (* whose behaviour this is   *)
  queue, flags, rport, sig, portpc, target, cur, holder, answer,
  used, usig, sigtask, signal, uqueue, urport, utarget, userpc, has, mine, lost

portvars == <<queue, flags, rport, sig, portpc, target, cur, holder, answer>>
uservars == <<used, usig, sigtask, signal, uqueue, urport, utarget, userpc, has,
              mine, lost>>
allvars == <<part, vars, portvars, uservars>>

Ports == INSTANCE ExecPort WITH Task <- PortTask, pc <- portpc
UserPorts == INSTANCE ExecUserPort WITH
  Client <- Owner, Server <- Returner, Port <- PortMem, pc <- userpc,
  sig <- usig, queue <- uqueue, rport <- urport, target <- utarget

ASSUME PortAssumption ==
  /\ Client \cup Server \subseteq PortTask
  /\ None \notin PortTask \cup Ports!Port \cup Msg
ASSUME UserPortAssumption == UserPorts!ConstantsOK

AllInit ==
  /\ part \in {"atom", "ports", "user ports"}
  /\ Init /\ Ports!Init /\ UserPorts!Init

AllNext ==
  /\ UNCHANGED part
  /\ \/ part = "atom" /\ Next /\ UNCHANGED <<portvars, uservars>>
     \/ part = "ports" /\ Ports!Next /\ UNCHANGED <<vars, uservars>>
     \/ part = "user ports" /\ UserPorts!Next /\ UNCHANGED <<vars, portvars>>

AllSpec ==
  /\ AllInit /\ [][AllNext]_allvars
  /\ Fairness /\ Ports!Fairness /\ UserPorts!Fairness
-----------------------------------------------------------------------------
(* A task that waits for its port while there is a message has been, or    *)
(* is about to be, signalled.                                              *)
NoLostWakeup == Ports!NoLostWakeup

(* TSendMsg returns the answer its message was given. *)
SendReturnsAnswer == Ports!SendReturnsAnswer

(* Ports do what Messaging promises. *)
ImplementsMessaging == Ports!ImplementsMessaging

(* Every signal in use has one user. *)
SignalsAreOwned == UserPorts!SignalsAreOwned

(* Ports are there when they are signalled, and signalled for a message.   *)
PortOutlivesSignal == UserPorts!PortOutlivesSignal

(* Calls that wait for another task return: TSendMsg, TWait for a reply to *)
(* a port of one's own, and TLockAtom if the lock is shared, nobody waits  *)
(* for itself and no wrong owner was read.  A writer can be overtaken for  *)
(* ever.                                                                   *)
Blocked(t) ==
  \/ t \in Client /\ cur[t] # None
  \/ t \in Owner /\ ~UserPorts!Runs(t)
  \/ WaitsToShare(t)
CallsReturn == \A t \in Task : Blocked(t) ~> ~Blocked(t)
=============================================================================
