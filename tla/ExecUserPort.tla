---------------------------- MODULE ExecUserPort ----------------------------
(***************************************************************************)
(* The signals of a task as a resource, and the life of the ports that     *)
(* tasks create: TAllocSignal, TFreeSignal, TCreatePort, TDestroy of a     *)
(* port, and replies to such a port (src/src/exec/exec_api.c, exec_mod.c). *)
(*                                                                         *)
(* exec_returnmsg signals the reply port after it has given up the port's  *)
(* lock; for that it reads the port once more.  A task that finds the      *)
(* message without waiting for the signal, and destroys the port, frees    *)
(* what is about to be read; so does TWaitPort followed by TDestroy.       *)
(* The clients here do what the code asks of them therefore: they have one *)
(* message out per port, and wait for the signal (TWait) before they take  *)
(* it.  The way of a request to its server is that of ExecPort.            *)
(***************************************************************************)
EXTENDS Naturals, Sequences, FiniteSets, FiniteSetsExt

CONSTANTS
  Client,  (* the tasks that create ports                                   *)
  Server,  (* the tasks that return messages to them                        *)
  SigNum,  (* the signals that are not reserved, by number                  *)
  Port,    (* memory for ports                                              *)
  Msg,
  None

(* A task that returns messages here does not create ports here.           *)
ConstantsOK ==
  /\ SigNum \subseteq Nat
  /\ Client \cap Server = {}
  /\ None \notin Client \cup Server \cup Port \cup SigNum

VARIABLES
  used,     (* used[t]: tsk_SigUsed, of the signals in SigNum               *)
  sig,      (* sig[t]: the pending signals of t                             *)
  sigtask,  (* sigtask[p]: tmp_SigTask, None if p is free memory            *)
  signal,   (* signal[p]: tmp_Signal                                        *)
  queue,    (* queue[p]: tmp_MsgList                                        *)
  rport,    (* rport[m]: tmsg_RPort                                         *)
  target,   (* the port that a server is about to signal                    *)
  pc,       (* pc[t]: "run", or the port t waits for or looks at            *)
  has,      (* history: has[m]: the task that may touch m, None if queued   *)
  mine,     (* history: the signals t has allocated for itself              *)
  lost      (* history: the signals of ports that could not be set up       *)

vars == <<used, sig, sigtask, signal, queue, rport, target, pc, has, mine, lost>>

Init ==
  /\ used = [t \in Client |-> {}]
  /\ sig = [t \in Client |-> {}]
  /\ sigtask = [p \in Port |-> None]
  /\ signal = [p \in Port |-> None]
  /\ queue = [p \in Port |-> <<>>]
  /\ rport = [m \in Msg |-> None]
  /\ target = [s \in Server |-> None]
  /\ pc = [t \in Client |-> [at |-> "run", port |-> None]]
  /\ has \in [Msg -> Client]
  /\ mine = [t \in Client |-> {}]
  /\ lost = [t \in Client |-> {}]

Runs(t) == pc[t].at = "run"
Goto(t, label, p) == pc' = [pc EXCEPT ![t] = [at |-> label, port |-> p]]

(* The messages that are to be replied to p and not yet taken from it. *)
Out(p) == {m \in Msg : rport[m] = p}
-----------------------------------------------------------------------------
(* exec_allocsignal with signals = 0: the lowest free one. *)
LowestFree(t) == Min(SigNum \ used[t])

(* Mutant: it is enough if one of them is free. *)
TakeAny(t, S) ==
  /\ S \ used[t] # {}
  /\ used' = [used EXCEPT ![t] = @ \cup S]

(* exec_allocsignal: the signals in S, all of which must be free.          *)
Take(t, S) ==
  /\ S \cap used[t] = {}
  /\ used' = [used EXCEPT ![t] = @ \cup S]

(* exec_freesignal *)
Give(t, S) == used' = [used EXCEPT ![t] = @ \ S]

(* With the lowest, or with certain signals; on failure nothing changes.   *)
AllocSignal(t, S) ==
  /\ Runs(t)
  /\ Take(t, S)
  /\ mine' = [mine EXCEPT ![t] = @ \cup S]
  /\ UNCHANGED <<sig, sigtask, signal, queue, rport, target, pc, has, lost>>

FreeSignal(t, S) ==
  /\ Runs(t) /\ S \subseteq mine[t]
  /\ Give(t, S)
  /\ mine' = [mine EXCEPT ![t] = @ \ S]
  /\ UNCHANGED <<sig, sigtask, signal, queue, rport, target, pc, has, lost>>

(* TCreatePort: needs a signal, and a host lock, without which the signal  *)
(* is not given back.                                                      *)
CreatePort(t, p) ==
  /\ Runs(t) /\ sigtask[p] = None /\ used[t] # SigNum
  /\ Take(t, {LowestFree(t)})
  /\ \/ /\ sigtask' = [sigtask EXCEPT ![p] = t]
        /\ signal' = [signal EXCEPT ![p] = LowestFree(t)]
        /\ queue' = [queue EXCEPT ![p] = <<>>]
        /\ UNCHANGED lost
     \/ /\ lost' = [lost EXCEPT ![t] = @ \cup {LowestFree(t)}]
        /\ UNCHANGED <<sigtask, signal, queue>>
  /\ UNCHANGED <<sig, rport, target, pc, has, mine>>

(* exec_destroyuserport *)
DestroyPort(t, p) ==
  /\ Runs(t) /\ sigtask[p] = t /\ Out(p) = {}
  /\ Give(t, {signal[p]})
  /\ sigtask' = [sigtask EXCEPT ![p] = None]
  /\ UNCHANGED <<sig, signal, queue, rport, target, pc, has, mine, lost>>

(* TPutMsg of m to server s, to be replied to p. *)
PutMsg(t, s, p, m) ==
  /\ Runs(t) /\ has[m] = t
  /\ sigtask[p] = t /\ Out(p) = {}
  /\ rport' = [rport EXCEPT ![m] = p]
  /\ has' = [has EXCEPT ![m] = s]
  /\ UNCHANGED <<used, sig, sigtask, signal, queue, target, pc, mine, lost>>

(* Mutant: the port is signalled under its lock, too. *)
ReturnMsgSignals(s, m) ==
  /\ has[m] = s /\ target[s] = None
  /\ queue' = [queue EXCEPT ![rport[m]] = Append(@, m)]
  /\ has' = [has EXCEPT ![m] = None]
  /\ target' = [target EXCEPT ![s] = rport[m]]
  /\ sig' = [sig EXCEPT ![sigtask[rport[m]]] = @ \cup {signal[rport[m]]}]
  /\ UNCHANGED <<used, sigtask, signal, rport, pc, mine, lost>>

(* exec_returnmsg, under the port's lock, ... *)
ReturnMsg(s, m) ==
  /\ has[m] = s /\ target[s] = None
  /\ queue' = [queue EXCEPT ![rport[m]] = Append(@, m)]
  /\ has' = [has EXCEPT ![m] = None]
  /\ target' = [target EXCEPT ![s] = rport[m]]
  /\ UNCHANGED <<used, sig, sigtask, signal, rport, pc, mine, lost>>

(* ... and after it. *)
Notify(s) ==
  /\ target[s] # None
  /\ sig' = [sig EXCEPT ![sigtask[target[s]]] = @ \cup {signal[target[s]]}]
  /\ target' = [target EXCEPT ![s] = None]
  /\ UNCHANGED <<used, sigtask, signal, queue, rport, pc, has, mine, lost>>

(* TWait for the port's signal, ... *)
Wait(t, p) ==
  /\ Runs(t) /\ sigtask[p] = t /\ Out(p) # {}
  /\ Goto(t, "wait", p)
  /\ UNCHANGED <<used, sig, sigtask, signal, queue, rport, target, has, mine, lost>>

Woken(t) ==
  LET p == pc[t].port IN
  /\ pc[t].at = "wait" /\ signal[p] \in sig[t]
  /\ sig' = [sig EXCEPT ![t] = @ \ {signal[p]}]
  /\ Goto(t, "get", p)
  /\ UNCHANGED <<used, sigtask, signal, queue, rport, target, has, mine, lost>>

(* ... and TGetMsg, or wait again if there is none. *)
GetMsg(t) ==
  LET p == pc[t].port
      m == Head(queue[p]) IN
  /\ pc[t].at = "get"
  /\ \/ /\ queue[p] = <<>>
        /\ Goto(t, "wait", p)
        /\ UNCHANGED <<queue, rport, has>>
     \/ /\ queue[p] # <<>>
        /\ queue' = [queue EXCEPT ![p] = Tail(@)]
        /\ rport' = [rport EXCEPT ![m] = None]
        /\ has' = [has EXCEPT ![m] = t]
        /\ Goto(t, "run", None)
  /\ UNCHANGED <<used, sig, sigtask, signal, target, mine, lost>>

ClientNext(t) ==
  \/ \E S \in (SUBSET SigNum) \ {{}} : FreeSignal(t, S) \/ AllocSignal(t, S)
  \/ \E p \in Port :
       \/ CreatePort(t, p) \/ DestroyPort(t, p) \/ Wait(t, p)
       \/ \E s \in Server, m \in Msg : PutMsg(t, s, p, m)
  \/ Woken(t) \/ GetMsg(t)

Next ==
  \/ \E t \in Client : ClientNext(t)
  \/ \E s \in Server : Notify(s) \/ \E m \in Msg : ReturnMsg(s, m)

Spec == Init /\ [][Next]_vars

(* Servers return every message, and threads run.                          *)
Fairness ==
  /\ \A s \in Server :
       WF_vars(Notify(s)) /\ \A m \in Msg : WF_vars(Notify(s) \/ ReturnMsg(s, m))
  /\ \A t \in Client : WF_vars(Woken(t) \/ GetMsg(t))

FairSpec == Spec /\ Fairness
-----------------------------------------------------------------------------
TypeOK ==
  /\ used \in [Client -> SUBSET SigNum] /\ sig \in [Client -> SUBSET SigNum]
  /\ mine \in [Client -> SUBSET SigNum] /\ lost \in [Client -> SUBSET SigNum]
  /\ sigtask \in [Port -> Client \cup {None}]
  /\ signal \in [Port -> SigNum \cup {None}]
  /\ queue \in [Port -> Seq(Msg)]
  /\ rport \in [Msg -> Port \cup {None}]
  /\ target \in [Server -> Port \cup {None}]
  /\ pc \in [Client -> [at : {"run", "wait", "get"}, port : Port \cup {None}]]
  /\ has \in [Msg -> Client \cup Server \cup {None}]

PortSignals(t) == {signal[p] : p \in {q \in Port : sigtask[q] = t}}

(* A signal that is in use has one user: a port of the task, the task      *)
(* itself, or nobody any more, if a port could not be set up.  Two ports   *)
(* of a task never share one, or a message could be slept over.            *)
SignalsAreOwned ==
  \A t \in Client :
    /\ used[t] = PortSignals(t) \cup mine[t] \cup lost[t]
    /\ PortSignals(t) \cap (mine[t] \cup lost[t]) = {}
    /\ mine[t] \cap lost[t] = {}
    /\ \A p, q \in Port : sigtask[p] = t /\ sigtask[q] = t /\ p # q =>
         signal[p] # signal[q]

(* A port is there, with the message in it, when its signal is sent, and a *)
(* signal is pending only for a port with a message: a new port that is    *)
(* given the signal of an old one does not wake up for it.                 *)
PortOutlivesSignal ==
  /\ \A s \in Server : target[s] # None => sigtask[target[s]] # None
                                           /\ queue[target[s]] # <<>>
  /\ \A t \in Client : \A n \in sig[t] :
       \E p \in Port : sigtask[p] = t /\ signal[p] = n /\ queue[p] # <<>>
=============================================================================
