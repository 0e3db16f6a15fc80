------------------------------ MODULE ExecPort ------------------------------
(***************************************************************************)
(* Message ports of the exec module: TAllocMsg, TPutMsg, TSendMsg,         *)
(* TWaitPort, TGetMsg, TInsertMsg, TAckMsg, TReplyMsg, TDropMsg.  Every    *)
(* task has a user port (signal "user") and a sync port (signal "single")  *)
(* on which it receives the reply to the message it is sending             *)
(* synchronously.                                                          *)
(*                                                                         *)
(* A critical section under tmp_Lock is one action.  The sender signals    *)
(* the port's task after it has released that lock: action Notify.         *)
(* Signals are those of TaskSignals; only the two of the ports are used.   *)
(***************************************************************************)
EXTENDS Naturals, Sequences, FiniteSets, SequencesExt, Lists

CONSTANTS
  Task,
  Client,  (* the tasks that send messages                                  *)
  Server,  (* the tasks that serve their user port; may overlap Client      *)
  Msg,     (* message memory                                                *)
  None

SyncPort(t) == <<t, "single">>
UserPort(t) == <<t, "user">>
Port == Task \X {"single", "user"}
SigTask(p) == p[1]
PortSignal(p) == p[2]

(* Message status flags, as sets of TMSGF_ bits. *)
FAILED  == {}
SENT    == {"SENT"}
ACKD    == {"SENT", "RETURNED"}
REPLIED == {"SENT", "RETURNED", "MODIFIED"}
Verdict == {FAILED, ACKD, REPLIED}

VARIABLES
  queue,   (* queue[p]: tmp_MsgList                                         *)
  flags,   (* flags[m]: tmsg_Flags                                          *)
  rport,   (* rport[m]: tmsg_RPort                                          *)
  sig,     (* sig[t]: the pending signals of t                              *)
  pc,      (* where in which call t is                                      *)
  target,  (* the port whose task t is about to signal                      *)
  cur,     (* the message t is sending synchronously                        *)
  holder,  (* history: the task that may touch m, None if queued or free    *)
  answer   (* history: the answer to m that was not collected yet, or None  *)

vars == <<queue, flags, rport, sig, pc, target, cur, holder, answer>>

Init ==
  /\ queue = [p \in Port |-> <<>>]
  /\ flags = [m \in Msg |-> {}]
  /\ rport = [m \in Msg |-> None]
  /\ sig = [t \in Task |-> {}]
  /\ pc = [t \in Task |-> "idle"]
  /\ target = [t \in Task |-> None]
  /\ cur = [t \in Task |-> None]
  /\ holder = [m \in Msg |-> None]
  /\ answer = [m \in Msg |-> None]

Queued(m) == \E p \in Port : m \in ToSet(queue[p])

(* m is a request t has taken from its port and not yet returned. *)
MustAnswer(t, m) == holder[m] = t /\ flags[m] = SENT

Goto(t, label) == pc' = [pc EXCEPT ![t] = label]

(* Mutants of Enqueue: the message is added at the head, the flags stay   *)
(* SENT.                                                                   *)
EnqueueAtHead(p, m, f) ==
  /\ queue' = [queue EXCEPT ![p] = <<m>> \o @]
  /\ flags' = [flags EXCEPT ![m] = f \cup {"QUEUED"}]
  /\ holder' = [holder EXCEPT ![m] = None]

EnqueueAsSent(p, m, f) ==
  /\ queue' = [queue EXCEPT ![p] = Append(@, m)]
  /\ flags' = [flags EXCEPT ![m] = SENT \cup {"QUEUED"}]
  /\ holder' = [holder EXCEPT ![m] = None]

(* The critical section that adds m to a port and sets its flags. *)
Enqueue(p, m, f) ==
  /\ queue' = [queue EXCEPT ![p] = Append(@, m)]
  /\ flags' = [flags EXCEPT ![m] = f \cup {"QUEUED"}]
  /\ holder' = [holder EXCEPT ![m] = None]
-----------------------------------------------------------------------------
AllocMsg(t, m) ==
  /\ pc[t] = "idle"
  /\ holder[m] = None /\ ~Queued(m)
  /\ holder' = [holder EXCEPT ![m] = t]
  /\ flags' = [flags EXCEPT ![m] = {}]
  /\ UNCHANGED <<queue, rport, sig, pc, target, cur, answer>>

(* TPutMsg to s's user port; rp is None (one-way) or a port of the sender. *)
PutMsg(t, s, rp, m) ==
  /\ pc[t] = "idle"
  /\ holder[m] = t /\ ~MustAnswer(t, m)
  /\ rport' = [rport EXCEPT ![m] = rp]
  /\ Enqueue(UserPort(s), m, SENT)
  /\ target' = [target EXCEPT ![t] = UserPort(s)]
  /\ Goto(t, "notify")
  /\ UNCHANGED <<sig, cur, answer>>

(* TSendMsg up to the signal: the reply is to come to t's sync port. *)
SendMsg(t, s, m) ==
  /\ s # t
  /\ pc[t] = "idle"
  /\ holder[m] = t /\ ~MustAnswer(t, m)
  /\ rport' = [rport EXCEPT ![m] = SyncPort(t)]
  /\ Enqueue(UserPort(s), m, SENT)
  /\ target' = [target EXCEPT ![t] = UserPort(s)]
  /\ cur' = [cur EXCEPT ![t] = m]
  /\ Goto(t, "notify")
  /\ UNCHANGED <<sig, answer>>

(* Mutants of Notify: TSendMsg looks for the reply before it waits; a      *)
(* reply to a sync port is not signalled.                                  *)
NotifyThenGet(t) ==
  /\ pc[t] = "notify"
  /\ sig' = [sig EXCEPT ![SigTask(target[t])] = @ \cup {PortSignal(target[t])}]
  /\ target' = [target EXCEPT ![t] = None]
  /\ Goto(t, IF cur[t] = None THEN "idle" ELSE "syncget")
  /\ UNCHANGED <<queue, flags, rport, cur, holder, answer>>

NotifyUserPorts(t) ==
  /\ pc[t] = "notify"
  /\ sig' = [sig EXCEPT ![SigTask(target[t])] =
                          @ \cup ({PortSignal(target[t])} \ {"single"})]
  /\ target' = [target EXCEPT ![t] = None]
  /\ Goto(t, IF cur[t] = None THEN "idle" ELSE "syncwait")
  /\ UNCHANGED <<queue, flags, rport, cur, holder, answer>>

(* THALSignal to the task of the port the message was added to. *)
Notify(t) ==
  /\ pc[t] = "notify"
  /\ sig' = [sig EXCEPT ![SigTask(target[t])] = @ \cup {PortSignal(target[t])}]
  /\ target' = [target EXCEPT ![t] = None]
  /\ Goto(t, IF cur[t] = None THEN "idle" ELSE "syncwait")
  /\ UNCHANGED <<queue, flags, rport, cur, holder, answer>>

(* The loop of exec_sendmsg: wait for the sync port's signal, ... *)
SyncWait(t) ==
  /\ pc[t] = "syncwait" /\ "single" \in sig[t]
  /\ sig' = [sig EXCEPT ![t] = @ \ {"single"}]
  /\ Goto(t, "syncget")
  /\ UNCHANGED <<queue, flags, rport, target, cur, holder, answer>>

(* ... and take the reply, or wait again if there is none. *)
SyncGet(t) ==
  /\ pc[t] = "syncget"
  /\ \/ /\ queue[SyncPort(t)] = <<>>
        /\ Goto(t, "syncwait")
        /\ UNCHANGED <<queue, flags, cur, holder, answer>>
     \/ LET reply == Head(queue[SyncPort(t)]) IN
        /\ queue[SyncPort(t)] # <<>>
        /\ queue' = [queue EXCEPT ![SyncPort(t)] = Tail(@)]
        /\ flags' = [flags EXCEPT ![reply] = @ \ {"QUEUED"}, ![cur[t]] = {}]
        /\ holder' = [holder EXCEPT ![reply] = t]
        /\ answer' = [answer EXCEPT ![reply] = None]
        /\ cur' = [cur EXCEPT ![t] = None]
        /\ Goto(t, "idle")
  /\ UNCHANGED <<rport, sig, target>>

(* Mutant: TWaitPort waits before it tests the queue. *)
WaitPortFirst(t) ==
  /\ pc[t] = "idle" /\ \A m \in Msg : ~MustAnswer(t, m)
  /\ Goto(t, "waitport")
  /\ UNCHANGED <<queue, flags, rport, sig, target, cur, holder, answer>>

(* TWaitPort on the user port tests the queue, ...  (Every loop in the     *)
(* code answers what it took before it waits for more.)                    *)
WaitPort(t) ==
  /\ pc[t] = "idle" /\ \A m \in Msg : ~MustAnswer(t, m)
  /\ Goto(t, "testport")
  /\ UNCHANGED <<queue, flags, rport, sig, target, cur, holder, answer>>

TestPort(t) ==
  /\ pc[t] = "testport"
  /\ Goto(t, IF queue[UserPort(t)] = <<>> THEN "waitport" ELSE "idle")
  /\ UNCHANGED <<queue, flags, rport, sig, target, cur, holder, answer>>

(* ... waits for the port's signal, and tests again. *)
WakePort(t) ==
  /\ pc[t] = "waitport" /\ "user" \in sig[t]
  /\ sig' = [sig EXCEPT ![t] = @ \ {"user"}]
  /\ Goto(t, "testport")
  /\ UNCHANGED <<queue, flags, rport, target, cur, holder, answer>>

(* TGetMsg on the user port: a request, or the reply to a TPutMsg. *)
GetMsg(t) ==
  /\ pc[t] = "idle" /\ queue[UserPort(t)] # <<>>
  /\ LET m == Head(queue[UserPort(t)]) IN
     /\ flags' = [flags EXCEPT ![m] = @ \ {"QUEUED"}]
     /\ holder' = [holder EXCEPT ![m] = t]
     /\ answer' = [answer EXCEPT ![m] = None]
  /\ queue' = [queue EXCEPT ![UserPort(t)] = Tail(@)]
  /\ UNCHANGED <<rport, sig, pc, target, cur>>

(* TInsertMsg by a server that puts a request back into its own port,      *)
(* behind a message that is there, or at the end; ...                      *)
InsertMsg(t, m) ==
  LET q == queue[UserPort(t)] IN
  /\ pc[t] = "idle" /\ MustAnswer(t, m)
  /\ \E i \in (1..Len(q)) \cup {Len(q)} :
       queue' = [queue EXCEPT ![UserPort(t)] = InsertAt(q, i + 1, m)]
  /\ holder' = [holder EXCEPT ![m] = None]
  /\ Goto(t, "setflags")
  /\ UNCHANGED <<flags, rport, sig, target, cur, answer>>

(* ... and then, no longer under the lock, sets its status.  No signal is  *)
(* sent.                                                                   *)
SetFlags(t) ==
  /\ pc[t] = "setflags"
  /\ \E m \in ToSet(queue[UserPort(t)]) :
       /\ "QUEUED" \notin flags[m]
       /\ flags' = [flags EXCEPT ![m] = SENT \cup {"QUEUED"}]
  /\ Goto(t, "idle")
  /\ UNCHANGED <<queue, rport, sig, target, cur, holder, answer>>

(* TAckMsg, TReplyMsg, TDropMsg: back to the reply port, or freed. *)
ReturnMsg(t, m, v) ==
  /\ pc[t] = "idle" /\ MustAnswer(t, m)
  /\ \/ /\ rport[m] # None
        /\ Enqueue(rport[m], m, v)
        /\ target' = [target EXCEPT ![t] = rport[m]]
        /\ answer' = [answer EXCEPT ![m] = v]
        /\ Goto(t, "notify")
     \/ /\ rport[m] = None
        /\ holder' = [holder EXCEPT ![m] = None]
        /\ UNCHANGED <<queue, flags, target, answer, pc>>
  /\ UNCHANGED <<rport, sig, cur>>

ClientNext(t) ==
  \/ \E m \in Msg :
       \/ AllocMsg(t, m)
       \/ \E s \in Server :
            \/ SendMsg(t, s, m)
            \/ \E rp \in {None, UserPort(t)} : PutMsg(t, s, rp, m)
  \/ SyncWait(t) \/ SyncGet(t)

AnyNext(t) ==
  \/ WaitPort(t) \/ TestPort(t) \/ WakePort(t)
  \/ GetMsg(t) \/ Notify(t) \/ SetFlags(t)
  \/ \E m \in Msg : InsertMsg(t, m) \/ \E v \in Verdict : ReturnMsg(t, m, v)

Next ==
  \/ \E t \in Client : ClientNext(t)
  \/ \E t \in Task : AnyNext(t)

Spec == Init /\ [][Next]_vars

(* Every task is scheduled until its call returns; a server takes and      *)
(* answers what it is sent.                                                *)
Fairness ==
  /\ \A t \in Task : WF_vars(Notify(t) \/ SetFlags(t) \/ TestPort(t) \/ WakePort(t))
  /\ \A t \in Client : WF_vars(SyncWait(t) \/ SyncGet(t))
  /\ \A t \in Server :
       /\ SF_vars(GetMsg(t))
       /\ \A m \in Msg : SF_vars(\E v \in Verdict : ReturnMsg(t, m, v))

FairSpec == Spec /\ Fairness
-----------------------------------------------------------------------------
TypeOK ==
  /\ queue \in [Port -> Seq(Msg)]
  /\ flags \in [Msg -> SUBSET (REPLIED \cup {"QUEUED"})]
  /\ rport \in [Msg -> Port \cup {None}]
  /\ sig \in [Task -> SUBSET {"single", "user"}]
  /\ pc \in [Task -> {"idle", "notify", "syncwait", "syncget", "testport",
                      "waitport", "setflags"}]
  /\ target \in [Task -> Port \cup {None}]
  /\ cur \in [Task -> Msg \cup {None}]
  /\ holder \in [Msg -> Task \cup {None}]
  /\ answer \in [Msg -> Verdict \cup {None}]

(* A task that waits for its port while there is a message has the signal  *)
(* pending, or the sender is about to send it.                             *)
NoLostWakeup ==
  \A t \in Task :
    pc[t] = "waitport" /\ queue[UserPort(t)] # <<>> =>
      "user" \in sig[t] \/ \E s \in Task : target[s] = UserPort(t)

(* TSendMsg returns (its message's flags without QUEUED) the answer that   *)
(* message was given, not an older one and not the SENT state.             *)
SendReturnsAnswer ==
  [][\A t \in Task :
       pc[t] = "syncget" /\ pc'[t] = "idle" =>
         flags[cur[t]] \ {"QUEUED"} = answer[cur[t]]]_vars

(* Ports implement Messaging: the inbox of a task is the requests in its   *)
(* user port; the replies next to them are answers not yet collected.      *)
IsRequest(m) == flags[m] \ {"QUEUED"} = SENT
Sender(p) == IF p = None THEN None ELSE SigTask(p)
Stage(m) ==
  CASE Queued(m) -> IF IsRequest(m) THEN "posted" ELSE "answered"
    [] ~Queued(m) /\ holder[m] = None -> "free"
    [] OTHER -> IF flags[m] = SENT THEN "taken" ELSE "held"
Abstract == INSTANCE Messaging WITH
  inbox <- [t \in Task |-> Select(queue[UserPort(t)], {m \in Msg : IsRequest(m)})],
  stage <- [m \in Msg |-> Stage(m)],
  keeper <- holder,
  from <- [m \in Msg |-> IF Stage(m) \in {"posted", "taken", "answered"}
                         THEN Sender(rport[m]) ELSE None],
  verdict <- [m \in Msg |-> IF Stage(m) = "answered" THEN flags[m] \ {"QUEUED"}
                            ELSE None]
ImplementsMessaging == Abstract!Spec
=============================================================================
