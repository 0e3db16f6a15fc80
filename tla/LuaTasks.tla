------------------------------ MODULE LuaTasks ------------------------------
(***************************************************************************)
(* Lua tasks as parents and children (LuaTask), as senders and receivers   *)
(* (LuaMsg), and as web servers (LuaServer, and ServerIds with more ids),  *)
(* each by itself.  A behaviour is one of one of them; in the others       *)
(* nothing happens, and no step of them that fairness is about is possible.*)
(***************************************************************************)
EXTENDS LuaTask, Naturals

CONSTANTS
  Name, Main, Receiver, MaxQueue,              (* of LuaMsg                 *)
  MaxIds, Delay, MaxLag, MaxHorizon,           (* of LuaServer              *)
  MaxNumbers                                   (* MaxIds of ServerIds       *)

ASSUME MessageAssumption ==
  /\ Main \in Name /\ Name \cap (Task \cup {None}) = {}
  /\ Receiver \subseteq Task /\ MaxQueue \in Nat \ {0}

ASSUME ServerAssumption ==
  /\ MaxIds \in Nat \ {0} /\ Delay \subseteq Nat \ {0} /\ MaxLag \in Nat \ {0}
  /\ MaxHorizon \in Nat /\ MaxHorizon > 1 /\ \A delay \in Delay : delay < MaxHorizon
  /\ MaxNumbers \in Nat \ {0} /\ None \notin Nat

VARIABLES
  part,                                        (* whose behaviour this is   *)
  mstage, mparent, name, opened, data, readers, waiting, queue, msig, pc,
  at, status, asked, intervals, pool, due, cur, lag, wait, horizon,
  numbers                                      (* of ServerIds              *)

msgvars == <<mstage, mparent, name, opened, data, readers, waiting, queue, msig,
             pc>>
srvvars == <<at, status, asked, intervals, pool, due, cur, lag, wait, horizon>>
allvars == <<part, vars, msgvars, srvvars, numbers>>

Messages == INSTANCE LuaMsg WITH stage <- mstage, parent <- mparent, sig <- msig
Server == INSTANCE LuaServer WITH aborted <- asked
Ids == INSTANCE ServerIds WITH pool <- numbers, MaxIds <- MaxNumbers

(* The family a sender belongs to is that of LuaMsg: LuaTask has no tasks. *)
NoFamily ==
  /\ stage = [t \in Task |-> "none"] /\ parent = [t \in Task |-> None]
  /\ propagate = [t \in Task |-> FALSE] /\ hooked = [t \in Task |-> FALSE]
  /\ failed = [t \in Task |-> FALSE] /\ sig = [t \in Task |-> {}]
  /\ joining = [t \in Task |-> None] /\ sigparent = [t \in Task |-> FALSE]
  /\ aborted = [t \in Task |-> FALSE] /\ requests = {}

AllInit ==
  /\ part \in {"family", "messages", "server", "ids"}
  /\ IF part = "family" THEN Init ELSE NoFamily
  /\ Messages!Init
  /\ IF part = "server" THEN Server!ServerInit
     ELSE Server!InitAt("end") /\ horizon = MaxHorizon
  /\ Ids!Init

AllNext ==
  /\ UNCHANGED part
  /\ \/ part = "family" /\ Next /\ UNCHANGED <<msgvars, srvvars, numbers>>
     \/ part = "messages" /\ Messages!Next /\ UNCHANGED <<vars, srvvars, numbers>>
     \/ part = "server" /\ Server!ServerNext /\ UNCHANGED <<vars, msgvars, numbers>>
     \/ part = "ids" /\ Ids!Next /\ UNCHANGED <<vars, msgvars, srvvars>>

AllSpec ==
  AllInit /\ [][AllNext]_allvars /\ Fairness /\ Messages!Fairness /\ Server!Fairness
-----------------------------------------------------------------------------
(* A name leads to a task that is there, from the moment it has been       *)
(* looked up until the sender is done with the task.                       *)
NamesAreAlive == Messages!NamesAreAlive /\ Messages!ReceiverIsThere

(* No task sleeps in waitmsg over a message. *)
NoLostMessage == Messages!NoLostMessage

(* Whatever is registered with a server and removed, in whatever function: *)
(* an id that is given out is not in use, nor is it while the functions    *)
(* that were due are called; the check for abortion is always kept; and    *)
(* the server does not wait without end, unless nothing is due before      *)
(* NO_TIMEOUT.                                                             *)
IntervalsAreKept == Server!IntervalsAreKept /\ Ids!IsFree(numbers)

(* Joining a child returns, and so do Exec.run, Exec.sendmsg, waitmsg if   *)
(* there is a message, and Server:run if the server has to end, as long as *)
(* something is due before NO_TIMEOUT.  The server is run by the task Root.*)
Serving(t) == t = Root /\ Server!HasToEnd
Blocked(t) == joining[t] # None \/ Messages!Blocked(t) \/ Serving(t)
CallsReturn ==
  \A t \in Task : Blocked(t) ~> (~Blocked(t) \/ Server!WaitsForClients)
=============================================================================
