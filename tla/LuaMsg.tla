------------------------------- MODULE LuaMsg -------------------------------
(***************************************************************************)
(* Messages between Lua tasks and the names they are sent to               *)
(* (src/tek/lib/exec_lua.c): Exec.run with a task name, Exec.sendmsg,      *)
(* Exec.signal, child:sendmsg, Exec.getmsg, waitmsg and getsignals, and    *)
(* what becomes of a task's names when it ends.                            *)
(*                                                                         *)
(* The name x of a task is the atom "task.x", whose data is the task.  A   *)
(* sender holds it shared while it uses the task; a task that ends locks   *)
(* it exclusively to destroy it.  An atom is locked exclusively only to be *)
(* created or destroyed, which is one action with the lock (ExecAtom has   *)
(* the details).  A signal here is "m", TTASK_SIG_USER; abortion and the   *)
(* joining of tasks are those of LuaTask.                                  *)
(***************************************************************************)
EXTENDS Naturals

CONSTANTS
  Task,      (* memory for tasks                                            *)
  Root,      (* the task of the main program                                *)
  Name,      (* the names Exec.run is given                                 *)
  Main,      (* one of them, the name "main"                                *)
  Receiver,  (* bound on the tasks that are sent messages and signals        *)
  MaxQueue,  (* bound on the messages in a task's port                      *)
  None

VARIABLES
  stage,    (* stage[t]: "none", "init", "run"; "close": in base_gc;        *)
            (* "exit": back from lua_close; "finished"; "gone", Root only   *)
  parent,   (* ctx->parent                                                  *)
  name,     (* ctx->taskname; t itself, if it has been given none           *)
  opened,   (* whether t has opened the library                             *)
  data,     (* data[x]: the task that the atom of x names, or None          *)
  readers,  (* readers[x]: who holds the atom of x shared                   *)
  waiting,  (* waiting[t]: the name t waits to lock exclusively, or None    *)
  queue,    (* queue[t]: how many messages there are in t's user port       *)
  sig,      (* sig[t]: whether TTASK_SIG_USER is pending                    *)
  pc        (* pc[t]: where in which call t is, for whom and by what name   *)

names == <<name, data, readers, waiting>>
life == <<stage, parent, opened>>
vars == <<life, names, queue, sig, pc>>

Names == Name \cup Task
Idle == [at |-> "idle", task |-> None, ref |-> None]

Init ==
  /\ stage = [t \in Task |-> IF t = Root THEN "run" ELSE "none"]
  /\ parent = [t \in Task |-> None]
  /\ name = [t \in Task |-> IF t = Root THEN Main ELSE None]
  /\ opened = [t \in Task |-> t = Root]
  /\ data = [x \in Names |-> IF x = Main THEN Root ELSE None]
  /\ readers = [x \in Names |-> {}]
  /\ waiting = [t \in Task |-> None]
  /\ queue = [t \in Task |-> 0]
  /\ sig = [t \in Task |-> FALSE]
  /\ pc = [t \in Task |-> Idle]

Become(t, s) == stage' = [stage EXCEPT ![t] = s]
Goto(t, label) == pc' = [pc EXCEPT ![t].at = label]
Return(t) == pc' = [pc EXCEPT ![t] = Idle]

(* t executes Lua code, and can call the library. *)
Calls(t) == stage[t] = "run" /\ opened[t] /\ pc[t] = Idle
-----------------------------------------------------------------------------
(* Exec.run: TCreateTask returns when c has initialized or has failed to.  *)
Run(t, c, x) ==
  /\ Calls(t) /\ stage[c] = "none"
  /\ Become(c, "init")
  /\ parent' = [parent EXCEPT ![c] = t]
  /\ name' = [name EXCEPT ![c] = x]
  /\ pc' = [pc EXCEPT ![t] = [at |-> "create", task |-> c, ref |-> None]]
  /\ UNCHANGED <<opened, data, readers, waiting, queue, sig>>

(* TMSG_INITTASK: the name must be free.                                   *)
InitTask(c) ==
  /\ stage[c] = "init" /\ data[name[c]] = None
  /\ Become(c, "run")
  /\ data' = [data EXCEPT ![name[c]] = c]
  /\ Return(parent[c])
  /\ UNCHANGED <<parent, opened, name, readers, waiting, queue, sig>>

InitTaskFails(c) ==
  /\ stage[c] = "init" /\ data[name[c]] # None
  /\ Become(c, "none")
  /\ parent' = [parent EXCEPT ![c] = None]
  /\ name' = [name EXCEPT ![c] = None]
  /\ Return(parent[c])
  /\ UNCHANGED <<opened, data, readers, waiting, queue, sig>>

(* luaopen_tek_lib_exec, in a task's own time: it takes the name "main",   *)
(* if that is free.                                                        *)
OpenLibrary(c) ==
  /\ stage[c] = "run" /\ ~opened[c]
  /\ opened' = [opened EXCEPT ![c] = TRUE]
  /\ data' = IF data[Main] = None THEN [data EXCEPT ![Main] = c] ELSE data
  /\ UNCHANGED <<stage, parent, name, readers, waiting, queue, sig, pc>>

(* The Lua code ends; lua_close collects the handles of children first,    *)
(* and the library's own data, if it has been opened, last.                *)
End(t) ==
  /\ stage[t] = "run" /\ pc[t] = Idle
  /\ \A c \in Task : parent[c] # t
  /\ Become(t, IF opened[t] THEN "close" ELSE "exit")
  /\ UNCHANGED <<parent, opened, names, queue, sig, pc>>

(* The name that goes next, and what comes after it. *)
LastName(t) == IF stage[t] = "close" THEN Main ELSE name[t]
After(t) == CASE stage[t] = "exit" -> "finished"
              [] t = Root -> "gone"
              [] OTHER -> "exit"
Ends(t) == stage[t] \in {"close", "exit"}

(* base_gc, and the end of TMSG_RUNTASK: TLockAtom, exclusively, and       *)
(* TUnlockAtom with TATOMF_DESTROY.  The name may not be there any more;   *)
NameGone(t) ==
  /\ Ends(t) /\ waiting[t] = None /\ data[LastName(t)] = None
  /\ Become(t, After(t))
  /\ UNCHANGED <<parent, opened, names, queue, sig, pc>>

(* or have readers;                                                        *)
NameInUse(t) ==
  /\ Ends(t) /\ waiting[t] = None
  /\ data[LastName(t)] # None /\ readers[LastName(t)] # {}
  /\ waiting' = [waiting EXCEPT ![t] = LastName(t)]
  /\ UNCHANGED <<life, name, data, readers, queue, sig, pc>>

(* Mutants of DestroyName: the task goes on without it; it does not wait   *)
(* for the readers.                                                        *)
DestroyNameLater(t) ==
  /\ Ends(t) /\ data[LastName(t)] # None /\ readers[LastName(t)] = {}
  /\ Become(t, After(t))
  /\ UNCHANGED <<parent, opened, names, queue, sig, pc>>

DestroyNameShared(t) ==
  /\ Ends(t) /\ data[LastName(t)] # None
  /\ data' = [data EXCEPT ![LastName(t)] = None]
  /\ waiting' = [u \in Task |-> IF waiting[u] = LastName(t) THEN None ELSE waiting[u]]
  /\ stage' = [u \in Task |-> IF u = t \/ waiting[u] = LastName(t) THEN After(u)
                              ELSE stage[u]]
  /\ UNCHANGED <<parent, opened, name, readers, queue, sig, pc>>

(* otherwise it goes, and all that wait to do the same are refused.        *)
DestroyName(t) ==
  LET x == LastName(t) IN
  /\ Ends(t) /\ data[x] # None /\ readers[x] = {}
  /\ data' = [data EXCEPT ![x] = None]
  /\ waiting' = [u \in Task |-> IF waiting[u] = x THEN None ELSE waiting[u]]
  /\ stage' = [u \in Task |-> IF u = t \/ waiting[u] = x THEN After(u) ELSE stage[u]]
  /\ UNCHANGED <<parent, opened, name, readers, queue, sig, pc>>

(* The parent joins the child and frees it, with the messages nobody has   *)
(* fetched.                                                                *)
Join(t, c) ==
  /\ pc[t] = Idle /\ stage[t] = "run"
  /\ parent[c] = t /\ stage[c] = "finished"
  /\ Become(c, "none")
  /\ parent' = [parent EXCEPT ![c] = None]
  /\ name' = [name EXCEPT ![c] = None]
  /\ opened' = [opened EXCEPT ![c] = FALSE]
  /\ queue' = [queue EXCEPT ![c] = 0]
  /\ sig' = [sig EXCEPT ![c] = FALSE]
  /\ UNCHANGED <<data, readers, waiting, pc>>
-----------------------------------------------------------------------------
Found(t, u, x) == pc' = [pc EXCEPT ![t] = [at |-> "found", task |-> u, ref |-> x]]

(* tek_lib_exec_locktask, by name; if there is no such name, Exec.sendmsg  *)
(* and Exec.signal return nil.                                             *)
LockTask(t, x) ==
  /\ Calls(t) /\ data[x] \in Receiver
  /\ readers' = [readers EXCEPT ![x] = @ \cup {t}]
  /\ Found(t, data[x], x)
  /\ UNCHANGED <<life, name, data, waiting, queue, sig>>

(* The parent ("*p"), or a child by its handle: nothing is locked.         *)
Relative(t, u) ==
  /\ Calls(t) /\ (u = parent[t] \/ parent[u] = t) /\ u \in Receiver
  /\ Found(t, u, None)
  /\ UNCHANGED <<life, names, queue, sig>>

(* TPutMsg, one-way, ... *)
PutMsg(t) ==
  LET u == pc[t].task IN
  /\ pc[t].at = "found" /\ queue[u] < MaxQueue
  /\ queue' = [queue EXCEPT ![u] = @ + 1]
  /\ Goto(t, "notify")
  /\ UNCHANGED <<life, names, sig>>

(* ... and its signal, or Exec.signal, and child:signal, with "m".  The    *)
(* atom is unlocked then.                                                  *)
Signal(t) ==
  /\ pc[t].at \in {"found", "notify"}
  /\ sig' = [sig EXCEPT ![pc[t].task] = TRUE]
  /\ readers' = [x \in Names |-> IF x = pc[t].ref THEN readers[x] \ {t} ELSE readers[x]]
  /\ Return(t)
  /\ UNCHANGED <<life, name, data, waiting, queue>>
-----------------------------------------------------------------------------
(* Exec.getmsg: the message is fetched and freed.  Nobody else takes a     *)
(* message from t's port.                                                  *)
GetMsg(t) ==
  /\ queue' = [queue EXCEPT ![t] = IF @ > 0 THEN @ - 1 ELSE 0]
  /\ Return(t)
  /\ UNCHANGED <<life, names, sig>>

(* Mutant: waits for the signal without looking first.                     *)
WaitFirst(t) ==
  /\ Goto(t, "sleep")
  /\ UNCHANGED <<life, names, queue, sig>>

(* Exec.waitmsg looks for a message, ...                                   *)
Look(t) ==
  \/ /\ queue[t] > 0
     /\ GetMsg(t)
  \/ /\ queue[t] = 0
     /\ Goto(t, "sleep")
     /\ UNCHANGED <<life, names, queue, sig>>

(* ... waits for the signal, takes it and looks again, ...                 *)
WakeUp(t) ==
  /\ pc[t].at = "sleep" /\ sig[t]
  /\ sig' = [sig EXCEPT ![t] = FALSE]
  /\ Goto(t, "look")
  /\ UNCHANGED <<life, names, queue>>

(* ... or, in the end, looks for a message once more.                      *)
TimedOut(t) == pc[t].at = "sleep" /\ ~sig[t] /\ GetMsg(t)

(* Exec.getsignals and Exec.wait, with "m".                                *)
GetSignals(t) ==
  /\ Calls(t)
  /\ sig' = [sig EXCEPT ![t] = FALSE]
  /\ UNCHANGED <<life, names, queue, pc>>

CallNext(t) ==
  \/ PutMsg(t) \/ Signal(t)
  \/ WakeUp(t) \/ (pc[t].at = "look" /\ Look(t))
  \/ InitTask(t) \/ InitTaskFails(t)

LifeNext(t) ==
  \/ \E c \in Task : \E x \in Name \cup {c} : Run(t, c, x)
  \/ OpenLibrary(t) \/ End(t)
  \/ NameGone(t) \/ NameInUse(t) \/ DestroyName(t)
  \/ \E c \in Task : Join(t, c)

Next ==
  \E t \in Task :
    \/ CallNext(t) \/ LifeNext(t)
    \/ \E x \in Names : LockTask(t, x)
    \/ \E u \in Task : Relative(t, u)
    \/ (t \in Receiver /\ Calls(t) /\ (GetMsg(t) \/ Look(t)))
    \/ TimedOut(t) \/ GetSignals(t)

Spec == Init /\ [][Next]_vars

(* A call goes on unless it has to wait. *)
Fairness == \A t \in Task : WF_vars(CallNext(t))

FairSpec == Spec /\ Fairness
-----------------------------------------------------------------------------
TypeOK ==
  /\ stage \in [Task -> {"none", "init", "run", "close", "exit", "finished", "gone"}]
  /\ parent \in [Task -> Task \cup {None}]
  /\ name \in [Task -> Names \cup {None}]
  /\ opened \in [Task -> BOOLEAN]
  /\ data \in [Names -> Task \cup {None}]
  /\ readers \in [Names -> SUBSET Task]
  /\ waiting \in [Task -> Names \cup {None}]
  /\ queue \in [Task -> 0..MaxQueue]
  /\ sig \in [Task -> BOOLEAN]
  /\ pc \in [Task -> [at : {"idle", "create", "found", "notify", "look", "sleep"},
                      task : Task \cup {None}, ref : Names \cup {None}]]

(* The task a message or a signal is being sent to is there, and with it   *)
(* its port, from the moment it has been found until the sender is done    *)
(* with it; if it was found by name it has not even finished.              *)
ReceiverIsThere ==
  \A t \in Task :
    LET u == pc[t].task IN
    pc[t].at \in {"found", "notify"} =>
      /\ stage[u] # "none"
      /\ pc[t].ref # None => stage[u] \notin {"init", "finished"}

(* A name never names a task that has finished, nor memory that was freed; *)
(* and a task that runs can be found by its name, which nobody else can    *)
(* take, but for the name "main".                                          *)
NamesAreAlive ==
  /\ \A x \in Names : data[x] # None =>
       stage[data[x]] \in {"run", "close", "exit"}
  /\ \A t \in Task : stage[t] = "run" /\ name[t] # Main => data[name[t]] = t

(* A task does not sleep in waitmsg over a message, whatever signals it    *)
(* has been sent or has taken before.                                      *)
NoLostMessage ==
  \A t \in Task :
    pc[t].at = "sleep" /\ queue[t] > 0 =>
      sig[t] \/ \E u \in Task : pc[u].at = "notify" /\ pc[u].task = t

(* Exec.run and Exec.sendmsg have to return; so does waitmsg, if there is  *)
(* a message.                                                              *)
Blocked(t) ==
  \/ pc[t].at \notin {"idle", "sleep"}
  \/ pc[t].at = "sleep" /\ queue[t] > 0

(* "The top-level task's implicit name is main". *)
MainIsNamed == stage[Root] = "run" => data[Main] = Root
=============================================================================
