------------------------------ MODULE ExecTask ------------------------------
(***************************************************************************)
(* Creation and destruction of tasks: TCreateTask and TDestroy of a task   *)
(* in the caller (src/src/exec/exec_api.c, exec_doexec.c), the service of  *)
(* their requests by the exec task (exec_main, exec_newtask,               *)
(* exec_childinit, exec_childexit), and the life of the new task           *)
(* (exec_taskentryfunc).                                                   *)
(*                                                                         *)
(* A request is the parent's own task structure: it is in the list of      *)
(* initializing or of exiting tasks until the exec task replies to it.     *)
(* Sending a request is one action here (ExecPort has the details), as is  *)
(* the reply, which wakes the parent.                                      *)
(***************************************************************************)
EXTENDS Naturals, Sequences, FiniteSets, SequencesExt

CONSTANTS
  Parent,  (* the tasks that create and destroy others                      *)
  Child,   (* memory for the tasks they create                              *)
  None

ASSUME NoneAssumption == None \notin Child

VARIABLES
  port,      (* texb_ExecPort: the parents whose request was not yet taken  *)
  sig,       (* pending at the exec task: "port", "childinit", "childexit"  *)
  execpc,    (* where in its loop the exec task is                          *)
  got,       (* what is left to handle of sig in exec_main                  *)
  scan,      (* what exec_childinit or exec_childexit has yet to look at    *)
  initlist,  (* texb_TaskInitList, as parents; texb_NumInitTasks is its     *)
             (* length                                                      *)
  exitlist,  (* texb_TaskExitList, as parents                               *)
  tasklist,  (* texb_TaskList                                               *)
  numtasks,  (* texb_NumTasks                                               *)
  status,    (* status[c]: tsk_Status, or "free", or "leaked"               *)
  thread,    (* thread[c]: where in exec_taskentryfunc c's thread is        *)
  pc,        (* where in which call a parent is                             *)
  arg,       (* arg[p]: trt_Task of p's request                             *)
  own        (* history: own[p]: the tasks p has handles of                 *)

vars == <<port, sig, execpc, got, scan, initlist, exitlist, tasklist,
          numtasks, status, thread, pc, arg, own>>
execvars == <<execpc, got, scan, initlist, exitlist, tasklist, numtasks>>

Init ==
  /\ port = <<>>
  /\ sig = {}
  /\ execpc = "wait"
  /\ got = {}
  /\ scan = <<>>
  /\ initlist = <<>>
  /\ exitlist = <<>>
  /\ tasklist = {}
  /\ numtasks = 0
  /\ status = [c \in Child |-> "free"]
  /\ thread = [c \in Child |-> "none"]
  /\ pc = [p \in Parent |-> "run"]
  /\ arg = [p \in Parent |-> None]
  /\ own = [p \in Parent |-> {}]

Goto(p, label) == pc' = [pc EXCEPT ![p] = label]

(* TRemove: p is unlinked from the list that it is in.                     *)
Unlinked(list, p) == RemoveAt(list, CHOOSE i \in DOMAIN list : list[i] = p)
-----------------------------------------------------------------------------
(* TCreateTask sends its request and waits for the reply. *)
CreateTask(p) ==
  /\ pc[p] = "run"
  /\ port' = Append(port, p)
  /\ sig' = sig \cup {"port"}
  /\ Goto(p, "create")
  /\ UNCHANGED <<execvars, status, thread, arg, own>>

(* exec_usertaskdestroy likewise, for a task it has a handle of. *)
DestroyTask(p, c) ==
  /\ pc[p] = "run" /\ c \in own[p]
  /\ port' = Append(port, p)
  /\ sig' = sig \cup {"port"}
  /\ arg' = [arg EXCEPT ![p] = c]
  /\ own' = [own EXCEPT ![p] = @ \ {c}]
  /\ Goto(p, "destroy")
  /\ UNCHANGED <<execvars, status, thread>>

(* Mutant: free the task without joining its thread. *)
FreeTaskUnjoined(c) ==
  /\ status' = [status EXCEPT ![c] = "free"]
  /\ UNCHANGED thread

(* exec_FreeTask: join the thread, and free the task. *)
FreeTask(c) ==
  /\ thread[c] = "exited"
  /\ thread' = [thread EXCEPT ![c] = "none"]
  /\ status' = [status EXCEPT ![c] = "free"]

(* After the reply to the destroy request the parent frees the task. *)
Free(p) ==
  /\ pc[p] = "free"
  /\ FreeTask(arg[p])
  /\ arg' = [arg EXCEPT ![p] = None]
  /\ Goto(p, "run")
  /\ UNCHANGED <<port, sig, execvars, own>>
-----------------------------------------------------------------------------
(* exec_taskentryfunc: the task reads the tags its parent has on the stack *)
(* and calls its init function, which succeeds or fails, ...               *)
InitTask(c) ==
  /\ thread[c] = "start"
  /\ \/ /\ status' = [status EXCEPT ![c] = "running"]
        /\ thread' = [thread EXCEPT ![c] = "started"]
     \/ /\ status' = [status EXCEPT ![c] = "failed"]
        /\ thread' = [thread EXCEPT ![c] = "failed"]
  /\ UNCHANGED <<port, sig, execvars, pc, arg, own>>

(* Mutant: only a task that runs signals the exec task. *)
SignalInitRunning(c) ==
  /\ thread[c] \in {"started", "failed"}
  /\ sig' = IF thread[c] = "started" THEN sig \cup {"childinit"} ELSE sig
  /\ thread' = [thread EXCEPT ![c] = IF @ = "started" THEN "main" ELSE "exited"]
  /\ UNCHANGED <<port, execvars, status, pc, arg, own>>

(* ... signals the exec task and runs, or ends, ... *)
SignalInit(c) ==
  /\ thread[c] \in {"started", "failed"}
  /\ sig' = sig \cup {"childinit"}
  /\ thread' = [thread EXCEPT ![c] = IF @ = "started" THEN "main" ELSE "exited"]
  /\ UNCHANGED <<port, execvars, status, pc, arg, own>>

(* ... until its function returns. *)
Finish(c) ==
  /\ thread[c] = "main"
  /\ status' = [status EXCEPT ![c] = "finished"]
  /\ thread' = [thread EXCEPT ![c] = "finished"]
  /\ UNCHANGED <<port, sig, execvars, pc, arg, own>>

SignalExit(c) ==
  /\ thread[c] = "finished"
  /\ sig' = sig \cup {"childexit"}
  /\ thread' = [thread EXCEPT ![c] = "exited"]
  /\ UNCHANGED <<port, execvars, status, pc, arg, own>>
-----------------------------------------------------------------------------
(* The rest of a round of exec_main, for those signals that it is to       *)
(* handle: exec_childinit, exec_childexit, and back to THALWait.           *)
AfterInit(signals) ==
  \/ /\ "childexit" \in signals
     /\ execpc' = "exit" /\ scan' = exitlist /\ got' = {}
  \/ /\ "childexit" \notin signals
     /\ execpc' = "wait" /\ scan' = <<>> /\ got' = {}

AfterRequests(signals) ==
  \/ /\ "childinit" \in signals
     /\ execpc' = "init" /\ scan' = initlist /\ got' = signals \ {"childinit"}
  \/ /\ "childinit" \notin signals
     /\ AfterInit(signals)

(* exec_main: wait for signals, ... *)
ExecWake ==
  /\ execpc = "wait" /\ sig # {}
  /\ sig' = {}
  /\ \/ /\ "port" \in sig
        /\ execpc' = "requests" /\ got' = sig \ {"port"}
        /\ UNCHANGED scan
     \/ /\ "port" \notin sig
        /\ AfterRequests(sig)
  /\ UNCHANGED <<port, initlist, exitlist, tasklist, numtasks, status,
                 thread, pc, arg, own>>

(* ... take a request to create a task: create it (exec_newtask), ...      *)
NewTask ==
  LET p == Head(port) IN
  /\ execpc = "requests" /\ port # <<>> /\ pc[p] = "create"
  /\ port' = Tail(port)
  /\ \E c \in Child :
       /\ status[c] = "free"
       /\ status' = [status EXCEPT ![c] = "initializing"]
       /\ thread' = [thread EXCEPT ![c] = "start"]
       /\ arg' = [arg EXCEPT ![p] = c]
  /\ initlist' = Append(initlist, p)
  /\ UNCHANGED <<sig, execpc, got, scan, exitlist, tasklist, numtasks, pc, own>>

(* ... or refuse it: there is no memory for the task, or there is, but not *)
(* for its parts (exec_createtask does not free the task structure then).  *)
NewTaskFails ==
  LET p == Head(port) IN
  /\ execpc = "requests" /\ port # <<>> /\ pc[p] = "create"
  /\ port' = Tail(port)
  /\ \/ UNCHANGED status
     \/ \E c \in Child : /\ status[c] = "free"
                         /\ status' = [status EXCEPT ![c] = "leaked"]
  /\ Goto(p, "run")
  /\ UNCHANGED <<sig, execvars, thread, arg, own>>

(* Mutant: the list of exiting tasks is left to a later round. *)
ExitTaskLater ==
  LET p == Head(port) IN
  /\ execpc = "requests" /\ port # <<>> /\ pc[p] = "destroy"
  /\ port' = Tail(port)
  /\ exitlist' = Append(exitlist, p)
  /\ UNCHANGED <<sig, execpc, got, scan, initlist, tasklist, numtasks, status,
                 thread, pc, arg, own>>

(* A request to destroy a task goes to the list of exiting tasks, which is *)
(* then processed in this round.                                           *)
ExitTask ==
  LET p == Head(port) IN
  /\ execpc = "requests" /\ port # <<>> /\ pc[p] = "destroy"
  /\ port' = Tail(port)
  /\ exitlist' = Append(exitlist, p)
  /\ got' = got \cup {"childexit"}
  /\ UNCHANGED <<sig, execpc, scan, initlist, tasklist, numtasks, status,
                 thread, pc, arg, own>>

RequestsDone ==
  /\ execpc = "requests" /\ port = <<>>
  /\ AfterRequests(got)
  /\ UNCHANGED <<port, sig, initlist, exitlist, tasklist, numtasks, status,
                 thread, pc, arg, own>>

(* The end of the list. *)
ScanDone ==
  /\ scan = <<>>
  /\ \/ execpc = "init" /\ AfterInit(got)
     \/ execpc = "exit" /\ AfterInit({})
  /\ UNCHANGED <<port, sig, initlist, exitlist, tasklist, numtasks, status,
                 thread, pc, arg, own>>

(* exec_childinit, for one request: a task that failed is freed and the    *)
(* request dropped, ...                                                    *)
ChildFailed ==
  LET p == Head(scan) IN
  /\ execpc = "init" /\ scan # <<>> /\ status[arg[p]] = "failed"
  /\ initlist' = Unlinked(initlist, p)
  /\ scan' = Tail(scan)
  /\ FreeTask(arg[p])
  /\ arg' = [arg EXCEPT ![p] = None]
  /\ Goto(p, "run")
  /\ UNCHANGED <<port, sig, execpc, got, exitlist, tasklist, numtasks, own>>

(* ... otherwise the status is read once more, without a lock, ... *)
ChildNotFailed ==
  /\ execpc = "init" /\ scan # <<>> /\ status[arg[Head(scan)]] # "failed"
  /\ execpc' = "init2"
  /\ UNCHANGED <<port, sig, got, scan, initlist, exitlist, tasklist, numtasks,
                 status, thread, pc, arg, own>>

(* Mutant: a task that is still initializing is taken for a running one. *)
ChildInitializing ==
  LET p == Head(scan) IN
  /\ execpc = "init2"
  /\ execpc' = "init"
  /\ scan' = Tail(scan)
  /\ initlist' = Unlinked(initlist, p)
  /\ tasklist' = tasklist \cup {arg[p]}
  /\ numtasks' = numtasks + 1
  /\ own' = [own EXCEPT ![p] = @ \cup {arg[p]}]
  /\ arg' = [arg EXCEPT ![p] = None]
  /\ Goto(p, "run")
  /\ UNCHANGED <<port, sig, got, exitlist, status, thread>>

(* ... and a task that is not initializing is linked to the list, and the  *)
(* parent gets it.                                                         *)
ChildRunning ==
  LET p == Head(scan) IN
  /\ execpc = "init2"
  /\ execpc' = "init"
  /\ scan' = Tail(scan)
  /\ \/ /\ status[arg[p]] # "initializing"
        /\ initlist' = Unlinked(initlist, p)
        /\ tasklist' = tasklist \cup {arg[p]}
        /\ numtasks' = numtasks + 1
        /\ own' = [own EXCEPT ![p] = @ \cup {arg[p]}]
        /\ arg' = [arg EXCEPT ![p] = None]
        /\ Goto(p, "run")
     \/ /\ status[arg[p]] = "initializing"
        /\ UNCHANGED <<initlist, tasklist, numtasks, own, arg, pc>>
  /\ UNCHANGED <<port, sig, got, exitlist, status, thread>>

(* Mutant: every task that is looked at is discounted. *)
ChildExitMiscount ==
  LET p == Head(scan) IN
  /\ execpc = "exit" /\ scan # <<>>
  /\ scan' = Tail(scan)
  /\ numtasks' = numtasks - 1
  /\ \/ /\ status[arg[p]] = "finished"
        /\ tasklist' = tasklist \ {arg[p]}
        /\ exitlist' = Unlinked(exitlist, p)
        /\ Goto(p, "free")
     \/ /\ status[arg[p]] # "finished"
        /\ UNCHANGED <<tasklist, exitlist, pc>>
  /\ UNCHANGED <<port, sig, execpc, got, initlist, status, thread, arg, own>>

(* exec_childexit, for one request. *)
ChildExit ==
  LET p == Head(scan) IN
  /\ execpc = "exit" /\ scan # <<>>
  /\ scan' = Tail(scan)
  /\ \/ /\ status[arg[p]] = "finished"
        /\ tasklist' = tasklist \ {arg[p]}
        /\ exitlist' = Unlinked(exitlist, p)
        /\ numtasks' = numtasks - 1
        /\ Goto(p, "free")
     \/ /\ status[arg[p]] # "finished"
        /\ UNCHANGED <<tasklist, exitlist, numtasks, pc>>
  /\ UNCHANGED <<port, sig, execpc, got, initlist, status, thread, arg, own>>

ExecNext ==
  \/ ExecWake \/ NewTask \/ NewTaskFails \/ ExitTask \/ RequestsDone
  \/ ScanDone \/ ChildFailed \/ ChildNotFailed \/ ChildRunning
  \/ ChildExit

ChildNext(c) == InitTask(c) \/ SignalInit(c) \/ Finish(c) \/ SignalExit(c)

Next ==
  \/ ExecNext
  \/ \E c \in Child : ChildNext(c)
  \/ \E p \in Parent : \/ CreateTask(p) \/ Free(p)
                       \/ \E c \in Child : DestroyTask(p, c)

Spec == Init /\ [][Next]_vars

(* Threads are scheduled, a task's functions return, and the parents do    *)
(* not for ever manage to send a new request between the reply to the last *)
(* one and the exec task's next TGetMsg.                                   *)
Fairness ==
  /\ WF_vars(ExecNext) /\ SF_vars(RequestsDone)
  /\ \A c \in Child : WF_vars(ChildNext(c))
  /\ \A p \in Parent : WF_vars(Free(p))

FairSpec == Spec /\ Fairness
-----------------------------------------------------------------------------
TypeOK ==
  /\ port \in Seq(Parent)
  /\ sig \subseteq {"port", "childinit", "childexit"}
  /\ execpc \in {"wait", "requests", "init", "init2", "exit"}
  /\ got \subseteq {"childinit", "childexit"}
  /\ {scan, initlist, exitlist} \subseteq Seq(Parent)
  /\ tasklist \subseteq Child
  /\ numtasks \in Nat
  /\ status \in [Child -> {"free", "leaked", "initializing", "running",
                           "failed", "finished"}]
  /\ thread \in [Child -> {"none", "start", "started", "failed", "main",
                           "finished", "exited"}]
  /\ pc \in [Parent -> {"run", "create", "destroy", "free"}]
  /\ arg \in [Parent -> Child \cup {None}]
  /\ own \in [Parent -> SUBSET Child]

(* A task TCreateTask has returned is one that has initialized: a task     *)
(* that "failed to initialize" is never handed out.                        *)
HandleIsAlive ==
  \A p \in Parent : \A c \in own[p] : status[c] \in {"running", "finished"}

(* The tags and the hook a new task reads are on the stack of its parent:  *)
(* the parent has not returned from TCreateTask while they are read.       *)
TagsOutlive ==
  \A c \in Child : thread[c] = "start" =>
    \E p \in Parent : pc[p] = "create" /\ arg[p] = c /\ Contains(initlist, p)

(* A task that was freed is in no list, and its thread is gone; no request *)
(* and no handle refers to it.                                             *)
NoDanglingTask ==
  \A c \in Child : status[c] = "free" =>
    /\ thread[c] = "none" /\ c \notin tasklist
    /\ \A p \in Parent : arg[p] # c /\ c \notin own[p]

(* The exec task knows every task (it complains at exit of "tasks still    *)
(* running"): it is initializing, or counted and in the list until it is   *)
(* destroyed.                                                              *)
TasksAreCounted ==
  /\ numtasks = Cardinality(tasklist)
  /\ \A c \in Child : status[c] \notin {"free", "leaked"} =>
       \/ c \in tasklist
       \/ \E p \in Parent :
            arg[p] = c /\ (Contains(initlist, p) \/ pc[p] = "free")
=============================================================================
