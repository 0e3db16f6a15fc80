------------------------- MODULE ExecRequestsProofs -------------------------
(***************************************************************************)
(* Proofs about ExecTask and ExecModule, and so of ExecRequests.           *)
(*                                                                         *)
(* For any number of parents and tasks: a parent stays in TCreateTask      *)
(* while its task reads the tags, nothing refers to a task that was freed, *)
(* and the exec task has all tasks in its list and counts them right.      *)
(*                                                                         *)
(* For any number of tasks that open and close a module, and any versions: *)
(* it is loaded once at a time, who is given it is given what is loaded    *)
(* and listed, and its reference count is the number of its handles.       *)
(***************************************************************************)
EXTENDS ExecRequests, ListProofs, FiniteSetTheorems

(* A request is in the port until the exec task takes it, and then in one  *)
(* of its lists until it is replied to.                                    *)
RequestInOneList ==
  /\ IsInjective(port) /\ IsInjective(initlist) /\ IsInjective(exitlist)
  /\ \A p \in Parent :
       /\ Contains(port, p) => pc[p] \in {"create", "destroy"}
       /\ Contains(initlist, p) => pc[p] = "create"
       /\ Contains(exitlist, p) => pc[p] = "destroy"
       /\ pc[p] = "run" => arg[p] = None
       /\ pc[p] = "create" => /\ Contains(port, p) <=> arg[p] = None
                              /\ Contains(initlist, p) <=> arg[p] # None
       /\ pc[p] = "destroy" => arg[p] # None /\ (Contains(port, p) <=> ~Contains(exitlist, p))
       /\ pc[p] = "free" => arg[p] # None

(* The exec task goes over a list as it was when it began: nothing of that *)
(* leaves the list before it is looked at.                                 *)
ScanIsOfList ==
  /\ IsInjective(scan)
  /\ execpc \in {"init", "init2"} => \A p : Contains(scan, p) => Contains(initlist, p)
  /\ execpc = "exit" => \A p : Contains(scan, p) => Contains(exitlist, p)
  /\ execpc = "init2" => scan # <<>>

(* A task is in the hands of one parent.                                   *)
OneOwner ==
  \A p, q \in Parent :
    /\ arg[p] = arg[q] /\ arg[p] # None => p = q
    /\ own[p] \cap own[q] # {} => p = q
    /\ arg[p] \notin own[q]

(* The thread writes the status of its task.                               *)
StatusIsOfThread ==
  \A c \in Child :
    /\ status[c] \in {"free", "leaked"} <=> thread[c] = "none"
    /\ status[c] = "initializing" <=> thread[c] = "start"
    /\ thread[c] \in {"started", "main"} => status[c] = "running"
    /\ thread[c] = "failed" => status[c] = "failed"
    /\ thread[c] = "finished" => status[c] = "finished"
    /\ thread[c] = "exited" => status[c] \in {"failed", "finished"}

(* A task that is there is being created, or it was handed out and listed, *)
(* and is then until a parent that gave it back is told that it finished.  *)
TaskIsKnown ==
  /\ \A c \in Child :
       /\ status[c] \in {"free", "leaked"} <=>
            \A p \in Parent : arg[p] # c /\ c \notin own[p]
       /\ status[c] = "initializing" => \E p \in Parent : pc[p] = "create" /\ arg[p] = c
       /\ c \in tasklist <=>
            \E p \in Parent : c \in own[p] \/ (pc[p] = "destroy" /\ arg[p] = c)
  /\ \A p \in Parent : pc[p] = "free" => status[arg[p]] = "finished"
  /\ IsFiniteSet(tasklist) /\ numtasks = Cardinality(tasklist)

(* The inductive invariant. *)
IInv ==
  /\ TypeOK
  /\ RequestInOneList
  /\ ScanIsOfList
  /\ OneOwner
  /\ StatusIsOfThread
  /\ TaskIsKnown
-----------------------------------------------------------------------------
(* The empty list.                                                        *)
LEMMA EmptyList == ASSUME NEW T PROVE /\ <<>> \in Seq(T) /\ IsInjective(<<>>)
                                      /\ \A u : ~Contains(<<>>, u)
  BY DEF IsInjective, Contains

(* At first there is no task and no request.                               *)
LEMMA InitIInv == Init => IInv
<1> SUFFICES ASSUME Init PROVE IInv
  OBVIOUS
<1> USE NoneAssumption DEF Init
<1>1. TypeOK
  BY EmptyList DEF TypeOK
<1>2. RequestInOneList /\ ScanIsOfList
  BY EmptyList DEF RequestInOneList, ScanIsOfList
<1>3. OneOwner /\ StatusIsOfThread
  BY DEF OneOwner, StatusIsOfThread
<1>4. TaskIsKnown
  BY FS_EmptySet DEF TaskIsKnown
<1>5. QED
  BY <1>1, <1>2, <1>3, <1>4 DEF IInv

(* TCreateTask.                                                            *)
LEMMA CreateTaskIInv == ASSUME IInv, NEW p \in Parent, CreateTask(p) PROVE IInv'
<1> USE NoneAssumption DEF IInv, CreateTask, Goto, execvars
<1>1. /\ port \in Seq(Parent) /\ IsInjective(port) /\ ~Contains(port, p)
      /\ pc \in [Parent -> {"run", "create", "destroy", "free"}]
      /\ arg[p] = None /\ ~Contains(initlist, p) /\ ~Contains(exitlist, p)
  BY DEF TypeOK, RequestInOneList
<1>2. /\ port' \in Seq(Parent) /\ IsInjective(port')
      /\ \A q : Contains(port', q) <=> Contains(port, q) \/ q = p
  BY <1>1, AppendOne
<1>3. /\ pc' \in [Parent -> {"run", "create", "destroy", "free"}] /\ pc'[p] = "create"
      /\ \A q \in Parent : q # p => pc'[q] = pc[q]
      /\ UNCHANGED <<execpc, got, scan, initlist, exitlist, tasklist, numtasks, status,
                     thread, arg, own>>
  BY <1>1
<1>4. TypeOK'
  BY <1>2, <1>3 DEF TypeOK
<1>5. RequestInOneList'
  BY <1>1, <1>2, <1>3 DEF RequestInOneList
<1>6. ScanIsOfList' /\ OneOwner' /\ StatusIsOfThread'
  BY <1>3 DEF ScanIsOfList, OneOwner, StatusIsOfThread
<1>7. TaskIsKnown'
  BY <1>1, <1>3 DEF TaskIsKnown
<1>8. QED
  BY <1>4, <1>5, <1>6, <1>7

(* exec_usertaskdestroy.                                                   *)
LEMMA DestroyTaskIInv ==
  ASSUME IInv, NEW p \in Parent, NEW c \in Child, DestroyTask(p, c)
  PROVE  IInv'
<1> USE NoneAssumption DEF IInv
<1>1. /\ port \in Seq(Parent) /\ IsInjective(port) /\ ~Contains(port, p)
      /\ pc \in [Parent -> {"run", "create", "destroy", "free"}] /\ pc[p] = "run"
      /\ arg \in [Parent -> Child \cup {None}] /\ own \in [Parent -> SUBSET Child]
      /\ arg[p] = None /\ ~Contains(initlist, p) /\ ~Contains(exitlist, p) /\ c \in own[p]
  BY DEF TypeOK, RequestInOneList, DestroyTask
<1>2. /\ port' \in Seq(Parent) /\ IsInjective(port')
      /\ \A q : Contains(port', q) <=> Contains(port, q) \/ q = p
  BY <1>1, AppendOne DEF DestroyTask
<1>3. /\ pc' \in [Parent -> {"run", "create", "destroy", "free"}]
      /\ arg' \in [Parent -> Child \cup {None}] /\ own' \in [Parent -> SUBSET Child]
      /\ \A q \in Parent : /\ pc'[q] = IF q = p THEN "destroy" ELSE pc[q]
                           /\ arg'[q] = IF q = p THEN c ELSE arg[q]
                           /\ own'[q] = IF q = p THEN own[q] \ {c} ELSE own[q]
      /\ UNCHANGED <<execpc, got, scan, initlist, exitlist, tasklist, numtasks, status, thread>>
      /\ sig' = sig \cup {"port"}
  BY <1>1 DEF DestroyTask, Goto, execvars
<1>4. TypeOK'
  BY <1>2, <1>3 DEF TypeOK
<1>5. RequestInOneList'
  BY <1>1, <1>2, <1>3 DEF RequestInOneList
<1>6. ScanIsOfList' /\ StatusIsOfThread'
  BY <1>3 DEF ScanIsOfList, StatusIsOfThread
<1>7. \A q \in Parent : arg[q] # c /\ (c \in own[q] => q = p)
  BY <1>1 DEF OneOwner
<1>8. OneOwner'
  BY <1>1, <1>3, <1>7 DEF OneOwner
<1>9. TaskIsKnown'
  BY <1>1, <1>3, <1>7 DEF TaskIsKnown
<1>10. QED
  BY <1>4, <1>5, <1>6, <1>8, <1>9

(* exec_taskentryfunc.                                                     *)
LEMMA ChildNextIInv == ASSUME IInv, NEW c \in Child, ChildNext(c) PROVE IInv'
<1> USE DEF IInv
<1>1. /\ status \in [Child -> {"free", "leaked", "initializing", "running", "failed", "finished"}]
      /\ thread \in [Child -> {"none", "start", "started", "failed", "main", "finished",
                               "exited"}]
  BY DEF TypeOK
<1>2. /\ UNCHANGED <<port, execpc, got, scan, initlist, exitlist, tasklist, numtasks, pc, arg, own>>
      /\ sig' \in {sig, sig \cup {"childinit"}, sig \cup {"childexit"}}
  BY DEF ChildNext, InitTask, SignalInit, Finish, SignalExit, execvars
<1>3. \E s \in {"initializing", "running", "failed", "finished"},
         h \in {"started", "failed", "main", "finished", "exited"} :
        /\ status' = [status EXCEPT ![c] = s] /\ thread' = [thread EXCEPT ![c] = h]
        /\ status[c] \notin {"free", "leaked"} /\ s # "initializing"
        /\ h \in {"started", "main"} => s = "running"
        /\ h = "failed" => s = "failed"
        /\ h = "finished" => s = "finished"
        /\ h = "exited" => s \in {"failed", "finished"}
        /\ status[c] = "finished" => s = "finished"
  <2>1. status = [status EXCEPT ![c] = status[c]]
    BY <1>1
  <2>2. CASE InitTask(c)
    BY <2>2 DEF InitTask, StatusIsOfThread
  <2>3. CASE SignalInit(c)
    BY <1>1, <2>1, <2>3 DEF SignalInit, StatusIsOfThread
  <2>4. CASE Finish(c)
    BY <2>4 DEF Finish, StatusIsOfThread
  <2>5. CASE SignalExit(c)
    BY <1>1, <2>1, <2>5 DEF SignalExit, StatusIsOfThread
  <2>6. QED
    BY <2>2, <2>3, <2>4, <2>5 DEF ChildNext
<1>4. /\ status' \in [Child -> {"free", "leaked", "initializing", "running", "failed", "finished"}]
      /\ thread' \in [Child -> {"none", "start", "started", "failed", "main", "finished",
                                "exited"}]
  BY <1>1, <1>3
<1>5. TypeOK'
  BY <1>2, <1>4 DEF TypeOK
<1>6. RequestInOneList' /\ ScanIsOfList' /\ OneOwner'
  BY <1>2 DEF RequestInOneList, ScanIsOfList, OneOwner
<1>7. StatusIsOfThread'
  BY <1>1, <1>3 DEF StatusIsOfThread
<1>8. TaskIsKnown'
  <2>1. \A d \in Child : /\ status'[d] \in {"free", "leaked"} <=> status[d] \in {"free", "leaked"}
                         /\ status'[d] = "initializing" => status[d] = "initializing"
                         /\ status[d] = "finished" => status'[d] = "finished"
    BY <1>1, <1>3
  <2>2. \A p \in Parent : pc[p] = "free" => arg[p] \in Child
    BY DEF TypeOK, RequestInOneList
  <2>3. QED
    BY <1>2, <2>1, <2>2 DEF TaskIsKnown
<1>9. QED
  BY <1>5, <1>6, <1>7, <1>8

(* The exec task comes to another part of its loop.                        *)
LEMMA LoopIInv ==
  ASSUME IInv, ExecWake \/ RequestsDone \/ ScanDone \/ ChildNotFailed
  PROVE  IInv'
<1> USE DEF IInv
<1>1. UNCHANGED <<port, initlist, exitlist, tasklist, numtasks, status, thread, pc, arg, own>>
  BY DEF ExecWake, RequestsDone, ScanDone, ChildNotFailed
<1>2. /\ sig' \subseteq {"port", "childinit", "childexit"}
      /\ got' \subseteq {"childinit", "childexit"}
      /\ \/ execpc' \in {"wait", "requests"} /\ scan' \in {scan, <<>>}
         \/ execpc' = "init" /\ scan' = initlist
         \/ execpc' = "exit" /\ scan' = exitlist
         \/ execpc' = "init2" /\ execpc = "init" /\ scan # <<>> /\ scan' = scan
  BY DEF ExecWake, RequestsDone, ScanDone, ChildNotFailed, AfterRequests, AfterInit, TypeOK
<1>3. TypeOK'
  <2>1. {scan', initlist', exitlist'} \subseteq Seq(Parent)
    BY <1>1, <1>2, EmptyList DEF TypeOK
  <2>2. QED
    BY <1>1, <1>2, <2>1 DEF TypeOK
<1>4. ScanIsOfList'
  BY <1>1, <1>2, EmptyList DEF ScanIsOfList, RequestInOneList
<1>5. RequestInOneList' /\ OneOwner' /\ StatusIsOfThread' /\ TaskIsKnown'
  BY <1>1 DEF RequestInOneList, OneOwner, StatusIsOfThread, TaskIsKnown
<1>6. QED
  BY <1>3, <1>4, <1>5

(* The first request is taken from the port.                               *)
LEMMA FirstRequest ==
  ASSUME IInv, port # <<>>
  PROVE  /\ Head(port) \in Parent /\ Contains(port, Head(port))
         /\ Tail(port) \in Seq(Parent) /\ IsInjective(Tail(port))
         /\ \A q : Contains(Tail(port), q) <=> Contains(port, q) /\ q # Head(port)
<1>1. port \in Seq(Parent) /\ IsInjective(port)
  BY DEF IInv, TypeOK, RequestInOneList
<1>2. QED
  BY <1>1, TailOne

(* exec_newtask.                                                           *)
LEMMA NewTaskIInv == ASSUME IInv, NewTask PROVE IInv'
<1> USE NoneAssumption DEF IInv
<1> DEFINE p == Head(port)
<1>1. /\ p \in Parent /\ Contains(port, p) /\ Tail(port) \in Seq(Parent)
      /\ IsInjective(Tail(port))
      /\ \A q : Contains(Tail(port), q) <=> Contains(port, q) /\ q # p
  BY FirstRequest DEF NewTask
<1>2. /\ pc[p] = "create" /\ execpc = "requests" /\ port' = Tail(port)
      /\ initlist' = Append(initlist, p)
      /\ UNCHANGED <<sig, execpc, got, scan, exitlist, tasklist, numtasks, pc, own>>
  BY DEF NewTask
<1>3. PICK c \in Child : /\ status[c] = "free"
                         /\ status' = [status EXCEPT ![c] = "initializing"]
                         /\ thread' = [thread EXCEPT ![c] = "start"]
                         /\ arg' = [arg EXCEPT ![p] = c]
  BY DEF NewTask
<1> HIDE DEF p
<1>4. /\ status \in [Child -> {"free", "leaked", "initializing", "running", "failed", "finished"}]
      /\ thread \in [Child -> {"none", "start", "started", "failed", "main", "finished",
                               "exited"}]
      /\ arg \in [Parent -> Child \cup {None}] /\ initlist \in Seq(Parent)
      /\ arg[p] = None /\ ~Contains(initlist, p) /\ IsInjective(initlist)
  BY <1>1, <1>2 DEF TypeOK, RequestInOneList
<1>5. /\ initlist' \in Seq(Parent) /\ IsInjective(initlist')
      /\ \A q : Contains(initlist', q) <=> Contains(initlist, q) \/ q = p
  BY <1>1, <1>2, <1>4, AppendOne
<1>6. /\ status' \in [Child -> {"free", "leaked", "initializing", "running", "failed", "finished"}]
      /\ thread' \in [Child -> {"none", "start", "started", "failed", "main", "finished",
                                "exited"}]
      /\ arg' \in [Parent -> Child \cup {None}]
      /\ \A d \in Child : /\ status'[d] = IF d = c THEN "initializing" ELSE status[d]
                          /\ thread'[d] = IF d = c THEN "start" ELSE thread[d]
      /\ \A q \in Parent : arg'[q] = IF q = p THEN c ELSE arg[q]
  BY <1>1, <1>3, <1>4
<1>7. TypeOK'
  BY <1>1, <1>2, <1>5, <1>6 DEF TypeOK
<1>8. RequestInOneList'
  BY <1>1, <1>2, <1>5, <1>6 DEF RequestInOneList
<1>9. ScanIsOfList'
  BY <1>2 DEF ScanIsOfList
<1>10. \A q \in Parent : arg[q] # c /\ c \notin own[q]
  BY <1>3 DEF TaskIsKnown
<1>11. OneOwner'
  BY <1>2, <1>4, <1>6, <1>10 DEF OneOwner
<1>12. StatusIsOfThread'
  BY <1>6 DEF StatusIsOfThread
<1>13. TaskIsKnown'
  <2>1. \A q \in Parent : pc[q] = "free" => q # p /\ arg[q] \in Child \ {c}
    BY <1>2, <1>4, <1>10 DEF RequestInOneList
  <2>2. \A d \in Child : status'[d] \in {"free", "leaked"} <=>
          \A q \in Parent : arg'[q] # d /\ d \notin own'[q]
    BY <1>1, <1>2, <1>4, <1>6, <1>10 DEF TaskIsKnown
  <2>3. \A d \in Child : status'[d] = "initializing" =>
          \E q \in Parent : pc'[q] = "create" /\ arg'[q] = d
    BY <1>1, <1>2, <1>4, <1>6, <1>10 DEF TaskIsKnown
  <2>4. \A d \in Child : d \in tasklist' <=>
          \E q \in Parent : d \in own'[q] \/ (pc'[q] = "destroy" /\ arg'[q] = d)
    BY <1>1, <1>2, <1>4, <1>6, <1>10 DEF TaskIsKnown
  <2>5. QED
    BY <1>2, <1>6, <2>1, <2>2, <2>3, <2>4 DEF TaskIsKnown
<1>14. QED
  BY <1>7, <1>8, <1>9, <1>11, <1>12, <1>13

(* A new task is not to be had: the parent is answered at once.            *)
LEMMA NewTaskFailsIInv == ASSUME IInv, NewTaskFails PROVE IInv'
<1> USE NoneAssumption DEF IInv
<1> DEFINE p == Head(port)
<1>1. /\ p \in Parent /\ Contains(port, p) /\ Tail(port) \in Seq(Parent)
      /\ IsInjective(Tail(port))
      /\ \A q : Contains(Tail(port), q) <=> Contains(port, q) /\ q # p
  BY FirstRequest DEF NewTaskFails
<1>2. /\ pc[p] = "create" /\ execpc = "requests" /\ port' = Tail(port)
      /\ pc' = [pc EXCEPT ![p] = "run"]
      /\ UNCHANGED <<sig, execpc, got, scan, initlist, exitlist, tasklist, numtasks, thread,
                     arg, own>>
      /\ \/ status' = status
         \/ \E c \in Child : status[c] = "free" /\ status' = [status EXCEPT ![c] = "leaked"]
  BY DEF NewTaskFails, Goto, execvars
<1> HIDE DEF p
<1>3. /\ status \in [Child -> {"free", "leaked", "initializing", "running", "failed", "finished"}]
      /\ pc \in [Parent -> {"run", "create", "destroy", "free"}]
      /\ arg[p] = None /\ ~Contains(initlist, p)
  BY <1>1, <1>2 DEF TypeOK, RequestInOneList
<1>4. /\ status' \in [Child -> {"free", "leaked", "initializing", "running", "failed", "finished"}]
      /\ pc' \in [Parent -> {"run", "create", "destroy", "free"}]
      /\ \A c \in Child : status'[c] = status[c]
                          \/ (status[c] = "free" /\ status'[c] = "leaked")
      /\ \A q \in Parent : pc'[q] = IF q = p THEN "run" ELSE pc[q]
  BY <1>1, <1>2, <1>3
<1>5. TypeOK'
  BY <1>1, <1>2, <1>4 DEF TypeOK
<1>6. RequestInOneList'
  BY <1>1, <1>2, <1>3, <1>4 DEF RequestInOneList
<1>7. ScanIsOfList' /\ OneOwner'
  BY <1>2 DEF ScanIsOfList, OneOwner
<1>8. StatusIsOfThread'
  BY <1>2, <1>4 DEF StatusIsOfThread
<1>9. TaskIsKnown'
  <2>1. \A q \in Parent : pc[q] = "free" => status[arg[q]] = "finished" /\ arg[q] \in Child
    BY DEF TypeOK, RequestInOneList, TaskIsKnown
  <2>2. \A d \in Child : status'[d] = "initializing" =>
          \E q \in Parent : pc'[q] = "create" /\ arg'[q] = d
    BY <1>1, <1>2, <1>3, <1>4 DEF TaskIsKnown
  <2>3. \A d \in Child : d \in tasklist' <=>
          \E q \in Parent : d \in own'[q] \/ (pc'[q] = "destroy" /\ arg'[q] = d)
    BY <1>1, <1>2, <1>3, <1>4 DEF TaskIsKnown
  <2>4. QED
    BY <1>2, <1>4, <2>1, <2>2, <2>3 DEF TaskIsKnown
<1>10. QED
  BY <1>5, <1>6, <1>7, <1>8, <1>9

(* exec_main, for a request to destroy a task.                             *)
LEMMA ExitTaskIInv == ASSUME IInv, ExitTask PROVE IInv'
<1> USE NoneAssumption DEF IInv
<1> DEFINE p == Head(port)
<1>1. /\ p \in Parent /\ Contains(port, p) /\ Tail(port) \in Seq(Parent)
      /\ IsInjective(Tail(port))
      /\ \A q : Contains(Tail(port), q) <=> Contains(port, q) /\ q # p
  BY FirstRequest DEF ExitTask
<1>2. /\ pc[p] = "destroy" /\ execpc = "requests" /\ port' = Tail(port)
      /\ exitlist' = Append(exitlist, p) /\ got' = got \cup {"childexit"}
      /\ UNCHANGED <<sig, execpc, scan, initlist, tasklist, numtasks, status, thread, pc,
                     arg, own>>
  BY DEF ExitTask
<1> HIDE DEF p
<1>3. exitlist \in Seq(Parent) /\ IsInjective(exitlist) /\ ~Contains(exitlist, p)
  BY <1>1, <1>2 DEF TypeOK, RequestInOneList
<1>4. /\ exitlist' \in Seq(Parent) /\ IsInjective(exitlist')
      /\ \A q : Contains(exitlist', q) <=> Contains(exitlist, q) \/ q = p
  BY <1>1, <1>2, <1>3, AppendOne
<1>5. TypeOK'
  BY <1>1, <1>2, <1>4 DEF TypeOK
<1>6. RequestInOneList'
  BY <1>1, <1>2, <1>3, <1>4 DEF RequestInOneList
<1>7. ScanIsOfList'
  BY <1>2 DEF ScanIsOfList
<1>8. OneOwner' /\ StatusIsOfThread' /\ TaskIsKnown'
  BY <1>2 DEF OneOwner, StatusIsOfThread, TaskIsKnown
<1>9. QED
  BY <1>5, <1>6, <1>7, <1>8

(* The request that is looked at is unlinked from its list.                *)
LEMMA UnlinkFirst ==
  ASSUME NEW list \in Seq(Parent), NEW rest \in Seq(Parent), IsInjective(list),
         IsInjective(rest), rest # <<>>, \A p : Contains(rest, p) => Contains(list, p)
  PROVE  /\ Head(rest) \in Parent /\ Contains(rest, Head(rest)) /\ Contains(list, Head(rest))
         /\ Tail(rest) \in Seq(Parent) /\ IsInjective(Tail(rest))
         /\ \A p : Contains(Tail(rest), p) <=> Contains(rest, p) /\ p # Head(rest)
         /\ Unlinked(list, Head(rest)) \in Seq(Parent)
         /\ IsInjective(Unlinked(list, Head(rest)))
         /\ \A p : Contains(Unlinked(list, Head(rest)), p) <=>
                     Contains(list, p) /\ p # Head(rest)
<1>1. /\ Head(rest) \in Parent /\ Contains(rest, Head(rest))
      /\ Tail(rest) \in Seq(Parent) /\ IsInjective(Tail(rest))
      /\ \A p : Contains(Tail(rest), p) <=> Contains(rest, p) /\ p # Head(rest)
  BY TailOne
<1>2. Contains(list, Head(rest))
  BY <1>1
<1> DEFINE i == CHOOSE j \in DOMAIN list : list[j] = Head(rest)
<1>3. i \in DOMAIN list /\ list[i] = Head(rest)
  <2>1. \E j \in DOMAIN list : list[j] = Head(rest)
    <3>1. DOMAIN list = 1..Len(list)
      OBVIOUS
    <3>2. QED
      BY <1>2, <3>1 DEF Contains
  <2>2. QED
    BY <2>1
<1>4. Unlinked(list, Head(rest)) = RemoveAt(list, i)
  BY DEF Unlinked
<1> HIDE DEF i
<1>5. QED
  BY <1>1, <1>2, <1>3, <1>4, RemoveOne

(* exec_childinit, for a task that has failed.                             *)
LEMMA ChildFailedIInv == ASSUME IInv, ChildFailed PROVE IInv'
<1> USE NoneAssumption DEF IInv
<1> DEFINE p == Head(scan)
           c == arg[p]
<1>1. /\ p \in Parent /\ Contains(scan, p) /\ Contains(initlist, p)
      /\ Tail(scan) \in Seq(Parent) /\ IsInjective(Tail(scan))
      /\ \A q : Contains(Tail(scan), q) <=> Contains(scan, q) /\ q # p
      /\ Unlinked(initlist, p) \in Seq(Parent) /\ IsInjective(Unlinked(initlist, p))
      /\ \A q : Contains(Unlinked(initlist, p), q) <=> Contains(initlist, q) /\ q # p
  <2>1. /\ initlist \in Seq(Parent) /\ scan \in Seq(Parent) /\ IsInjective(initlist)
        /\ IsInjective(scan) /\ scan # <<>> /\ \A q : Contains(scan, q) => Contains(initlist, q)
    BY DEF ChildFailed, TypeOK, RequestInOneList, ScanIsOfList
  <2>2. QED
    BY <2>1, UnlinkFirst
<1>2. /\ execpc = "init" /\ status[c] = "failed" /\ thread[c] = "exited"
      /\ initlist' = Unlinked(initlist, p) /\ scan' = Tail(scan)
      /\ thread' = [thread EXCEPT ![c] = "none"] /\ status' = [status EXCEPT ![c] = "free"]
      /\ arg' = [arg EXCEPT ![p] = None] /\ pc' = [pc EXCEPT ![p] = "run"]
      /\ UNCHANGED <<port, sig, execpc, got, exitlist, tasklist, numtasks, own>>
  BY DEF ChildFailed, FreeTask, Goto
<1>3. /\ pc[p] = "create" /\ c \in Child /\ ~Contains(port, p)
  BY <1>1 DEF TypeOK, RequestInOneList
<1>4. /\ status \in [Child -> {"free", "leaked", "initializing", "running", "failed",
                               "finished"}]
      /\ thread \in [Child -> {"none", "start", "started", "failed", "main", "finished",
                               "exited"}]
      /\ arg \in [Parent -> Child \cup {None}]
      /\ pc \in [Parent -> {"run", "create", "destroy", "free"}]
  BY DEF TypeOK
<1>5. \A q \in Parent : c \notin own[q] /\ (arg[q] = c => q = p)
  BY <1>1, <1>3 DEF OneOwner
<1> HIDE DEF p, c
<1>6. /\ status' \in [Child -> {"free", "leaked", "initializing", "running", "failed",
                                "finished"}]
      /\ thread' \in [Child -> {"none", "start", "started", "failed", "main", "finished",
                                "exited"}]
      /\ arg' \in [Parent -> Child \cup {None}]
      /\ pc' \in [Parent -> {"run", "create", "destroy", "free"}]
      /\ \A d \in Child : /\ status'[d] = IF d = c THEN "free" ELSE status[d]
                          /\ thread'[d] = IF d = c THEN "none" ELSE thread[d]
      /\ \A q \in Parent : /\ arg'[q] = IF q = p THEN None ELSE arg[q]
                           /\ pc'[q] = IF q = p THEN "run" ELSE pc[q]
  BY <1>1, <1>2, <1>3, <1>4
<1>7. TypeOK'
  BY <1>1, <1>2, <1>6 DEF TypeOK
<1>8. RequestInOneList'
  BY <1>1, <1>2, <1>3, <1>6 DEF RequestInOneList
<1>9. ScanIsOfList'
  BY <1>1, <1>2 DEF ScanIsOfList
<1>10. OneOwner'
  BY <1>2, <1>4, <1>6 DEF OneOwner, TypeOK
<1>11. StatusIsOfThread'
  BY <1>6 DEF StatusIsOfThread
<1>12. arg[p] = c
  BY DEF c
<1>13. TaskIsKnown'
  <2>1. \A q \in Parent : pc[q] = "free" => q # p /\ arg[q] \in Child \ {c}
    BY <1>3, <1>4, <1>5 DEF RequestInOneList
  <2>2. \A d \in Child : status'[d] \in {"free", "leaked"} <=>
          \A q \in Parent : arg'[q] # d /\ d \notin own'[q]
    BY <1>1, <1>2, <1>3, <1>5, <1>6, <1>12 DEF TaskIsKnown
  <2>3. \A d \in Child : status'[d] = "initializing" =>
          \E q \in Parent : pc'[q] = "create" /\ arg'[q] = d
    BY <1>1, <1>5, <1>6, <1>12 DEF TaskIsKnown
  <2>4. \A d \in Child : d \in tasklist' <=>
          \E q \in Parent : d \in own'[q] \/ (pc'[q] = "destroy" /\ arg'[q] = d)
    BY <1>1, <1>2, <1>3, <1>6 DEF TaskIsKnown
  <2>5. QED
    BY <1>2, <1>6, <2>1, <2>2, <2>3, <2>4 DEF TaskIsKnown
<1>14. QED
  BY <1>7, <1>8, <1>9, <1>10, <1>11, <1>13

(* ... and for one that runs, or has failed or finished meanwhile.         *)
LEMMA ChildRunningIInv == ASSUME IInv, ChildRunning PROVE IInv'
<1> USE NoneAssumption DEF IInv
<1> DEFINE p == Head(scan)
           c == arg[p]
<1>1. /\ p \in Parent /\ Contains(scan, p) /\ Contains(initlist, p)
      /\ Tail(scan) \in Seq(Parent) /\ IsInjective(Tail(scan))
      /\ \A q : Contains(Tail(scan), q) <=> Contains(scan, q) /\ q # p
      /\ Unlinked(initlist, p) \in Seq(Parent) /\ IsInjective(Unlinked(initlist, p))
      /\ \A q : Contains(Unlinked(initlist, p), q) <=> Contains(initlist, q) /\ q # p
  <2>1. /\ initlist \in Seq(Parent) /\ scan \in Seq(Parent) /\ IsInjective(initlist)
        /\ IsInjective(scan) /\ scan # <<>> /\ \A q : Contains(scan, q) => Contains(initlist, q)
    BY DEF ChildRunning, TypeOK, RequestInOneList, ScanIsOfList
  <2>2. QED
    BY <2>1, UnlinkFirst
<1>2. /\ execpc = "init2" /\ execpc' = "init" /\ scan' = Tail(scan)
      /\ UNCHANGED <<port, sig, got, exitlist, status, thread>>
  BY DEF ChildRunning
<1>3. pc[p] = "create" /\ c \in Child /\ ~Contains(port, p)
  BY <1>1 DEF TypeOK, RequestInOneList
<1>4. /\ arg \in [Parent -> Child \cup {None}] /\ own \in [Parent -> SUBSET Child]
      /\ pc \in [Parent -> {"run", "create", "destroy", "free"}]
  BY DEF TypeOK
<1>5. \A q \in Parent : c \notin own[q] /\ (arg[q] = c => q = p)
  BY <1>1, <1>3 DEF OneOwner
<1>6. CASE /\ status[c] = "initializing"
           /\ UNCHANGED <<initlist, tasklist, numtasks, own, arg, pc>>
  <2>1. TypeOK'
    BY <1>1, <1>2, <1>6 DEF TypeOK
  <2>2. ScanIsOfList'
    BY <1>1, <1>2, <1>6 DEF ScanIsOfList
  <2>3. RequestInOneList' /\ OneOwner' /\ StatusIsOfThread' /\ TaskIsKnown'
    BY <1>2, <1>6 DEF RequestInOneList, OneOwner, StatusIsOfThread, TaskIsKnown
  <2>4. QED
    BY <2>1, <2>2, <2>3
<1>7. CASE /\ status[c] # "initializing" /\ initlist' = Unlinked(initlist, p)
           /\ tasklist' = tasklist \cup {c} /\ numtasks' = numtasks + 1
           /\ own' = [own EXCEPT ![p] = @ \cup {c}] /\ arg' = [arg EXCEPT ![p] = None]
           /\ pc' = [pc EXCEPT ![p] = "run"]
  <2> HIDE DEF p, c
  <2>1. /\ arg' \in [Parent -> Child \cup {None}] /\ own' \in [Parent -> SUBSET Child]
        /\ pc' \in [Parent -> {"run", "create", "destroy", "free"}]
        /\ \A q \in Parent : /\ arg'[q] = IF q = p THEN None ELSE arg[q]
                             /\ own'[q] = IF q = p THEN own[p] \cup {c} ELSE own[q]
                             /\ pc'[q] = IF q = p THEN "run" ELSE pc[q]
    BY <1>1, <1>3, <1>4, <1>7
  <2>2. TypeOK'
    BY <1>1, <1>2, <1>3, <1>7, <2>1 DEF TypeOK
  <2>3. RequestInOneList'
    BY <1>1, <1>2, <1>3, <1>7, <2>1 DEF RequestInOneList
  <2>4. ScanIsOfList'
    BY <1>1, <1>2, <1>7 DEF ScanIsOfList
  <2>5. arg[p] = c
    BY DEF c
  <2>6. OneOwner'
    BY <1>1, <1>3, <1>4, <1>5, <2>1, <2>5 DEF OneOwner
  <2>7. StatusIsOfThread'
    BY <1>2 DEF StatusIsOfThread
  <2>8. c \notin tasklist
    BY <1>1, <1>3, <1>5 DEF TaskIsKnown
  <2>9. IsFiniteSet(tasklist') /\ numtasks' = Cardinality(tasklist')
    BY <1>7, <2>8, FS_AddElement DEF TaskIsKnown
  <2>10. \A d \in Child : status'[d] \in {"free", "leaked"} <=>
           \A q \in Parent : arg'[q] # d /\ d \notin own'[q]
    <3>1. ASSUME NEW d \in Child
          PROVE  (\E q \in Parent : arg'[q] = d \/ d \in own'[q]) <=>
                   \E q \in Parent : arg[q] = d \/ d \in own[q]
      <4>1. CASE d = c
        BY <1>1, <2>1, <2>5, <4>1
      <4>2. CASE d # c
        BY <1>1, <2>1, <2>5, <4>2
      <4>3. QED
        BY <4>1, <4>2
    <3>2. QED
      BY <1>2, <3>1 DEF TaskIsKnown
  <2>11. \A d \in Child : status'[d] = "initializing" =>
           \E q \in Parent : pc'[q] = "create" /\ arg'[q] = d
    BY <1>1, <1>2, <1>7, <2>1, <2>5 DEF TaskIsKnown
  <2>12. \A d \in Child : d \in tasklist' <=>
           \E q \in Parent : d \in own'[q] \/ (pc'[q] = "destroy" /\ arg'[q] = d)
    BY <1>1, <1>3, <1>7, <2>1 DEF TaskIsKnown
  <2>13. \A q \in Parent : pc'[q] = "free" => status'[arg'[q]] = "finished"
    BY <1>2, <2>1 DEF TaskIsKnown
  <2>14. QED
    BY <2>2, <2>3, <2>4, <2>6, <2>7, <2>9, <2>10, <2>11, <2>12, <2>13 DEF TaskIsKnown
<1>8. QED
  BY <1>6, <1>7 DEF ChildRunning, Goto

(* exec_childexit.                                                         *)
LEMMA ChildExitIInv == ASSUME IInv, ChildExit PROVE IInv'
<1> USE NoneAssumption DEF IInv
<1> DEFINE p == Head(scan)
           c == arg[p]
<1>1. /\ p \in Parent /\ Contains(scan, p) /\ Contains(exitlist, p)
      /\ Tail(scan) \in Seq(Parent) /\ IsInjective(Tail(scan))
      /\ \A q : Contains(Tail(scan), q) <=> Contains(scan, q) /\ q # p
      /\ Unlinked(exitlist, p) \in Seq(Parent) /\ IsInjective(Unlinked(exitlist, p))
      /\ \A q : Contains(Unlinked(exitlist, p), q) <=> Contains(exitlist, q) /\ q # p
  <2>1. /\ exitlist \in Seq(Parent) /\ scan \in Seq(Parent) /\ IsInjective(exitlist)
        /\ IsInjective(scan) /\ scan # <<>> /\ \A q : Contains(scan, q) => Contains(exitlist, q)
    BY DEF ChildExit, TypeOK, RequestInOneList, ScanIsOfList
  <2>2. QED
    BY <2>1, UnlinkFirst
<1>2. /\ execpc = "exit" /\ scan' = Tail(scan)
      /\ UNCHANGED <<port, sig, execpc, got, initlist, status, thread, arg, own>>
  BY DEF ChildExit
<1>3. pc[p] = "destroy" /\ c \in Child /\ ~Contains(port, p)
  BY <1>1 DEF TypeOK, RequestInOneList
<1>4. pc \in [Parent -> {"run", "create", "destroy", "free"}]
  BY DEF TypeOK
<1>5. \A q \in Parent : c \notin own[q] /\ (arg[q] = c => q = p)
  BY <1>1, <1>3 DEF OneOwner
<1>6. CASE UNCHANGED <<tasklist, exitlist, numtasks, pc>>
  <2>1. TypeOK'
    BY <1>1, <1>2, <1>6 DEF TypeOK
  <2>2. ScanIsOfList'
    BY <1>1, <1>2, <1>6 DEF ScanIsOfList
  <2>3. RequestInOneList' /\ OneOwner' /\ StatusIsOfThread' /\ TaskIsKnown'
    BY <1>2, <1>6 DEF RequestInOneList, OneOwner, StatusIsOfThread, TaskIsKnown
  <2>4. QED
    BY <2>1, <2>2, <2>3
<1>7. CASE /\ status[c] = "finished" /\ tasklist' = tasklist \ {c}
           /\ exitlist' = Unlinked(exitlist, p) /\ numtasks' = numtasks - 1
           /\ pc' = [pc EXCEPT ![p] = "free"]
  <2> HIDE DEF p, c
  <2>1. /\ pc' \in [Parent -> {"run", "create", "destroy", "free"}]
        /\ \A q \in Parent : pc'[q] = IF q = p THEN "free" ELSE pc[q]
    BY <1>1, <1>4, <1>7
  <2>2. arg[p] = c
    BY DEF c
  <2>3. c \in tasklist
    BY <1>1, <1>3, <2>2 DEF TaskIsKnown
  <2>4. IsFiniteSet(tasklist') /\ numtasks' = Cardinality(tasklist') /\ numtasks' \in Nat
    <3>1. IsFiniteSet(tasklist) /\ numtasks = Cardinality(tasklist)
      BY DEF TaskIsKnown
    <3>2. /\ IsFiniteSet(tasklist \ {c})
          /\ Cardinality(tasklist \ {c}) = Cardinality(tasklist) - 1
      BY <2>3, <3>1, FS_RemoveElement
    <3>3. Cardinality(tasklist \ {c}) \in Nat
      BY <3>2, FS_CardinalityType
    <3>4. QED
      BY <1>7, <3>1, <3>2, <3>3
  <2>5. TypeOK'
    BY <1>1, <1>2, <1>7, <2>1, <2>4 DEF TypeOK
  <2>6. RequestInOneList'
    BY <1>1, <1>2, <1>3, <1>7, <2>1 DEF RequestInOneList
  <2>7. ScanIsOfList'
    BY <1>1, <1>2, <1>7 DEF ScanIsOfList
  <2>8. OneOwner' /\ StatusIsOfThread'
    BY <1>2 DEF OneOwner, StatusIsOfThread
  <2>9. \A d \in Child : status'[d] = "initializing" =>
          \E q \in Parent : pc'[q] = "create" /\ arg'[q] = d
    BY <1>2, <1>3, <2>1 DEF TaskIsKnown
  <2>10. \A d \in Child : d \in tasklist' <=>
           \E q \in Parent : d \in own'[q] \/ (pc'[q] = "destroy" /\ arg'[q] = d)
    BY <1>1, <1>2, <1>5, <1>7, <2>1, <2>2 DEF TaskIsKnown
  <2>11. \A q \in Parent : pc'[q] = "free" => status'[arg'[q]] = "finished"
    BY <1>2, <1>7, <2>1, <2>2 DEF TaskIsKnown
  <2>12. QED
    BY <1>2, <2>4, <2>5, <2>6, <2>7, <2>8, <2>9, <2>10, <2>11 DEF TaskIsKnown
<1>8. QED
  BY <1>6, <1>7 DEF ChildExit, Goto

(* The parent frees its task.                                              *)
LEMMA FreeIInv == ASSUME IInv, NEW p \in Parent, Free(p) PROVE IInv'
<1> USE NoneAssumption DEF IInv
<1> DEFINE c == arg[p]
<1>1. /\ pc[p] = "free" /\ thread[c] = "exited"
      /\ thread' = [thread EXCEPT ![c] = "none"] /\ status' = [status EXCEPT ![c] = "free"]
      /\ arg' = [arg EXCEPT ![p] = None] /\ pc' = [pc EXCEPT ![p] = "run"]
      /\ UNCHANGED <<port, sig, execpc, got, scan, initlist, exitlist, tasklist, numtasks, own>>
  BY DEF Free, FreeTask, Goto, execvars
<1>2. /\ c \in Child /\ ~Contains(port, p) /\ ~Contains(initlist, p) /\ ~Contains(exitlist, p)
  BY <1>1 DEF TypeOK, RequestInOneList
<1>3. /\ status \in [Child -> {"free", "leaked", "initializing", "running", "failed",
                               "finished"}]
      /\ thread \in [Child -> {"none", "start", "started", "failed", "main", "finished",
                               "exited"}]
      /\ arg \in [Parent -> Child \cup {None}]
      /\ pc \in [Parent -> {"run", "create", "destroy", "free"}]
  BY DEF TypeOK
<1>4. \A q \in Parent : c \notin own[q] /\ (arg[q] = c => q = p)
  BY <1>2 DEF OneOwner
<1>5. arg[p] = c
  OBVIOUS
<1> HIDE DEF c
<1>6. /\ status' \in [Child -> {"free", "leaked", "initializing", "running", "failed",
                                "finished"}]
      /\ thread' \in [Child -> {"none", "start", "started", "failed", "main", "finished",
                                "exited"}]
      /\ arg' \in [Parent -> Child \cup {None}]
      /\ pc' \in [Parent -> {"run", "create", "destroy", "free"}]
      /\ \A d \in Child : /\ status'[d] = IF d = c THEN "free" ELSE status[d]
                          /\ thread'[d] = IF d = c THEN "none" ELSE thread[d]
      /\ \A q \in Parent : /\ arg'[q] = IF q = p THEN None ELSE arg[q]
                           /\ pc'[q] = IF q = p THEN "run" ELSE pc[q]
  BY <1>1, <1>2, <1>3
<1>7. TypeOK'
  BY <1>1, <1>6 DEF TypeOK
<1>8. RequestInOneList'
  BY <1>1, <1>2, <1>6 DEF RequestInOneList
<1>9. ScanIsOfList'
  BY <1>1 DEF ScanIsOfList
<1>10. OneOwner'
  BY <1>1, <1>3, <1>6 DEF OneOwner, TypeOK
<1>11. StatusIsOfThread'
  BY <1>6 DEF StatusIsOfThread
<1>12. TaskIsKnown'
  <2>1. \A q \in Parent : pc[q] = "free" => q = p \/ arg[q] \in Child \ {c}
    BY <1>3, <1>4 DEF RequestInOneList
  <2>2. \A d \in Child : status'[d] \in {"free", "leaked"} <=>
          \A q \in Parent : arg'[q] # d /\ d \notin own'[q]
    BY <1>1, <1>2, <1>4, <1>5, <1>6 DEF TaskIsKnown
  <2>3. \A d \in Child : status'[d] = "initializing" =>
          \E q \in Parent : pc'[q] = "create" /\ arg'[q] = d
    BY <1>1, <1>6 DEF TaskIsKnown
  <2>4. \A d \in Child : d \in tasklist' <=>
          \E q \in Parent : d \in own'[q] \/ (pc'[q] = "destroy" /\ arg'[q] = d)
    BY <1>1, <1>6 DEF TaskIsKnown
  <2>5. QED
    BY <1>1, <1>6, <2>1, <2>2, <2>3, <2>4 DEF TaskIsKnown
<1>13. QED
  BY <1>7, <1>8, <1>9, <1>10, <1>11, <1>12
-----------------------------------------------------------------------------
(* Every step preserves the invariant, ...                                 *)
LEMMA NextIInv == IInv /\ [Next]_vars => IInv'
<1> SUFFICES ASSUME IInv, [Next]_vars PROVE IInv'
  OBVIOUS
<1>1. CASE ExecNext
  BY <1>1, LoopIInv, NewTaskIInv, NewTaskFailsIInv, ExitTaskIInv, ChildFailedIInv,
     ChildRunningIInv, ChildExitIInv DEF ExecNext
<1>2. CASE \E c \in Child : ChildNext(c)
  BY <1>2, ChildNextIInv
<1>3. CASE \E p \in Parent : CreateTask(p) \/ Free(p) \/ \E c \in Child : DestroyTask(p, c)
  BY <1>3, CreateTaskIInv, FreeIInv, DestroyTaskIInv
<1>4. CASE UNCHANGED vars
  BY <1>4 DEF vars, IInv, TypeOK, RequestInOneList, ScanIsOfList, OneOwner, StatusIsOfThread,
              TaskIsKnown
<1>5. QED
  BY <1>1, <1>2, <1>3, <1>4 DEF Next

(* ... so it always holds.                                                 *)
THEOREM TaskInvariant == Spec => []IInv
  BY InitIInv, NextIInv, PTL DEF Spec

(* What follows from it.                                                   *)
LEMMA TasksAreSound == IInv => TagsOutlive /\ NoDanglingTask /\ TasksAreCounted
<1> SUFFICES ASSUME IInv PROVE TagsOutlive /\ NoDanglingTask /\ TasksAreCounted
  OBVIOUS
<1> USE NoneAssumption DEF IInv
<1>1. ASSUME NEW c \in Child, thread[c] = "start"
      PROVE  \E p \in Parent : pc[p] = "create" /\ arg[p] = c /\ Contains(initlist, p)
  <2>1. PICK p \in Parent : pc[p] = "create" /\ arg[p] = c
    BY <1>1 DEF StatusIsOfThread, TaskIsKnown
  <2>2. QED
    BY <2>1 DEF RequestInOneList
<1>2. ASSUME NEW c \in Child, status[c] = "free"
      PROVE  /\ thread[c] = "none" /\ c \notin tasklist
             /\ \A p \in Parent : arg[p] # c /\ c \notin own[p]
  BY <1>2 DEF StatusIsOfThread, TaskIsKnown
<1>3. ASSUME NEW c \in Child, status[c] \notin {"free", "leaked"}, c \notin tasklist
      PROVE  \E p \in Parent : arg[p] = c /\ (Contains(initlist, p) \/ pc[p] = "free")
  <2>1. PICK p \in Parent : arg[p] = c \/ c \in own[p]
    BY <1>3 DEF TaskIsKnown
  <2>2. arg[p] = c /\ pc[p] # "destroy"
    BY <1>3, <2>1 DEF TaskIsKnown
  <2>3. pc[p] \in {"create", "free"}
    BY <2>2 DEF TypeOK, RequestInOneList
  <2>4. QED
    BY <2>2, <2>3 DEF RequestInOneList
<1>4. QED
  BY <1>1, <1>2, <1>3 DEF TagsOutlive, NoDanglingTask, TasksAreCounted, TaskIsKnown

(* In ExecRequests tasks take steps of their own or none.                  *)
THEOREM RequestsTaskInvariant == AllSpec => []IInv
<1>1. AllInit => IInv
  BY InitIInv DEF AllInit
<1>2. IInv /\ [AllNext]_allvars => IInv'
  BY NextIInv DEF AllNext, allvars
<1>3. QED
  BY <1>1, <1>2, PTL DEF AllSpec

(* The tags a new task reads are on the stack of a parent that has not     *)
(* returned.                                                               *)
THEOREM TagsOutliveHolds == AllSpec => []TagsOutlive
  BY RequestsTaskInvariant, TasksAreSound, PTL

(* A task that was freed has no thread, and nothing refers to it.          *)
THEOREM NoDanglingTaskHolds == AllSpec => []NoDanglingTask
  BY RequestsTaskInvariant, TasksAreSound, PTL

(* texb_NumTasks is exact, and every task is known to the exec task.       *)
THEOREM TasksAreCountedHolds == AllSpec => []TasksAreCounted
  BY RequestsTaskInvariant, TasksAreSound, PTL
-----------------------------------------------------------------------------
(* t has the load request; it delivers the module when it has come back    *)
(* with it.                                                                *)
Loading(t) == modpc[t] = "call" /\ req[t].code = "load"
Delivers(t) == Contains(modreply, t) /\ ~req[t].failed

(* A request is in one port at a time: with the exec task, with the ramlib *)
(* task, or on its way back from it; or it waits for a load request.       *)
CallInOnePlace ==
  /\ IsInjective(execport) /\ IsInjective(ramport) /\ IsInjective(modreply)
  /\ \A t \in Task :
       /\ Contains(execport, t) => modpc[t] = "call" /\ req[t].code \in {"open", "close"}
       /\ Contains(ramport, t) => modpc[t] = "call" /\ req[t].code \in {"load", "unload", "add", "rem"}
       /\ Contains(modreply, t) => Loading(t) /\ ~Contains(ramport, t)
       /\ modpc[t] = "opened" => req[t].code \in {"open", "load"}
       /\ req[t].code = "close" => Contains(execport, t)
       /\ req[t].code = "unload" => Contains(ramport, t)
       /\ req[t].failed => Contains(modreply, t)

(* The caller's own reply port is in its message, or kept in the request   *)
(* while the message goes to the ramlib task.                              *)
AnswerPortIsKept ==
  \A t \in Task :
    /\ modpc[t] = "call" /\ req[t].code \in {"open", "close", "add", "rem"} => req[t].rport = "sync"
    /\ Loading(t) \/ req[t].code = "unload" => req[t].saved = "sync"

(* Who waits with a load request has an open request of its own, for no    *)
(* newer a version, and waits there once and nowhere else.                 *)
WaitersAreOpening ==
  \A t \in Task : Loading(t) =>
    /\ IsInjective(req[t].waiters)
    /\ \A w \in Task : Contains(req[t].waiters, w) =>
         /\ modpc[w] = "call" /\ req[w].code = "open" /\ ~Contains(execport, w)
         /\ req[w].version <= req[t].version

(* A name has one state: nothing is known of it, or it is being loaded, or *)
(* its module is listed; and then the module is the only one in memory,    *)
(* besides what is delivered or about to be unloaded.                      *)
ModuleInOneState ==
  /\ modlist # <<>> => \E n \in Task \cup Instance : modlist = <<n>> /\ (n \in Task => Loading(n))
  /\ \A t \in Task : Loading(t) => modlist = <<t>>
  /\ \A x, y \in Instance : version[x] # 0 /\ version[y] # 0 => x = y
  /\ \A x \in Instance : version[x] # 0 <=>
       \/ modlist = <<x>>
       \/ \E t \in Task : Delivers(t) /\ req[t].module = x
       \/ \E t \in Task : req[t].code = "unload" /\ req[t].module = x

(* In the queue q of requests r, unloads come before loads.                *)
InOrder(q, r) ==
  \A i, j \in DOMAIN q : r[q[i]].code = "load" /\ r[q[j]].code = "unload" => j < i
(* Between the last close and the unload the name may be opened again: the *)
(* load request is then behind the unload in the ramlib task's port.       *)
UnloadComesFirst ==
  /\ \A t \in Task : req[t].code = "unload" =>
       /\ req[t].module \in Instance
       /\ \A x \in Instance : modlist # <<x>>
       /\ \A u \in Task : ~Delivers(u) /\ (req[u].code = "unload" => u = t)
  /\ InOrder(ramport, req)

(* What is referred to is listed, new enough, and counted.                 *)
ReferencesAreListed ==
  /\ \A t \in Task :
       /\ modpc[t] = "opened" \/ req[t].code = "close" =>
            req[t].module \in Instance /\ modlist = <<req[t].module>>
       /\ modpc[t] = "opened" \/ Delivers(t) =>
            req[t].module \in Instance /\ version[req[t].module] >= req[t].version
       /\ \A x \in Instance : handles[t][x] > 0 => modlist = <<x>>
  /\ \A x \in Instance : /\ IsFiniteSet(Modules!References(x))
                        /\ refs[x] = Cardinality(Modules!References(x))

(* The invariant that the steps of ExecModule keep.                        *)
ModuleIInv ==
  /\ Modules!TypeOK /\ CallInOnePlace /\ AnswerPortIsKept /\ WaitersAreOpening
  /\ ModuleInOneState /\ UnloadComesFirst /\ ReferencesAreListed
-----------------------------------------------------------------------------
(* What a task has that is in no call.                                     *)
LEMMA BlankRequest ==
  /\ Modules!Blank \in Modules!Request
  /\ Modules!Blank.code = "none" /\ Modules!Blank.version = 0 /\ Modules!Blank.module = None
  /\ Modules!Blank.waiters = <<>> /\ Modules!Blank.rport = "none"
  /\ Modules!Blank.saved = "none" /\ ~Modules!Blank.failed
  BY ModuleAssumption DEF Modules!Blank, Modules!Request

(* The references to x, one by one.                                        *)
LEMMA ReferencesAre ==
  ASSUME NEW x
  PROVE  /\ \A t, k : <<t, k>> \in Modules!References(x) <=>
                       t \in Task /\ (k \in 1..handles[t][x] \/ (k = 0 /\ Modules!InTransit(t, x)))
         /\ \A r \in Modules!References(x) : \E t, k : r = <<t, k>>
<1> DEFINE a == UNION {{t} \X (1..handles[t][x]) : t \in Task}
           b == {t \in Task : Modules!InTransit(t, x)} \X {0}
<1>1. Modules!References(x) = a \cup b
  BY DEF Modules!References
<1>2. /\ \A t, k : <<t, k>> \in a <=> t \in Task /\ k \in 1..handles[t][x]
      /\ \A r \in a : \E t, k : r = <<t, k>>
  OBVIOUS
<1>3. /\ \A t, k : <<t, k>> \in b <=> t \in Task /\ Modules!InTransit(t, x) /\ k = 0
      /\ \A r \in b : \E t, k : r = <<t, k>>
  OBVIOUS
<1> HIDE DEF a, b
<1>4. QED
  BY <1>1, <1>2, <1>3

(* No module is known initially, and nobody is in a call.                  *)
LEMMA ModuleInitIInv == Modules!Init => ModuleIInv
<1> SUFFICES ASSUME Modules!Init PROVE ModuleIInv
  OBVIOUS
<1> USE DEF Modules!Init
<1>1. \A t \in Task : req[t] = Modules!Blank /\ modpc[t] = "run"
  OBVIOUS
<1>2. Modules!TypeOK
  BY BlankRequest, EmptyList DEF Modules!TypeOK
<1>3. CallInOnePlace
  BY <1>1, BlankRequest, EmptyList DEF CallInOnePlace
<1>4. AnswerPortIsKept /\ WaitersAreOpening
  BY <1>1, BlankRequest DEF AnswerPortIsKept, WaitersAreOpening, Loading
<1>5. ModuleInOneState /\ UnloadComesFirst
  BY <1>1, BlankRequest, EmptyList DEF ModuleInOneState, UnloadComesFirst, InOrder, Loading, Delivers
<1>6. ReferencesAreListed
  <2>1. ASSUME NEW x \in Instance PROVE Modules!References(x) = {}
    <3>1. ASSUME NEW t \in Task, NEW k
          PROVE  ~ (k \in 1..handles[t][x]) /\ ~Modules!InTransit(t, x)
      <4>1. handles[t][x] = 0 /\ 1..0 = {}
        OBVIOUS
      <4>2. ~Modules!Contains(modreply, t)
        BY DEF Modules!Contains
      <4>3. QED
        BY <1>1, <4>1, <4>2, BlankRequest DEF Modules!InTransit
    <3>2. QED
      BY <3>1, ReferencesAre
  <2>2. ASSUME NEW t \in Task
        PROVE  /\ ~ (modpc[t] = "opened" \/ req[t].code = "close" \/ Delivers(t))
               /\ \A x \in Instance : ~ (handles[t][x] > 0)
    BY <1>1, BlankRequest, EmptyList DEF Delivers
  <2>3. QED
    BY <2>1, <2>2, FS_EmptySet DEF ReferencesAreListed
<1>7. QED
  BY <1>2, <1>3, <1>4, <1>5, <1>6 DEF ModuleIInv
(* The references after a step.                                            *)
LEMMA NextReferencesAre ==
  ASSUME NEW x
  PROVE  /\ \A t, k : <<t, k>> \in Modules!References(x)' <=>
                       t \in Task /\ (k \in 1..handles'[t][x] \/ (k = 0 /\ Modules!InTransit(t, x)'))
         /\ \A r \in Modules!References(x)' : \E t, k : r = <<t, k>>
<1> DEFINE a == UNION {{t} \X (1..handles'[t][x]) : t \in Task}
           b == {t \in Task : Modules!InTransit(t, x)'} \X {0}
<1>1. Modules!References(x)' = a \cup b
  BY DEF Modules!References
<1>2. /\ \A t, k : <<t, k>> \in a <=> t \in Task /\ k \in 1..handles'[t][x]
      /\ \A r \in a : \E t, k : r = <<t, k>>
  OBVIOUS
<1>3. /\ \A t, k : <<t, k>> \in b <=> t \in Task /\ Modules!InTransit(t, x)' /\ k = 0
      /\ \A r \in b : \E t, k : r = <<t, k>>
  OBVIOUS
<1> HIDE DEF a, b
<1>4. QED
  BY <1>1, <1>2, <1>3

(* The order of a queue when requests change that are not in it, ...       *)
LEMMA OrderSame ==
  ASSUME NEW q \in Seq(Task), NEW a, NEW b, InOrder(q, a),
         \A u \in Task : Contains(q, u) => b[u].code = a[u].code
  PROVE  InOrder(q, b)
<1>1. DOMAIN q = 1..Len(q) /\ \A i \in 1..Len(q) : q[i] \in Task /\ Contains(q, q[i])
  BY DEF Contains
<1>2. QED
  BY <1>1 DEF InOrder

(* ... when something comes that is not to be done before a load, ...      *)
LEMMA OrderAppend ==
  ASSUME NEW q \in Seq(Task), NEW a, NEW b, NEW t \in Task, InOrder(q, a),
         \A u \in Task : Contains(q, u) => b[u].code = a[u].code,
         \/ b[t].code # "unload"
         \/ b[t].code # "load" /\ \A u \in Task : Contains(q, u) => a[u].code # "load"
  PROVE  InOrder(Append(q, t), b)
<1> DEFINE r == Append(q, t)
           n == Len(q)
<1>1. /\ r \in Seq(Task) /\ Len(r) = n + 1 /\ n \in Nat /\ r[n + 1] = t
      /\ \A i \in 1..n : r[i] = q[i]
      /\ DOMAIN r = 1..(n + 1) /\ DOMAIN q = 1..n
  BY AppendProperties
<1> HIDE DEF r, n
<1>2. \A i \in 1..n : Contains(q, q[i]) /\ q[i] \in Task /\ b[r[i]].code = a[q[i]].code
  <2>1. \A i \in 1..n : q[i] \in Task /\ Contains(q, q[i])
    BY DEF n, Contains
  <2>2. QED
    BY <1>1, <2>1
<1>3. ASSUME NEW i \in 1..(n + 1), NEW j \in 1..(n + 1),
             b[r[i]].code = "load", b[r[j]].code = "unload"
      PROVE  j < i
  <2>1. CASE i \in 1..n /\ j \in 1..n
    BY <1>1, <1>2, <1>3, <2>1 DEF InOrder
  <2>2. CASE i = n + 1
    <3>1. j # n + 1
      BY <1>3, <2>2
    <3>2. QED
      BY <1>1, <2>2, <3>1
  <2>3. CASE j = n + 1 /\ i # n + 1
    <3>1. i \in 1..n /\ b[t].code = "unload" /\ a[q[i]].code = "load"
      BY <1>1, <1>2, <1>3, <2>3
    <3>2. QED
      BY <1>2, <3>1
  <2>4. QED
    BY <1>1, <2>1, <2>2, <2>3
<1>4. QED
  BY <1>1, <1>3 DEF InOrder, r

(* ... or when the first is taken.                                         *)
LEMMA OrderTail ==
  ASSUME NEW q \in Seq(Task), NEW a, NEW b, q # <<>>, InOrder(q, a),
         \A u \in Task : Contains(Tail(q), u) => b[u].code = a[u].code
  PROVE  InOrder(Tail(q), b)
<1> DEFINE r == Tail(q)
<1>1. /\ r \in Seq(Task) /\ Len(r) = Len(q) - 1 /\ Len(q) \in Nat \ {0}
      /\ \A i \in 1..Len(r) : r[i] = q[i + 1]
      /\ DOMAIN r = 1..Len(r) /\ DOMAIN q = 1..Len(q)
  BY HeadTailProperties, EmptySeq
<1>2. \A i \in 1..Len(r) : r[i] \in Task /\ Contains(r, r[i])
  BY <1>1 DEF Contains
<1> HIDE DEF r
<1>3. ASSUME NEW i \in 1..Len(r), NEW j \in 1..Len(r),
             b[r[i]].code = "load", b[r[j]].code = "unload"
      PROVE  j < i
  <2>1. /\ i + 1 \in 1..Len(q) /\ j + 1 \in 1..Len(q)
        /\ a[q[i + 1]].code = "load" /\ a[q[j + 1]].code = "unload"
    BY <1>1, <1>2, <1>3 DEF r
  <2>2. j + 1 < i + 1
    BY <1>1, <2>1 DEF InOrder
  <2>3. QED
    BY <1>1, <2>2
<1>4. QED
  BY <1>1, <1>3 DEF InOrder, r

(* What changes neither handles nor what is on its way, changes no         *)
(* reference.                                                              *)
LEMMA ReferencesSame ==
  ASSUME NEW x, \A u \in Task : /\ handles'[u][x] = handles[u][x]
                                /\ Modules!InTransit(u, x)' <=> Modules!InTransit(u, x)
  PROVE  Modules!References(x)' = Modules!References(x)
  BY DEF Modules!References

(* What a reference on the way is. *)
LEMMA TransitIs ==
  \A u, x : Modules!InTransit(u, x) <=>
              /\ req[u].module = x
              /\ modpc[u] = "opened" \/ req[u].code = "close" \/ Delivers(u)
  BY DEF Modules!InTransit, Delivers, Contains, Modules!Contains

(* ... and after a step.                                                   *)
LEMMA NextTransitIs ==
  \A u, x : Modules!InTransit(u, x)' <=>
              /\ req'[u].module = x
              /\ modpc'[u] = "opened" \/ req'[u].code = "close" \/ Delivers(u)'
  BY DEF Modules!InTransit, Delivers, Contains, Modules!Contains

(* What does not touch the module or who has it. *)
LEMMA StateSame ==
  ASSUME ModuleInOneState, modlist' = modlist, version' = version,
         \A u \in Task : /\ Loading(u)' <=> Loading(u)
                         /\ Delivers(u)' <=> Delivers(u)
                         /\ req'[u].code = "unload" <=> req[u].code = "unload"
                         /\ Delivers(u) \/ req[u].code = "unload" =>
                              req'[u].module = req[u].module
  PROVE  ModuleInOneState'
<1>1. \A x : /\ (\E u \in Task : Delivers(u) /\ req[u].module = x)' <=>
                   \E u \in Task : Delivers(u) /\ req[u].module = x
             /\ (\E u \in Task : req[u].code = "unload" /\ req[u].module = x)' <=>
                   \E u \in Task : req[u].code = "unload" /\ req[u].module = x
  OBVIOUS
<1>2. QED
  BY <1>1 DEF ModuleInOneState

(* exec_requestmod: nothing is known of the name.                          *)
LEMMA RequestLoadIInv == ASSUME ModuleIInv, Modules!RequestLoad PROVE ModuleIInv'
<1> USE ModuleAssumption DEF ModuleIInv
<1> DEFINE t == Head(execport)
           r == Modules!LoadRequest(t)
<1>1. /\ execport \in Seq(Task) /\ ramport \in Seq(Task) /\ req \in [Task -> Modules!Request]
      /\ execport # <<>> /\ req[t].code = "open" /\ modlist = <<>>
      /\ execport' = Tail(execport) /\ ramport' = Append(ramport, t) /\ modlist' = <<t>>
      /\ req' = [req EXCEPT ![t] = r]
      /\ UNCHANGED <<modreply, intmod, version, refs, modpc, handles>>
  BY DEF Modules!RequestLoad, Modules!Requests, Modules!TypeOK
<1>2. /\ t \in Task /\ Contains(execport, t) /\ IsInjective(Tail(execport))
      /\ Tail(execport) \in Seq(Task)
      /\ \A u : Contains(Tail(execport), u) <=> Contains(execport, u) /\ u # t
  BY <1>1, TailOne DEF CallInOnePlace
<1>3. /\ modpc[t] = "call" /\ req[t].rport = "sync" /\ ~req[t].failed
      /\ ~Contains(ramport, t) /\ ~Contains(modreply, t) /\ ~Delivers(t)
  BY <1>1, <1>2 DEF CallInOnePlace, AnswerPortIsKept, Loading, Delivers
<1>4. /\ Append(ramport, t) \in Seq(Task) /\ IsInjective(Append(ramport, t))
      /\ \A u : Contains(Append(ramport, t), u) <=> Contains(ramport, u) \/ u = t
  BY <1>1, <1>2, <1>3, AppendOne DEF CallInOnePlace
<1>5. /\ r \in Modules!Request /\ r.code = "load" /\ r.version = req[t].version
      /\ r.waiters = <<>> /\ r.failed = req[t].failed /\ r.module = req[t].module
      /\ r.saved = "sync"
  BY <1>1, <1>2, <1>3, EmptyList DEF Modules!LoadRequest, Modules!Request
<1> HIDE DEF t, r
<1>6. req' \in [Task -> Modules!Request] /\ \A u \in Task : req'[u] = IF u = t THEN r ELSE req[u]
  BY <1>1, <1>2, <1>5
<1>7. \A u \in Task : ~Loading(u) /\ ~Delivers(u)
  BY <1>1 DEF ModuleInOneState, CallInOnePlace, Loading, Delivers
<1>8. \A u \in Task : (Loading(u)' <=> u = t) /\ ~Delivers(u)'
  BY <1>1, <1>3, <1>5, <1>6, <1>7 DEF Loading, Delivers
<1>9. Modules!TypeOK'
  BY <1>1, <1>2, <1>3, <1>4, <1>5, <1>6 DEF Modules!TypeOK
<1>10. CallInOnePlace'
  BY <1>1, <1>2, <1>3, <1>4, <1>5, <1>6, <1>7, <1>8 DEF CallInOnePlace
<1>11. AnswerPortIsKept'
  BY <1>1, <1>5, <1>6, <1>8 DEF AnswerPortIsKept, Loading
<1>12. WaitersAreOpening'
  BY <1>5, <1>6, <1>8, EmptyList DEF WaitersAreOpening
<1>13. ModuleInOneState'
  <2>1. \A x \in Instance : modlist' # <<x>>
    BY <1>1, <1>2
  <2>2. QED
    BY <1>1, <1>2, <1>5, <1>6, <1>7, <1>8, <2>1 DEF ModuleInOneState
<1>14. UnloadComesFirst'
  <2>1. \A x \in Instance : modlist' # <<x>>
    BY <1>1, <1>2
  <2>2. InOrder(ramport', req')
    <3>1. \A u \in Task : Contains(ramport, u) => req'[u].code = req[u].code
      BY <1>3, <1>6
    <3>2. req'[t].code # "unload"
      BY <1>2, <1>5, <1>6
    <3>3. InOrder(Append(ramport, t), req')
      BY <1>1, <1>2, <3>1, <3>2, OrderAppend DEF UnloadComesFirst
    <3>4. QED
      BY <1>1, <3>3
  <2>3. QED
    BY <1>5, <1>6, <1>8, <2>1, <2>2 DEF UnloadComesFirst
<1>15. ReferencesAreListed'
  <2>1. \A u \in Task : modpc[u] # "opened" /\ req[u].code # "close"
    BY <1>1 DEF ReferencesAreListed
  <2>2. ASSUME NEW x \in Instance PROVE Modules!References(x)' = Modules!References(x)
    BY <1>1, <1>5, <1>6, <1>7, <1>8, <2>1, TransitIs, NextTransitIs, ReferencesSame
  <2>3. \A u \in Task, x \in Instance : ~ (handles[u][x] > 0)
    BY <1>1 DEF ReferencesAreListed
  <2>4. QED
    BY <1>1, <1>5, <1>6, <1>8, <2>1, <2>2, <2>3 DEF ReferencesAreListed
<1>16. QED
  BY <1>9, <1>10, <1>11, <1>12, <1>13, <1>14, <1>15
(* A call that is over: the request of t is in no queue any more.          *)
LEMMA CallEnds ==
  ASSUME ModuleIInv, NEW t \in Task, ~Loading(t),
         modpc[t] = "call" /\ req[t].code = "open" => Contains(execport, t),
         execport' \in Seq(Task), IsInjective(execport'),
         \A u : Contains(execport', u) <=> Contains(execport, u) /\ u # t,
         ramport' \in Seq(Task), IsInjective(ramport'),
         \A u : Contains(ramport', u) <=> Contains(ramport, u) /\ u # t,
         modreply' = modreply, modlist' = modlist,
         req' = [u \in Task |-> IF u = t THEN Modules!Blank ELSE req[u]],
         modpc' = [u \in Task |-> IF u = t THEN "run" ELSE modpc[u]],
         intmod' \in BOOLEAN, version' \in [Instance -> Nat], refs' \in [Instance -> Nat],
         handles' \in [Task -> [Instance -> Nat]]
  PROVE  /\ Modules!TypeOK' /\ CallInOnePlace' /\ AnswerPortIsKept' /\ WaitersAreOpening'
         /\ ~Delivers(t)
         /\ \A u \in Task : /\ Loading(u)' <=> Loading(u)
                            /\ Delivers(u)' <=> Delivers(u)
                            /\ req'[u] = IF u = t THEN Modules!Blank ELSE req[u]
                            /\ modpc'[u] = IF u = t THEN "run" ELSE modpc[u]
<1> USE BlankRequest DEF ModuleIInv
<1>1. /\ req \in [Task -> Modules!Request] /\ modpc \in [Task -> {"run", "call", "opened"}]
      /\ \A u \in Task : req[u].code = "none" <=> modpc[u] = "run"
      /\ modlist \in Seq(Task \cup Instance) /\ modreply \in Seq(Task)
  BY DEF Modules!TypeOK
<1>2. \A u \in Task : /\ req'[u] = IF u = t THEN Modules!Blank ELSE req[u]
                      /\ modpc'[u] = IF u = t THEN "run" ELSE modpc[u]
  BY <1>1
<1>3. /\ req' \in [Task -> Modules!Request] /\ modpc' \in [Task -> {"run", "call", "opened"}]
      /\ \A u \in Task : req'[u].code = "none" <=> modpc'[u] = "run"
  BY <1>1, <1>2
<1>4. Modules!TypeOK'
  BY <1>1, <1>3 DEF Modules!TypeOK
<1>5. ~Contains(modreply, t)
  BY DEF CallInOnePlace
<1>6. \A u \in Task : /\ Loading(u)' <=> Loading(u)
                      /\ Delivers(u)' <=> Delivers(u)
  BY <1>2, <1>5 DEF Loading, Delivers
<1>7. CallInOnePlace'
  BY <1>2, <1>5, <1>6 DEF CallInOnePlace
<1>8. AnswerPortIsKept'
  BY <1>2, <1>6 DEF AnswerPortIsKept
<1>9. WaitersAreOpening'
  <2>1. \A u \in Task : Loading(u) => u # t /\ ~Contains(req[u].waiters, t)
    BY DEF WaitersAreOpening
  <2>2. QED
    BY <1>2, <1>6, <2>1 DEF WaitersAreOpening
<1>10. QED
  BY <1>2, <1>4, <1>5, <1>6, <1>7, <1>8, <1>9 DEF Delivers

(* What exec_requestmod and exec_closemod find at the head of the port.    *)
LEMMA FirstForExec ==
  ASSUME ModuleIInv, execport # <<>>
  PROVE  LET t == Head(execport) IN
         /\ t \in Task /\ Contains(execport, t) /\ modpc[t] = "call" /\ ~Loading(t)
         /\ req[t].code \in {"open", "close"} /\ req[t].rport = "sync" /\ ~req[t].failed
         /\ ~Contains(ramport, t) /\ ~Contains(modreply, t) /\ ~Delivers(t)
         /\ Tail(execport) \in Seq(Task) /\ IsInjective(Tail(execport))
         /\ \A u : Contains(Tail(execport), u) <=> Contains(execport, u) /\ u # t
<1> DEFINE t == Head(execport)
<1>1. /\ t \in Task /\ Contains(execport, t) /\ IsInjective(Tail(execport))
      /\ Tail(execport) \in Seq(Task)
      /\ \A u : Contains(Tail(execport), u) <=> Contains(execport, u) /\ u # t
  BY TailOne DEF ModuleIInv, CallInOnePlace, Modules!TypeOK
<1> HIDE DEF t
<1>2. /\ modpc[t] = "call" /\ req[t].code \in {"open", "close"} /\ ~Loading(t)
      /\ req[t].rport = "sync" /\ ~req[t].failed
      /\ ~Contains(ramport, t) /\ ~Contains(modreply, t) /\ ~Delivers(t)
  BY <1>1 DEF ModuleIInv, CallInOnePlace, AnswerPortIsKept, Loading, Delivers
<1>3. QED
  BY <1>1, <1>2 DEF t

(* Whoever is answered at its sync port goes on.                           *)
LEMMA ReturnNothing ==
  ASSUME NEW t \in Task, req[t].rport = "sync", Modules!Return({t}, req, FALSE)
  PROVE  /\ req' = [u \in Task |-> IF u = t THEN Modules!Blank ELSE req[u]]
         /\ modpc' = [u \in Task |-> IF u = t THEN "run" ELSE modpc[u]]
<1>1. {u \in {t} : req[u].rport = "sync"} = {t}
  OBVIOUS
<1>2. QED
  BY <1>1 DEF Modules!Return

(* exec_requestmod: the version is too old.                                *)
LEMMA RequestRefusedIInv == ASSUME ModuleIInv, Modules!RequestRefused PROVE ModuleIInv'
<1> USE DEF ModuleIInv
<1> DEFINE t == Head(execport)
<1>1. /\ execport # <<>> /\ req[t].code = "open" /\ execport' = Tail(execport)
      /\ UNCHANGED <<ramport, modreply, modlist, intmod, version, refs, handles>>
      /\ Modules!Return({t}, req, FALSE)
  BY DEF Modules!RequestRefused, Modules!Requests
<1>2. /\ t \in Task /\ Contains(execport, t) /\ modpc[t] = "call" /\ ~Loading(t)
      /\ req[t].rport = "sync" /\ ~Contains(ramport, t) /\ ~Delivers(t)
      /\ Tail(execport) \in Seq(Task) /\ IsInjective(Tail(execport))
      /\ \A u : Contains(Tail(execport), u) <=> Contains(execport, u) /\ u # t
  BY <1>1, FirstForExec
<1>3. /\ req' = [u \in Task |-> IF u = t THEN Modules!Blank ELSE req[u]]
      /\ modpc' = [u \in Task |-> IF u = t THEN "run" ELSE modpc[u]]
  BY <1>1, <1>2, ReturnNothing
<1> HIDE DEF t
<1>4. /\ ramport \in Seq(Task) /\ IsInjective(ramport) /\ intmod \in BOOLEAN
      /\ version \in [Instance -> Nat] /\ refs \in [Instance -> Nat]
      /\ handles \in [Task -> [Instance -> Nat]]
  BY DEF Modules!TypeOK, CallInOnePlace
<1>5. /\ Modules!TypeOK' /\ CallInOnePlace' /\ AnswerPortIsKept' /\ WaitersAreOpening'
      /\ \A u \in Task : /\ Loading(u)' <=> Loading(u)
                         /\ Delivers(u)' <=> Delivers(u)
                         /\ req'[u] = IF u = t THEN Modules!Blank ELSE req[u]
                         /\ modpc'[u] = IF u = t THEN "run" ELSE modpc[u]
  BY <1>1, <1>2, <1>3, <1>4, CallEnds
<1>6. ModuleInOneState'
  BY <1>1, <1>2, <1>5, BlankRequest DEF ModuleInOneState
<1>7. UnloadComesFirst'
  <2>1. InOrder(ramport', req')
    <3>1. \A u \in Task : Contains(ramport, u) => req'[u].code = req[u].code
      BY <1>2, <1>5
    <3>2. InOrder(ramport, req)
      BY DEF UnloadComesFirst
    <3>3. InOrder(ramport, req')
      BY <1>4, <3>1, <3>2, OrderSame
    <3>4. QED
      BY <1>1, <3>3
  <2>2. QED
    BY <1>1, <1>2, <1>5, <2>1, BlankRequest DEF UnloadComesFirst
<1>8. ReferencesAreListed'
  <2>1. ASSUME NEW x \in Instance PROVE Modules!References(x)' = Modules!References(x)
    BY <1>1, <1>2, <1>5, BlankRequest, TransitIs, NextTransitIs, ReferencesSame
  <2>2. QED
    BY <1>1, <1>2, <1>5, <2>1, BlankRequest DEF ReferencesAreListed
<1>9. QED
  BY <1>5, <1>6, <1>7, <1>8

(* A reference is handed out, ...                                          *)
LEMMA ReferencesAdd ==
  ASSUME NEW x \in Instance, NEW t \in Task, IsFiniteSet(Modules!References(x)),
         handles \in [Task -> [Instance -> Nat]],
         ~Modules!InTransit(t, x), Modules!InTransit(t, x)',
         \A u \in Task : handles'[u][x] = handles[u][x],
         \A u \in Task : u # t => (Modules!InTransit(u, x)' <=> Modules!InTransit(u, x))
  PROVE  /\ IsFiniteSet(Modules!References(x))'
         /\ Modules!References(x)' = Modules!References(x) \cup {<<t, 0>>}
         /\ Cardinality(Modules!References(x))' = Cardinality(Modules!References(x)) + 1
<1>1. Modules!References(x)' = Modules!References(x) \cup {<<t, 0>>}
  <2>1. {u \in Task : Modules!InTransit(u, x)}' = {u \in Task : Modules!InTransit(u, x)} \cup {t}
    OBVIOUS
  <2>2. (UNION {{u} \X (1..handles[u][x]) : u \in Task})' =
          UNION {{u} \X (1..handles[u][x]) : u \in Task}
    OBVIOUS
  <2>3. ({u \in Task : Modules!InTransit(u, x)} \cup {t}) \X {0} =
          ({u \in Task : Modules!InTransit(u, x)} \X {0}) \cup {<<t, 0>>}
    OBVIOUS
  <2>4. QED
    BY <2>1, <2>2, <2>3 DEF Modules!References
<1>2. <<t, 0>> \notin Modules!References(x)
  <2>1. 0 \notin 1..handles[t][x]
    OBVIOUS
  <2>2. QED
    BY <2>1, ReferencesAre
<1>3. QED
  BY <1>1, <1>2, FS_AddElement

(* ... or given back.                                                      *)
LEMMA ReferencesRemove ==
  ASSUME NEW x \in Instance, NEW t \in Task, IsFiniteSet(Modules!References(x)),
         handles \in [Task -> [Instance -> Nat]],
         Modules!InTransit(t, x), ~Modules!InTransit(t, x)',
         \A u \in Task : handles'[u][x] = handles[u][x],
         \A u \in Task : u # t => (Modules!InTransit(u, x)' <=> Modules!InTransit(u, x))
  PROVE  /\ IsFiniteSet(Modules!References(x))'
         /\ Cardinality(Modules!References(x))' = Cardinality(Modules!References(x)) - 1
         /\ Cardinality(Modules!References(x)) \in Nat \ {0}
<1>1. Modules!References(x)' = Modules!References(x) \ {<<t, 0>>}
  <2>1. {u \in Task : Modules!InTransit(u, x)}' = {u \in Task : Modules!InTransit(u, x)} \ {t}
    OBVIOUS
  <2>2. (UNION {{u} \X (1..handles[u][x]) : u \in Task})' =
          UNION {{u} \X (1..handles[u][x]) : u \in Task}
    OBVIOUS
  <2>3. ({u \in Task : Modules!InTransit(u, x)} \ {t}) \X {0} =
          ({u \in Task : Modules!InTransit(u, x)} \X {0}) \ {<<t, 0>>}
    OBVIOUS
  <2>4. <<t, 0>> \notin UNION {{u} \X (1..handles[u][x]) : u \in Task}
    OBVIOUS
  <2>5. QED
    BY <2>1, <2>2, <2>3, <2>4 DEF Modules!References
<1>2. <<t, 0>> \in Modules!References(x)
  BY ReferencesAre
<1>3. Cardinality(Modules!References(x)) \in Nat /\ Cardinality(Modules!References(x)) # 0
  BY <1>2, FS_CardinalityType, FS_EmptySet
<1> DEFINE R == Modules!References(x)
<1>4. /\ IsFiniteSet(R \ {<<t, 0>>})
      /\ Cardinality(R \ {<<t, 0>>}) = Cardinality(R) - 1
  <2>1. IsFiniteSet(R) /\ <<t, 0>> \in R
    BY <1>2
  <2> HIDE DEF R
  <2>2. QED
    BY <2>1, FS_RemoveElement
<1>5. QED
  BY <1>1, <1>3, <1>4

(* A handle is no longer one, but on its way: or the other way round.      *)
LEMMA ReferencesMove ==
  ASSUME NEW x \in Instance, NEW t \in Task, IsFiniteSet(Modules!References(x)),
         handles \in [Task -> [Instance -> Nat]],
         \A u \in Task \ {t} : /\ handles'[u][x] = handles[u][x]
                               /\ Modules!InTransit(u, x)' <=> Modules!InTransit(u, x),
         \/ /\ handles[t][x] > 0 /\ handles'[t][x] = handles[t][x] - 1
            /\ ~Modules!InTransit(t, x) /\ Modules!InTransit(t, x)'
         \/ /\ handles'[t][x] = handles[t][x] + 1
            /\ Modules!InTransit(t, x) /\ ~Modules!InTransit(t, x)'
  PROVE  /\ IsFiniteSet(Modules!References(x))'
         /\ Cardinality(Modules!References(x))' = Cardinality(Modules!References(x))
<1> DEFINE R == Modules!References(x)
           n == handles[t][x]
<1>1. n \in Nat /\ handles'[t][x] \in Nat
  OBVIOUS
<1>2. /\ \A u, k : <<u, k>> \in R <=>
           u \in Task /\ (k \in 1..handles[u][x] \/ (k = 0 /\ Modules!InTransit(u, x)))
      /\ \A r \in R : \E u, k : r = <<u, k>>
  BY ReferencesAre
<1>3. /\ \A u, k : <<u, k>> \in R' <=>
           u \in Task /\ (k \in 1..handles'[u][x] \/ (k = 0 /\ Modules!InTransit(u, x)'))
      /\ \A r \in R' : \E u, k : r = <<u, k>>
  BY NextReferencesAre
<1> HIDE DEF R, n
<1>4. CASE /\ n > 0 /\ handles'[t][x] = n - 1
           /\ ~Modules!InTransit(t, x) /\ Modules!InTransit(t, x)'
  <2>1. <<t, n>> \in R /\ <<t, 0>> \notin R
    BY <1>1, <1>2, <1>4 DEF n
  <2>2. ASSUME NEW u, NEW k
        PROVE  <<u, k>> \in R' <=> (<<u, k>> \in R /\ <<u, k>> # <<t, n>>) \/ <<u, k>> = <<t, 0>>
    <3>1. CASE u # t
      BY <1>2, <1>3, <3>1
    <3>2. CASE u = t
      <4>1. k \in 1..(n - 1) <=> k \in 1..n /\ k # n
        BY <1>1, <1>4
      <4>2. QED
        BY <1>1, <1>2, <1>3, <1>4, <3>2, <4>1 DEF n
    <3>3. QED
      BY <3>1, <3>2
  <2>3. R' = (R \ {<<t, n>>}) \cup {<<t, 0>>}
    BY <1>2, <1>3, <2>2
  <2>4. /\ IsFiniteSet(R \ {<<t, n>>})
        /\ Cardinality(R \ {<<t, n>>}) = Cardinality(R) - 1
        /\ Cardinality(R) \in Nat /\ <<t, 0>> \notin R \ {<<t, n>>}
    BY <2>1, FS_RemoveElement, FS_CardinalityType DEF R
  <2>5. /\ IsFiniteSet((R \ {<<t, n>>}) \cup {<<t, 0>>})
        /\ Cardinality((R \ {<<t, n>>}) \cup {<<t, 0>>}) = (Cardinality(R) - 1) + 1
    BY <2>4, FS_AddElement
  <2>6. IsFiniteSet(R') /\ Cardinality(R') = Cardinality(R)
    BY <2>3, <2>4, <2>5
  <2>7. QED
    BY <2>6 DEF R
<1>5. CASE /\ handles'[t][x] = n + 1
           /\ Modules!InTransit(t, x) /\ ~Modules!InTransit(t, x)'
  <2>1. <<t, 0>> \in R /\ <<t, n + 1>> \notin R
    BY <1>1, <1>2, <1>5 DEF n
  <2>2. ASSUME NEW u, NEW k
        PROVE  <<u, k>> \in R' <=> (<<u, k>> \in R /\ <<u, k>> # <<t, 0>>)
                                  \/ <<u, k>> = <<t, n + 1>>
    <3>1. CASE u # t
      BY <1>2, <1>3, <3>1
    <3>2. CASE u = t
      <4>1. (k \in 1..(n + 1) <=> k \in 1..n \/ k = n + 1) /\ (k \in 1..n => k # 0) /\ n + 1 # 0
        BY <1>1
      <4>2. QED
        BY <1>1, <1>2, <1>3, <1>5, <3>2, <4>1 DEF n
    <3>3. QED
      BY <3>1, <3>2
  <2>3. R' = (R \ {<<t, 0>>}) \cup {<<t, n + 1>>}
    BY <1>2, <1>3, <2>2
  <2>4. /\ IsFiniteSet(R \ {<<t, 0>>})
        /\ Cardinality(R \ {<<t, 0>>}) = Cardinality(R) - 1
        /\ Cardinality(R) \in Nat /\ <<t, n + 1>> \notin R \ {<<t, 0>>}
    BY <2>1, FS_RemoveElement, FS_CardinalityType DEF R
  <2>5. /\ IsFiniteSet((R \ {<<t, 0>>}) \cup {<<t, n + 1>>})
        /\ Cardinality((R \ {<<t, 0>>}) \cup {<<t, n + 1>>}) = (Cardinality(R) - 1) + 1
    BY ZenonT(30), <2>4, FS_AddElement
  <2>6. IsFiniteSet(R') /\ Cardinality(R') = Cardinality(R)
    BY <2>3, <2>4, <2>5
  <2>7. QED
    BY <2>6 DEF R
<1>6. QED
  BY <1>4, <1>5 DEF n, R
(* exec_requestmod: the module is there.                                   *)
LEMMA RequestOpenedIInv == ASSUME ModuleIInv, Modules!RequestOpened PROVE ModuleIInv'
<1> USE ModuleAssumption DEF ModuleIInv
<1>p. PICK t, x : t = Head(execport) /\ x = Head(modlist)
  OBVIOUS
<1> DEFINE r == [req[t] EXCEPT !.module = x]
<1>1. /\ execport # <<>> /\ req[t].code = "open" /\ execport' = Tail(execport)
      /\ modlist # <<>> /\ x \in Instance /\ Modules!ListedVersion >= req[t].version
      /\ UNCHANGED <<ramport, modreply, modlist, intmod, version, handles>>
  BY <1>p DEF Modules!RequestOpened, Modules!Requests
<1>0. /\ refs' = [refs EXCEPT ![x] = @ + 1]
      /\ Modules!Return({t}, [req EXCEPT ![t].module = x], TRUE)
  BY <1>p DEF Modules!RequestOpened
<1>2. /\ t \in Task /\ Contains(execport, t) /\ modpc[t] = "call" /\ ~Loading(t)
      /\ req[t].rport = "sync" /\ ~Contains(ramport, t) /\ ~Contains(modreply, t)
      /\ ~Delivers(t) /\ ~req[t].failed
      /\ Tail(execport) \in Seq(Task) /\ IsInjective(Tail(execport))
      /\ \A u : Contains(Tail(execport), u) <=> Contains(execport, u) /\ u # t
  BY <1>p, <1>1, FirstForExec
<1>3. /\ req \in [Task -> Modules!Request] /\ modpc \in [Task -> {"run", "call", "opened"}]
      /\ refs \in [Instance -> Nat] /\ version \in [Instance -> Nat]
      /\ handles \in [Task -> [Instance -> Nat]] /\ ramport \in Seq(Task)
  BY DEF Modules!TypeOK
<1>4. modlist = <<x>> /\ version[x] # 0 /\ version[x] >= req[t].version
  <2>1. modlist = <<x>>
    <3>1. PICK n \in Task \cup Instance : modlist = <<n>>
      BY <1>1 DEF ModuleInOneState
    <3>2. QED
      BY <1>p, <3>1
  <2>2. x \notin Task
    BY <1>1
  <2>3. QED
    BY <1>p, <1>1, <2>1, <2>2 DEF ModuleInOneState, Modules!ListedVersion
<1>5. /\ r \in Modules!Request /\ r.code = "open" /\ r.version = req[t].version
      /\ r.module = x /\ r.failed = req[t].failed /\ r.waiters = req[t].waiters
      /\ r.rport = "sync" /\ r.saved = req[t].saved
  <2>1. req[t] \in Modules!Request
    BY <1>2, <1>3
  <2>2. x \in Instance /\ req[t].code = "open" /\ req[t].rport = "sync"
    BY <1>1, <1>2
  <2>3. QED
    BY ONLY <2>1, <2>2 DEF Modules!Request
<1>6. /\ req' = [u \in Task |-> IF u = t THEN r ELSE req[u]]
      /\ modpc' = [u \in Task |-> IF u = t THEN "opened" ELSE modpc[u]]
  <2> DEFINE s == [req EXCEPT ![t].module = x]
  <2>1. \A u \in Task : s[u] = IF u = t THEN r ELSE req[u]
    BY <1>2, <1>3
  <2>2. s[t].rport = "sync"
    BY <1>2, <1>3 DEF Modules!Request
  <2>3. {u \in {t} : s[u].rport = "sync"} = {t}
    BY <2>2
  <2>4. Modules!Return({t}, s, TRUE)
    BY <1>0
  <2> HIDE DEF s, r
  <2>5. QED
    BY <2>1, <2>3, <2>4 DEF Modules!Return
<1> HIDE DEF r
<1>7. /\ req' \in [Task -> Modules!Request] /\ modpc' \in [Task -> {"run", "call", "opened"}]
      /\ \A u \in Task : /\ req'[u] = IF u = t THEN r ELSE req[u]
                         /\ modpc'[u] = IF u = t THEN "opened" ELSE modpc[u]
      /\ refs' \in [Instance -> Nat]
      /\ \A y \in Instance : refs'[y] = IF y = x THEN refs[y] + 1 ELSE refs[y]
  BY SMTT(20), <1>0, <1>1, <1>2, <1>3, <1>5, <1>6
<1>f. \A u \in Task :
        /\ req'[u].code = req[u].code /\ req'[u].version = req[u].version
        /\ req'[u].waiters = req[u].waiters /\ req'[u].failed = req[u].failed
        /\ req'[u].rport = req[u].rport /\ req'[u].saved = req[u].saved
        /\ req'[u].module = IF u = t THEN x ELSE req[u].module
        /\ modpc'[u] = IF u = t THEN "opened" ELSE modpc[u]
  BY <1>1, <1>2, <1>5, <1>7
<1>8. \A u \in Task : (Loading(u)' <=> Loading(u)) /\ (Delivers(u)' <=> Delivers(u))
  BY <1>1, <1>2, <1>5, <1>7 DEF Loading, Delivers
<1>9. Modules!TypeOK'
  <2>1. \A u \in Task : req'[u].code = "none" <=> modpc'[u] = "run"
    BY ZenonT(30), <1>1, <1>f DEF Modules!TypeOK
  <2>2. QED
    BY <1>1, <1>2, <1>7, <2>1 DEF Modules!TypeOK
<1>10. CallInOnePlace'
  BY <1>1, <1>2, <1>f, <1>8 DEF CallInOnePlace
<1>11. AnswerPortIsKept'
  BY <1>f, <1>8 DEF AnswerPortIsKept
<1>12. WaitersAreOpening'
  <2>1. \A u \in Task : Loading(u) => u # t /\ ~Contains(req[u].waiters, t)
    BY <1>2 DEF WaitersAreOpening
  <2>2. QED
    BY <1>1, <1>2, <1>f, <1>8, <2>1 DEF WaitersAreOpening
<1>13. ModuleInOneState'
  <2>1. \A u \in Task : Delivers(u) \/ req[u].code = "unload" => u # t
    BY <1>1, <1>2
  <2>2. QED
    BY <1>1, <1>8, <1>f, <2>1, StateSame
<1>14. UnloadComesFirst'
  <2>1. InOrder(ramport', req')
    <3>1. \A u \in Task : Contains(ramport, u) => req'[u].code = req[u].code
      BY <1>2, <1>f
    <3>2. InOrder(ramport, req)
      BY DEF UnloadComesFirst
    <3>3. InOrder(ramport, req')
      BY <1>3, <3>1, <3>2, OrderSame
    <3>4. QED
      BY <1>1, <3>3
  <2>2. QED
    BY <1>1, <1>2, <1>f, <1>8, <2>1 DEF UnloadComesFirst
<1>15. ReferencesAreListed'
  <2>1. \A u \in Task, y \in Instance :
          Modules!InTransit(u, y)' <=> Modules!InTransit(u, y) \/ (u = t /\ y = x)
    BY <1>1, <1>2, <1>f, <1>8, TransitIs, NextTransitIs
  <2>2. ~Modules!InTransit(t, x)
    BY <1>1, <1>2, TransitIs
  <2>3. ASSUME NEW y \in Instance
        PROVE  /\ IsFiniteSet(Modules!References(y)')
               /\ refs'[y] = Cardinality(Modules!References(y)')
    <3>1. IsFiniteSet(Modules!References(y)) /\ refs[y] = Cardinality(Modules!References(y))
      BY DEF ReferencesAreListed
    <3>2. CASE y = x
      <4>1. /\ IsFiniteSet(Modules!References(x)')
            /\ Cardinality(Modules!References(x)') = Cardinality(Modules!References(x)) + 1
        <5>1. /\ Modules!InTransit(t, x)'
              /\ \A u \in Task : handles'[u][x] = handles[u][x]
              /\ \A u \in Task : u # t => (Modules!InTransit(u, x)' <=> Modules!InTransit(u, x))
          BY <1>1, <1>2, <2>1
        <5>2. QED
          BY <1>1, <1>2, <1>3, <2>2, <3>1, <3>2, <5>1, ReferencesAdd
      <4>2. QED
        BY <1>1, <1>7, <3>1, <3>2, <4>1
    <3>3. CASE y # x
      <4>1. Modules!References(y)' = Modules!References(y)
        BY <1>1, <2>1, <3>3, ReferencesSame
      <4>2. QED
        BY <1>1, <1>7, <3>1, <3>3, <4>1
    <3>4. QED
      BY <3>2, <3>3
  <2>4. ASSUME NEW u \in Task
        PROVE  /\ modpc'[u] = "opened" \/ req'[u].code = "close" =>
                    req'[u].module \in Instance /\ modlist' = <<req'[u].module>>
               /\ modpc'[u] = "opened" \/ Delivers(u)' =>
                    req'[u].module \in Instance /\ version'[req'[u].module] >= req'[u].version
    <3>1. CASE u = t
      BY <1>1, <1>2, <1>4, <1>f, <1>8, <3>1
    <3>2. CASE u # t
      BY <1>1, <1>f, <1>8, <3>2 DEF ReferencesAreListed
    <3>3. QED
      BY <3>1, <3>2
  <2>5. \A u \in Task, y \in Instance : handles'[u][y] > 0 => modlist' = <<y>>
    BY <1>1 DEF ReferencesAreListed
  <2>6. QED
    BY <2>3, <2>4, <2>5 DEF ReferencesAreListed
<1>16. QED
  BY <1>9, <1>10, <1>11, <1>12, <1>13, <1>14, <1>15

(* exec_requestmod: the module is being loaded.                            *)
LEMMA RequestWaitsIInv == ASSUME ModuleIInv, Modules!RequestWaits PROVE ModuleIInv'
<1> USE ModuleAssumption DEF ModuleIInv
<1>p. PICK t, l : t = Head(execport) /\ l = Head(modlist)
  OBVIOUS
<1>1. /\ execport # <<>> /\ req[t].code = "open" /\ execport' = Tail(execport)
      /\ modlist # <<>> /\ l \in Task /\ Modules!ListedVersion >= req[t].version
      /\ UNCHANGED <<ramport, modreply, modlist, intmod, version, refs, modpc, handles>>
  BY <1>p DEF Modules!RequestWaits, Modules!Requests
<1>2. /\ t \in Task /\ Contains(execport, t) /\ modpc[t] = "call" /\ ~Loading(t)
      /\ Tail(execport) \in Seq(Task) /\ IsInjective(Tail(execport))
      /\ \A u : Contains(Tail(execport), u) <=> Contains(execport, u) /\ u # t
  BY <1>p, <1>1, FirstForExec
<1>3. req \in [Task -> Modules!Request] /\ ramport \in Seq(Task)
  BY DEF Modules!TypeOK
<1>4. modlist = <<l>> /\ Loading(l) /\ req[l].version >= req[t].version /\ l # t
  <2>1. PICK n \in Task \cup Instance : modlist = <<n>> /\ (n \in Task => Loading(n))
    BY <1>1 DEF ModuleInOneState
  <2>2. n = l
    BY <1>p, <2>1
  <2>3. req[l].version >= req[t].version
    BY <1>p, <1>1 DEF Modules!ListedVersion
  <2>4. QED
    BY <1>1, <1>2, <2>1, <2>2, <2>3
<1>5. PICK w : w = Append(req[l].waiters, t)
  OBVIOUS
<1>6. /\ w \in Seq(Task) /\ IsInjective(w)
      /\ \A u : Contains(w, u) <=> Contains(req[l].waiters, u) \/ u = t
  <2>1. req[l].waiters \in Seq(Task)
    BY <1>1, <1>3 DEF Modules!Request
  <2>2. IsInjective(req[l].waiters) /\ ~Contains(req[l].waiters, t)
    BY <1>1, <1>2, <1>4 DEF WaitersAreOpening
  <2>3. QED
    BY ONLY <1>2, <1>5, <2>1, <2>2, AppendOne
<1>7. \A u \in Task :
        /\ req'[u].code = req[u].code /\ req'[u].version = req[u].version
        /\ req'[u].module = req[u].module /\ req'[u].failed = req[u].failed
        /\ req'[u].rport = req[u].rport /\ req'[u].saved = req[u].saved
        /\ req'[u].waiters = IF u = l THEN w ELSE req[u].waiters
  <2>1. req' = [req EXCEPT ![l] = [req[l] EXCEPT !.waiters = w]]
    BY <1>p, <1>5 DEF Modules!RequestWaits
  <2>2. req[l] \in Modules!Request
    BY <1>1, <1>3
  <2>3. \A u \in Task : req'[u] = IF u = l THEN [req[l] EXCEPT !.waiters = w] ELSE req[u]
    BY <1>3, <2>1
  <2>4. QED
    BY ONLY <2>2, <2>3 DEF Modules!Request
<1>8. req' \in [Task -> Modules!Request]
  <2>1. req' = [req EXCEPT ![l] = [req[l] EXCEPT !.waiters = w]]
    BY <1>p, <1>5 DEF Modules!RequestWaits
  <2>2. req[l] \in Modules!Request
    BY <1>1, <1>3
  <2>3. [req[l] EXCEPT !.waiters = w] \in Modules!Request
    BY ONLY <1>6, <2>2 DEF Modules!Request
  <2>4. QED
    BY ONLY <1>3, <2>1, <2>3
<1>9. \A u \in Task : (Loading(u)' <=> Loading(u)) /\ (Delivers(u)' <=> Delivers(u))
  BY <1>1, <1>7 DEF Loading, Delivers
<1>10. Modules!TypeOK'
  <2>1. \A u \in Task : req'[u].code = "none" <=> modpc'[u] = "run"
    BY ZenonT(30), <1>1, <1>7 DEF Modules!TypeOK
  <2>2. QED
    BY <1>1, <1>2, <1>8, <2>1 DEF Modules!TypeOK
<1>11. CallInOnePlace'
  BY <1>1, <1>2, <1>7, <1>9 DEF CallInOnePlace
<1>12. AnswerPortIsKept'
  BY <1>1, <1>7, <1>9 DEF AnswerPortIsKept
<1>13. WaitersAreOpening'
  <2>1. \A u \in Task : Loading(u) => u = l
    BY <1>4 DEF ModuleInOneState
  <2>2. ASSUME NEW u \in Task, Contains(w, u)
        PROVE  /\ modpc'[u] = "call" /\ req'[u].code = "open" /\ ~Contains(execport', u)
               /\ req'[u].version <= req'[l].version
    <3>1. CASE u = t
      BY <1>1, <1>2, <1>4, <1>7, <3>1
    <3>2. CASE u # t
      BY <1>1, <1>2, <1>4, <1>6, <1>7, <2>2, <3>2 DEF WaitersAreOpening
    <3>3. QED
      BY <3>1, <3>2
  <2>3. QED
    BY <1>1, <1>6, <1>7, <1>9, <2>1, <2>2 DEF WaitersAreOpening
<1>14. ModuleInOneState'
  BY <1>1, <1>7, <1>9, StateSame
<1>15. UnloadComesFirst'
  <2>1. InOrder(ramport', req')
    <3>1. InOrder(ramport, req)
      BY DEF UnloadComesFirst
    <3>2. InOrder(ramport, req')
      BY <1>3, <1>7, <3>1, OrderSame
    <3>3. QED
      BY <1>1, <3>2
  <2>2. QED
    BY <1>1, <1>7, <1>9, <2>1 DEF UnloadComesFirst
<1>16. ReferencesAreListed'
  <2>1. ASSUME NEW x \in Instance PROVE Modules!References(x)' = Modules!References(x)
    BY <1>1, <1>7, <1>9, TransitIs, NextTransitIs, ReferencesSame
  <2>2. QED
    BY <1>1, <1>7, <1>9, <2>1 DEF ReferencesAreListed
<1>17. QED
  BY <1>10, <1>11, <1>12, <1>13, <1>14, <1>15, <1>16

(* There is one node in the list at most.                                  *)
LEMMA UnlinkOnly == ASSUME NEW n PROVE Modules!Unlinked(<<n>>, n) = <<>>
<1>1. DOMAIN <<n>> = {1} /\ <<n>>[1] = n /\ Len(<<n>>) = 1
  OBVIOUS
<1>2. (CHOOSE i \in DOMAIN <<n>> : <<n>>[i] = n) = 1
  BY <1>1
<1>3. SubSeq(<<n>>, 1, 1 - 1) = <<>> /\ SubSeq(<<n>>, 1 + 1, 1) = <<>>
  OBVIOUS
<1>4. QED
  BY <1>1, <1>2, <1>3 DEF Modules!Unlinked, Modules!RemoveAt

(* exec_closemod.                                                          *)
LEMMA CloseModIInv == ASSUME ModuleIInv, Modules!CloseMod PROVE ModuleIInv'
<1> USE ModuleAssumption DEF ModuleIInv
<1>p. PICK t, x : t = Head(execport) /\ x = req[t].module
  OBVIOUS
<1>1. /\ execport # <<>> /\ req[t].code = "close" /\ execport' = Tail(execport)
      /\ UNCHANGED <<modreply, intmod, version, handles>>
  BY <1>p DEF Modules!CloseMod, Modules!Requests
<1>2. /\ t \in Task /\ Contains(execport, t) /\ modpc[t] = "call" /\ ~Loading(t)
      /\ req[t].rport = "sync" /\ ~Contains(ramport, t) /\ ~Contains(modreply, t)
      /\ ~Delivers(t) /\ ~req[t].failed
      /\ Tail(execport) \in Seq(Task) /\ IsInjective(Tail(execport))
      /\ \A u : Contains(Tail(execport), u) <=> Contains(execport, u) /\ u # t
  BY <1>p, <1>1, FirstForExec
<1>3. /\ req \in [Task -> Modules!Request] /\ modpc \in [Task -> {"run", "call", "opened"}]
      /\ refs \in [Instance -> Nat] /\ version \in [Instance -> Nat] /\ intmod \in BOOLEAN
      /\ handles \in [Task -> [Instance -> Nat]]
      /\ ramport \in Seq(Task) /\ IsInjective(ramport) /\ InOrder(ramport, req)
  BY DEF Modules!TypeOK, CallInOnePlace, UnloadComesFirst
<1>4. x \in Instance /\ modlist = <<x>> /\ x \notin Task /\ version[x] # 0
  <2>1. x \in Instance /\ modlist = <<x>>
    BY <1>p, <1>1, <1>2 DEF ReferencesAreListed
  <2>2. QED
    BY <2>1 DEF ModuleInOneState
<1>5. \A u \in Task : ~Loading(u) /\ ~Delivers(u) /\ req[u].code # "unload"
  <2>1. ASSUME NEW u \in Task PROVE ~Loading(u)
    <3>1. <<u>> # <<x>>
      BY <1>4
    <3>2. QED
      BY <1>4, <3>1 DEF ModuleInOneState
  <2>2. QED
    BY <1>4, <2>1 DEF CallInOnePlace, Delivers, UnloadComesFirst
<1>6. refs[x] \in Nat \ {0} /\ refs[x] = Cardinality(Modules!References(x))
  <2>1. refs[x] = Cardinality(Modules!References(x)) /\ IsFiniteSet(Modules!References(x))
    BY <1>4 DEF ReferencesAreListed
  <2>2. <<t, 0>> \in Modules!References(x)
    BY <1>p, <1>1, <1>2, ReferencesAre, TransitIs
  <2>3. Cardinality(Modules!References(x)) # 0
    BY <2>1, <2>2, FS_EmptySet
  <2>4. QED
    BY <1>3, <1>4, <2>1, <2>3
<1>7. refs' \in [Instance -> Nat] /\ \A y \in Instance : refs'[y] = IF y = x THEN refs[x] - 1 ELSE refs[y]
  BY <1>p, <1>3, <1>4, <1>6 DEF Modules!CloseMod
(* Whatever becomes of the request, the reference is gone.                 *)
<1>8. ASSUME ~Modules!InTransit(t, x)',
             \A u \in Task \ {t}, y \in Instance :
               Modules!InTransit(u, y)' <=> Modules!InTransit(u, y),
             \A y \in Instance : y # x => ~Modules!InTransit(t, y)'
      PROVE  \A y \in Instance : /\ IsFiniteSet(Modules!References(y)')
                                 /\ refs'[y] = Cardinality(Modules!References(y)')
  <2>1. ASSUME NEW y \in Instance
        PROVE  /\ IsFiniteSet(Modules!References(y)')
               /\ refs'[y] = Cardinality(Modules!References(y)')
    <3>1. IsFiniteSet(Modules!References(y)) /\ refs[y] = Cardinality(Modules!References(y))
      BY DEF ReferencesAreListed
    <3>2. Modules!InTransit(t, y) <=> y = x
      BY <1>p, <1>1, <1>2, TransitIs
    <3>3. CASE y = x
      <4>1. /\ IsFiniteSet(Modules!References(x)')
            /\ Cardinality(Modules!References(x)') = Cardinality(Modules!References(x)) - 1
        <5>1. /\ Modules!InTransit(t, x)
              /\ \A u \in Task : handles'[u][x] = handles[u][x]
              /\ \A u \in Task : u # t => (Modules!InTransit(u, x)' <=> Modules!InTransit(u, x))
          BY <1>1, <1>4, <1>8, <3>2, <3>3
        <5>2. QED
          BY <1>2, <1>3, <1>4, <1>8, <3>1, <3>3, <5>1, ReferencesRemove
      <4>2. QED
        BY <1>6, <1>7, <3>1, <3>3, <4>1
    <3>4. CASE y # x
      <4>1. Modules!References(y)' = Modules!References(y)
        BY <1>1, <1>8, <3>2, <3>4, ReferencesSame
      <4>2. QED
        BY <1>7, <3>1, <3>4, <4>1
    <3>5. QED
      BY <3>3, <3>4
  <2>2. QED
    BY <2>1
<1>9. CASE /\ refs[x] - 1 # 0 /\ Modules!Return({t}, req, FALSE)
           /\ UNCHANGED <<modlist, ramport>>
  <2>1. /\ req' = [u \in Task |-> IF u = t THEN Modules!Blank ELSE req[u]]
        /\ modpc' = [u \in Task |-> IF u = t THEN "run" ELSE modpc[u]]
    BY <1>2, <1>9, ReturnNothing
  <2>2. /\ Modules!TypeOK' /\ CallInOnePlace' /\ AnswerPortIsKept' /\ WaitersAreOpening'
        /\ \A u \in Task : /\ Loading(u)' <=> Loading(u)
                           /\ Delivers(u)' <=> Delivers(u)
                           /\ req'[u] = IF u = t THEN Modules!Blank ELSE req[u]
                           /\ modpc'[u] = IF u = t THEN "run" ELSE modpc[u]
    BY <1>1, <1>2, <1>3, <1>7, <1>9, <2>1, CallEnds
  <2>3. ModuleInOneState'
    BY <1>1, <1>5, <1>9, <2>2, BlankRequest, StateSame
  <2>4. UnloadComesFirst'
    <3>1. \A u \in Task : Contains(ramport, u) => req'[u].code = req[u].code
      BY <1>2, <2>2
    <3>2. InOrder(ramport, req')
      BY <1>3, <3>1, OrderSame
    <3>3. QED
      BY <1>5, <1>9, <2>2, <3>2, BlankRequest DEF UnloadComesFirst
  <2>5. ReferencesAreListed'
    <3>1. \A u \in Task \ {t}, y \in Instance : Modules!InTransit(u, y)' <=> Modules!InTransit(u, y)
      BY <2>2, TransitIs, NextTransitIs
    <3>2. \A y \in Instance : ~Modules!InTransit(t, y)'
      BY <1>2, <2>2, BlankRequest, NextTransitIs
    <3>3. \A y \in Instance : /\ IsFiniteSet(Modules!References(y)')
                              /\ refs'[y] = Cardinality(Modules!References(y)')
      BY <1>4, <1>8, <3>1, <3>2
    <3>4. QED
      BY <1>1, <1>2, <1>9, <2>2, <3>3, BlankRequest DEF ReferencesAreListed
  <2>6. QED
    BY <2>2, <2>3, <2>4, <2>5
<1>10. CASE /\ refs[x] - 1 = 0 /\ modlist' = Modules!Unlinked(modlist, x)
            /\ req' = [req EXCEPT ![t] = [req[t] EXCEPT !.code = "unload", !.saved = req[t].rport,
                                                        !.rport = "none"]]
            /\ ramport' = Append(ramport, t) /\ UNCHANGED modpc
  <2> DEFINE r == [req[t] EXCEPT !.code = "unload", !.saved = req[t].rport, !.rport = "none"]
  <2>1. modlist' = <<>>
    BY <1>4, <1>10, UnlinkOnly
  <2>2. /\ r \in Modules!Request /\ r.code = "unload" /\ r.version = req[t].version
        /\ r.module = x /\ r.saved = "sync" /\ ~r.failed
    <3>1. req[t] \in Modules!Request /\ req[t].rport = "sync" /\ req[t].module = x /\ ~req[t].failed
      BY <1>p, <1>2, <1>3
    <3>2. QED
      BY ONLY <3>1 DEF Modules!Request
  <2>3. req' = [req EXCEPT ![t] = r] /\ ramport' = Append(ramport, t) /\ modpc' = modpc
    BY <1>10
  <2> HIDE DEF r
  <2>4. req' \in [Task -> Modules!Request] /\ \A u \in Task : req'[u] = IF u = t THEN r ELSE req[u]
    BY <1>2, <1>3, <2>2, <2>3
  <2>5. /\ ramport' \in Seq(Task) /\ IsInjective(ramport')
        /\ \A u : Contains(ramport', u) <=> Contains(ramport, u) \/ u = t
    BY <1>2, <1>3, <2>3, AppendOne
  <2>f. \A u \in Task : /\ req'[u].code = IF u = t THEN "unload" ELSE req[u].code
                        /\ req'[u].module = req[u].module /\ (req'[u].failed <=> req[u].failed)
                        /\ u # t => req'[u] = req[u]
    BY <1>p, <1>2, <2>2, <2>4
  <2>6. ASSUME NEW u \in Task PROVE ~Loading(u)' /\ ~Delivers(u)'
    BY <1>1, <1>5, <2>3, <2>f DEF Loading, Delivers
  <2>7. Modules!TypeOK'
    <3>1. \A u \in Task : req'[u].code = "none" <=> modpc'[u] = "run"
      BY <1>2, <2>2, <2>3, <2>4 DEF Modules!TypeOK
    <3>2. <<>> \in Seq(Task \cup Instance)
      BY EmptyList
    <3>3. QED
      BY <1>1, <1>2, <1>7, <2>1, <2>3, <2>4, <2>5, <3>1, <3>2 DEF Modules!TypeOK
  <2>8. CallInOnePlace'
    <3>1. \A u \in Task : ~Contains(modreply, u) /\ ~req[u].failed
      BY <1>5 DEF CallInOnePlace
    <3>2. /\ IsInjective(execport') /\ IsInjective(ramport') /\ IsInjective(modreply')
          /\ modreply' = modreply
      BY <1>1, <1>2, <2>5 DEF CallInOnePlace
    <3>3. ASSUME NEW u \in Task, u # t
          PROVE  /\ Contains(execport', u) => modpc'[u] = "call" /\ req'[u].code \in {"open", "close"}
                 /\ Contains(ramport', u) =>
                      modpc'[u] = "call" /\ req'[u].code \in {"load", "unload", "add", "rem"}
                 /\ modpc'[u] = "opened" => req'[u].code \in {"open", "load"}
                 /\ req'[u].code = "close" => Contains(execport', u)
                 /\ req'[u].code = "unload" => Contains(ramport', u)
      BY <1>1, <1>2, <2>3, <2>5, <2>f, <3>3 DEF CallInOnePlace
    <3>4. QED
      BY <1>1, <1>2, <2>3, <2>5, <2>f, <3>1, <3>2, <3>3 DEF CallInOnePlace
  <2>9. AnswerPortIsKept' /\ WaitersAreOpening'
    BY <2>2, <2>3, <2>4, <2>6 DEF AnswerPortIsKept, WaitersAreOpening
  <2>10. ModuleInOneState'
    <3>1. \A y \in Instance : version[y] # 0 <=> y = x
      BY <1>4 DEF ModuleInOneState
    <3>2. \A y \in Instance : modlist' # <<y>>
      BY <2>1
    <3>3. \A y : (\E u \in Task : req'[u].code = "unload" /\ req'[u].module = y) <=> y = x
      BY <1>2, <1>5, <2>2, <2>4
    <3>4. QED
      BY <1>1, <2>1, <2>6, <3>1, <3>2, <3>3 DEF ModuleInOneState
  <2>11. UnloadComesFirst'
    <3>1. \A u \in Task : Contains(ramport, u) => req'[u].code = req[u].code /\ req[u].code # "load"
      BY <1>2, <1>5, <2>4 DEF CallInOnePlace, Loading
    <3>2. InOrder(Append(ramport, t), req')
      <4>1. /\ req'[t].code # "load"
            /\ \A u \in Task : Contains(ramport, u) => req'[u].code = req[u].code
            /\ \A u \in Task : Contains(ramport, u) => req[u].code # "load"
        BY <1>2, <2>2, <2>4, <3>1
      <4>2. QED
        BY ZenonT(30), <1>2, <1>3, <4>1, OrderAppend
    <3>3. \A y \in Instance : modlist' # <<y>>
      BY <2>1
    <3>4. QED
      BY <1>4, <1>5, <2>2, <2>3, <2>4, <2>6, <3>2, <3>3 DEF UnloadComesFirst
  <2>12. ReferencesAreListed'
    <3>1. \A u \in Task \ {t}, y \in Instance : Modules!InTransit(u, y)' <=> Modules!InTransit(u, y)
      BY <1>5, <2>3, <2>4, <2>6, TransitIs, NextTransitIs
    <3>2. \A y \in Instance : ~Modules!InTransit(t, y)'
      BY <1>2, <2>2, <2>3, <2>4, <2>6, NextTransitIs
    <3>3. \A y \in Instance : /\ IsFiniteSet(Modules!References(y)')
                              /\ refs'[y] = Cardinality(Modules!References(y)')
      BY <1>4, <1>8, <3>1, <3>2
    <3>4. Modules!References(x)' = {}
      <4>1. refs'[x] = 0
        BY <1>4, <1>7, <1>10
      <4>2. QED
        BY <1>4, <3>3, <4>1, FS_EmptySet
    <3>5. \A u \in Task : handles'[u][x] = 0 /\ ~Modules!InTransit(u, x)'
      <4>1. ASSUME NEW u \in Task PROVE handles'[u][x] = 0
        <5>1. handles'[u][x] \in Nat
          BY <1>1, <1>3, <1>4
        <5>2. <<u, handles'[u][x]>> \notin Modules!References(x)'
          BY <3>4
        <5>3. handles'[u][x] \notin 1..handles'[u][x]
          BY <5>2, NextReferencesAre
        <5>4. QED
          BY <5>1, <5>3
      <4>2. QED
        BY <3>4, <4>1, NextReferencesAre
    <3>6. ASSUME NEW u \in Task PROVE modpc'[u] # "opened" /\ req'[u].code # "close"
      <4>1. CASE u = t
        BY <1>2, <2>2, <2>3, <2>4, <4>1
      <4>2. CASE u # t
        <5>1. modpc[u] = "opened" \/ req[u].code = "close" => req[u].module = x
          BY <1>4 DEF ReferencesAreListed
        <5>2. QED
          BY <2>3, <2>4, <3>5, <4>2, <5>1, NextTransitIs
      <4>3. QED
        BY <4>1, <4>2
    <3>7. ASSUME NEW u \in Task, NEW y \in Instance PROVE ~ (handles'[u][y] > 0)
      <4>1. handles[u][y] > 0 => y = x
        BY <1>4 DEF ReferencesAreListed
      <4>2. QED
        BY <1>1, <3>5, <4>1
    <3>8. QED
      BY <2>6, <3>3, <3>6, <3>7 DEF ReferencesAreListed
  <2>13. QED
    BY <2>7, <2>8, <2>9, <2>10, <2>11, <2>12
<1>11. QED
  <2>1. \/ /\ refs[x] - 1 = 0
           /\ modlist' = Modules!Unlinked(modlist, x)
           /\ req' = [req EXCEPT ![t].code = "unload", ![t].saved = req[t].rport,
                                 ![t].rport = "none"]
           /\ ramport' = Append(ramport, t)
           /\ UNCHANGED modpc
        \/ /\ refs[x] - 1 # 0
           /\ Modules!Return({t}, req, FALSE)
           /\ UNCHANGED <<modlist, ramport>>
    BY <1>p DEF Modules!CloseMod
  <2>2. [req EXCEPT ![t].code = "unload", ![t].saved = req[t].rport, ![t].rport = "none"] =
        [req EXCEPT ![t] = [req[t] EXCEPT !.code = "unload", !.saved = req[t].rport,
                                          !.rport = "none"]]
    BY <1>2, <1>3
  <2>3. QED
    BY <1>9, <1>10, <2>1, <2>2

(* As many references as openers are given.                                *)
LEMMA OpenersAreCounted ==
  ASSUME NEW W \in Seq(Task), IsInjective(W), NEW t \in Task, ~Contains(W, t),
         NEW S, S = {<<u, 0>> : u \in {v \in Task : v = t \/ Contains(W, v)}}
  PROVE  IsFiniteSet(S) /\ Cardinality(S) = Len(W) + 1
<1> DEFINE w == Append(W, t)
           n == Len(W) + 1
           f == [i \in 1..n |-> <<w[i], 0>>]
<1>1. /\ w \in Seq(Task) /\ IsInjective(w)
      /\ \A u : Contains(w, u) <=> Contains(W, u) \/ u = t
  BY AppendOne
<1>2. Len(w) = n /\ n \in Nat /\ DOMAIN w = 1..n /\ \A i \in 1..n : w[i] \in Task
  BY <1>1
<1> HIDE DEF w, n
<1>3. \A u : Contains(w, u) <=> \E i \in 1..n : w[i] = u
  BY <1>2 DEF Contains
<1>4. \A i, j \in 1..n : w[i] = w[j] => i = j
  BY <1>1, <1>2 DEF IsInjective
<1>5. f \in Bijection(1..n, S)
  <2>1. \A i \in 1..n : f[i] = <<w[i], 0>> /\ f[i] \in S
    BY <1>1, <1>2, <1>3
  <2>2. \A s \in S : \E i \in 1..n : f[i] = s
    BY <1>1, <1>3
  <2>3. f \in [1..n -> S] /\ \A i, j \in 1..n : f[i] = f[j] => i = j
    BY <1>4, <2>1
  <2> HIDE DEF f
  <2>4. QED
    BY <2>2, <2>3 DEF Bijection, Injection, Surjection, IsInjective
<1>6. ExistsBijection(1..n, S)
  BY <1>5 DEF ExistsBijection
<1>7. IsFiniteSet(1..n) /\ Cardinality(1..n) = n
  <2>1. 1 \in Int /\ n \in Int /\ (1 > n => n = 0)
    BY <1>2
  <2>2. QED
    BY <1>2, <2>1, FS_Interval
<1>8. IsFiniteSet(S) /\ Cardinality(S) = n
  BY <1>6, <1>7, FS_Bijection
<1>9. QED
  BY <1>8 DEF n

(* exec_replymod.                                                          *)
LEMMA ReplyModIInv == ASSUME ModuleIInv, Modules!ReplyMod PROVE ModuleIInv'
<1> USE ModuleAssumption DEF ModuleIInv
<1>p. PICK t, x, W : t = Head(modreply) /\ x = req[t].module /\ W = req[t].waiters
  OBVIOUS
<1>1. /\ modreply # <<>> /\ modreply' = Tail(modreply)
      /\ UNCHANGED <<execport, ramport, intmod, version, handles>>
  BY <1>p DEF Modules!ReplyMod
<1>2. /\ t \in Task /\ Contains(modreply, t) /\ Tail(modreply) \in Seq(Task)
      /\ IsInjective(Tail(modreply))
      /\ \A u : Contains(Tail(modreply), u) <=> Contains(modreply, u) /\ u # t
  BY <1>p, <1>1, TailOne DEF CallInOnePlace, Modules!TypeOK
<1>3. /\ Loading(t) /\ modlist = <<t>> /\ ~Contains(ramport, t) /\ ~Contains(execport, t)
      /\ req[t].code = "load" /\ modpc[t] = "call" /\ req[t].saved = "sync"
      /\ Delivers(t) <=> ~req[t].failed
  BY <1>p, <1>2 DEF CallInOnePlace, ModuleInOneState, AnswerPortIsKept, Loading, Delivers
<1>4. /\ req \in [Task -> Modules!Request] /\ modpc \in [Task -> {"run", "call", "opened"}]
      /\ refs \in [Instance -> Nat] /\ version \in [Instance -> Nat] /\ intmod \in BOOLEAN
      /\ handles \in [Task -> [Instance -> Nat]]
      /\ ramport \in Seq(Task) /\ InOrder(ramport, req)
  BY DEF Modules!TypeOK, UnloadComesFirst
<1>5. /\ W \in Seq(Task) /\ IsInjective(W) /\ ~Contains(W, t)
      /\ \A u \in Task : Contains(W, u) =>
           /\ modpc[u] = "call" /\ req[u].code = "open" /\ req[u].rport = "sync"
           /\ ~Contains(execport, u) /\ ~Contains(ramport, u) /\ req[u].version <= req[t].version
  <2>1. W \in Seq(Task)
    BY <1>p, <1>2, <1>4 DEF Modules!Request
  <2>2. QED
    BY <1>p, <1>2, <1>3, <2>1 DEF WaitersAreOpening, AnswerPortIsKept, CallInOnePlace
<1>6. PICK O : O = {u \in Task : u = t \/ Contains(W, u)}
  OBVIOUS
<1>7. \A u \in Task : /\ Loading(u) => u = t
                      /\ ~Contains(Tail(modreply), u)
                      /\ Delivers(u) => u = t
  BY <1>2, <1>3 DEF ModuleInOneState, CallInOnePlace, Delivers
<1>8. Modules!Openers(t) = O
  <2>1. \A u : u \in Modules!ToSet(W) <=> Contains(W, u)
    BY <1>5 DEF Modules!ToSet, Contains
  <2>2. \A u : Contains(W, u) => u \in Task
    BY <1>5 DEF Contains
  <2>3. QED
    BY <1>p, <1>2, <1>6, <2>1, <2>2 DEF Modules!Openers
<1>9. PICK s : s = [Modules!Given(t) EXCEPT ![t].rport = req[t].saved]
  OBVIOUS
<1>10. \A u \in Task :
        /\ s[u] \in Modules!Request
        /\ s[u].code = req[u].code /\ s[u].version = req[u].version
        /\ s[u].failed = req[u].failed
        /\ u \notin O => s[u] = req[u]
        /\ u \in O => s[u].module = x /\ s[u].rport = "sync"
  <2>1. x \in Instance \cup {None}
    BY <1>p, <1>2, <1>4 DEF Modules!Request
  <2>2. \A u \in Task : req[u] \in Modules!Request
    BY <1>4
  <2>3. Modules!Given(t) = [u \in Task |-> IF u \in O THEN [req[u] EXCEPT !.module = x] ELSE req[u]]
    BY <1>p, <1>8 DEF Modules!Given
  <2>4. s = [u \in Task |-> IF u = t THEN [[req[u] EXCEPT !.module = x] EXCEPT !.rport = "sync"]
                           ELSE IF u \in O THEN [req[u] EXCEPT !.module = x] ELSE req[u]]
    BY <1>2, <1>3, <1>6, <1>9, <2>3
  <2>5. \A u \in O : u = t \/ req[u].rport = "sync"
    BY <1>5, <1>6
  <2>6. QED
    BY ONLY ZenonT(30), <1>2, <1>6, <2>1, <2>2, <2>4, <2>5 DEF Modules!Request
<1>11. /\ req' = [u \in Task |-> IF u \in O /\ req[t].failed THEN Modules!Blank ELSE s[u]]
       /\ modpc' = [u \in Task |-> IF u \notin O THEN modpc[u]
                                  ELSE IF ~req[t].failed THEN "opened" ELSE "run"]
  <2>1. Modules!Return(O, s, ~req[t].failed)
    BY <1>p, <1>8, <1>9 DEF Modules!ReplyMod
  <2>2. {u \in O : s[u].rport = "sync"} = O
    BY <1>6, <1>10
  <2>3. QED
    BY <2>1, <2>2 DEF Modules!Return
<1>12. /\ req' \in [Task -> Modules!Request] /\ modpc' \in [Task -> {"run", "call", "opened"}]
       /\ \A u \in Task :
            /\ u \notin O => req'[u] = req[u] /\ modpc'[u] = modpc[u]
            /\ u \in O /\ req[t].failed => req'[u] = Modules!Blank /\ modpc'[u] = "run"
            /\ u \in O /\ ~req[t].failed =>
                 /\ req'[u].code = req[u].code /\ req'[u].version = req[u].version
                 /\ req'[u].failed = req[u].failed /\ req'[u].module = x /\ modpc'[u] = "opened"
  BY <1>4, <1>10, <1>11, BlankRequest
<1>13. \A u \in O : /\ u \in Task /\ modpc[u] = "call" /\ req[u].code \in {"open", "load"}
                     /\ ~Contains(execport, u) /\ ~Contains(ramport, u)
                     /\ req[u].version <= req[t].version
  <2>1. req[t].version \in Nat
    BY <1>2, <1>4, ModuleAssumption DEF Modules!Request
  <2>2. QED
    BY <1>2, <1>3, <1>5, <1>6, <2>1
<1>14. modlist' = IF req[t].failed THEN <<>> ELSE <<x>>
  <2>1. modlist' = Modules!Unlinked(<<t>>, t) \o (IF req[t].failed THEN <<>> ELSE <<x>>)
    BY <1>p, <1>3 DEF Modules!ReplyMod
  <2>2. <<>> \o (IF req[t].failed THEN <<>> ELSE <<x>>) = IF req[t].failed THEN <<>> ELSE <<x>>
    OBVIOUS
  <2>3. QED
    BY <2>1, <2>2, UnlinkOnly
<1>15. \A u \in Task : ~Loading(u)' /\ ~Delivers(u)'
  BY <1>1, <1>6, <1>7, <1>12 DEF Loading, Delivers
<1>16. ~req[t].failed => /\ x \in Instance /\ version[x] # 0 /\ version[x] >= req[t].version
                         /\ \A u \in Task : req[u].code # "unload"
  BY <1>p, <1>2, <1>3 DEF ReferencesAreListed, ModuleInOneState, UnloadComesFirst
<1>17. refs' = IF req[t].failed THEN refs ELSE [refs EXCEPT ![x] = @ + Len(W)]
  BY <1>p DEF Modules!ReplyMod
<1>18. refs' \in [Instance -> Nat]
  BY <1>4, <1>5, <1>16, <1>17
<1>19. Modules!TypeOK'
  <2>1. \A u \in Task : req'[u].code = "none" <=> modpc'[u] = "run"
    <3>1. \A u \in Task : u \notin O => (req'[u].code = "none" <=> modpc'[u] = "run")
      BY <1>12 DEF Modules!TypeOK
    <3>2. CASE req[t].failed
      BY <1>12, <3>1, <3>2, BlankRequest
    <3>3. CASE ~req[t].failed
      <4>1. \A u \in O : req'[u].code \in {"open", "load"} /\ modpc'[u] = "opened"
        BY <1>12, <1>13, <3>3
      <4>2. QED
        BY <3>1, <4>1
    <3>4. QED
      BY <3>2, <3>3
  <2>2. modlist' \in Seq(Task \cup Instance)
    <3>1. CASE req[t].failed
      BY <1>14, <3>1, EmptyList
    <3>2. CASE ~req[t].failed
      <4>1. x \in Task \cup Instance
        BY <1>16, <3>2
      <4>2. QED
        BY <1>14, <3>2, <4>1
    <3>3. QED
      BY <3>1, <3>2
  <2>3. QED
    BY <1>1, <1>2, <1>12, <1>18, <2>1, <2>2 DEF Modules!TypeOK
<1>20. CallInOnePlace'
  <2>1. ASSUME NEW u \in Task, u \notin O
        PROVE  /\ Contains(execport', u) => modpc'[u] = "call" /\ req'[u].code \in {"open", "close"}
               /\ Contains(ramport', u) =>
                    modpc'[u] = "call" /\ req'[u].code \in {"load", "unload", "add", "rem"}
               /\ modpc'[u] = "opened" => req'[u].code \in {"open", "load"}
               /\ req'[u].code = "close" => Contains(execport', u)
               /\ req'[u].code = "unload" => Contains(ramport', u)
               /\ ~req'[u].failed
    <3>1. ~req[u].failed
      BY <1>2, <1>6, <1>7, <2>1 DEF CallInOnePlace
    <3>2. QED
      BY <1>1, <1>12, <2>1, <3>1 DEF CallInOnePlace
  <2>2. ASSUME NEW u \in Task, u \in O
        PROVE  /\ ~Contains(execport', u) /\ ~Contains(ramport', u)
               /\ modpc'[u] = "opened" => req'[u].code \in {"open", "load"}
               /\ req'[u].code # "close" /\ req'[u].code # "unload" /\ ~req'[u].failed
    <3>1. ~req[t].failed => ~req[u].failed
      BY <1>2, <1>6, <1>7, <2>2 DEF CallInOnePlace
    <3>2. QED
      BY <1>1, <1>12, <1>13, <2>2, <3>1, BlankRequest
  <2>3. /\ IsInjective(execport') /\ IsInjective(ramport') /\ IsInjective(modreply')
        /\ \A u \in Task : ~Contains(modreply', u)
    BY <1>1, <1>2, <1>7 DEF CallInOnePlace
  <2>4. QED
    BY <2>1, <2>2, <2>3 DEF CallInOnePlace
<1>21. AnswerPortIsKept' /\ WaitersAreOpening'
  <2>1. ASSUME NEW u \in Task
        PROVE  /\ modpc'[u] = "call" /\ req'[u].code \in {"open", "close", "add", "rem"} =>
                    req'[u].rport = "sync"
               /\ req'[u].code = "unload" => req'[u].saved = "sync"
    <3>1. CASE u \in O
      BY <1>12, <1>13, <3>1, BlankRequest
    <3>2. CASE u \notin O
      BY <1>12, <3>2 DEF AnswerPortIsKept
    <3>3. QED
      BY <3>1, <3>2
  <2>2. QED
    BY <1>15, <2>1 DEF AnswerPortIsKept, WaitersAreOpening
<1>22. \A u \in Task : /\ req'[u].code = "unload" <=> req[u].code = "unload"
                       /\ req[u].code = "unload" => req'[u].module = req[u].module
  BY <1>12, <1>13, BlankRequest
<1>23. UnloadComesFirst'
  <2>1. \A u \in Task : Contains(ramport, u) => req'[u].code = req[u].code
    BY <1>12, <1>13
  <2>2. InOrder(ramport, req')
    BY <1>4, <2>1, OrderSame
  <2>3. CASE req[t].failed
    <3>1. \A y \in Instance : modlist' # <<y>>
      BY <1>14, <2>3
    <3>2. QED
      BY <1>1, <1>15, <1>22, <2>2, <3>1 DEF UnloadComesFirst
  <2>4. CASE ~req[t].failed
    BY <1>1, <1>16, <1>22, <2>2, <2>4 DEF UnloadComesFirst
  <2>5. QED
    BY <2>3, <2>4
<1>24. \A y \in Instance : modlist # <<y>> /\ (modlist' = <<y>> <=> ~req[t].failed /\ y = x)
  <2>1. \A y \in Instance : y # t
    BY <1>2
  <2>2. QED
    BY <1>3, <1>14, <2>1
<1>25. ModuleInOneState'
  <2>1. \A y : (\E u \in Task : Delivers(u) /\ req[u].module = y) <=> ~req[t].failed /\ y = x
    BY <1>p, <1>2, <1>3, <1>7
  <2>2. \A y : (\E u \in Task : req'[u].code = "unload" /\ req'[u].module = y) <=>
              (\E u \in Task : req[u].code = "unload" /\ req[u].module = y)
    BY <1>22
  <2>3. \A y \in Instance : version'[y] # 0 <=>
          \/ modlist' = <<y>>
          \/ \E u \in Task : req'[u].code = "unload" /\ req'[u].module = y
    BY <1>1, <1>24, <2>1, <2>2 DEF ModuleInOneState
  <2>4. modlist' # <<>> => \E n \in Task \cup Instance : modlist' = <<n>> /\ n \notin Task
    BY <1>14, <1>16, ModuleAssumption
  <2>5. \A y, z \in Instance : version'[y] # 0 /\ version'[z] # 0 => y = z
    BY <1>1 DEF ModuleInOneState
  <2>6. QED
    BY <1>15, <2>3, <2>4, <2>5 DEF ModuleInOneState
(* Only the request is a reference as yet, ...                             *)
<1>26. \A u \in Task, y \in Instance : handles[u][y] = 0
  BY <1>4, <1>24 DEF ReferencesAreListed
<1>27. \A u \in Task : modpc[u] # "opened" /\ req[u].code # "close"
  BY <1>24 DEF ReferencesAreListed
<1>28. \A u \in Task, y \in Instance :
         Modules!InTransit(u, y) <=> ~req[t].failed /\ u = t /\ y = x
  BY <1>p, <1>3, <1>7, <1>27, TransitIs
(* ... and then all openers are.                                           *)
<1>29. \A u \in Task : modpc'[u] = "opened" \/ req'[u].code = "close" =>
                        ~req[t].failed /\ u \in O /\ modpc'[u] = "opened"
  BY <1>12, <1>27, BlankRequest
<1>30. \A u \in Task, y \in Instance :
         Modules!InTransit(u, y)' <=> ~req[t].failed /\ u \in O /\ y = x
  BY <1>12, <1>15, <1>29, NextTransitIs
<1>31. ASSUME NEW y \in Instance
       PROVE  /\ IsFiniteSet(Modules!References(y)')
              /\ refs'[y] = Cardinality(Modules!References(y)')
  <2>1. IsFiniteSet(Modules!References(y)) /\ refs[y] = Cardinality(Modules!References(y))
    BY DEF ReferencesAreListed
  <2>2. CASE req[t].failed \/ y # x
    <3>1. Modules!References(y)' = Modules!References(y)
      BY <1>1, <1>28, <1>30, <2>2, ReferencesSame
    <3>2. refs'[y] = refs[y]
      BY <1>4, <1>17, <2>2
    <3>3. QED
      BY <2>1, <3>1, <3>2
  <2>3. CASE ~req[t].failed /\ y = x
    <3>1. \A u \in Task : \A k : k \notin 1..handles[u][y]
      <4>1. 1..0 = {}
        OBVIOUS
      <4>2. QED
        BY <1>26, <4>1
    <3>2. Modules!References(y) = {<<t, 0>>}
      BY <1>2, <1>28, <2>3, <3>1, ReferencesAre
    <3>3. refs[y] = 1
      BY <2>1, <3>2, FS_Singleton
    <3>4. Modules!References(y)' = {<<u, 0>> : u \in {v \in Task : v = t \/ Contains(W, v)}}
      <4>1. \A u, k : <<u, k>> \in Modules!References(y)' <=> u \in O /\ k = 0
        BY <1>1, <1>13, <1>30, <2>3, <3>1, NextReferencesAre
      <4>2. \A r \in Modules!References(y)' : \E u, k : r = <<u, k>>
        BY NextReferencesAre
      <4>3. QED
        BY <1>6, <4>1, <4>2
    <3>5. /\ IsFiniteSet(Modules!References(y)')
          /\ Cardinality(Modules!References(y)') = Len(W) + 1
      BY <1>2, <1>5, <3>4, OpenersAreCounted
    <3>6. refs'[y] = 1 + Len(W) /\ Len(W) \in Nat
      BY <1>4, <1>5, <1>17, <2>3, <3>3
    <3>7. QED
      BY <3>5, <3>6
  <2>4. QED
    BY <2>2, <2>3
<1>32. ReferencesAreListed'
  <2>1. ASSUME NEW u \in Task, u \in O, ~req[t].failed
        PROVE  /\ req'[u].module \in Instance /\ modlist' = <<req'[u].module>>
               /\ version'[req'[u].module] >= req'[u].version
    <3>1. /\ req'[u].module = x /\ req'[u].version = req[u].version
          /\ req[u].version <= req[t].version /\ version[x] >= req[t].version
          /\ x \in Instance /\ modlist' = <<x>> /\ version' = version
      BY <1>1, <1>12, <1>13, <1>14, <1>16, <2>1
    <3>2. req[u].version \in Nat /\ req[t].version \in Nat /\ version[x] \in Nat
      BY <1>2, <1>4, <3>1, ModuleAssumption DEF Modules!Request
    <3>3. QED
      BY <3>1, <3>2
  <2>2. \A u \in Task, y \in Instance : ~ (handles'[u][y] > 0)
    BY <1>1, <1>26
  <2>3. QED
    BY <1>15, <1>29, <1>31, <2>1, <2>2 DEF ReferencesAreListed
<1>33. QED
  BY <1>19, <1>20, <1>21, <1>23, <1>25, <1>32

(* What the ramlib task finds at the head of its port: a load comes after  *)
(* all unloads.                                                            *)
LEMMA FirstForRamlib ==
  ASSUME ModuleIInv, ramport # <<>>
  PROVE  LET t == Head(ramport) IN
         /\ t \in Task /\ Contains(ramport, t) /\ modpc[t] = "call"
         /\ ~Contains(execport, t) /\ ~Contains(modreply, t) /\ ~Delivers(t) /\ ~req[t].failed
         /\ req[t].code \in {"load", "unload", "add", "rem"}
         /\ req[t].code = "load" => Loading(t) /\ \A u \in Task : req[u].code # "unload"
         /\ req[t].code # "load" => ~Loading(t)
         /\ Tail(ramport) \in Seq(Task) /\ IsInjective(Tail(ramport))
         /\ \A u : Contains(Tail(ramport), u) <=> Contains(ramport, u) /\ u # t
<1> DEFINE t == Head(ramport)
<1>1. /\ t \in Task /\ Contains(ramport, t) /\ IsInjective(Tail(ramport))
      /\ Tail(ramport) \in Seq(Task)
      /\ \A u : Contains(Tail(ramport), u) <=> Contains(ramport, u) /\ u # t
  BY TailOne DEF ModuleIInv, CallInOnePlace, Modules!TypeOK
<1>2. /\ DOMAIN ramport = 1..Len(ramport) /\ Len(ramport) \in Nat \ {0} /\ ramport[1] = t
  BY HeadTailProperties, EmptySeq DEF ModuleIInv, Modules!TypeOK
<1> HIDE DEF t
<1>3. /\ modpc[t] = "call" /\ ~Contains(execport, t) /\ ~Contains(modreply, t) /\ ~Delivers(t)
      /\ ~req[t].failed /\ req[t].code \in {"load", "unload", "add", "rem"}
      /\ req[t].code = "load" <=> Loading(t)
  BY <1>1 DEF ModuleIInv, CallInOnePlace, Loading, Delivers
<1>4. ASSUME req[t].code = "load", NEW u \in Task, req[u].code = "unload" PROVE FALSE
  <2>1. Contains(ramport, u)
    BY <1>4 DEF ModuleIInv, CallInOnePlace
  <2>2. PICK j \in 1..Len(ramport) : ramport[j] = u
    BY <1>2, <2>1 DEF Contains
  <2>3. j < 1
    BY <1>2, <1>4, <2>2 DEF ModuleIInv, UnloadComesFirst, InOrder
  <2>4. QED
    BY <1>2, <2>2, <2>3
<1>5. QED
  BY <1>1, <1>3, <1>4 DEF t

(* exec_loadmod.                                                           *)
LEMMA LoadModIInv == ASSUME ModuleIInv, Modules!LoadMod PROVE ModuleIInv'
<1> USE ModuleAssumption DEF ModuleIInv
<1>p. PICK t, v : t = Head(ramport) /\ v = Modules!Loadable(req[t].version)
  OBVIOUS
<1>1. /\ ramport # <<>> /\ req[t].code = "load" /\ ramport' = Tail(ramport)
      /\ modreply' = Append(modreply, t)
      /\ UNCHANGED <<execport, modlist, intmod, modpc, handles>>
  BY <1>p DEF Modules!LoadMod, Modules!Ordered
<1>2. /\ t \in Task /\ Contains(ramport, t) /\ modpc[t] = "call" /\ Loading(t)
      /\ ~Contains(execport, t) /\ ~Contains(modreply, t) /\ ~req[t].failed
      /\ Tail(ramport) \in Seq(Task) /\ IsInjective(Tail(ramport))
      /\ \A u : Contains(Tail(ramport), u) <=> Contains(ramport, u) /\ u # t
      /\ \A u \in Task : req[u].code # "unload"
  BY <1>p, <1>1, FirstForRamlib
<1>3. /\ req \in [Task -> Modules!Request] /\ modreply \in Seq(Task) /\ ramport \in Seq(Task)
      /\ refs \in [Instance -> Nat] /\ version \in [Instance -> Nat]
      /\ handles \in [Task -> [Instance -> Nat]] /\ InOrder(ramport, req)
  BY DEF Modules!TypeOK, UnloadComesFirst
<1>4. /\ modlist = <<t>> /\ \A y \in Instance : modlist # <<y>>
      /\ \A u \in Task : (Loading(u) <=> u = t) /\ ~Contains(modreply, u) /\ ~Delivers(u)
  <2>1. modlist = <<t>> /\ \A u \in Task : Loading(u) => u = t
    BY <1>2 DEF ModuleInOneState
  <2>2. \A y \in Instance : y # t
    BY <1>2
  <2>3. QED
    BY <1>2, <2>1, <2>2 DEF CallInOnePlace, Delivers
<1>5. \A y \in Instance : version[y] = 0
  BY <1>2, <1>4 DEF ModuleInOneState
<1>6. /\ modreply' \in Seq(Task) /\ IsInjective(modreply')
      /\ \A u \in Task : Contains(modreply', u) <=> u = t
  <2>1. IsInjective(modreply)
    BY DEF CallInOnePlace
  <2>2. /\ Append(modreply, t) \in Seq(Task) /\ IsInjective(Append(modreply, t))
        /\ \A u : Contains(Append(modreply, t), u) <=> Contains(modreply, u) \/ u = t
    BY <1>2, <1>3, <2>1, AppendOne
  <2>3. QED
    BY <1>1, <1>4, <2>2
(* A module is initialized with one reference, or the request fails.       *)
<1>7. PICK r : /\ req' = [req EXCEPT ![t] = r] /\ r \in Modules!Request
               /\ r.code = req[t].code /\ r.version = req[t].version /\ r.waiters = req[t].waiters
               /\ r.rport = req[t].rport /\ r.saved = req[t].saved
               /\ \/ /\ v # 0 /\ ~r.failed /\ r.module \in Instance
                     /\ version' = [version EXCEPT ![r.module] = v]
                     /\ refs' = [refs EXCEPT ![r.module] = 1]
                  \/ r.failed /\ version' = version /\ refs' = refs
  <2>1. PICK q : q = req[t]
    OBVIOUS
  <2>2. q \in Modules!Request /\ ~q.failed
    BY <1>2, <1>3, <2>1
  <2>3. CASE /\ v # 0
             /\ \E x \in Instance :
                  /\ version' = [version EXCEPT ![x] = v] /\ refs' = [refs EXCEPT ![x] = 1]
                  /\ req' = [req EXCEPT ![t] = [q EXCEPT !.module = x]]
    <3>1. PICK x \in Instance :
            /\ version' = [version EXCEPT ![x] = v] /\ refs' = [refs EXCEPT ![x] = 1]
            /\ req' = [req EXCEPT ![t] = [q EXCEPT !.module = x]]
      BY <2>3
    <3>2. PICK r : r = [q EXCEPT !.module = x]
      OBVIOUS
    <3>3. /\ r \in Modules!Request /\ r.module = x /\ ~r.failed
          /\ r.code = q.code /\ r.version = q.version /\ r.waiters = q.waiters
          /\ r.rport = q.rport /\ r.saved = q.saved
      BY ONLY <2>2, <3>2 DEF Modules!Request
    <3>4. QED
      BY ZenonT(30), <2>1, <2>3, <3>1, <3>2, <3>3
  <2>4. CASE /\ req' = [req EXCEPT ![t] = [q EXCEPT !.failed = TRUE]]
             /\ version' = version /\ refs' = refs
    <3>1. PICK r : r = [q EXCEPT !.failed = TRUE]
      OBVIOUS
    <3>2. /\ r \in Modules!Request /\ r.failed
          /\ r.code = q.code /\ r.version = q.version /\ r.waiters = q.waiters
          /\ r.rport = q.rport /\ r.saved = q.saved
      BY ONLY <2>2, <3>1 DEF Modules!Request
    <3>3. QED
      BY <2>1, <2>4, <3>1, <3>2
  <2>5. QED
    BY <1>p, <2>1, <2>3, <2>4 DEF Modules!LoadMod
<1>8. /\ req' \in [Task -> Modules!Request] /\ req'[t] = r
      /\ \A u \in Task :
           /\ req'[u].code = req[u].code /\ req'[u].version = req[u].version
           /\ req'[u].waiters = req[u].waiters
           /\ req'[u].rport = req[u].rport /\ req'[u].saved = req[u].saved
           /\ u # t => req'[u] = req[u]
  BY <1>2, <1>3, <1>7
<1>9. \A u \in Task : (Loading(u)' <=> Loading(u)) /\ (Delivers(u)' <=> u = t /\ ~r.failed)
  BY <1>1, <1>6, <1>8 DEF Loading, Delivers
<1>10. req[t].version \in Nat /\ v \in Nat /\ (v # 0 => v >= req[t].version)
  <2>1. req[t].version \in Nat
    BY <1>2, <1>3 DEF Modules!Request
  <2>2. QED
    BY <1>p, <2>1 DEF Modules!Loadable
<1>11. /\ version' \in [Instance -> Nat] /\ refs' \in [Instance -> Nat]
       /\ ~r.failed => /\ r.module \in Instance /\ v # 0
                       /\ \A y \in Instance : /\ version'[y] = IF y = r.module THEN v ELSE 0
                                              /\ refs'[y] = IF y = r.module THEN 1 ELSE refs[y]
       /\ r.failed => version' = version /\ refs' = refs
  <2>1. \/ /\ v # 0 /\ ~r.failed /\ r.module \in Instance
           /\ version' = [version EXCEPT ![r.module] = v]
           /\ refs' = [refs EXCEPT ![r.module] = 1]
        \/ r.failed /\ version' = version /\ refs' = refs
    BY <1>7
  <2>2. CASE r.failed
    BY <1>3, <2>1, <2>2
  <2>3. CASE ~r.failed
    <3>1. PICK x \in Instance : x = r.module
      BY <2>1, <2>3
    <3>2. version' = [version EXCEPT ![x] = v] /\ refs' = [refs EXCEPT ![x] = 1] /\ v # 0
      BY <2>1, <2>3, <3>1
    <3>3. /\ version' \in [Instance -> Nat] /\ refs' \in [Instance -> Nat]
          /\ \A y \in Instance : /\ version'[y] = IF y = x THEN v ELSE 0
                                 /\ refs'[y] = IF y = x THEN 1 ELSE refs[y]
      BY ONLY <1>3, <1>5, <1>10, <3>2
    <3>4. QED
      BY <2>3, <3>1, <3>2, <3>3
  <2>4. QED
    BY <2>2, <2>3
<1>12. Modules!TypeOK'
  <2>1. \A u \in Task : req'[u].code = "none" <=> modpc'[u] = "run"
    BY <1>1, <1>8 DEF Modules!TypeOK
  <2>2. /\ ramport' \in Seq(Task) /\ modreply' \in Seq(Task)
        /\ req' \in [Task -> Modules!Request]
        /\ version' \in [Instance -> Nat] /\ refs' \in [Instance -> Nat]
    BY <1>1, <1>2, <1>6, <1>8, <1>11
  <2>3. QED
    BY <1>1, <2>1, <2>2 DEF Modules!TypeOK
<1>13. CallInOnePlace'
  <2>1. \A u \in Task : req'[u].failed => u = t
    BY <1>4, <1>8 DEF CallInOnePlace
  <2>2. \A u \in Task : Contains(modreply', u) => Loading(u)' /\ ~Contains(ramport', u)
    BY <1>1, <1>2, <1>6, <1>9
  <2>3. QED
    BY <1>1, <1>2, <1>6, <1>8, <2>1, <2>2 DEF CallInOnePlace
<1>14. AnswerPortIsKept'
  BY <1>1, <1>8, <1>9 DEF AnswerPortIsKept
<1>15. WaitersAreOpening'
  BY <1>1, <1>8, <1>9 DEF WaitersAreOpening
<1>16. ModuleInOneState'
  <2>1. modlist' # <<>> => \E n \in Task \cup Instance : modlist' = <<n>> /\ (n \in Task => Loading(n)')
    BY <1>1, <1>2, <1>4, <1>9
  <2>2. \A y \in Instance : version'[y] # 0 <=> ~r.failed /\ y = r.module
    BY <1>5, <1>11
  <2>3. \A y : (\E u \in Task : Delivers(u)' /\ req'[u].module = y) <=> ~r.failed /\ y = r.module
    BY <1>2, <1>8, <1>9
  <2>4. QED
    BY SMTT(20), <1>1, <1>2, <1>4, <1>8, <1>9, <2>1, <2>2, <2>3 DEF ModuleInOneState
<1>17. UnloadComesFirst'
  <2>1. InOrder(Tail(ramport), req')
    BY <1>1, <1>3, <1>8, OrderTail
  <2>2. QED
    BY <1>1, <1>2, <1>8, <2>1 DEF UnloadComesFirst
<1>18. \A u \in Task : /\ modpc[u] # "opened" /\ req[u].code # "close"
                       /\ \A y \in Instance : handles[u][y] = 0
  <2>1. \A u \in Task : modpc[u] # "opened" /\ req[u].code # "close"
    BY <1>4 DEF ReferencesAreListed
  <2>2. \A u \in Task, y \in Instance : handles[u][y] = 0
    <3>1. \A u \in Task, y \in Instance : handles[u][y] \in Nat /\ ~ (handles[u][y] > 0)
      BY <1>3, <1>4 DEF ReferencesAreListed
    <3>2. QED
      BY <3>1
  <2>3. QED
    BY <2>1, <2>2
<1>19. \A u \in Task, y \in Instance :
         /\ ~Modules!InTransit(u, y)
         /\ Modules!InTransit(u, y)' <=> u = t /\ ~r.failed /\ y = r.module
  BY <1>1, <1>4, <1>8, <1>9, <1>18, TransitIs, NextTransitIs
<1>20. ASSUME NEW y \in Instance
       PROVE  /\ IsFiniteSet(Modules!References(y)')
              /\ refs'[y] = Cardinality(Modules!References(y)')
  <2>1. IsFiniteSet(Modules!References(y)) /\ refs[y] = Cardinality(Modules!References(y))
    BY DEF ReferencesAreListed
  <2>2. CASE r.failed \/ y # r.module
    <3>1. Modules!References(y)' = Modules!References(y)
      BY <1>1, <1>19, <2>2, ReferencesSame
    <3>2. refs'[y] = refs[y]
      BY <1>11, <2>2
    <3>3. QED
      BY <2>1, <3>1, <3>2
  <2>3. CASE ~r.failed /\ y = r.module
    <3>1. \A u \in Task : \A k : k \notin 1..handles[u][y]
      <4>1. 1..0 = {}
        OBVIOUS
      <4>2. QED
        BY <1>18, <4>1
    <3>2. Modules!References(y)' = {<<t, 0>>}
      <4>1. \A u, k : <<u, k>> \in Modules!References(y)' <=> u = t /\ k = 0
        <5>1. \A u \in Task : Modules!InTransit(u, y)' <=> u = t
          BY <1>19, <2>3
        <5>2. \A u \in Task : \A k : k \notin 1..handles'[u][y]
          BY <1>1, <3>1
        <5>3. QED
          BY <1>2, <5>1, <5>2, NextReferencesAre
      <4>2. \A q \in Modules!References(y)' : \E u, k : q = <<u, k>>
        BY NextReferencesAre
      <4>3. QED
        BY <4>1, <4>2
    <3>3. QED
      <4>1. refs'[y] = 1
        BY <1>11, <2>3
      <4>2. QED
        BY <3>2, <4>1, FS_Singleton
  <2>4. QED
    BY <2>2, <2>3
<1>21. ReferencesAreListed'
  <2>1. ~r.failed => req'[t].module \in Instance /\ version'[req'[t].module] >= req'[t].version
    BY <1>2, <1>8, <1>10, <1>11
  <2>2. QED
    BY <1>1, <1>8, <1>9, <1>18, <1>20, <2>1 DEF ReferencesAreListed
<1>22. QED
  BY <1>12, <1>13, <1>14, <1>15, <1>16, <1>17, <1>21

(* exec_unloadmod.                                                         *)
LEMMA UnloadModIInv == ASSUME ModuleIInv, Modules!UnloadMod PROVE ModuleIInv'
<1> USE DEF ModuleIInv
<1>p. PICK t, x : t = Head(ramport) /\ x = req[t].module
  OBVIOUS
<1>1. /\ ramport # <<>> /\ req[t].code = "unload" /\ ramport' = Tail(ramport)
      /\ UNCHANGED <<execport, modreply, modlist, intmod, refs, handles>>
  BY <1>p DEF Modules!UnloadMod, Modules!Ordered
<1>2. /\ t \in Task /\ modpc[t] = "call" /\ ~Loading(t)
      /\ ~Contains(execport, t) /\ ~Contains(modreply, t) /\ ~Delivers(t)
      /\ Tail(ramport) \in Seq(Task) /\ IsInjective(Tail(ramport))
      /\ \A u : Contains(Tail(ramport), u) <=> Contains(ramport, u) /\ u # t
  BY <1>p, <1>1, FirstForRamlib
<1>3. /\ req \in [Task -> Modules!Request] /\ execport \in Seq(Task) /\ IsInjective(execport)
      /\ ramport \in Seq(Task) /\ intmod \in BOOLEAN
      /\ version \in [Instance -> Nat] /\ refs \in [Instance -> Nat]
      /\ handles \in [Task -> [Instance -> Nat]] /\ InOrder(ramport, req)
  BY DEF Modules!TypeOK, CallInOnePlace, UnloadComesFirst
<1>4. /\ req[t].saved = "sync" /\ x \in Instance
      /\ \A y \in Instance : modlist # <<y>>
      /\ \A u \in Task : ~Delivers(u) /\ (req[u].code = "unload" => u = t)
  BY <1>p, <1>1, <1>2 DEF AnswerPortIsKept, UnloadComesFirst
<1>5. version' = [version EXCEPT ![x] = 0]
  BY <1>p DEF Modules!UnloadMod
<1>6. /\ version' \in [Instance -> Nat]
      /\ \A y \in Instance : version'[y] = 0
  <2>1. \A y \in Instance : y # x => version[y] = 0
    BY <1>p, <1>1, <1>2, <1>4 DEF ModuleInOneState
  <2>2. QED
    BY ONLY <1>3, <1>4, <1>5, <2>1
<1>7. /\ req' = [u \in Task |-> IF u = t THEN Modules!Blank ELSE req[u]]
      /\ modpc' = [u \in Task |-> IF u = t THEN "run" ELSE modpc[u]]
  <2>1. PICK s : s = [req EXCEPT ![t].rport = req[t].saved]
    OBVIOUS
  <2>2. Modules!Return({t}, s, FALSE)
    BY <1>p, <2>1 DEF Modules!UnloadMod
  <2>3. req[t] \in Modules!Request
    BY <1>2, <1>3
  <2>4. s[t] = [req[t] EXCEPT !.rport = "sync"] /\ \A u \in Task : u # t => s[u] = req[u]
    BY <1>2, <1>3, <1>4, <2>1
  <2>5. s[t].rport = "sync"
    BY <2>3, <2>4 DEF Modules!Request
  <2>6. {u \in {t} : s[u].rport = "sync"} = {t}
    BY <2>5
  <2>7. QED
    BY <2>2, <2>4, <2>6 DEF Modules!Return
<1>8. /\ Modules!TypeOK' /\ CallInOnePlace' /\ AnswerPortIsKept' /\ WaitersAreOpening'
      /\ \A u \in Task : /\ Loading(u)' <=> Loading(u)
                         /\ Delivers(u)' <=> Delivers(u)
                         /\ req'[u] = IF u = t THEN Modules!Blank ELSE req[u]
                         /\ modpc'[u] = IF u = t THEN "run" ELSE modpc[u]
  BY <1>1, <1>2, <1>3, <1>6, <1>7, CallEnds
<1>9. \A u \in Task : req'[u].code # "unload" /\ ~Delivers(u)'
  BY <1>4, <1>8, BlankRequest
<1>10. ModuleInOneState'
  <2>1. modlist' # <<>> => \E n \in Task \cup Instance : modlist' = <<n>> /\ (n \in Task => Loading(n)')
    BY <1>1, <1>8 DEF ModuleInOneState
  <2>2. \A u \in Task : Loading(u)' => modlist' = <<u>>
    BY <1>1, <1>8 DEF ModuleInOneState
  <2>3. QED
    BY <1>1, <1>4, <1>6, <1>9, <2>1, <2>2 DEF ModuleInOneState
<1>11. UnloadComesFirst'
  <2>1. \A u \in Task : Contains(Tail(ramport), u) => req'[u].code = req[u].code
    BY <1>2, <1>8
  <2>2. InOrder(Tail(ramport), req')
    BY <1>1, <1>3, <2>1, OrderTail
  <2>3. QED
    BY <1>1, <1>9, <2>2 DEF UnloadComesFirst
<1>12. ReferencesAreListed'
  <2>1. \A u \in Task : modpc'[u] # "opened" /\ req'[u].code # "close"
    BY <1>4, <1>8, BlankRequest DEF ReferencesAreListed
  <2>2. \A u \in Task, y \in Instance : Modules!InTransit(u, y)' <=> Modules!InTransit(u, y)
    BY <1>1, <1>2, <1>8, BlankRequest, TransitIs, NextTransitIs
  <2>3. ASSUME NEW y \in Instance PROVE Modules!References(y)' = Modules!References(y)
    BY <1>1, <2>2, ReferencesSame
  <2>4. \A u \in Task, y \in Instance : ~ (handles'[u][y] > 0)
    BY <1>1, <1>4 DEF ReferencesAreListed
  <2>5. QED
    BY <1>1, <1>9, <2>1, <2>3, <2>4 DEF ReferencesAreListed
<1>13. QED
  BY <1>8, <1>10, <1>11, <1>12

(* TAddModules and TRemModules, in the ramlib task.                        *)
LEMMA AddRemModIInv == ASSUME ModuleIInv, Modules!AddRemMod PROVE ModuleIInv'
<1> USE DEF ModuleIInv
<1>p. PICK t : t = Head(ramport)
  OBVIOUS
<1>1. /\ ramport # <<>> /\ req[t].code \in {"add", "rem"} /\ ramport' = Tail(ramport)
      /\ UNCHANGED <<execport, modreply, modlist, version, refs, handles>>
      /\ intmod' \in BOOLEAN /\ Modules!Return({t}, req, FALSE)
  BY <1>p DEF Modules!AddRemMod, Modules!Ordered
<1>2. /\ t \in Task /\ modpc[t] = "call" /\ ~Loading(t)
      /\ ~Contains(execport, t) /\ ~Contains(modreply, t) /\ ~Delivers(t)
      /\ Tail(ramport) \in Seq(Task) /\ IsInjective(Tail(ramport))
      /\ \A u : Contains(Tail(ramport), u) <=> Contains(ramport, u) /\ u # t
  BY <1>p, <1>1, FirstForRamlib
<1>3. /\ req \in [Task -> Modules!Request] /\ execport \in Seq(Task) /\ IsInjective(execport)
      /\ ramport \in Seq(Task)
      /\ version \in [Instance -> Nat] /\ refs \in [Instance -> Nat]
      /\ handles \in [Task -> [Instance -> Nat]] /\ InOrder(ramport, req)
  BY DEF Modules!TypeOK, CallInOnePlace, UnloadComesFirst
<1>4. req[t].rport = "sync"
  BY <1>1, <1>2 DEF AnswerPortIsKept
<1>5. /\ req' = [u \in Task |-> IF u = t THEN Modules!Blank ELSE req[u]]
      /\ modpc' = [u \in Task |-> IF u = t THEN "run" ELSE modpc[u]]
  BY <1>1, <1>2, <1>4, ReturnNothing
<1>6. /\ Modules!TypeOK' /\ CallInOnePlace' /\ AnswerPortIsKept' /\ WaitersAreOpening'
      /\ \A u \in Task : /\ Loading(u)' <=> Loading(u)
                         /\ Delivers(u)' <=> Delivers(u)
                         /\ req'[u] = IF u = t THEN Modules!Blank ELSE req[u]
                         /\ modpc'[u] = IF u = t THEN "run" ELSE modpc[u]
  BY <1>1, <1>2, <1>3, <1>5, CallEnds
<1>7. ModuleInOneState'
  BY <1>1, <1>2, <1>6, BlankRequest, StateSame
<1>8. UnloadComesFirst'
  <2>1. \A u \in Task : Contains(Tail(ramport), u) => req'[u].code = req[u].code
    BY <1>2, <1>6
  <2>2. InOrder(Tail(ramport), req')
    BY <1>1, <1>3, <2>1, OrderTail
  <2>3. QED
    BY <1>1, <1>6, <2>2, BlankRequest DEF UnloadComesFirst
<1>9. ReferencesAreListed'
  <2>1. \A u \in Task, y \in Instance : Modules!InTransit(u, y)' <=> Modules!InTransit(u, y)
    BY <1>1, <1>2, <1>6, BlankRequest, TransitIs, NextTransitIs
  <2>2. ASSUME NEW y \in Instance PROVE Modules!References(y)' = Modules!References(y)
    BY <1>1, <2>1, ReferencesSame
  <2>3. QED
    BY <1>1, <1>2, <1>6, <2>2, BlankRequest DEF ReferencesAreListed
<1>10. QED
  BY <1>6, <1>7, <1>8, <1>9

(* A call begins: its request is put to a port.                            *)
LEMMA CallBegins ==
  ASSUME ModuleIInv, NEW t \in Task, modpc[t] # "call",
         NEW code \in {"open", "close", "add", "rem"}, NEW v \in 0..MaxVersion,
         NEW x \in Instance \cup {None}, Modules!Send(t, code, v, x),
         execport' = IF code \in {"open", "close"} THEN Append(execport, t) ELSE execport,
         ramport' = IF code \in {"open", "close"} THEN ramport ELSE Append(ramport, t),
         UNCHANGED <<modreply, modlist, intmod, version, refs>>,
         handles' \in [Task -> [Instance -> Nat]]
  PROVE  /\ Modules!TypeOK' /\ CallInOnePlace' /\ AnswerPortIsKept' /\ WaitersAreOpening'
         /\ ModuleInOneState' /\ UnloadComesFirst'
         /\ ~Delivers(t)
         /\ \A u \in Task : /\ Loading(u)' <=> Loading(u)
                            /\ Delivers(u)' <=> Delivers(u)
                            /\ u # t => req'[u] = req[u] /\ modpc'[u] = modpc[u]
         /\ req'[t].code = code /\ req'[t].module = x /\ modpc'[t] = "call"
<1> USE DEF ModuleIInv
<1>1. /\ req \in [Task -> Modules!Request] /\ modpc \in [Task -> {"run", "call", "opened"}]
      /\ execport \in Seq(Task) /\ ramport \in Seq(Task)
      /\ IsInjective(execport) /\ IsInjective(ramport) /\ InOrder(ramport, req)
  BY DEF Modules!TypeOK, CallInOnePlace, UnloadComesFirst
<1>2. /\ ~Contains(execport, t) /\ ~Contains(ramport, t) /\ ~Contains(modreply, t)
      /\ ~Loading(t) /\ ~Delivers(t) /\ req[t].code # "unload"
  BY DEF CallInOnePlace, Loading, Delivers
<1>3. PICK r : r = [Modules!Blank EXCEPT !.code = code, !.version = v, !.module = x, !.rport = "sync"]
  OBVIOUS
<1>4. /\ r \in Modules!Request /\ r.code = code /\ r.module = x /\ r.rport = "sync" /\ ~r.failed
  BY ONLY <1>3, BlankRequest, code \in {"open", "close", "add", "rem"}, v \in 0..MaxVersion,
          x \in Instance \cup {None} DEF Modules!Request
<1>5. req' = [req EXCEPT ![t] = r] /\ modpc' = [modpc EXCEPT ![t] = "call"]
  BY <1>3 DEF Modules!Send
<1>6. /\ req' \in [Task -> Modules!Request] /\ modpc' \in [Task -> {"run", "call", "opened"}]
      /\ \A u \in Task : u # t => req'[u] = req[u] /\ modpc'[u] = modpc[u]
      /\ req'[t] = r /\ modpc'[t] = "call"
  BY <1>1, <1>4, <1>5
<1>7. /\ execport' \in Seq(Task) /\ IsInjective(execport')
      /\ \A u : Contains(execport', u) <=>
                  Contains(execport, u) \/ (u = t /\ code \in {"open", "close"})
  <2>1. CASE code \in {"open", "close"}
    BY <1>1, <1>2, <2>1, AppendOne
  <2>2. CASE code \notin {"open", "close"}
    BY <1>1, <2>2
  <2>3. QED
    BY <2>1, <2>2
<1>8. /\ ramport' \in Seq(Task) /\ IsInjective(ramport')
      /\ \A u : Contains(ramport', u) <=>
                  Contains(ramport, u) \/ (u = t /\ code \notin {"open", "close"})
  <2>1. CASE code \notin {"open", "close"}
    BY <1>1, <1>2, <2>1, AppendOne
  <2>2. CASE code \in {"open", "close"}
    BY <1>1, <2>2
  <2>3. QED
    BY <2>1, <2>2
<1>9. \A u \in Task : (Loading(u)' <=> Loading(u)) /\ (Delivers(u)' <=> Delivers(u))
  BY <1>2, <1>4, <1>6 DEF Loading, Delivers
<1>10. Modules!TypeOK'
  <2>1. \A u \in Task : req'[u].code = "none" <=> modpc'[u] = "run"
    BY ZenonT(30), <1>4, <1>6 DEF Modules!TypeOK
  <2>2. QED
    BY <1>6, <1>7, <1>8, <2>1 DEF Modules!TypeOK
<1>11. CallInOnePlace'
  BY ZenonT(30), <1>2, <1>4, <1>6, <1>7, <1>8, <1>9 DEF CallInOnePlace
<1>12. AnswerPortIsKept'
  BY <1>2, <1>4, <1>6, <1>9 DEF AnswerPortIsKept
<1>13. WaitersAreOpening'
  <2>1. \A u \in Task : Loading(u) => u # t /\ ~Contains(req[u].waiters, t)
    BY <1>2 DEF WaitersAreOpening
  <2>2. QED
    BY <1>6, <1>7, <1>9, <2>1 DEF WaitersAreOpening
<1>14. ModuleInOneState'
  BY <1>2, <1>4, <1>6, <1>9, StateSame
<1>15. UnloadComesFirst'
  <2>1. InOrder(ramport', req')
    <3>1. \A u \in Task : Contains(ramport, u) => req'[u].code = req[u].code
      BY <1>2, <1>6
    <3>2. CASE code \in {"open", "close"}
      <4>1. InOrder(ramport, req')
        BY <1>1, <3>1, OrderSame
      <4>2. QED
        BY <3>2, <4>1
    <3>3. CASE code \notin {"open", "close"}
      <4>1. req'[t].code # "unload"
        BY <1>4, <1>6
      <4>2. InOrder(Append(ramport, t), req')
        BY <1>1, <3>1, <4>1, OrderAppend
      <4>3. QED
        BY <3>3, <4>2
    <3>4. QED
      BY <3>2, <3>3
  <2>2. QED
    BY ZenonT(30), <1>4, <1>6, <1>9, <2>1 DEF UnloadComesFirst
<1>16. QED
  BY <1>2, <1>4, <1>6, <1>9, <1>10, <1>11, <1>12, <1>13, <1>14, <1>15

(* TOpenModule.                                                            *)
LEMMA OpenModuleIInv ==
  ASSUME ModuleIInv, NEW t \in Task, NEW v \in 1..MaxVersion, Modules!OpenModule(t, v)
  PROVE  ModuleIInv'
<1> USE DEF ModuleIInv
<1>1. /\ modpc[t] # "call" /\ req[t].code = "none" /\ modpc[t] # "opened"
      /\ handles \in [Task -> [Instance -> Nat]]
      /\ v \in 0..MaxVersion /\ None \in Instance \cup {None}
      /\ Modules!Send(t, "open", v, None) /\ execport' = Append(execport, t)
      /\ UNCHANGED <<ramport, modreply, modlist, intmod, version, refs, handles>>
  BY ModuleAssumption DEF Modules!OpenModule, Modules!TypeOK
<1>2. /\ Modules!TypeOK' /\ CallInOnePlace' /\ AnswerPortIsKept' /\ WaitersAreOpening'
      /\ ModuleInOneState' /\ UnloadComesFirst'
      /\ ~Delivers(t)
      /\ \A u \in Task : /\ Loading(u)' <=> Loading(u)
                         /\ Delivers(u)' <=> Delivers(u)
                         /\ u # t => req'[u] = req[u] /\ modpc'[u] = modpc[u]
      /\ req'[t].code = "open" /\ modpc'[t] = "call"
  <2>1. "open" \in {"open", "close", "add", "rem"} /\ "open" \in {"open", "close"}
    OBVIOUS
  <2>2. QED
    BY <1>1, <2>1, CallBegins
<1>3. ReferencesAreListed'
  <2>1. \A u \in Task, y \in Instance : Modules!InTransit(u, y)' <=> Modules!InTransit(u, y)
    BY <1>1, <1>2, TransitIs, NextTransitIs
  <2>2. ASSUME NEW y \in Instance PROVE Modules!References(y)' = Modules!References(y)
    BY <1>1, <2>1, ReferencesSame
  <2>3. QED
    BY <1>1, <1>2, <2>2 DEF ReferencesAreListed
<1>4. QED
  BY <1>2, <1>3

(* TAddModules and TRemModules.                                            *)
LEMMA AddRemModuleIInv ==
  ASSUME ModuleIInv, NEW t \in Provider, NEW code \in {"add", "rem"}, Modules!AddRemModule(t, code)
  PROVE  ModuleIInv'
<1> USE DEF ModuleIInv
<1>1. /\ t \in Task /\ modpc[t] # "call" /\ req[t].code = "none" /\ modpc[t] # "opened"
      /\ handles \in [Task -> [Instance -> Nat]]
      /\ 0 \in 0..MaxVersion /\ None \in Instance \cup {None}
      /\ code \in {"open", "close", "add", "rem"} /\ code \notin {"open", "close"}
      /\ Modules!Send(t, code, 0, None) /\ ramport' = Append(ramport, t)
      /\ UNCHANGED <<execport, modreply, modlist, intmod, version, refs, handles>>
  BY ModuleAssumption DEF Modules!AddRemModule, Modules!TypeOK
<1>2. /\ Modules!TypeOK' /\ CallInOnePlace' /\ AnswerPortIsKept' /\ WaitersAreOpening'
      /\ ModuleInOneState' /\ UnloadComesFirst'
      /\ ~Delivers(t)
      /\ \A u \in Task : /\ Loading(u)' <=> Loading(u)
                         /\ Delivers(u)' <=> Delivers(u)
                         /\ u # t => req'[u] = req[u] /\ modpc'[u] = modpc[u]
      /\ req'[t].code = code /\ modpc'[t] = "call"
  BY <1>1, CallBegins
<1>3. ReferencesAreListed'
  <2>1. \A u \in Task, y \in Instance : Modules!InTransit(u, y)' <=> Modules!InTransit(u, y)
    BY <1>1, <1>2, TransitIs, NextTransitIs
  <2>2. ASSUME NEW y \in Instance PROVE Modules!References(y)' = Modules!References(y)
    BY <1>1, <2>1, ReferencesSame
  <2>3. QED
    BY <1>1, <1>2, <2>2 DEF ReferencesAreListed
<1>4. QED
  BY <1>2, <1>3

(* TCloseModule.                                                           *)
LEMMA CloseModuleIInv ==
  ASSUME ModuleIInv, NEW t \in Task, NEW x \in Instance, Modules!CloseModule(t, x)
  PROVE  ModuleIInv'
<1> USE DEF ModuleIInv
<1>1. /\ modpc[t] # "call" /\ req[t].code = "none" /\ modpc[t] # "opened" /\ handles[t][x] > 0
      /\ handles \in [Task -> [Instance -> Nat]]
      /\ 0 \in 0..MaxVersion /\ x \in Instance \cup {None}
      /\ Modules!Send(t, "close", 0, x) /\ execport' = Append(execport, t)
      /\ UNCHANGED <<ramport, modreply, modlist, intmod, version, refs>>
  BY ModuleAssumption DEF Modules!CloseModule, Modules!TypeOK
<1>2. /\ handles' \in [Task -> [Instance -> Nat]]
      /\ handles'[t][x] = handles[t][x] - 1
      /\ \A y \in Instance : y # x => handles'[t][y] = handles[t][y]
      /\ \A u \in Task : u # t => handles'[u] = handles[u]
  <2>1. handles' = [handles EXCEPT ![t] = [handles[t] EXCEPT ![x] = handles[t][x] - 1]]
    BY DEF Modules!CloseModule
  <2>2. handles[t] \in [Instance -> Nat] /\ handles[t][x] - 1 \in Nat
    BY <1>1
  <2>3. QED
    BY ONLY <1>1, <2>1, <2>2, t \in Task, x \in Instance
<1>3. /\ Modules!TypeOK' /\ CallInOnePlace' /\ AnswerPortIsKept' /\ WaitersAreOpening'
      /\ ModuleInOneState' /\ UnloadComesFirst'
      /\ ~Delivers(t)
      /\ \A u \in Task : /\ Loading(u)' <=> Loading(u)
                         /\ Delivers(u)' <=> Delivers(u)
                         /\ u # t => req'[u] = req[u] /\ modpc'[u] = modpc[u]
      /\ req'[t].code = "close" /\ req'[t].module = x /\ modpc'[t] = "call"
  <2>1. "close" \in {"open", "close", "add", "rem"} /\ "close" \in {"open", "close"}
    OBVIOUS
  <2>2. QED
    BY <1>1, <1>2, <2>1, CallBegins
<1>4. modlist = <<x>>
  BY <1>1 DEF ReferencesAreListed
<1>5. \A u \in Task, y \in Instance :
        Modules!InTransit(u, y)' <=> Modules!InTransit(u, y) \/ (u = t /\ y = x)
  BY <1>1, <1>3, TransitIs, NextTransitIs
<1>6. ~Modules!InTransit(t, x)
  BY <1>1, <1>3, TransitIs
<1>7. ASSUME NEW y \in Instance
      PROVE  IsFiniteSet(Modules!References(y)') /\ refs'[y] = Cardinality(Modules!References(y)')
  <2>1. IsFiniteSet(Modules!References(y)) /\ refs[y] = Cardinality(Modules!References(y))
    BY DEF ReferencesAreListed
  <2>2. CASE y = x
    <3>1. /\ Modules!InTransit(t, x)'
          /\ \A u \in Task \ {t} : /\ handles'[u][x] = handles[u][x]
                                   /\ Modules!InTransit(u, x)' <=> Modules!InTransit(u, x)
      BY <1>2, <1>5
    <3>2. /\ IsFiniteSet(Modules!References(x)')
          /\ Cardinality(Modules!References(x)') = Cardinality(Modules!References(x))
      BY <1>1, <1>2, <1>6, <2>1, <2>2, <3>1, ReferencesMove
    <3>3. QED
      BY <1>1, <2>1, <2>2, <3>2
  <2>3. CASE y # x
    <3>1. Modules!References(y)' = Modules!References(y)
      BY <1>2, <1>5, <2>3, ReferencesSame
    <3>2. QED
      BY <1>1, <2>1, <3>1
  <2>4. QED
    BY <2>2, <2>3
<1>8. ReferencesAreListed'
  <2>1. ASSUME NEW u \in Task, NEW y \in Instance, handles'[u][y] > 0 PROVE modlist' = <<y>>
    BY <1>1, <1>2, <1>4, <2>1 DEF ReferencesAreListed
  <2>2. QED
    BY ZenonT(30), <1>1, <1>3, <1>4, <1>7, <2>1 DEF ReferencesAreListed
<1>9. QED
  BY <1>3, <1>8

(* The module is there: an instance is opened, or the module sent back.    *)
LEMMA OpenInstanceIInv == ASSUME ModuleIInv, NEW t \in Task, Modules!OpenInstance(t) PROVE ModuleIInv'
<1> USE DEF ModuleIInv
<1>p. PICK x : x = req[t].module
  OBVIOUS
<1>1. /\ modpc[t] = "opened" /\ req[t].code \in {"open", "load"} /\ x \in Instance
      /\ modlist = <<x>> /\ handles \in [Task -> [Instance -> Nat]]
      /\ ~Loading(t) /\ ~Contains(execport, t) /\ ~Contains(ramport, t) /\ ~Delivers(t)
      /\ UNCHANGED <<ramport, modreply, modlist, intmod, version, refs>>
  BY <1>p DEF Modules!OpenInstance, Modules!TypeOK, CallInOnePlace, ReferencesAreListed,
              Loading, Delivers
<1>2. \A y \in Instance : Modules!InTransit(t, y) <=> y = x
  BY <1>p, <1>1, TransitIs
<1>3. CASE /\ handles' = [handles EXCEPT ![t][req[t].module] = @ + 1]
           /\ modpc' = [modpc EXCEPT ![t] = "run"]
           /\ req' = [req EXCEPT ![t] = Modules!Blank]
           /\ UNCHANGED execport
  <2>1. /\ handles' \in [Task -> [Instance -> Nat]]
        /\ handles'[t][x] = handles[t][x] + 1
        /\ \A y \in Instance : y # x => handles'[t][y] = handles[t][y]
        /\ \A u \in Task : u # t => handles'[u] = handles[u]
    <3>1. handles' = [handles EXCEPT ![t] = [handles[t] EXCEPT ![x] = handles[t][x] + 1]]
      BY <1>p, <1>3
    <3>2. handles[t] \in [Instance -> Nat] /\ handles[t][x] + 1 \in Nat
      BY <1>1
    <3>3. QED
      BY ONLY <1>1, <3>1, <3>2, t \in Task
  <2>2. /\ req' = [u \in Task |-> IF u = t THEN Modules!Blank ELSE req[u]]
        /\ modpc' = [u \in Task |-> IF u = t THEN "run" ELSE modpc[u]]
    <3>1. req \in [Task -> Modules!Request] /\ modpc \in [Task -> {"run", "call", "opened"}]
      BY DEF Modules!TypeOK
    <3>2. QED
      BY ONLY <1>3, <3>1, t \in Task
  <2>3. /\ execport \in Seq(Task) /\ ramport \in Seq(Task)
        /\ IsInjective(execport) /\ IsInjective(ramport) /\ InOrder(ramport, req)
        /\ intmod \in BOOLEAN /\ version \in [Instance -> Nat] /\ refs \in [Instance -> Nat]
    BY DEF Modules!TypeOK, CallInOnePlace, UnloadComesFirst
  <2>4. /\ Modules!TypeOK' /\ CallInOnePlace' /\ AnswerPortIsKept' /\ WaitersAreOpening'
        /\ \A u \in Task : /\ Loading(u)' <=> Loading(u)
                           /\ Delivers(u)' <=> Delivers(u)
                           /\ req'[u] = IF u = t THEN Modules!Blank ELSE req[u]
                           /\ modpc'[u] = IF u = t THEN "run" ELSE modpc[u]
    BY <1>1, <1>3, <2>1, <2>2, <2>3, CallEnds
  <2>5. ModuleInOneState'
    BY <1>1, <2>4, BlankRequest, StateSame
  <2>6. UnloadComesFirst'
    <3>1. \A u \in Task : Contains(ramport, u) => req'[u].code = req[u].code
      BY <1>1, <2>4
    <3>2. InOrder(ramport, req')
      BY <2>3, <3>1, OrderSame
    <3>3. QED
      BY <1>1, <2>4, <3>2, BlankRequest DEF UnloadComesFirst
  <2>7. /\ \A y \in Instance : ~Modules!InTransit(t, y)'
        /\ \A u \in Task \ {t}, y \in Instance : Modules!InTransit(u, y)' <=> Modules!InTransit(u, y)
    BY <1>1, <2>4, BlankRequest, TransitIs, NextTransitIs
  <2>8. ASSUME NEW y \in Instance
        PROVE  IsFiniteSet(Modules!References(y)') /\ refs'[y] = Cardinality(Modules!References(y)')
    <3>1. IsFiniteSet(Modules!References(y)) /\ refs[y] = Cardinality(Modules!References(y))
      BY DEF ReferencesAreListed
    <3>2. CASE y = x
      <4>1. /\ \A u \in Task \ {t} : /\ handles'[u][x] = handles[u][x]
                                     /\ Modules!InTransit(u, x)' <=> Modules!InTransit(u, x)
            /\ Modules!InTransit(t, x) /\ ~Modules!InTransit(t, x)'
        BY <1>1, <1>2, <2>1, <2>7
      <4>2. /\ IsFiniteSet(Modules!References(x)')
            /\ Cardinality(Modules!References(x)') = Cardinality(Modules!References(x))
        BY <1>1, <2>1, <3>1, <3>2, <4>1, ReferencesMove
      <4>3. QED
        BY <1>1, <3>1, <3>2, <4>2
    <3>3. CASE y # x
      <4>1. Modules!References(y)' = Modules!References(y)
        BY <1>2, <2>1, <2>7, <3>3, ReferencesSame
      <4>2. QED
        BY <1>1, <3>1, <4>1
    <3>4. QED
      BY <3>2, <3>3
  <2>9. ReferencesAreListed'
    <3>1. ASSUME NEW u \in Task, NEW y \in Instance, handles'[u][y] > 0 PROVE modlist' = <<y>>
      BY <1>1, <2>1, <3>1 DEF ReferencesAreListed
    <3>2. QED
      BY <1>1, <2>4, <2>8, <3>1, BlankRequest DEF ReferencesAreListed
  <2>10. QED
    BY <2>4, <2>5, <2>6, <2>9
<1>4. CASE /\ Modules!Send(t, "close", 0, req[t].module)
           /\ execport' = Append(execport, t)
           /\ UNCHANGED handles
  <2>1. /\ Modules!TypeOK' /\ CallInOnePlace' /\ AnswerPortIsKept' /\ WaitersAreOpening'
        /\ ModuleInOneState' /\ UnloadComesFirst'
        /\ \A u \in Task : /\ Loading(u)' <=> Loading(u)
                           /\ Delivers(u)' <=> Delivers(u)
                           /\ u # t => req'[u] = req[u] /\ modpc'[u] = modpc[u]
        /\ req'[t].code = "close" /\ req'[t].module = x /\ modpc'[t] = "call"
    <3>1. /\ "close" \in {"open", "close", "add", "rem"} /\ "close" \in {"open", "close"}
          /\ 0 \in 0..MaxVersion /\ x \in Instance \cup {None} /\ modpc[t] # "call"
          /\ Modules!Send(t, "close", 0, x)
      BY <1>p, <1>1, <1>4, ModuleAssumption
    <3>2. QED
      BY <1>1, <1>4, <3>1, CallBegins
  <2>2. \A u \in Task, y \in Instance : Modules!InTransit(u, y)' <=> Modules!InTransit(u, y)
    BY <1>2, <2>1, TransitIs, NextTransitIs
  <2>3. ASSUME NEW y \in Instance PROVE Modules!References(y)' = Modules!References(y)
    BY <1>4, <2>2, ReferencesSame
  <2>4. ReferencesAreListed'
    BY <1>1, <1>4, <2>1, <2>3 DEF ReferencesAreListed
  <2>5. QED
    BY <2>1, <2>4
<1>5. QED
  BY <1>3, <1>4 DEF Modules!OpenInstance

(* Every step of ExecModule keeps the invariant.                           *)
LEMMA ModuleNextIInv == ModuleIInv /\ Modules!Next => ModuleIInv'
<1> SUFFICES ASSUME ModuleIInv, Modules!Next PROVE ModuleIInv'
  OBVIOUS
<1>1. CASE Modules!ExecNext
  BY <1>1, RequestLoadIInv, RequestRefusedIInv, RequestOpenedIInv, RequestWaitsIInv,
     ReplyModIInv, CloseModIInv DEF Modules!ExecNext
<1>2. CASE Modules!RamlibNext
  BY <1>2, LoadModIInv, UnloadModIInv, AddRemModIInv DEF Modules!RamlibNext
<1>3. ASSUME NEW t \in Task, Modules!TaskNext(t) PROVE ModuleIInv'
  BY <1>3, OpenModuleIInv, OpenInstanceIInv, CloseModuleIInv DEF Modules!TaskNext
<1>4. ASSUME NEW t \in Provider, NEW code \in {"add", "rem"}, Modules!AddRemModule(t, code)
      PROVE  ModuleIInv'
  BY <1>4, AddRemModuleIInv
<1>5. QED
  BY <1>1, <1>2, <1>3, <1>4 DEF Modules!Next

(* So does a step of another component.                                    *)
LEMMA ModuleStutters == ModuleIInv /\ UNCHANGED modvars => ModuleIInv'
<1> SUFFICES ASSUME ModuleIInv, UNCHANGED modvars PROVE ModuleIInv'
  OBVIOUS
<1> USE DEF ModuleIInv, modvars
<1>1. Modules!TypeOK'
  BY DEF Modules!TypeOK
<1>2. CallInOnePlace' /\ AnswerPortIsKept' /\ WaitersAreOpening'
  BY DEF CallInOnePlace, AnswerPortIsKept, WaitersAreOpening, Loading
<1>3. ModuleInOneState'
  BY DEF ModuleInOneState, Loading, Delivers
<1>4. UnloadComesFirst'
  BY DEF UnloadComesFirst, InOrder, Delivers
<1>5. ReferencesAreListed'
  <2>1. ASSUME NEW x PROVE Modules!References(x)' = Modules!References(x)
    <3>1. \A u \in Task : Modules!InTransit(u, x)' <=> Modules!InTransit(u, x)
      BY TransitIs, NextTransitIs DEF Delivers
    <3>2. QED
      BY <3>1, ReferencesSame
  <2>2. QED
    BY <2>1 DEF ReferencesAreListed, Delivers
<1>6. QED
  BY <1>1, <1>2, <1>3, <1>4, <1>5

(* The inductive invariant of a module's life.                             *)
THEOREM ModuleInvariant == Modules!Spec => []ModuleIInv
<1>1. ModuleIInv /\ UNCHANGED Modules!vars => ModuleIInv'
  BY ModuleStutters DEF Modules!vars, modvars
<1>2. ModuleIInv /\ [Modules!Next]_(Modules!vars) => ModuleIInv'
  BY <1>1, ModuleNextIInv
<1>3. QED
  BY <1>2, ModuleInitIInv, PTL DEF Modules!Spec

(* In ExecRequests modules take steps of their own or none.                *)
THEOREM RequestsModuleInvariant == AllSpec => []ModuleIInv
<1>1. AllInit => ModuleIInv
  BY ModuleInitIInv DEF AllInit
<1>2. ModuleIInv /\ [AllNext]_allvars => ModuleIInv'
  BY ModuleNextIInv, ModuleStutters DEF AllNext, allvars
<1>3. QED
  BY <1>1, <1>2, PTL DEF AllSpec

(* Cardinality, seen through the instance.                                 *)
LEMMA SameCardinality == ASSUME NEW S PROVE Modules!Cardinality(S) = Cardinality(S)
  BY DEF Cardinality, Modules!Cardinality

(* What the invariant says of the state is what is promised.               *)
LEMMA ModulesAreSound == ModuleIInv => RefsAreHandles /\ OpenedIsLoaded
<1> SUFFICES ASSUME ModuleIInv PROVE RefsAreHandles /\ OpenedIsLoaded
  OBVIOUS
<1> USE DEF ModuleIInv
<1>1. RefsAreHandles
  BY SameCardinality DEF RefsAreHandles, Modules!RefsAreHandles, ReferencesAreListed
<1>2. Modules!LoadedOnce
  <2> DEFINE S == {x \in Instance : version[x] # 0}
  <2>1. Cardinality(S) <= 1
    <3>1. CASE S = {}
      BY <3>1, FS_EmptySet
    <3>2. CASE S # {}
      <4>1. PICK x \in S : TRUE
        BY <3>2
      <4>2. S = {x}
        BY <4>1 DEF ModuleInOneState
      <4>3. Cardinality({x}) = 1
        BY FS_Singleton
      <4>4. QED
        BY ONLY <4>2, <4>3
    <3>3. QED
      BY <3>1, <3>2
  <2>2. Len(modlist) <= 1
    <3>1. CASE modlist = <<>>
      BY <3>1
    <3>2. CASE modlist # <<>>
      <4>1. PICK n \in Task \cup Instance : modlist = <<n>>
        BY <3>2 DEF ModuleInOneState
      <4>2. QED
        BY <4>1
    <3>3. QED
      BY <3>1, <3>2
  <2>3. QED
    BY <2>1, <2>2, SameCardinality DEF Modules!LoadedOnce
<1>3. Modules!OpenedIsLoaded
  <2>1. \A n : modlist = <<n>> => Modules!Contains(modlist, n)
    <3>1. ASSUME NEW n, modlist = <<n>> PROVE Modules!Contains(modlist, n)
      <4>1. 1 \in 1..Len(modlist) /\ modlist[1] = n
        BY <3>1
      <4>2. QED
        BY <4>1 DEF Modules!Contains
    <3>2. QED
      BY <3>1
  <2>2. QED
    BY <2>1 DEF ReferencesAreListed, Modules!OpenedIsLoaded
<1>4. QED
  BY <1>1, <1>2, <1>3 DEF OpenedIsLoaded

(* The reference count of a module is the number of its handles: however   *)
(* loading, failing and closing interleave.                                *)
THEOREM RefsAreHandlesHolds == AllSpec => []RefsAreHandles
  BY RequestsModuleInvariant, ModulesAreSound, PTL

(* A module is loaded once, and what is given out is loaded and new enough.*)
THEOREM OpenedIsLoadedHolds == AllSpec => []OpenedIsLoaded
  BY RequestsModuleInvariant, ModulesAreSound, PTL
=============================================================================
