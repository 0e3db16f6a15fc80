----------------------------- MODULE ExecModule -----------------------------
(***************************************************************************)
(* One module name: TOpenModule, TCloseModule, TAddModules and TRemModules *)
(* (src/src/exec/exec_api.c), their service by the exec task               *)
(* (exec_requestmod, exec_replymod, exec_closemod) and by the ramlib task  *)
(* (exec_loadmod, exec_unloadmod), both in src/src/exec/exec_doexec.c.     *)
(*                                                                         *)
(* The request is the caller's task structure.  While the module is being  *)
(* loaded, the request of its first opener stands for it in the list of    *)
(* modules, and collects the requests of the others that want it.  Ports   *)
(* are queues here (ExecPort has the details).  The exec task serves two   *)
(* ports, the second for the answers of the ramlib task; which it looks at *)
(* first depends on when their signals arrive, and is left open.           *)
(***************************************************************************)
EXTENDS Naturals, Sequences, FiniteSets, SequencesExt, Functions

CONSTANTS
  Task,         (* the tasks that open and close the module                 *)
  Provider,     (* the tasks that add and remove the internal module        *)
  Instance,     (* memory for the module once it is loaded                  *)
  IntVersion,   (* the version of the internal module                       *)
  HostVersion,  (* the version of the file, 0 if there is none              *)
  MaxVersion,   (* bound on the version a task asks for                     *)
  MaxHandles,   (* bound on the handles a task has at a time                *)
  None

VARIABLES
  execport,  (* texb_ExecPort                                               *)
  ramport,   (* the user port of the ramlib task                            *)
  modreply,  (* texb_ModReply                                               *)
  modlist,   (* what texb_ModList has for the name: a request or a module   *)
  intmod,    (* texb_IntModList has the internal module                     *)
  version,   (* version[x]: tmd_Version, 0 if x is not in use               *)
  refs,      (* refs[x]: tmd_RefCount                                       *)
  req,       (* req[t]: tsk_ReqCode, tsk_Request, and the message's reply   *)
             (* port and status; Blank if t is not in a call                *)
  pc,        (* "run", "call", or "opened": about to open an instance       *)
  handles    (* history: handles[t][x]: how many handles of x t has         *)

vars == <<execport, ramport, modreply, modlist, intmod, version, refs, req,
          pc, handles>>

Blank == [code |-> "none", version |-> 0, module |-> None, waiters |-> <<>>,
          rport |-> "none", saved |-> "none", failed |-> FALSE]

Init ==
  /\ execport = <<>> /\ ramport = <<>> /\ modreply = <<>>
  /\ modlist = <<>>
  /\ intmod = FALSE
  /\ version = [x \in Instance |-> 0]
  /\ refs = [x \in Instance |-> 0]
  /\ req = [t \in Task |-> Blank]
  /\ pc = [t \in Task |-> "run"]
  /\ handles = [t \in Task |-> [x \in Instance |-> 0]]

Sum(f) == FoldFunction(LAMBDA a, b : a + b, 0, f)

(* TRemove: n is unlinked from the list that it is in.                     *)
Unlinked(list, n) == RemoveAt(list, CHOOSE i \in DOMAIN list : list[i] = n)

(* exec_sendmsg of t's own task structure, up to the reply. *)
Send(t, code, v, x) ==
  /\ req' = [req EXCEPT ![t] = [Blank EXCEPT !.code = code, !.version = v,
                                             !.module = x, !.rport = "sync"]]
  /\ pc' = [pc EXCEPT ![t] = "call"]

(* With their requests as in r, the messages of the tasks in S are         *)
(* returned: a task whose message comes back to its sync port has its      *)
(* answer, and if it has not got a module its call is over.                *)
Return(S, r, ok) ==
  LET answered == {t \in S : r[t].rport = "sync"} IN
  /\ req' = [t \in Task |-> IF t \in answered /\ ~ok THEN Blank ELSE r[t]]
  /\ pc' = [t \in Task |-> IF t \notin answered THEN pc[t]
                           ELSE IF ok THEN "opened" ELSE "run"]
-----------------------------------------------------------------------------
(* The callers. *)

OpenModule(t, v) ==
  /\ pc[t] = "run" /\ Sum(handles[t]) < MaxHandles
  /\ Send(t, "open", v, None)
  /\ execport' = Append(execport, t)
  /\ UNCHANGED <<ramport, modreply, modlist, intmod, version, refs, handles>>

(* The module is there.  If it has instances one is opened, which may fail *)
(* and then the module is sent back.                                       *)
OpenInstance(t) ==
  /\ pc[t] = "opened"
  /\ \/ /\ handles' = [handles EXCEPT ![t][req[t].module] = @ + 1]
        /\ pc' = [pc EXCEPT ![t] = "run"]
        /\ req' = [req EXCEPT ![t] = Blank]
        /\ UNCHANGED execport
     \/ /\ Send(t, "close", 0, req[t].module)
        /\ execport' = Append(execport, t)
        /\ UNCHANGED handles
  /\ UNCHANGED <<ramport, modreply, modlist, intmod, version, refs>>

CloseModule(t, x) ==
  /\ pc[t] = "run" /\ handles[t][x] > 0
  /\ Send(t, "close", 0, x)
  /\ handles' = [handles EXCEPT ![t][x] = @ - 1]
  /\ execport' = Append(execport, t)
  /\ UNCHANGED <<ramport, modreply, modlist, intmod, version, refs>>

(* TAddModules and TRemModules go to the ramlib task directly.  The caller *)
(* adds what is not in the list and removes what is.                       *)
AddRemModule(t, code) ==
  /\ pc[t] = "run" /\ code = (IF intmod THEN "rem" ELSE "add")
  /\ \A u \in Task : req[u].code \notin {"add", "rem"}
  /\ Send(t, code, 0, None)
  /\ ramport' = Append(ramport, t)
  /\ UNCHANGED <<execport, modreply, modlist, intmod, version, refs, handles>>
-----------------------------------------------------------------------------
(* The exec task.  exec_requestmod, by what the list has for the name: *)

Requests(code) == execport # <<>> /\ req[Head(execport)].code = code

ListedVersion == IF Head(modlist) \in Task THEN req[Head(modlist)].version
                 ELSE version[Head(modlist)]

LoadRequest(t) == [req[t] EXCEPT !.code = "load", !.saved = req[t].rport,
                                 !.waiters = <<>>, !.rport = "modreply"]

(* Mutant: the load request overtakes what the ramlib task has to do.      *)
RequestLoadFirst ==
  LET t == Head(execport) IN
  /\ Requests("open") /\ modlist = <<>>
  /\ execport' = Tail(execport)
  /\ req' = [req EXCEPT ![t] = LoadRequest(t)]
  /\ modlist' = <<t>>
  /\ ramport' = <<t>> \o ramport
  /\ UNCHANGED <<modreply, intmod, version, refs, pc, handles>>

(* nothing: the request becomes a load request, and stands for the module; *)
RequestLoad ==
  LET t == Head(execport) IN
  /\ Requests("open") /\ modlist = <<>>
  /\ execport' = Tail(execport)
  /\ req' = [req EXCEPT ![t] = LoadRequest(t)]
  /\ modlist' = <<t>>
  /\ ramport' = Append(ramport, t)
  /\ UNCHANGED <<modreply, intmod, version, refs, pc, handles>>

(* too old a version, which is that of the module or, while it is being    *)
(* loaded, the one its first opener has asked for;                         *)
RequestRefused ==
  LET t == Head(execport) IN
  /\ Requests("open") /\ modlist # <<>> /\ ListedVersion < req[t].version
  /\ execport' = Tail(execport)
  /\ Return({t}, req, FALSE)
  /\ UNCHANGED <<ramport, modreply, modlist, intmod, version, refs, handles>>

(* the module;                                                             *)
RequestOpened ==
  LET t == Head(execport)
      x == Head(modlist) IN
  /\ Requests("open") /\ modlist # <<>> /\ ListedVersion >= req[t].version
  /\ x \in Instance
  /\ execport' = Tail(execport)
  /\ refs' = [refs EXCEPT ![x] = @ + 1]
  /\ Return({t}, [req EXCEPT ![t].module = x], TRUE)
  /\ UNCHANGED <<ramport, modreply, modlist, intmod, version, handles>>

(* Mutant: the version is not looked at while the module is being loaded.  *)
RequestWaitsUnchecked ==
  /\ Requests("open") /\ modlist # <<>>
  /\ Head(modlist) \in Task
  /\ execport' = Tail(execport)
  /\ req' = [req EXCEPT ![Head(modlist)].waiters = Append(@, Head(execport))]
  /\ UNCHANGED <<ramport, modreply, modlist, intmod, version, refs, pc, handles>>

(* or a module that is being loaded: wait for it.                          *)
RequestWaits ==
  LET t == Head(execport) IN
  /\ Requests("open") /\ modlist # <<>> /\ ListedVersion >= req[t].version
  /\ Head(modlist) \in Task
  /\ execport' = Tail(execport)
  /\ req' = [req EXCEPT ![Head(modlist)].waiters = Append(@, t)]
  /\ UNCHANGED <<ramport, modreply, modlist, intmod, version, refs, pc, handles>>

(* What the load request of t comes to: who is answered, and their         *)
(* requests.                                                               *)
Openers(t) == {t} \cup ToSet(req[t].waiters)
Given(t) == [u \in Task |-> IF u \in Openers(t)
                            THEN [req[u] EXCEPT !.module = req[t].module]
                            ELSE req[u]]

(* Mutants of ReplyMod: the waiters are not counted; the reply port is not *)
(* restored.                                                               *)
ReplyModUncounted ==
  LET t == Head(modreply)
      x == req[t].module IN
  /\ modreply # <<>>
  /\ modreply' = Tail(modreply)
  /\ modlist' = IF req[t].failed THEN <<>> ELSE <<x>>
  /\ Return(Openers(t), [Given(t) EXCEPT ![t].rport = req[t].saved],
            ~req[t].failed)
  /\ UNCHANGED <<execport, ramport, intmod, version, refs, handles>>

ReplyModHere ==
  LET t == Head(modreply)
      x == req[t].module IN
  /\ modreply # <<>>
  /\ modreply' = Append(Tail(modreply), t)
  /\ modlist' = IF req[t].failed THEN <<>> ELSE <<x>>
  /\ refs' = IF req[t].failed THEN refs
             ELSE [refs EXCEPT ![x] = @ + Len(req[t].waiters)]
  /\ Return(Openers(t), Given(t), ~req[t].failed)
  /\ UNCHANGED <<execport, ramport, intmod, version, handles>>

(* exec_replymod: the load request comes back.  The module takes its place *)
(* in the list, or nothing does; the opener and all that have waited with  *)
(* it get the module, or nothing.                                          *)
ReplyMod ==
  LET t == Head(modreply)
      x == req[t].module IN
  /\ modreply # <<>>
  /\ modreply' = Tail(modreply)
  /\ modlist' = Unlinked(modlist, t) \o (IF req[t].failed THEN <<>> ELSE <<x>>)
  /\ refs' = IF req[t].failed THEN refs
             ELSE [refs EXCEPT ![x] = @ + Len(req[t].waiters)]
  /\ Return(Openers(t), [Given(t) EXCEPT ![t].rport = req[t].saved],
            ~req[t].failed)
  /\ UNCHANGED <<execport, ramport, intmod, version, handles>>

(* exec_closemod: the last close unlinks the module and forwards the       *)
(* request to the ramlib task.                                             *)
CloseMod ==
  LET t == Head(execport)
      x == req[t].module IN
  /\ Requests("close")
  /\ execport' = Tail(execport)
  /\ refs' = [refs EXCEPT ![x] = @ - 1]
  /\ \/ /\ refs[x] - 1 = 0
        /\ modlist' = Unlinked(modlist, x)
        /\ req' = [req EXCEPT ![t].code = "unload", ![t].saved = req[t].rport,
                              ![t].rport = "none"]
        /\ ramport' = Append(ramport, t)
        /\ UNCHANGED pc
     \/ /\ refs[x] - 1 # 0
        /\ Return({t}, req, FALSE)
        /\ UNCHANGED <<modlist, ramport>>
  /\ UNCHANGED <<modreply, intmod, version, handles>>
-----------------------------------------------------------------------------
(* The ramlib task, in the order of its port. *)

Ordered(code) == ramport # <<>> /\ req[Head(ramport)].code = code

(* What can be loaded if version v is asked for: the internal module, or   *)
(* the file; 0 if neither is new enough.                                   *)
Loadable(v) ==
  IF intmod /\ v <= IntVersion THEN IntVersion
  ELSE IF v <= HostVersion THEN HostVersion ELSE 0

(* exec_loadmod; memory may be missing, and the module's own               *)
(* initialization may fail.                                                *)
LoadMod ==
  LET t == Head(ramport)
      v == Loadable(req[t].version) IN
  /\ Ordered("load")
  /\ ramport' = Tail(ramport)
  /\ modreply' = Append(modreply, t)
  /\ \/ /\ v # 0
        /\ \E x \in Instance :
             /\ version[x] = 0
             /\ version' = [version EXCEPT ![x] = v]
             /\ refs' = [refs EXCEPT ![x] = 1]
             /\ req' = [req EXCEPT ![t].module = x]
     \/ /\ req' = [req EXCEPT ![t].failed = TRUE]
        /\ UNCHANGED <<version, refs>>
  /\ UNCHANGED <<execport, modlist, intmod, pc, handles>>

UnloadMod ==
  LET t == Head(ramport) IN
  /\ Ordered("unload")
  /\ ramport' = Tail(ramport)
  /\ version' = [version EXCEPT ![req[t].module] = 0]
  /\ Return({t}, [req EXCEPT ![t].rport = req[t].saved], FALSE)
  /\ UNCHANGED <<execport, modreply, modlist, intmod, refs, handles>>

AddRemMod ==
  LET t == Head(ramport) IN
  /\ Ordered("add") \/ Ordered("rem")
  /\ ramport' = Tail(ramport)
  /\ intmod' = (req[t].code = "add")
  /\ Return({t}, req, FALSE)
  /\ UNCHANGED <<execport, modreply, modlist, version, refs, handles>>

ExecNext ==
  RequestLoad \/ RequestRefused \/ RequestOpened \/ RequestWaits \/ ReplyMod
  \/ CloseMod

RamlibNext == LoadMod \/ UnloadMod \/ AddRemMod

TaskNext(t) ==
  \/ \E v \in 1..MaxVersion : OpenModule(t, v)
  \/ OpenInstance(t)
  \/ \E x \in Instance : CloseModule(t, x)

Next ==
  \/ ExecNext
  \/ RamlibNext
  \/ \E t \in Task : TaskNext(t)
  \/ \E t \in Provider, code \in {"add", "rem"} : AddRemModule(t, code)

Spec == Init /\ [][Next]_vars

(* Both tasks run, and requests do not come in so fast that the exec task  *)
(* is never through with them and never looks at its other port.           *)
Fairness ==
  /\ WF_vars(ExecNext) /\ SF_vars(ReplyMod)
  /\ WF_vars(RamlibNext)

FairSpec == Spec /\ Fairness
-----------------------------------------------------------------------------
Request ==
  [code : {"none", "open", "load", "close", "unload", "add", "rem"},
   version : 0..MaxVersion, module : Instance \cup {None},
   waiters : Seq(Task), failed : BOOLEAN,
   rport : {"none", "sync", "modreply"}, saved : {"none", "sync"}]

TypeOK ==
  /\ {execport, ramport, modreply} \subseteq Seq(Task)
  /\ modlist \in Seq(Task \cup Instance)
  /\ intmod \in BOOLEAN
  /\ version \in [Instance -> Nat]
  /\ refs \in [Instance -> Nat]
  /\ req \in [Task -> Request]
  /\ pc \in [Task -> {"run", "call", "opened"}]
  /\ \A t \in Task : req[t].code = "none" <=> pc[t] = "run"
  /\ handles \in [Task -> [Instance -> Nat]]

(* t has x, or is about to get it, or has it on its way back. *)
InTransit(t, x) ==
  /\ req[t].module = x
  /\ \/ pc[t] = "opened"
     \/ req[t].code = "close"
     \/ Contains(modreply, t) /\ ~req[t].failed

(* The handles of x, and 0 for one on the way.                             *)
References(x) ==
  (UNION {{t} \X (1..handles[t][x]) : t \in Task})
  \cup ({t \in Task : InTransit(t, x)} \X {0})

(* The reference count is the number of handles, given out or on the way,  *)
(* however loading, failing and closing interleave.                        *)
RefsAreHandles ==
  \A x \in Instance : version[x] # 0 => refs[x] = Cardinality(References(x))

(* A module is never loaded twice at a time, even if it is opened again    *)
(* while it is being unloaded, and a name is at most once in the list.     *)
LoadedOnce ==
  /\ Cardinality({x \in Instance : version[x] # 0}) <= 1
  /\ Len(modlist) <= 1

(* Who is given a module is given one that is loaded and listed, and new   *)
(* enough; and it stays loaded until the last handle is closed.            *)
OpenedIsLoaded ==
  \A t \in Task :
    /\ pc[t] = "opened" => /\ Contains(modlist, req[t].module)
                           /\ version[req[t].module] >= req[t].version
    /\ \A x \in Instance : handles[t][x] > 0 => Contains(modlist, x)
=============================================================================
