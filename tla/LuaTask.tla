------------------------------- MODULE LuaTask -------------------------------
(***************************************************************************)
(* Lua tasks (src/tek/lib/exec_lua.c): Exec.run, child:join, terminate and *)
(* abort, the collection of child handles when a task's Lua state is       *)
(* closed, and the abortion signal, which travels down to children and,    *)
(* as an error, up to parents.                                             *)
(*                                                                         *)
(* A task's Lua code is anything: it may end, fail, wait, catch errors.    *)
(* Signals other than "abort" and "single" are passed on and decide        *)
(* nothing here; so child:terminate is child:join.  The exec task answers  *)
(* a destroy request once the task is finished (ExecTask has the details). *)
(***************************************************************************)
CONSTANTS
  Task,  (* memory for tasks                                                *)
  Root,  (* the task of the main program                                    *)
  None

ASSUME RootAssumption == Root \in Task
ASSUME NoneAssumption == None \notin Task

VARIABLES
  stage,      (* stage[t]: "none"; "run": in its Lua code; "error": an      *)
              (* error was raised; "close": in lua_close; "exit": after     *)
              (* it; "finished": TTASK_FINISHED; "gone", Root only          *)
  parent,     (* lexec->parent, None for Root and unused tasks              *)
  propagate,  (* ctx->abort                                                 *)
  hooked,     (* tek_lib_exec_run_hook is registered in the Lua state       *)
  failed,     (* ctx->luastatus # 0                                         *)
  sig,        (* sig[t] \subseteq {"abort", "single"}                       *)
  joining,    (* joining[t]: the child in t's child_sigjoin, or None        *)
  sigparent,  (* the argument of child_sigjoin                              *)
  aborted,    (* its local abort                                            *)
  requests    (* the tasks whose destroy request is not answered            *)

joinvars == <<joining, sigparent, aborted, requests>>
childvars == <<parent, propagate, hooked, failed>>
vars == <<stage, childvars, sig, joinvars>>

Init ==
  /\ stage = [t \in Task |-> IF t = Root THEN "run" ELSE "none"]
  /\ parent = [t \in Task |-> None]
  /\ propagate = [t \in Task |-> FALSE]
  /\ hooked = [t \in Task |-> FALSE]
  /\ failed = [t \in Task |-> FALSE]
  /\ sig = [t \in Task |-> {}]
  /\ joining = [t \in Task |-> None]
  /\ sigparent = [t \in Task |-> FALSE]
  /\ aborted = [t \in Task |-> FALSE]
  /\ requests = {}

(* The task executes Lua code. *)
Runs(t) == stage[t] = "run" /\ joining[t] = None

Become(t, s) == stage' = [stage EXCEPT ![t] = s]

(* TSignal, of all tasks in S: parents, if any, and children.              *)
Aborted(S) == [t \in Task |-> IF t \in S THEN sig[t] \cup {"abort"} ELSE sig[t]]

Children(t) == {c \in Task : parent[c] = t}
-----------------------------------------------------------------------------
(* Exec.run.  The child has the hook from its start; the caller gets it if *)
(* errors are to be propagated.                                            *)
Run(t, c, abort) ==
  /\ Runs(t) /\ stage[c] = "none"
  /\ Become(c, "run")
  /\ parent' = [parent EXCEPT ![c] = t]
  /\ propagate' = [propagate EXCEPT ![c] = abort]
  /\ hooked' = [hooked EXCEPT ![c] = TRUE, ![t] = @ \/ abort]
  /\ UNCHANGED <<failed, sig, joinvars>>

(* Exec.signal or child:signal, with "a".                                  *)
Signal(t, u) ==
  /\ Runs(t) /\ stage[u] \in {"run", "error", "close"}
  /\ sig' = Aborted({u})
  /\ UNCHANGED <<stage, childvars, joinvars>>

(* tek_lib_exec_checkabort: the parent is signalled, and an error raised.  *)
CheckAbort(t, before) ==
  /\ sig' = [u \in Task |-> IF u = parent[t] THEN before[u] \cup {"abort"}
                                             ELSE before[u]]
  /\ Become(t, "error")

(* The hook looks at the signals without taking them.                      *)
RunHook(t) ==
  /\ Runs(t) /\ hooked[t] /\ "abort" \in sig[t]
  /\ CheckAbort(t, sig)
  /\ UNCHANGED <<childvars, joinvars>>

(* Exec.wait, Exec.waittime, Exec.sleep and Exec.waitmsg take the signal.  *)
WaitAborted(t) ==
  /\ Runs(t) /\ "abort" \in sig[t]
  /\ CheckAbort(t, [sig EXCEPT ![t] = @ \ {"abort"}])
  /\ UNCHANGED <<childvars, joinvars>>

(* An error may be caught by the Lua code, or ends it; then the parent is  *)
(* signalled, whether or not the error is to be propagated.                *)
Catch(t) ==
  /\ stage[t] = "error"
  /\ Become(t, "run")
  /\ UNCHANGED <<childvars, sig, joinvars>>

Fail(t) ==
  /\ stage[t] = "error" \/ Runs(t)
  /\ Become(t, "close")
  /\ failed' = [failed EXCEPT ![t] = TRUE]
  /\ sig' = Aborted({parent[t]})
  /\ UNCHANGED <<parent, propagate, hooked, joinvars>>

(* The Lua code ends; or it was not there, if the file can not be loaded:  *)
(* luastatus is 0 then, too, and the parent is not signalled.              *)
Finish(t) ==
  /\ Runs(t)
  /\ Become(t, "close")
  /\ UNCHANGED <<childvars, sig, joinvars>>

(* Mutant: the handles are not collected. *)
ClosedUncollected(t) ==
  /\ stage[t] = "close" /\ joining[t] = None
  /\ Become(t, IF t = Root THEN "gone" ELSE "exit")
  /\ UNCHANGED <<childvars, sig, joinvars>>

(* lua_close is through: all child handles have been collected.            *)
Closed(t) ==
  /\ stage[t] = "close" /\ joining[t] = None /\ Children(t) = {}
  /\ Become(t, IF t = Root THEN "gone" ELSE "exit")
  /\ UNCHANGED <<childvars, sig, joinvars>>

(* The parent is signalled that a child has finished; and aborted, if the  *)
(* task has run out of memory outside of its Lua code.                     *)
Exit(t) ==
  /\ stage[t] = "exit"
  /\ Become(t, "finished")
  /\ sig' = sig \/ sig' = Aborted({parent[t]})
  /\ UNCHANGED <<childvars, joinvars>>
-----------------------------------------------------------------------------
(* tek_lib_exec_child_sigjoin: signal the child, and send a request to     *)
(* destroy it.                                                             *)
BeginJoin(t, c, send, up) ==
  /\ joining[t] = None /\ parent[c] = t
  /\ joining' = [joining EXCEPT ![t] = c]
  /\ sigparent' = [sigparent EXCEPT ![t] = up]
  /\ aborted' = [aborted EXCEPT ![t] = FALSE]
  /\ requests' = requests \cup {t}
  /\ sig' = IF send THEN Aborted({c}) ELSE sig
  /\ UNCHANGED <<stage, childvars>>

(* child:join or child:terminate, child:abort, and the handle's __gc.      *)
Join(t, c) == stage[t] = "run" /\ BeginJoin(t, c, FALSE, propagate[c])
Abort(t, c) == stage[t] = "run" /\ BeginJoin(t, c, TRUE, FALSE)
Collect(t, c) == stage[t] = "close" /\ BeginJoin(t, c, TRUE, propagate[c])

(* The exec task answers the request. *)
Reply(t) ==
  /\ t \in requests /\ stage[joining[t]] = "finished"
  /\ requests' = requests \ {t}
  /\ sig' = [sig EXCEPT ![t] = @ \cup {"single"}]
  /\ UNCHANGED <<stage, childvars, joining, sigparent, aborted>>

(* The child is freed.  An abort that has been forwarded to the parent     *)
(* becomes an error now, of which lua_close takes no notice.               *)
JoinEnds(t) ==
  /\ stage' = [stage EXCEPT ![joining[t]] = "none",
                            ![t] = IF @ = "run" /\ aborted[t] THEN "error" ELSE @]
  /\ parent' = [parent EXCEPT ![joining[t]] = None]
  /\ propagate' = [propagate EXCEPT ![joining[t]] = FALSE]
  /\ hooked' = [hooked EXCEPT ![joining[t]] = FALSE]
  /\ failed' = [failed EXCEPT ![joining[t]] = FALSE]
  /\ joining' = [joining EXCEPT ![t] = None]
  /\ sigparent' = [sigparent EXCEPT ![t] = FALSE]
  /\ aborted' = [aborted EXCEPT ![t] = FALSE]
  /\ UNCHANGED requests

(* Mutant: an abort ends the wait, too. *)
JoinRepliedOrAborted(t) ==
  /\ joining[t] # None /\ sig[t] # {}
  /\ sig' = [u \in Task |-> IF u \in {t, joining[t]} THEN {} ELSE sig[u]]
  /\ JoinEnds(t)

(* The wait for the reply is over.  It has taken a pending abort as well,  *)
(* of which nobody hears any more.                                         *)
JoinReplied(t) ==
  /\ joining[t] # None /\ "single" \in sig[t]
  /\ sig' = [u \in Task |-> IF u \in {t, joining[t]} THEN {} ELSE sig[u]]
  /\ JoinEnds(t)

(* The task is aborted itself: it forwards the abort to the child, and to  *)
(* its parent if errors of the child are to be propagated.                 *)
Forward(t) ==
  LET up == IF sigparent[t] THEN {parent[t]} ELSE {} IN
  /\ sig' = [u \in Task |-> CASE u = t -> {}
                              [] u \in {joining[t]} \cup up -> sig[u] \cup {"abort"}
                              [] OTHER -> sig[u]]
  /\ aborted' = [aborted EXCEPT ![t] = @ \/ sigparent[t]]
  /\ UNCHANGED <<stage, childvars, joining, sigparent, requests>>

(* Mutant: the abort is looked at first, and the reply is lost. *)
JoinAbortedFirst(t) == joining[t] # None /\ "abort" \in sig[t] /\ Forward(t)

JoinAborted(t) == joining[t] # None /\ sig[t] = {"abort"} /\ Forward(t)

Next ==
  \E t \in Task :
    \/ \E c \in Task, abort \in BOOLEAN : Run(t, c, abort)
    \/ \E u \in Task : Signal(t, u)
    \/ RunHook(t) \/ WaitAborted(t)
    \/ Catch(t) \/ Fail(t) \/ Finish(t) \/ Closed(t) \/ Exit(t)
    \/ \E c \in Task : Join(t, c) \/ Abort(t, c) \/ Collect(t, c)
    \/ Reply(t) \/ JoinReplied(t) \/ JoinAborted(t)

Spec == Init /\ [][Next]_vars

(* Threads are scheduled, and Lua programs come to an end some time.       *)
Fairness ==
  \A t \in Task :
    /\ SF_vars(Finish(t))
    /\ WF_vars(Catch(t) \/ Fail(t))
    /\ WF_vars(Closed(t)) /\ WF_vars(Exit(t))
    /\ WF_vars(\E c \in Task : Collect(t, c))
    /\ WF_vars(Reply(t))
    /\ WF_vars(JoinReplied(t) \/ JoinAborted(t))

FairSpec == Spec /\ Fairness
-----------------------------------------------------------------------------
TypeOK ==
  /\ stage \in [Task -> {"none", "run", "error", "close", "exit", "finished",
                         "gone"}]
  /\ parent \in [Task -> Task \cup {None}]
  /\ {propagate, hooked, failed, sigparent, aborted} \subseteq [Task -> BOOLEAN]
  /\ sig \in [Task -> SUBSET {"abort", "single"}]
  /\ joining \in [Task -> Task \cup {None}]
  /\ requests \subseteq {t \in Task : joining[t] # None}
  /\ \A t \in Task : aborted[t] => sigparent[t]

(* A task is there until the last of its children is gone: a child signals *)
(* its parent at any time, through a pointer into the parent's Lua state.  *)
ParentOutlives ==
  \A c \in Task \ {Root} : stage[c] # "none" =>
    parent[c] \in Task /\ stage[parent[c]] \in {"run", "error", "close"}

(* However aborts arrive while it is being joined, a task is freed only    *)
(* when it has finished, and closed all handles of its own.                *)
OnlyFinishedIsFreed ==
  [][\A c \in Task : stage[c] # "none" /\ stage'[c] = "none" =>
       stage[c] = "finished" /\ Children(c) = {}]_vars

(* "While suspended in this function and if an error occurs in the child   *)
(* task, an error is propagated to the caller also": child:join does not   *)
(* return if the signal that says so is there.                             *)
JoinPropagates ==
  [][\A t \in Task :
       /\ JoinReplied(t) /\ "abort" \in sig[t]
       /\ stage[t] = "run" /\ sigparent[t] /\ failed[joining[t]]
       => stage'[t] = "error"]_vars
=============================================================================
