------------------------------- MODULE TekStart -------------------------------
(***************************************************************************)
(* TEKCreate and the destruction of the application's task, as often as a  *)
(* program likes: src/src/teklib/init.c brings up the host, the HAL, the   *)
(* exec base, the application's task, the ramlib task, the exec task and   *)
(* the application's timer, and takes them down again, from the point it   *)
(* has reached, when any of it fails (src/src/hal/hal_mod.c and            *)
(* posix/hal.c, src/src/exec/exec_mod.c, exec_CreateSysTask in             *)
(* exec_api.c).  The two system tasks run meanwhile.                       *)
(*                                                                         *)
(* The thread that calls is given as what it has still to do, operation by *)
(* operation.  What it gets is a part of an owner: of the host, the HAL,   *)
(* the exec base, a task or the timer.  Directories and tags are left out, *)
(* and the six atoms of an application are one.                            *)
(***************************************************************************)
EXTENDS Sequences, SequencesExt

VARIABLES
  todo,    (* what TEKCreate, or TDestroy, has still to do                 *)
  owned,   (* the parts there are, as pairs of an owner and a part         *)
  stage,   (* stage[t]: of the thread of a system task                     *)
  raised,  (* raised[t]: the signals it has                                *)
  asked    (* texb_ExecPort has a request of the entry task                *)

startvars == <<todo, owned, stage, raised, asked>>

SysTask == {"ramlib", "exec"}

Init ==
  /\ todo = <<>> /\ owned = {}
  /\ stage = [t \in SysTask |-> "none"]
  /\ raised = [t \in SysTask |-> {}]
  /\ asked = FALSE
-----------------------------------------------------------------------------
(* What the functions do, in order: "get" may fail, and so may "may", but  *)
(* nobody minds; "add" may not.                                            *)
Each(op, owner, parts) ==
  [i \in DOMAIN parts |-> <<op, owner, parts[i]>>]

Hal == <<"module", "base", "specific", "key">>
Base == <<"module", "memory", "lock", "messages", "managers">>
TaskParts == <<"memory", "lock", "heap", "userport", "syncport", "thread">>
Timer == <<"message", "device">>

(* A request to the exec task, and the wait for the answer. *)
Ask == << <<"send", "exec", "port">>, <<"receive", "exec", "port">> >>

(* Mutant: the thread is signalled before its task can be found.           *)
StartThreadFirst(t) ==
  << <<"raise", t, "single">>, <<"add", t, "list">> >>

(* exec_initsystask, and the signal the new thread waits for.              *)
StartThread(t) ==
  << <<"add", t, "list">>, <<"raise", t, "single">> >>

NewApp == Append(Each("get", "app", TaskParts), <<"add", "app", "list">>)

NewTask(t) == Each("get", t, TaskParts) \o StartThread(t)

(* init_tek_create, when all goes well. *)
Create ==
  Each("get", "host", <<"boot", "init">>) \o Each("get", "hal", Hal)
    \o Each("get", "base", Base) \o NewApp \o NewTask("ramlib")
    \o NewTask("exec") \o Ask \o Each("get", "timer", Timer)
    \o Ask \o Each("may", "app", <<"atoms">>)

CloseHost == Each("put", "host", <<"init", "boot">>)
CloseHal == Each("put", "hal", <<"key", "specific", "base", "module">>)
CloseExec ==
  Each("put", "base", <<"lock", "managers", "messages", "memory", "module">>)

Abort(t) == << <<"raise", t, "abort">> >>

(* Mutant: the thread is the last that is taken down.                      *)
DestroyJoinsLast(t) ==
  Each("put", t, <<"list", "syncport", "userport", "heap", "lock", "memory">>)
    \o << <<"join", t, "thread">> >>

(* exec_systaskdestroy *)
Destroy(t) ==
  << <<"join", t, "thread">> >>
    \o Each("put", t, <<"list", "syncport", "userport", "heap", "lock", "memory">>)

(* What init_tek_create does about a failure to open an owner. *)
AfterHal == CloseHost
AfterBase == CloseHal \o AfterHal
AfterApp == CloseExec \o AfterBase
AfterRamlib == Destroy("app") \o AfterApp
AfterExec == Abort("ramlib") \o Destroy("ramlib") \o AfterRamlib
AfterTimer == Abort("exec") \o Destroy("exec") \o AfterExec

(* The functions that open an owner free its parts in reverse order. *)
Undo(owner, parts, part) ==
  LET n == CHOOSE i \in DOMAIN parts : parts[i] = part
  IN  Each("put", owner, Reverse(SubSeq(parts, 1, n - 1)))

Failed(owner, part) ==
  CASE owner = "host"  -> Undo(owner, <<"boot", "init">>, part)
    [] owner = "hal"   -> Undo(owner, Hal, part) \o AfterHal
    [] owner = "base"  -> Undo(owner, Base, part) \o AfterBase
    [] owner = "app"   -> Undo(owner, TaskParts, part) \o AfterApp
    [] owner = "ramlib" -> Undo(owner, TaskParts, part) \o AfterRamlib
    [] owner = "exec"  -> Undo(owner, TaskParts, part) \o AfterExec
    [] owner = "timer" -> Undo(owner, Timer, part) \o Ask \o AfterTimer

(* Mutant: the exec base is closed while the system tasks still run.       *)
ShutdownAppFirst ==
  Ask \o Each("put", "app", <<"atoms">>)
    \o Each("put", "timer", <<"device">>) \o Ask
    \o Each("put", "timer", <<"message">>)
    \o Destroy("app") \o CloseExec
    \o Abort("exec") \o Abort("ramlib") \o Destroy("exec") \o Destroy("ramlib")
    \o CloseHal \o CloseHost

(* init_tek_destroy *)
Shutdown ==
  Ask \o Each("put", "app", <<"atoms">>)
    \o Each("put", "timer", <<"device">>) \o Ask
    \o Each("put", "timer", <<"message">>)
    \o Abort("exec") \o Abort("ramlib") \o Destroy("exec") \o Destroy("ramlib")
    \o Destroy("app") \o CloseExec \o CloseHal \o CloseHost
-----------------------------------------------------------------------------
(* The thread that calls. *)
Running == "app" \in {r[1] : r \in owned}

TEKCreate ==
  /\ todo = <<>> /\ ~Running
  /\ todo' = Create
  /\ UNCHANGED <<owned, stage, raised, asked>>

TDestroy ==
  /\ todo = <<>> /\ Running
  /\ todo' = Shutdown
  /\ UNCHANGED <<owned, stage, raised, asked>>

Does(op, owner, part) == todo # <<>> /\ Head(todo) = <<op, owner, part>>

Get(owner, part) ==
  /\ \E op \in {"get", "may", "add"} : Does(op, owner, part)
  /\ todo' = Tail(todo)
  /\ owned' = owned \cup {<<owner, part>>}
  /\ stage' = IF owner \in SysTask /\ part = "thread"
              THEN [stage EXCEPT ![owner] = "start"] ELSE stage
  /\ UNCHANGED <<raised, asked>>

GetFails(owner, part) ==
  /\ \/ Does("get", owner, part) /\ todo' = Failed(owner, part)
     \/ Does("may", owner, part) /\ todo' = Tail(todo)
  /\ UNCHANGED <<owned, stage, raised, asked>>

Put(owner, part) ==
  /\ Does("put", owner, part)
  /\ todo' = Tail(todo)
  /\ owned' = owned \ {<<owner, part>>}
  /\ UNCHANGED <<stage, raised, asked>>

Raise(t, signal) ==
  /\ Does("raise", t, signal)
  /\ todo' = Tail(todo)
  /\ raised' = [raised EXCEPT ![t] = @ \cup {signal}]
  /\ UNCHANGED <<owned, stage, asked>>

(* THALDestroyThread; the application's task runs on the caller's thread. *)
Join(t) ==
  /\ Does("join", t, "thread")
  /\ t \in SysTask => stage[t] = "ended"
  /\ todo' = Tail(todo)
  /\ owned' = owned \ {<<t, "thread">>}
  /\ stage' = [u \in SysTask |-> IF u = t THEN "none" ELSE stage[u]]
  /\ raised' = [u \in SysTask |-> IF u = t THEN {} ELSE raised[u]]
  /\ UNCHANGED asked

Send ==
  /\ Does("send", "exec", "port")
  /\ todo' = Tail(todo)
  /\ asked' = TRUE
  /\ raised' = [raised EXCEPT !["exec"] = @ \cup {"port"}]
  /\ UNCHANGED <<owned, stage>>

Receive ==
  /\ Does("receive", "exec", "port") /\ ~asked
  /\ todo' = Tail(todo)
  /\ UNCHANGED <<owned, stage, raised, asked>>

CallNext ==
  \/ \E r \in {<<Head(todo)[2], Head(todo)[3]>> : x \in DOMAIN todo} :
       \/ Get(r[1], r[2]) \/ GetFails(r[1], r[2]) \/ Put(r[1], r[2])
       \/ Raise(r[1], r[2]) \/ Join(r[1])
  \/ Send \/ Receive
-----------------------------------------------------------------------------
(* The threads of the system tasks: hal_posixthread_entry waits to be      *)
(* started, ...                                                            *)
Begin(t) ==
  /\ stage[t] = "start" /\ "single" \in raised[t]
  /\ stage' = [stage EXCEPT ![t] = "begun"]
  /\ raised' = [raised EXCEPT ![t] = @ \ {"single"}]
  /\ UNCHANGED <<todo, owned, asked>>

(* ... exec_DoExec finds out by name which task it is for, if any, ...     *)
FindSelf(t) ==
  /\ stage[t] = "begun"
  /\ stage' = [stage EXCEPT ![t] =
                 IF <<t, "list">> \in owned THEN "main" ELSE "ended"]
  /\ UNCHANGED <<todo, owned, raised, asked>>

(* ... exec_main and exec_ramlib end at once when they are aborted, ...    *)
End(t) ==
  /\ stage[t] = "main" /\ "abort" \in raised[t]
  /\ stage' = [stage EXCEPT ![t] = "ended"]
  /\ raised' = [raised EXCEPT ![t] = {}]
  /\ UNCHANGED <<todo, owned, asked>>

(* ... and exec_main answers requests.                                     *)
Serve ==
  /\ stage["exec"] = "main" /\ raised["exec"] = {"port"}
  /\ raised' = [raised EXCEPT !["exec"] = {}]
  /\ asked' = FALSE
  /\ UNCHANGED <<todo, owned, stage>>

ThreadNext(t) == Begin(t) \/ FindSelf(t) \/ End(t) \/ (t = "exec" /\ Serve)

Next == TEKCreate \/ TDestroy \/ CallNext \/ \E t \in SysTask : ThreadNext(t)

Spec == Init /\ [][Next]_startvars

(* A call goes on, and so do the threads; the application does what it     *)
(* likes.                                                                  *)
Fairness ==
  /\ WF_startvars(CallNext)
  /\ \A t \in SysTask : WF_startvars(ThreadNext(t))

FairSpec == Spec /\ Fairness
-----------------------------------------------------------------------------
PartsOf(owner) ==
  CASE owner = "host" -> {"boot", "init"}
    [] owner = "hal"  -> Range(Hal)
    [] owner = "base" -> Range(Base)
    [] owner = "timer" -> Range(Timer)
    [] OTHER -> Range(TaskParts) \cup {"list"}

AllOf(owner) == {<<owner, part>> : part \in PartsOf(owner)}

TypeOK ==
  /\ owned \subseteq {<<"app", "atoms">>} \cup
       UNION {AllOf(o) : o \in {"host", "hal", "base", "app", "timer"} \cup SysTask}
  /\ stage \in [SysTask -> {"none", "start", "begun", "main", "ended"}]
  /\ raised \in [SysTask -> SUBSET {"single", "abort", "port"}]
  /\ asked \in BOOLEAN

(* What a part is built on, and uses until it is gone.                     *)
Needs(owner, part) ==
  CASE owner = "host" /\ part = "init" -> {<<"host", "boot">>}
    [] owner = "hal" -> AllOf("host") \cup
         (CASE part = "base" -> {<<"hal", "module">>}
            [] part = "specific" -> {<<"hal", "module">>, <<"hal", "base">>}
            [] part = "key" -> AllOf("hal") \ {<<"hal", "key">>}
            [] OTHER -> {})
    [] owner = "base" -> AllOf("hal") \cup
         (CASE part = "module" -> {}
            [] part = "memory" -> {<<"base", "module">>}
            [] OTHER -> {<<"base", "module">>, <<"base", "memory">>})
    [] owner \in {"app"} \cup SysTask -> AllOf("base") \cup
         (IF part = "memory" THEN {}
          ELSE IF part = "thread"
               THEN AllOf(owner) \ {<<owner, "thread">>, <<owner, "list">>}
               ELSE {<<owner, "memory">>})
    [] owner = "timer" -> AllOf("app") \cup AllOf("exec") \cup AllOf("ramlib")
         \cup (IF part = "device" THEN {<<"timer", "message">>} ELSE {})
    [] OTHER -> {}

(* TEKCreate gives all or nothing, and TDestroy leaves nothing: wherever   *)
(* something fails, whatever is taken down is no longer used by anything   *)
(* that is left, neither by a part built on it nor by a thread; and a      *)
(* request to the exec task finds it alive.                                *)
AllOrNothing ==
  /\ \A r \in owned : Needs(r[1], r[2]) \subseteq owned
  /\ \A t \in SysTask :
       stage[t] \notin {"none", "ended"} => <<t, "thread">> \in owned
  /\ todo = <<>> => owned = {} \/ AllOf("timer") \subseteq owned
  /\ asked => stage["exec"] \in {"start", "begun", "main"}

(* Nobody waits for an exec task that is not there, or for a thread that   *)
(* was not told to end: TEKCreate and TDestroy return.                     *)
Calling == todo # <<>>
=============================================================================
