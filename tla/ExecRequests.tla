---------------------------- MODULE ExecRequests ----------------------------
(***************************************************************************)
(* The life of the exec task and the ramlib task: how they are started and *)
(* ended (TekStart), and the requests that keep them busy in between, for  *)
(* tasks (ExecTask) and for modules (ExecModule), each by itself.  A       *)
(* behaviour is one of one of them; the others stay as they are initially, *)
(* where no step of theirs that fairness is about is possible.             *)
(***************************************************************************)
EXTENDS ExecTask

CONSTANTS
  Task, Provider, Instance, IntVersion, HostVersion, MaxVersion, MaxHandles
                                               (* of ExecModule             *)

ASSUME ModuleAssumption ==
  /\ Parent \cup Provider \subseteq Task
  /\ Task \cap Instance = {} /\ None \notin Instance \cup Task
  /\ {IntVersion, HostVersion, MaxVersion, MaxHandles} \subseteq Nat

VARIABLES
  part,                                        (* whose behaviour this is   *)
  execport, ramport, modreply, modlist, intmod, version, refs, req, modpc,
  handles,
  todo, owned, stage, raised, asked            (* of TekStart               *)

modvars == <<execport, ramport, modreply, modlist, intmod, version, refs, req,
             modpc, handles>>
startvars == <<todo, owned, stage, raised, asked>>
allvars == <<part, vars, modvars, startvars>>

Modules == INSTANCE ExecModule WITH pc <- modpc
Start == INSTANCE TekStart

AllInit ==
  part \in {"tasks", "module", "start"} /\ Init /\ Modules!Init /\ Start!Init

AllNext ==
  /\ UNCHANGED part
  /\ \/ part = "tasks" /\ Next /\ UNCHANGED <<modvars, startvars>>
     \/ part = "module" /\ Modules!Next /\ UNCHANGED <<vars, startvars>>
     \/ part = "start" /\ Start!Next /\ UNCHANGED <<vars, modvars>>

AllSpec ==
  /\ AllInit /\ [][AllNext]_allvars
  /\ Fairness /\ Modules!Fairness /\ Start!Fairness
-----------------------------------------------------------------------------
(* The reference count of a module is the number of its handles. *)
RefsAreHandles == Modules!RefsAreHandles

(* A module is loaded once, and what is given out is loaded. *)
OpenedIsLoaded == Modules!LoadedOnce /\ Modules!OpenedIsLoaded

(* TEKCreate gives all or nothing, TDestroy leaves nothing, and neither    *)
(* takes anything down that is still used, or asks an exec task that is    *)
(* not there.                                                              *)
AllOrNothing == Start!AllOrNothing

(* Every request to the exec task is answered, whatever becomes of it: but *)
(* for the destruction of a task that failed and was handed out all the    *)
(* same.  TEKCreate and TDestroy return.                                   *)
Blocked(t) ==
  \/ t \in Parent /\ pc[t] # "run"
                  /\ (pc[t] = "destroy" => status[arg[t]] # "failed")
  \/ modpc[t] = "call"
RequestsReturn ==
  /\ \A t \in Task : Blocked(t) ~> ~Blocked(t)
  /\ Start!Calling ~> ~Start!Calling
=============================================================================
