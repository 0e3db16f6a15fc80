------------------------------ MODULE ExecAtom ------------------------------
(***************************************************************************)
(* One named atom: TLockAtom and TUnlockAtom (src/src/exec/exec_api.c) and *)
(* their service by the exec task, exec_lockatom and exec_unlockatom       *)
(* (src/src/exec/exec_doexec.c).  An atom is a named lock, shared or       *)
(* exclusive, that its users create and destroy.                           *)
(*                                                                         *)
(* A task sends its request to the exec task and sleeps until it is        *)
(* replied (ExecPort).  The exec task serves one request at a time, so a   *)
(* call and its service are one action, but for one thing: exec_unlockatom *)
(* still reads the request of a waiter it has already replied to, and the  *)
(* waiter may by then have written its next request to the same memory     *)
(* (action SetOwner).                                                      *)
(***************************************************************************)
EXTENDS Naturals, Sequences, FiniteSets, SequencesExt, Functions

CONSTANTS
  Task,
  MaxNest,  (* bound on the locks a task holds at a time                    *)
  None, Garbage

ASSUME TaskAssumption == {None, Garbage} \cap Task = {} /\ None # Garbage
ASSUME BoundsAssumption == MaxNest \in Nat

VARIABLES
  state,    (* "absent", or tatm_State: "free", "exclusive" or "shared"     *)
  owner,    (* tatm_Owner                                                   *)
  nest,     (* tatm_Nest                                                    *)
  waiters,  (* tatm_Waiters                                                 *)
  mode,     (* mode[t]: "shared" or "exclusive", as t has asked for (and    *)
            (* tra_Mode while t waits); "none" if t neither holds nor waits *)
  handing,  (* the waiter whose tra_Task exec_unlockatom is about to read   *)
  traTask,  (* what it will read there                                      *)
  pc,       (* "run", "wait" in TLockAtom, or "else": in another request    *)
  holds,    (* history: the locks t holds                                   *)
  overwritten (* history: the waiter that was handed the atom last has      *)
              (* written another request before the exec task has read the  *)
              (* one it was replied to                                      *)

vars == <<state, owner, nest, waiters, mode, handing, traTask, pc, holds,
          overwritten>>

Init ==
  /\ state = "absent"
  /\ owner = None
  /\ nest = 0
  /\ waiters = <<>>
  /\ mode = [t \in Task |-> "none"]
  /\ handing = None
  /\ traTask = None
  /\ pc = [t \in Task |-> "run"]
  /\ holds = [t \in Task |-> 0]
  /\ overwritten = FALSE

(* The exec task is waiting for the next request, and t can make one. *)
MayAsk(t) == handing = None /\ pc[t] = "run"

(* The reply to t's lock request: TLockAtom returns the atom. *)
Obtained(t) == holds' = [holds EXCEPT ![t] = @ + 1]
-----------------------------------------------------------------------------
(* The ways exec_lockatom can serve t's request for mode m. *)

(* TATOMF_CREATE on a name that is not there: exec_newatom.  It does not   *)
(* record an owner, and the state is exclusive whatever the mode.          *)
LockCreate(t) ==
  /\ state = "absent"
  /\ state' = "exclusive"
  /\ nest' = 1
  /\ Obtained(t)
  /\ UNCHANGED <<owner, waiters, pc>>

LockFree(t, m) ==
  /\ state = "free"
  /\ state' = m
  /\ owner' = IF m = "shared" THEN None ELSE t
  /\ nest' = 1
  /\ Obtained(t)
  /\ UNCHANGED <<waiters, pc>>

(* Mutant: the mode of the request is not looked at. *)
NestsShared(t, m) == \/ state = "shared"
                     \/ state = "exclusive" /\ owner = t

(* Shared with those that hold it shared, or exclusive once more. *)
Nests(t, m) == \/ state = "shared" /\ m = "shared"
               \/ state = "exclusive" /\ owner = t

(* Mutant: the nested lock is not counted. *)
LockNestUncounted(t, m) ==
  /\ Nests(t, m)
  /\ Obtained(t)
  /\ UNCHANGED <<state, owner, nest, waiters, pc>>

LockNest(t, m) ==
  /\ Nests(t, m)
  /\ nest' = nest + 1
  /\ Obtained(t)
  /\ UNCHANGED <<state, owner, waiters, pc>>

LockWait(t, m) ==
  /\ state \in {"exclusive", "shared"} /\ ~Nests(t, m)
  /\ waiters' = Append(waiters, t)
  /\ pc' = [pc EXCEPT ![t] = "wait"]
  /\ UNCHANGED <<state, owner, nest, holds>>

(* TLockAtom.  With TATOMF_TRY a task asks without waiting, and without    *)
(* TATOMF_CREATE a name that is not there is refused: neither changes the  *)
(* atom.  A task that holds the atom asks for the same mode again.         *)
LockAtom(t, m) ==
  /\ MayAsk(t)
  /\ holds[t] < MaxNest /\ (holds[t] > 0 => m = mode[t])
  /\ mode' = [mode EXCEPT ![t] = m]
  /\ UNCHANGED <<handing, traTask, overwritten>>
  /\ LockCreate(t) \/ LockFree(t, m) \/ LockNest(t, m) \/ LockWait(t, m)
-----------------------------------------------------------------------------
(* The ways exec_unlockatom can serve t.  With its last lock there is no   *)
(* owner any more whose request could have been overwritten.               *)

UnlockNested(t) ==
  /\ nest - 1 # 0
  /\ nest' = nest - 1
  /\ UNCHANGED <<state, owner, waiters, handing, traTask, pc, overwritten>>
  /\ holds' = [holds EXCEPT ![t] = @ - 1]

(* TATOMF_DESTROY by the last holder: all that wait are refused. *)
UnlockDestroy(t) ==
  /\ nest - 1 = 0
  /\ state' = "absent"
  /\ owner' = None
  /\ nest' = 0
  /\ waiters' = <<>>
  /\ pc' = [u \in Task |-> IF Contains(waiters, u) THEN "run" ELSE pc[u]]
  /\ holds' = [holds EXCEPT ![t] = @ - 1]
  /\ overwritten' = FALSE
  /\ UNCHANGED <<handing, traTask>>

(* Mutant: leave the waiters behind. *)
UnlockFreeAlways(t) ==
  /\ nest - 1 = 0
  /\ state' = "free"
  /\ owner' = None
  /\ nest' = 0
  /\ holds' = [holds EXCEPT ![t] = @ - 1]
  /\ overwritten' = FALSE
  /\ UNCHANGED <<waiters, handing, traTask, pc>>

UnlockFree(t) ==
  /\ nest - 1 = 0 /\ waiters = <<>>
  /\ state' = "free"
  /\ owner' = None
  /\ nest' = 0
  /\ holds' = [holds EXCEPT ![t] = @ - 1]
  /\ overwritten' = FALSE
  /\ UNCHANGED <<waiters, handing, traTask, pc>>

IsShared(t) == mode[t] = "shared"

(* The waiters that are restarted if the first of them is shared. *)
Readers == {u \in ToSet(waiters) : IsShared(u)}

(* s without the elements of S, in order. *)
Without(s, S) ==
  LET keep == {i \in DOMAIN s : s[i] \notin S}
      Rank(i) == Cardinality({j \in keep : j <= i})
  IN [k \in 1..Cardinality(keep) |-> s[CHOOSE i \in keep : Rank(i) = k]]

(* The first waiter is shared: restart all shared waiters with it. *)
UnlockToShared(t) ==
  /\ nest - 1 = 0 /\ waiters # <<>> /\ IsShared(Head(waiters))
  /\ state' = "shared"
  /\ owner' = None
  /\ nest' = Cardinality(Readers)
  /\ waiters' = Without(waiters, Readers)
  /\ pc' = [u \in Task |-> IF u \in Readers THEN "run" ELSE pc[u]]
  /\ holds' = [u \in Task |-> IF u = t THEN holds[t] - 1
                              ELSE IF u \in Readers THEN holds[u] + 1
                              ELSE holds[u]]
  /\ overwritten' = FALSE
  /\ UNCHANGED <<handing, traTask>>

(* The first waiter is exclusive: reply to it, ... *)
UnlockToExclusive(t) ==
  LET w == Head(waiters) IN
  /\ nest - 1 = 0 /\ waiters # <<>> /\ ~IsShared(w)
  /\ state' = "exclusive"
  /\ owner' = None
  /\ nest' = 1
  /\ waiters' = Tail(waiters)
  /\ pc' = [pc EXCEPT ![w] = "run"]
  /\ handing' = w
  /\ traTask' = w
  /\ holds' = [holds EXCEPT ![t] = @ - 1, ![w] = @ + 1]
  /\ overwritten' = FALSE

UnlockAtom(t, destroy) ==
  /\ MayAsk(t) /\ holds[t] > 0
  /\ \/ UnlockNested(t)
     \/ destroy /\ UnlockDestroy(t)
     \/ ~destroy /\ (UnlockFree(t) \/ UnlockToShared(t) \/ UnlockToExclusive(t))
  /\ mode' = [u \in Task |-> IF holds'[u] = 0 /\ pc'[u] # "wait" THEN "none"
                             ELSE mode[u]]

(* ... and then make the task its request names the owner. *)
SetOwner ==
  /\ handing # None
  /\ owner' = traTask
  /\ handing' = None
  /\ traTask' = None
  /\ UNCHANGED <<state, nest, waiters, mode, pc, holds, overwritten>>
-----------------------------------------------------------------------------
(* t writes a request of another kind to its tsk_Request: in place of      *)
(* tra_Task there is the task it wants to join (trt_Task), or something    *)
(* else.                                                                   *)
OtherRequest(t, x) ==
  /\ pc[t] = "run" /\ x # t
  /\ traTask' = IF handing = t THEN x ELSE traTask
  /\ overwritten' = (overwritten \/ handing = t)
  /\ pc' = [pc EXCEPT ![t] = "else"]
  /\ UNCHANGED <<state, owner, nest, waiters, mode, handing, holds>>

OtherReply(t) ==
  /\ pc[t] = "else" /\ handing = None
  /\ pc' = [pc EXCEPT ![t] = "run"]
  /\ UNCHANGED <<state, owner, nest, waiters, mode, handing, traTask, holds,
                 overwritten>>

TaskNext(t) ==
  \/ \E m \in {"shared", "exclusive"} : LockAtom(t, m)
  \/ \E destroy \in BOOLEAN : UnlockAtom(t, destroy)
  \/ \E x \in Task \cup {Garbage} : OtherRequest(t, x)
  \/ OtherReply(t)

Next == SetOwner \/ \E t \in Task : TaskNext(t)

Spec == Init /\ [][Next]_vars

(* The exec task runs, and an exclusive holder does not nest for ever: if  *)
(* there is one at some level again and again, it eventually unlocks.      *)
Fairness ==
  /\ WF_vars(SetOwner)
  /\ \A t \in Task : WF_vars(OtherReply(t))
  /\ \A k \in 1..MaxNest :
       SF_vars(/\ state = "exclusive" /\ nest = k
               /\ \E t \in Task, destroy \in BOOLEAN : UnlockAtom(t, destroy))

FairSpec == Spec /\ Fairness
-----------------------------------------------------------------------------
TypeOK ==
  /\ state \in {"absent", "free", "exclusive", "shared"}
  /\ owner \in Task \cup {None, Garbage}
  /\ nest \in Nat
  /\ waiters \in Seq(Task)
  /\ mode \in [Task -> {"none", "shared", "exclusive"}]
  /\ handing \in Task \cup {None}
  /\ traTask \in Task \cup {None, Garbage}
  /\ pc \in [Task -> {"run", "wait", "else"}]
  /\ holds \in [Task -> Nat]
  /\ overwritten \in BOOLEAN

Holders == {t \in Task : holds[t] > 0}

(* Tasks hold an atom together only if all of them have asked for it       *)
(* shared.                                                                 *)
MutualExclusion ==
  \A t, u \in Holders : t # u => mode[t] = "shared" /\ mode[u] = "shared"

(* The exec task only has to read the request of a waiter that it hands    *)
(* the atom to before the waiter overwrites it: then nobody else gets in   *)
(* until the atom is given back.                                           *)
ExclusionInTime == ~overwritten => MutualExclusion

(* The locks that are held, each task's by number. *)
LocksHeld == UNION {{t} \X (1..holds[t]) : t \in Task}

(* The nesting count is the number of locks held: an atom is neither       *)
(* freed, nor destroyed, nor handed on under a holder, and no unlock is    *)
(* missing for its release.                                                *)
NestIsHolds == nest = Cardinality(LocksHeld)

(* Whoever waits is queued, once, and waits for somebody who holds it.     *)
WaiterIsServed ==
  /\ \A t \in Task : pc[t] = "wait" <=> Contains(waiters, t)
  /\ IsInjective(waiters)
  /\ waiters # <<>> => Holders # {}

(* The nesting count of an atom is the number of its locks, and whoever    *)
(* waits for it is queued behind a holder, whether or not the wrong task   *)
(* has been made the owner.                                                *)
AtomIsConsistent == NestIsHolds /\ WaiterIsServed

(* A task that waits to share the atom gets it, or is refused because the  *)
(* atom is destroyed, with two exceptions.  A task that has created the    *)
(* atom is not recorded as its owner, and if it locks the atom again it    *)
(* waits for itself, and everybody after it.  And if the owner was read    *)
(* too late and the wrong task has got in, the two can take turns for      *)
(* ever.                                                                   *)
SelfWait == \E t \in Task : pc[t] = "wait" /\ holds[t] > 0
WaitsToShare(t) ==
  pc[t] = "wait" /\ mode[t] = "shared" /\ ~SelfWait /\ ~overwritten
=============================================================================
