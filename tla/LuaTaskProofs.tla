---------------------------- MODULE LuaTaskProofs ----------------------------
(***************************************************************************)
(* Proofs about Lua tasks: in LuaTask, for any set of tasks and families   *)
(* of any shape, a task outlives its children, and only a finished task    *)
(* without children is freed; in LuaMsg, for any names and queues, a name  *)
(* leads to a task that is there, and no message is overslept; and in      *)
(* LuaServer, for any number of intervals, their ids are kept apart, and   *)
(* the server waits without end only if nothing is due before NO_TIMEOUT.  *)
(* The last two are also stated of LuaTasks, where TLC checks them.        *)
(***************************************************************************)
EXTENDS LuaTasks, Integers, WellFoundedInduction, TLAPS

(* The tasks in use form a tree: all but Root have a parent that is still  *)
(* there, and unused memory has none.                                      *)
FamilyIsTree ==
  /\ stage[Root] # "none" /\ parent[Root] = None
  /\ \A c \in Task : IF stage[c] = "none" \/ c = Root THEN parent[c] = None
                     ELSE /\ parent[c] \in Task
                          /\ stage[parent[c]] \in {"run", "error", "close"}

(* A task joins its own children, in Lua code or in lua_close.             *)
JoinsOwnChild ==
  \A t \in Task : joining[t] # None =>
    parent[joining[t]] = t /\ stage[t] \in {"run", "close"}

(* The signal of the reply means that the request has been answered, and   *)
(* that the child has finished.                                            *)
SingleIsReply ==
  \A t \in Task : "single" \in sig[t] =>
    /\ joining[t] # None /\ t \notin requests
    /\ stage[joining[t]] = "finished"

(* The inductive invariant. *)
IInv == TypeOK /\ FamilyIsTree /\ JoinsOwnChild /\ SingleIsReply

(* What every lemma needs to know of the constants and the helpers.        *)
USE RootAssumption, NoneAssumption
    DEF Become, Aborted, Runs, childvars, joinvars, Children

(* The main program alone satisfies the invariant, ...                     *)
LEMMA InitIInv == Init => IInv
<1> SUFFICES ASSUME Init PROVE IInv
  OBVIOUS
<1>1. TypeOK
  BY DEF Init, TypeOK
<1>2. FamilyIsTree /\ JoinsOwnChild /\ SingleIsReply
  BY DEF Init, FamilyIsTree, JoinsOwnChild, SingleIsReply
<1>3. QED
  BY <1>1, <1>2 DEF IInv

(* ... a new child preserves it, ... *)
LEMMA RunIInv ==
  ASSUME IInv, NEW t \in Task, NEW c \in Task, NEW abort \in BOOLEAN,
         Run(t, c, abort)
  PROVE  IInv'
<1> USE DEF Run
<1>1. TypeOK'
  <2>1. stage' \in [Task -> {"none", "run", "error", "close", "exit", "finished",
                             "gone"}]
    BY DEF IInv, TypeOK
  <2>2. parent' \in [Task -> Task \cup {None}] /\ propagate' \in [Task -> BOOLEAN]
    BY DEF IInv, TypeOK
  <2>3. hooked' \in [Task -> BOOLEAN]
    <3> DEFINE b == hooked[t] \/ abort
    <3>1. hooked \in [Task -> BOOLEAN]
      BY DEF IInv, TypeOK
    <3>2. b \in BOOLEAN
      BY Zenon
    <3>3. hooked' = [hooked EXCEPT ![c] = TRUE, ![t] = b]
      OBVIOUS
    <3> HIDE DEF b
    <3>4. QED
      BY ONLY <3>1, <3>2, <3>3
  <2>4. /\ {failed, sigparent, aborted}' \subseteq [Task -> BOOLEAN]
        /\ sig' \in [Task -> SUBSET {"abort", "single"}]
        /\ joining' \in [Task -> Task \cup {None}]
    BY DEF IInv, TypeOK
  <2>5. /\ requests' \subseteq {u \in Task : joining'[u] # None}
        /\ \A u \in Task : aborted'[u] => sigparent'[u]
    BY DEF IInv, TypeOK
  <2>6. {propagate, hooked, failed, sigparent, aborted}' \subseteq [Task -> BOOLEAN]
    BY ONLY <2>2, <2>3, <2>4
  <2>7. QED
    BY ONLY <2>1, <2>2, <2>4, <2>5, <2>6 DEF TypeOK
<1>2. FamilyIsTree'
  BY DEF IInv, TypeOK, FamilyIsTree
<1>3. JoinsOwnChild' /\ SingleIsReply'
  BY DEF IInv, TypeOK, FamilyIsTree, JoinsOwnChild, SingleIsReply
<1>4. QED
  BY <1>1, <1>2, <1>3 DEF IInv

(* ... so does a step that only moves a task on, from one stage to another *)
(* in which it may not be joining, and sends aborts, ...                   *)
LEMMA MoveIInv ==
  ASSUME IInv, NEW t \in Task, NEW s \in {"run", "error", "close", "exit",
                                          "finished", "gone"},
         Become(t, s), joining[t] = None,
         stage[t] \in {"run", "error", "close", "exit"},
         s \in {"run", "error", "close"} \/ Children(t) = {},
         sig' \in [Task -> SUBSET {"abort", "single"}],
         \A u \in Task : "single" \in sig'[u] => "single" \in sig[u],
         failed' \in [Task -> BOOLEAN],
         UNCHANGED <<parent, propagate, hooked, joinvars>>
  PROVE  IInv'
<1>1. TypeOK'
  <2>1. stage' \in [Task -> {"none", "run", "error", "close", "exit", "finished",
                             "gone"}]
    BY DEF IInv, TypeOK
  <2>2. QED
    BY <2>1 DEF IInv, TypeOK
<1>2. FamilyIsTree'
  BY DEF IInv, TypeOK, FamilyIsTree
<1>3. JoinsOwnChild'
  BY DEF IInv, TypeOK, JoinsOwnChild
<1>4. SingleIsReply'
  BY DEF IInv, TypeOK, SingleIsReply
<1>5. QED
  BY <1>1, <1>2, <1>3, <1>4 DEF IInv

(* ... which are most of them; ... *)
LEMMA StageIInv ==
  ASSUME IInv, NEW t \in Task,
         RunHook(t) \/ WaitAborted(t) \/ Catch(t) \/ Fail(t) \/ Finish(t)
         \/ Closed(t) \/ Exit(t)
  PROVE  IInv'
<1>1. joining[t] = None
  BY DEF IInv, JoinsOwnChild, RunHook, WaitAborted, Catch, Fail, Finish, Closed, Exit
<1>2. stage[t] = "exit" => Children(t) = {}
  BY DEF IInv, FamilyIsTree
<1>3. sig \in [Task -> SUBSET {"abort", "single"}] /\ failed \in [Task -> BOOLEAN]
  BY DEF IInv, TypeOK
<1>4. CASE RunHook(t) \/ WaitAborted(t)
  BY <1>1, <1>3, <1>4, MoveIInv DEF RunHook, WaitAborted, CheckAbort
<1>5. CASE Catch(t) \/ Finish(t)
  BY <1>1, <1>3, <1>5, MoveIInv DEF Catch, Finish
<1>6. CASE Fail(t)
  BY <1>1, <1>3, <1>6, MoveIInv DEF Fail
<1>7. CASE Closed(t)
  <2>1. PICK s \in {"exit", "gone"} : Become(t, s)
    BY <1>7 DEF Closed
  <2>2. QED
    BY <1>1, <1>3, <1>7, <2>1, MoveIInv DEF Closed
<1>8. CASE Exit(t)
  <2>1. /\ sig' \in [Task -> SUBSET {"abort", "single"}]
        /\ \A u \in Task : "single" \in sig'[u] => "single" \in sig[u]
    <3>1. CASE sig' = sig
      BY <1>3, <3>1
    <3>2. CASE sig' = Aborted({parent[t]})
      BY <1>3, <3>2
    <3>3. QED
      BY <1>8, <3>1, <3>2 DEF Exit
  <2>2. /\ stage[t] = "exit" /\ Become(t, "finished")
        /\ UNCHANGED <<parent, propagate, hooked, failed, joinvars>>
    BY <1>8 DEF Exit
  <2>3. QED
    BY <1>1, <1>2, <1>3, <2>1, <2>2, MoveIInv
<1>9. QED
  BY <1>4, <1>5, <1>6, <1>7, <1>8

(* ... an abort sent by anybody, ... *)
LEMMA SignalIInv ==
  ASSUME IInv, NEW t \in Task, NEW u \in Task, Signal(t, u)
  PROVE  IInv'
<1> USE DEF Signal
<1>1. TypeOK'
  BY DEF IInv, TypeOK
<1>2. FamilyIsTree' /\ JoinsOwnChild' /\ SingleIsReply'
  BY DEF IInv, TypeOK, FamilyIsTree, JoinsOwnChild, SingleIsReply
<1>3. QED
  BY <1>1, <1>2 DEF IInv

(* ... the beginning of a join, ... *)
LEMMA BeginJoinIInv ==
  ASSUME IInv, NEW t \in Task, NEW c \in Task, NEW send \in BOOLEAN,
         NEW up \in BOOLEAN, stage[t] \in {"run", "close"},
         BeginJoin(t, c, send, up)
  PROVE  IInv'
<1> USE DEF BeginJoin
<1>1. TypeOK'
  BY DEF IInv, TypeOK
<1>2. FamilyIsTree'
  BY DEF IInv, TypeOK, FamilyIsTree
<1>3. JoinsOwnChild'
  BY DEF IInv, TypeOK, JoinsOwnChild
<1>4. SingleIsReply'
  BY DEF IInv, TypeOK, SingleIsReply
<1>5. QED
  BY <1>1, <1>2, <1>3, <1>4 DEF IInv

(* ... the reply, ... *)
LEMMA ReplyIInv ==
  ASSUME IInv, NEW t \in Task, Reply(t)
  PROVE  IInv'
<1> USE DEF Reply
<1>1. TypeOK'
  BY DEF IInv, TypeOK
<1>2. FamilyIsTree' /\ JoinsOwnChild' /\ SingleIsReply'
  BY DEF IInv, TypeOK, FamilyIsTree, JoinsOwnChild, SingleIsReply
<1>3. QED
  BY <1>1, <1>2 DEF IInv

(* ... an abort taken while joining, ... *)
LEMMA JoinAbortedIInv ==
  ASSUME IInv, NEW t \in Task, JoinAborted(t)
  PROVE  IInv'
<1> USE DEF JoinAborted, Forward
<1>1. TypeOK'
  <2>1. sig' \in [Task -> SUBSET {"abort", "single"}]
    BY DEF IInv, TypeOK
  <2>2. aborted' \in [Task -> BOOLEAN] /\ \A u \in Task : aborted'[u] => sigparent[u]
    BY DEF IInv, TypeOK
  <2>3. QED
    BY <2>1, <2>2 DEF IInv, TypeOK
<1>2. FamilyIsTree' /\ JoinsOwnChild'
  BY DEF IInv, FamilyIsTree, JoinsOwnChild
<1>3. SingleIsReply'
  <2>1. \A u \in Task : "single" \in sig'[u] => "single" \in sig[u]
    BY DEF IInv, TypeOK
  <2>2. QED
    BY <2>1 DEF IInv, SingleIsReply
<1>4. QED
  BY <1>1, <1>2, <1>3 DEF IInv

(* ... and the end of a join, when the child, which has no children of its *)
(* own left, is freed.                                                     *)
LEMMA JoinRepliedIInv ==
  ASSUME IInv, NEW t \in Task, JoinReplied(t)
  PROVE  IInv'
<1> USE DEF JoinReplied, JoinEnds
<1> DEFINE c == joining[t]
<1>1. /\ c \in Task /\ c # t /\ c # Root /\ parent[c] = t
      /\ stage[c] = "finished" /\ stage[t] \in {"run", "close"}
  BY DEF IInv, TypeOK, FamilyIsTree, JoinsOwnChild, SingleIsReply
<1>2. joining[c] = None /\ \A u \in Task : parent[u] # c
  BY <1>1 DEF IInv, TypeOK, FamilyIsTree, JoinsOwnChild
<1>3. /\ stage'[c] = "none" /\ parent'[c] = None
      /\ stage'[t] \in {"run", "error", "close"}
      /\ \A u \in Task \ {c, t} : stage'[u] = stage[u]
      /\ \A u \in Task \ {c} : parent'[u] = parent[u]
  BY <1>1 DEF IInv, TypeOK
<1>4. TypeOK'
  <2>1. stage' \in [Task -> {"none", "run", "error", "close", "exit", "finished",
                             "gone"}]
    BY <1>1 DEF IInv, TypeOK
  <2>2. sig' \in [Task -> SUBSET {"abort", "single"}]
    BY DEF IInv, TypeOK
  <2>3. parent' \in [Task -> Task \cup {None}] /\ joining' \in [Task -> Task \cup {None}]
    BY <1>1 DEF IInv, TypeOK
  <2>4. {propagate, hooked, failed, sigparent, aborted}' \subseteq [Task -> BOOLEAN]
    BY <1>1 DEF IInv, TypeOK
  <2>5. t \notin requests
    BY DEF IInv, SingleIsReply
  <2>6. requests' \subseteq {u \in Task : joining'[u] # None}
    BY <2>5 DEF IInv, TypeOK
  <2>7. \A u \in Task : aborted'[u] => sigparent'[u]
    BY DEF IInv, TypeOK
  <2>8. QED
    BY <2>1, <2>2, <2>3, <2>4, <2>6, <2>7 DEF TypeOK
<1>5. FamilyIsTree'
  BY <1>1, <1>2, <1>3 DEF IInv, TypeOK, FamilyIsTree
<1>6. /\ joining'[t] = None
      /\ \A u \in Task \ {t} : joining'[u] = joining[u] /\ joining[u] # c
  BY <1>1 DEF IInv, TypeOK, JoinsOwnChild
<1>7. JoinsOwnChild'
  BY <1>1, <1>2, <1>3, <1>6 DEF IInv, TypeOK, JoinsOwnChild
<1>8. SingleIsReply'
  <2> SUFFICES ASSUME NEW u \in Task, "single" \in sig'[u]
               PROVE  /\ joining'[u] # None /\ u \notin requests'
                      /\ stage'[joining'[u]] = "finished"
    BY DEF SingleIsReply
  <2>1. u # t /\ u # c /\ "single" \in sig[u]
    BY DEF IInv, TypeOK
  <2>2. joining'[u] = joining[u] /\ joining[u] # None /\ joining[u] \in Task
    BY <1>6, <2>1 DEF IInv, TypeOK, SingleIsReply
  <2>3. /\ stage[joining[u]] = "finished" /\ joining[u] \notin {c, t}
        /\ u \notin requests'
    BY <1>1, <1>6, <2>1 DEF IInv, SingleIsReply
  <2>4. QED
    BY <1>3, <2>2, <2>3, ZenonT(30)
<1>9. QED
  BY <1>4, <1>5, <1>7, <1>8 DEF IInv

(* Every step preserves the invariant, ... *)
LEMMA NextIInv == IInv /\ [Next]_vars => IInv'
<1> SUFFICES ASSUME IInv, [Next]_vars PROVE IInv'
  OBVIOUS
<1>1. ASSUME NEW t \in Task, NEW c \in Task, Join(t, c) \/ Abort(t, c) \/ Collect(t, c)
      PROVE  IInv'
  <2>1. propagate[c] \in BOOLEAN
    BY DEF IInv, TypeOK
  <2>2. QED
    BY <1>1, <2>1, BeginJoinIInv DEF Join, Abort, Collect
<1>2. CASE UNCHANGED vars
  BY <1>2 DEF vars, IInv, TypeOK, FamilyIsTree, JoinsOwnChild, SingleIsReply
<1>3. CASE Next
  BY <1>1, <1>3, RunIInv, StageIInv, SignalIInv, ReplyIInv, JoinAbortedIInv,
     JoinRepliedIInv DEF Next
<1>4. QED
  BY <1>2, <1>3

(* ... so it always holds. *)
THEOREM TaskInvariant == Spec => []IInv
  BY InitIInv, NextIInv, PTL DEF Spec

(* A parent's Lua state is there as long as a child may signal through it. *)
THEOREM ParentOutlivesHolds == Spec => []ParentOutlives
<1>1. IInv => ParentOutlives
  BY DEF IInv, FamilyIsTree, ParentOutlives
<1>2. QED
  BY TaskInvariant, <1>1, PTL

(* A task is freed only when it and all of its children have finished.     *)
THEOREM OnlyFinishedIsFreedHolds == Spec => OnlyFinishedIsFreed
<1>1. IInv /\ [Next]_vars =>
        [\A c \in Task : stage[c] # "none" /\ stage'[c] = "none" =>
           stage[c] = "finished" /\ Children(c) = {}]_vars
  <2> SUFFICES ASSUME IInv, Next, NEW c \in Task,
                      stage[c] # "none", stage'[c] = "none"
               PROVE  stage[c] = "finished" /\ Children(c) = {}
    OBVIOUS
  <2>1. PICK t \in Task : JoinReplied(t)
    <3>1. ASSUME NEW u \in Task, NEW s \in {"run", "error", "close", "exit",
                                            "finished", "gone"}, Become(u, s)
          PROVE  FALSE
      BY <3>1 DEF IInv, TypeOK
    <3>2. stage' # stage
      OBVIOUS
    <3>3. ASSUME NEW u \in Task, NEW d \in Task, NEW abort \in BOOLEAN
          PROVE  ~Run(u, d, abort) /\ ~Signal(u, d)
      BY <3>1, <3>2 DEF Run, Signal
    <3>4. ASSUME NEW u \in Task
          PROVE  ~RunHook(u) /\ ~WaitAborted(u) /\ ~Catch(u) /\ ~Fail(u) /\ ~Finish(u)
      BY <3>1 DEF RunHook, WaitAborted, CheckAbort, Catch, Fail, Finish
    <3>5. ASSUME NEW u \in Task
          PROVE  ~Closed(u) /\ ~Exit(u)
      BY <3>1 DEF Closed, Exit
    <3>6. ASSUME NEW u \in Task, NEW d \in Task
          PROVE  ~Join(u, d) /\ ~Abort(u, d) /\ ~Collect(u, d)
      BY <3>2 DEF Join, Abort, Collect, BeginJoin
    <3>7. ASSUME NEW u \in Task
          PROVE  ~Reply(u) /\ ~JoinAborted(u)
      BY <3>2 DEF Reply, JoinAborted, Forward
    <3>8. QED
      BY <3>3, <3>4, <3>5, <3>6, <3>7 DEF Next
  <2>2. c = joining[t]
    BY <2>1 DEF IInv, TypeOK, JoinReplied, JoinEnds
  <2>3. stage[c] = "finished"
    BY <2>1, <2>2 DEF IInv, SingleIsReply, JoinReplied
  <2>4. QED
    BY <2>3 DEF IInv, FamilyIsTree
<1>2. QED
  BY TaskInvariant, <1>1, PTL DEF Spec, OnlyFinishedIsFreed

(* The same of the module that TLC checks, where there may be no family.   *)
THEOREM TasksFamilyInvariant ==
  AllSpec => []((part = "family" => IInv) /\ (part # "family" => NoFamily))
<1>1. AllInit => (part = "family" => IInv) /\ (part # "family" => NoFamily)
  BY InitIInv DEF AllInit
<1>2. /\ (part = "family" => IInv) /\ (part # "family" => NoFamily)
      /\ [AllNext]_allvars
      => ((part = "family" => IInv) /\ (part # "family" => NoFamily))'
  <2> SUFFICES ASSUME part = "family" => IInv, part # "family" => NoFamily,
                      [AllNext]_allvars
               PROVE  /\ part' = "family" => IInv'
                      /\ part' # "family" => NoFamily'
    OBVIOUS
  <2>1. part' = part
    BY DEF AllNext, allvars
  <2>2. CASE part = "family"
    <3>1. [Next]_vars
      BY <2>2 DEF AllNext, allvars
    <3>2. QED
      BY <2>1, <2>2, <3>1, NextIInv
  <2>3. CASE part # "family"
    <3>1. UNCHANGED vars
      BY <2>3 DEF AllNext, allvars
    <3>2. QED
      BY <2>1, <2>3, <3>1 DEF NoFamily, vars
  <2>4. QED
    BY <2>2, <2>3
<1>3. QED
  BY <1>1, <1>2, PTL DEF AllSpec

(* There, too, a parent's Lua state outlives its children.                 *)
THEOREM TasksParentOutlives == AllSpec => []ParentOutlives
<1>1. (part = "family" => IInv) /\ (part # "family" => NoFamily) => ParentOutlives
  BY DEF IInv, FamilyIsTree, ParentOutlives, NoFamily
<1>2. QED
  BY TasksFamilyInvariant, <1>1, PTL

(* The lemmas that follow are about other modules.                         *)
HIDE DEF Become, Aborted, Runs, childvars, joinvars, Children
-----------------------------------------------------------------------------
(* Tasks are there as long as their children; all have a name, and only    *)
(* the main program, which is "main", is gone without having been joined.  *)
SendersFamily ==
  /\ mstage[Root] \in {"run", "close", "gone"} /\ opened[Root] /\ name[Root] = Main
  /\ \A c \in Task :
       /\ mstage[c] # "none" => name[c] # None
       /\ c # Root => mstage[c] # "gone"
       /\ IF mstage[c] = "none" \/ c = Root THEN mparent[c] = None
          ELSE mparent[c] \in Task /\ mstage[mparent[c]] = "run"

(* Only running Lua code is in a call.  One that creates a task waits for  *)
(* it; and one that has found a task holds a reference of the task's name, *)
(* or the task is its parent or child.                                     *)
CallsAreInPlace ==
  \A t \in Task :
    /\ pc[t].at # "idle" => mstage[t] = "run"
    /\ pc[t].at = "create" => /\ pc[t].task \in Task
                              /\ mparent[pc[t].task] = t /\ mstage[pc[t].task] = "init"
    /\ mstage[t] = "init" => pc[mparent[t]].at = "create" /\ pc[mparent[t]].task = t
    /\ pc[t].at \in {"found", "notify"} =>
         /\ pc[t].task \in Task
         /\ IF pc[t].ref = None
            THEN pc[t].task = mparent[t] \/ mparent[pc[t].task] = t
            ELSE t \in readers[pc[t].ref] /\ data[pc[t].ref] = pc[t].task

(* A name is held by those in a call that found a task by it.              *)
ReadersAreSending ==
  \A x \in Messages!Names, t \in Task :
    t \in readers[x] => pc[t].at \in {"found", "notify"} /\ pc[t].ref = x

(* A task waits for its own name to be free.                               *)
WaitersAreEnding ==
  \A t \in Task : waiting[t] # None =>
    Messages!Ends(t) /\ waiting[t] = Messages!LastName(t)

(* The names that lead to a task lead to one that has not finished; and    *)
(* its own name leads to a task, unless that is "main", which also leads   *)
(* to a task that opened the library after the main program left it.       *)
NamesAreOfTasks ==
  /\ \A x \in Messages!Names : data[x] # None =>
       \/ name[data[x]] = x /\ mstage[data[x]] \in {"run", "close", "exit"}
       \/ x = Main /\ opened[data[x]] /\ mstage[data[x]] \in {"run", "close"}
  /\ \A t \in Task : mstage[t] \in {"run", "close", "exit"} /\ name[t] # Main =>
       data[name[t]] = t

(* The inductive invariant. *)
MessageIInv ==
  /\ Messages!TypeOK /\ SendersFamily /\ CallsAreInPlace /\ ReadersAreSending
  /\ WaitersAreEnding /\ NamesAreOfTasks /\ NoLostMessage

(* The values of pc.                                                       *)
CallState == [at : {"idle", "create", "found", "notify", "look", "sleep"},
              task : Task \cup {None}, ref : Messages!Names \cup {None}]

(* The main program alone, by the name "main".                             *)
LEMMA MessageInitIInv == Messages!Init => MessageIInv
<1> SUFFICES ASSUME Messages!Init PROVE MessageIInv
  OBVIOUS
<1> USE MessageAssumption, RootAssumption, NoneAssumption DEF Messages!Init, Messages!Names, Messages!Idle
<1>1. Messages!TypeOK
  BY DEF Messages!TypeOK
<1>2. SendersFamily /\ CallsAreInPlace /\ ReadersAreSending
  BY DEF SendersFamily, CallsAreInPlace, ReadersAreSending
<1>3. WaitersAreEnding /\ NamesAreOfTasks
  BY DEF WaitersAreEnding, NamesAreOfTasks
<1>4. NoLostMessage
  BY DEF NoLostMessage, Messages!NoLostMessage
<1>5. QED
  BY <1>1, <1>2, <1>3, <1>4 DEF MessageIInv

(* Of the call that t is in, only the place changes; ...                   *)
LEMMA GotoIs ==
  ASSUME pc \in [Task -> CallState], NEW t \in Task,
         NEW label \in {"notify", "look", "sleep"}, Messages!Goto(t, label)
  PROVE  /\ pc' \in [Task -> CallState]
         /\ pc'[t].at = label /\ pc'[t].task = pc[t].task /\ pc'[t].ref = pc[t].ref
         /\ \A u \in Task : u # t => pc'[u] = pc[u]
<1>1. pc' = [pc EXCEPT ![t] = [pc[t] EXCEPT !.at = label]]
  BY DEF Messages!Goto
<1>2. pc[t] \in CallState
  OBVIOUS
<1>3. PICK r : r = [pc[t] EXCEPT !.at = label]
  OBVIOUS
<1>4. r \in CallState /\ r.at = label /\ r.task = pc[t].task /\ r.ref = pc[t].ref
  BY <1>2, <1>3 DEF CallState
<1>5. pc' = [pc EXCEPT ![t] = r]
  BY <1>1, <1>3
<1>6. QED
  BY <1>4, <1>5

(* ... or it is another call, or none.                                     *)
LEMMA CallIs ==
  ASSUME pc \in [Task -> CallState], NEW t \in Task,
         NEW a \in {"idle", "create", "found"}, NEW u \in Task \cup {None},
         NEW x \in Messages!Names \cup {None},
         pc' = [pc EXCEPT ![t] = [at |-> a, task |-> u, ref |-> x]]
  PROVE  /\ pc' \in [Task -> CallState]
         /\ pc'[t].at = a /\ pc'[t].task = u /\ pc'[t].ref = x
         /\ \A v \in Task : v # t => pc'[v] = pc[v]
<1>1. PICK r : r = [at |-> a, task |-> u, ref |-> x]
  OBVIOUS
<1>2. r \in CallState /\ r.at = a /\ r.task = u /\ r.ref = x
  BY <1>1 DEF CallState
<1>3. pc' = [pc EXCEPT ![t] = r]
  BY <1>1
<1>4. QED
  BY <1>2, <1>3

(* What a step of t leaves alone that is in a call, and in a state of its  *)
(* life.                                                                   *)
LEMMA CallSteps ==
  ASSUME MessageIInv, NEW t \in Task,
         UNCHANGED <<mstage, mparent, name, opened, data, waiting>>,
         pc' \in [Task -> CallState], queue' \in [Task -> 0..MaxQueue],
         msig' \in [Task -> BOOLEAN],
         \A u \in Task : u # t => pc'[u] = pc[u],
         mstage[t] = "run", pc[t].at # "create", pc'[t].at # "create",
         readers' \in [Messages!Names -> SUBSET Task],
         \A x \in Messages!Names, u \in Task :
           u # t => (u \in readers'[x] <=> u \in readers[x]),
         \A x \in Messages!Names :
           t \in readers'[x] <=> pc'[t].at \in {"found", "notify"} /\ pc'[t].ref = x,
         pc'[t].at \in {"found", "notify"} =>
           /\ pc'[t].task \in Task
           /\ IF pc'[t].ref = None
              THEN pc'[t].task = mparent[t] \/ mparent[pc'[t].task] = t
              ELSE data[pc'[t].ref] = pc'[t].task,
         NoLostMessage'
  PROVE  MessageIInv'
<1> USE DEF MessageIInv
<1>1. Messages!TypeOK'
  BY DEF Messages!TypeOK, CallState
<1>2. SendersFamily'
  BY DEF SendersFamily
<1>3. CallsAreInPlace'
  <2>1. ASSUME NEW u \in Task
        PROVE  /\ pc'[u].at # "idle" => mstage'[u] = "run"
               /\ pc'[u].at = "create" => /\ pc'[u].task \in Task
                                          /\ mparent'[pc'[u].task] = u
                                          /\ mstage'[pc'[u].task] = "init"
               /\ mstage'[u] = "init" => /\ pc'[mparent'[u]].at = "create"
                                         /\ pc'[mparent'[u]].task = u
    <3>1. mstage[u] = "init" => mparent[u] \in Task /\ mparent[u] # t
      BY DEF CallsAreInPlace, SendersFamily
    <3>2. QED
      BY <3>1 DEF CallsAreInPlace
  <2>2. ASSUME NEW u \in Task, pc'[u].at \in {"found", "notify"}
        PROVE  /\ pc'[u].task \in Task
               /\ IF pc'[u].ref = None
                  THEN pc'[u].task = mparent'[u] \/ mparent'[pc'[u].task] = u
                  ELSE u \in readers'[pc'[u].ref] /\ data'[pc'[u].ref] = pc'[u].task
    <3>1. pc'[u].ref \in Messages!Names \cup {None}
      BY DEF CallState
    <3>2. CASE u = t
      BY <2>2, <3>1, <3>2
    <3>3. CASE u # t
      BY <2>2, <3>1, <3>3 DEF CallsAreInPlace
    <3>4. QED
      BY <3>2, <3>3
  <2>3. QED
    BY <2>1, <2>2 DEF CallsAreInPlace
<1>4. ReadersAreSending'
  BY DEF ReadersAreSending, Messages!Names
<1>5. WaitersAreEnding'
  BY DEF WaitersAreEnding, Messages!Ends, Messages!LastName
<1>6. NamesAreOfTasks'
  BY DEF NamesAreOfTasks, Messages!Names
<1>7. QED
  BY <1>1, <1>2, <1>3, <1>4, <1>5, <1>6

(* A name is not None, nor "main" a task.                                  *)
LEMMA NamesAreNot ==
  /\ \A x \in Messages!Names : x # None
  /\ Main \in Messages!Names /\ Main \notin Task /\ None \notin Task
  BY MessageAssumption, NoneAssumption DEF Messages!Names

(* TPutMsg.                                                                *)
LEMMA PutMsgIInv == ASSUME MessageIInv, NEW t \in Task, Messages!PutMsg(t) PROVE MessageIInv'
<1> USE DEF MessageIInv
<1>p. PICK u : u = pc[t].task
  OBVIOUS
<1>1. /\ pc[t].at = "found" /\ u \in Task /\ mstage[t] = "run" /\ queue[u] < MaxQueue
      /\ queue' = [queue EXCEPT ![u] = queue[u] + 1]
      /\ UNCHANGED <<mstage, mparent, name, opened, data, readers, waiting, msig>>
  BY <1>p DEF Messages!PutMsg, Messages!life, Messages!names, CallsAreInPlace
<1>2. /\ pc \in [Task -> CallState] /\ queue \in [Task -> 0..MaxQueue]
      /\ msig \in [Task -> BOOLEAN] /\ readers \in [Messages!Names -> SUBSET Task]
  BY DEF Messages!TypeOK, CallState
<1>3. /\ pc' \in [Task -> CallState]
      /\ pc'[t].at = "notify" /\ pc'[t].task = u /\ pc'[t].ref = pc[t].ref
      /\ \A v \in Task : v # t => pc'[v] = pc[v]
  BY <1>p, <1>2, GotoIs DEF Messages!PutMsg
<1>4. queue' \in [Task -> 0..MaxQueue] /\ \A v \in Task : v # u => queue'[v] = queue[v]
  BY <1>1, <1>2, MessageAssumption
<1>5. /\ \A x \in Messages!Names :
           t \in readers'[x] <=> pc'[t].at \in {"found", "notify"} /\ pc'[t].ref = x
      /\ IF pc'[t].ref = None THEN pc'[t].task = mparent[t] \/ mparent[pc'[t].task] = t
         ELSE data[pc'[t].ref] = pc'[t].task
  BY <1>p, <1>1, <1>3, NamesAreNot DEF CallsAreInPlace, ReadersAreSending
<1>6. NoLostMessage'
  BY <1>1, <1>3, <1>4 DEF NoLostMessage, Messages!NoLostMessage
<1>7. QED
  BY <1>1, <1>2, <1>3, <1>4, <1>5, <1>6, CallSteps

(* The signal, and the end of the call.                                    *)
LEMMA MsgSignalIInv == ASSUME MessageIInv, NEW t \in Task, Messages!Signal(t) PROVE MessageIInv'
<1> USE DEF MessageIInv
<1>p. PICK u : u = pc[t].task
  OBVIOUS
<1>1. /\ pc[t].at \in {"found", "notify"} /\ u \in Task /\ mstage[t] = "run"
      /\ msig' = [msig EXCEPT ![u] = TRUE]
      /\ UNCHANGED <<mstage, mparent, name, opened, data, waiting, queue>>
      /\ readers' = [x \in Messages!Names |-> IF x = pc[t].ref THEN readers[x] \ {t} ELSE readers[x]]
      /\ pc' = [pc EXCEPT ![t] = [at |-> "idle", task |-> None, ref |-> None]]
  BY <1>p DEF Messages!Signal, Messages!life, CallsAreInPlace, Messages!Return, Messages!Idle
<1>2. /\ pc \in [Task -> CallState] /\ queue \in [Task -> 0..MaxQueue]
      /\ msig \in [Task -> BOOLEAN] /\ readers \in [Messages!Names -> SUBSET Task]
  BY DEF Messages!TypeOK, CallState
<1>3. /\ pc' \in [Task -> CallState] /\ pc'[t].at = "idle"
      /\ \A v \in Task : v # t => pc'[v] = pc[v]
  BY <1>1, <1>2, CallIs
<1>4. msig' \in [Task -> BOOLEAN] /\ msig'[u] /\ \A v \in Task : msig[v] => msig'[v]
  BY <1>1, <1>2
<1>5. /\ readers' \in [Messages!Names -> SUBSET Task]
      /\ \A x \in Messages!Names, v \in Task : v # t => (v \in readers'[x] <=> v \in readers[x])
      /\ \A x \in Messages!Names : t \notin readers'[x]
  BY <1>1, <1>2 DEF ReadersAreSending
<1>6. NoLostMessage'
  BY <1>p, <1>1, <1>3, <1>4 DEF NoLostMessage, Messages!NoLostMessage
<1>7. QED
  BY <1>1, <1>2, <1>3, <1>4, <1>5, <1>6, CallSteps

(* tek_lib_exec_locktask.                                                  *)
LEMMA LockTaskIInv ==
  ASSUME MessageIInv, NEW t \in Task, NEW x \in Messages!Names, Messages!LockTask(t, x)
  PROVE  MessageIInv'
<1> USE DEF MessageIInv
<1>p. PICK u : u = data[x]
  OBVIOUS
<1>1. /\ pc[t].at = "idle" /\ u \in Task /\ mstage[t] = "run"
      /\ UNCHANGED <<mstage, mparent, name, opened, data, waiting, queue, msig>>
      /\ readers' = [readers EXCEPT ![x] = readers[x] \cup {t}]
      /\ pc' = [pc EXCEPT ![t] = [at |-> "found", task |-> u, ref |-> x]]
  BY <1>p, MessageAssumption
     DEF Messages!LockTask, Messages!life, Messages!Calls, Messages!Found, Messages!Idle
<1>2. /\ pc \in [Task -> CallState] /\ queue \in [Task -> 0..MaxQueue]
      /\ msig \in [Task -> BOOLEAN] /\ readers \in [Messages!Names -> SUBSET Task]
  BY DEF Messages!TypeOK, CallState
<1>3. /\ pc' \in [Task -> CallState]
      /\ pc'[t].at = "found" /\ pc'[t].task = u /\ pc'[t].ref = x
      /\ \A v \in Task : v # t => pc'[v] = pc[v]
  BY <1>1, <1>2, CallIs
<1>4. /\ readers' \in [Messages!Names -> SUBSET Task]
      /\ \A y \in Messages!Names, v \in Task : v # t => (v \in readers'[y] <=> v \in readers[y])
      /\ \A y \in Messages!Names : t \in readers'[y] <=> y = x
  BY <1>1, <1>2 DEF ReadersAreSending
<1>5. NoLostMessage'
  BY <1>1, <1>3 DEF NoLostMessage, Messages!NoLostMessage
<1>6. QED
  BY <1>p, <1>1, <1>2, <1>3, <1>4, <1>5, NamesAreNot, CallSteps

(* The parent, or a child by its handle.                                   *)
LEMMA RelativeIInv ==
  ASSUME MessageIInv, NEW t \in Task, NEW u \in Task, Messages!Relative(t, u)
  PROVE  MessageIInv'
<1> USE DEF MessageIInv
<1>1. /\ pc[t].at = "idle" /\ mstage[t] = "run" /\ (u = mparent[t] \/ mparent[u] = t)
      /\ UNCHANGED <<mstage, mparent, name, opened, data, readers, waiting, queue, msig>>
      /\ pc' = [pc EXCEPT ![t] = [at |-> "found", task |-> u, ref |-> None]]
  BY DEF Messages!Relative, Messages!life, Messages!names, Messages!Calls, Messages!Found,
         Messages!Idle
<1>2. /\ pc \in [Task -> CallState] /\ queue \in [Task -> 0..MaxQueue]
      /\ msig \in [Task -> BOOLEAN] /\ readers \in [Messages!Names -> SUBSET Task]
  BY DEF Messages!TypeOK, CallState
<1>3. /\ pc' \in [Task -> CallState]
      /\ pc'[t].at = "found" /\ pc'[t].task = u /\ pc'[t].ref = None
      /\ \A v \in Task : v # t => pc'[v] = pc[v]
  BY <1>1, <1>2, CallIs
<1>4. \A y \in Messages!Names : t \notin readers[y] /\ y # None
  BY <1>1, NamesAreNot DEF ReadersAreSending
<1>5. NoLostMessage'
  BY <1>1, <1>3 DEF NoLostMessage, Messages!NoLostMessage
<1>6. QED
  BY <1>1, <1>2, <1>3, <1>4, <1>5, CallSteps

(* Steps of a task that reads its own messages.                            *)
LEMMA ReadSteps ==
  ASSUME MessageIInv, NEW t \in Task,
         UNCHANGED <<mstage, mparent, name, opened, data, readers, waiting>>,
         mstage[t] = "run", pc[t].at \in {"idle", "look", "sleep"},
         pc' \in [Task -> CallState], pc'[t].at \in {"idle", "look", "sleep"},
         \A u \in Task : u # t => pc'[u] = pc[u],
         queue' \in [Task -> 0..MaxQueue], msig' \in [Task -> BOOLEAN],
         \A u \in Task : u # t => queue'[u] = queue[u] /\ msig'[u] = msig[u],
         pc'[t].at = "sleep" => queue'[t] = 0
  PROVE  MessageIInv'
<1> USE DEF MessageIInv
<1>1. readers \in [Messages!Names -> SUBSET Task] /\ \A x \in Messages!Names : t \notin readers[x]
  BY DEF Messages!TypeOK, ReadersAreSending
<1>2. NoLostMessage'
  <2>1. ASSUME NEW u \in Task, pc'[u].at = "sleep", queue'[u] > 0
        PROVE  msig'[u] \/ \E v \in Task : pc'[v].at = "notify" /\ pc'[v].task = u
    <3>1. u # t
      BY <2>1
    <3>2. pc[u].at = "sleep" /\ queue[u] > 0 /\ msig'[u] = msig[u]
      BY <2>1, <3>1
    <3>3. msig[u] \/ \E v \in Task : pc[v].at = "notify" /\ pc[v].task = u
      BY <3>2 DEF NoLostMessage, Messages!NoLostMessage
    <3>4. QED
      BY <3>2, <3>3
  <2>2. QED
    BY <2>1 DEF NoLostMessage, Messages!NoLostMessage
<1>3. QED
  BY <1>1, <1>2, CallSteps

(* Exec.getmsg.                                                            *)
LEMMA GetMsgIInv ==
  ASSUME MessageIInv, NEW t \in Task, mstage[t] = "run", pc[t].at \in {"idle", "look", "sleep"},
         Messages!GetMsg(t)
  PROVE  MessageIInv'
<1> USE DEF MessageIInv
<1>1. /\ UNCHANGED <<mstage, mparent, name, opened, data, readers, waiting, msig>>
      /\ queue' = [queue EXCEPT ![t] = IF queue[t] > 0 THEN queue[t] - 1 ELSE 0]
      /\ pc' = [pc EXCEPT ![t] = [at |-> "idle", task |-> None, ref |-> None]]
  BY DEF Messages!GetMsg, Messages!life, Messages!names, Messages!Return, Messages!Idle
<1>2. /\ pc \in [Task -> CallState] /\ queue \in [Task -> 0..MaxQueue]
      /\ msig \in [Task -> BOOLEAN]
  BY DEF Messages!TypeOK, CallState
<1>3. /\ pc' \in [Task -> CallState] /\ pc'[t].at = "idle"
      /\ \A v \in Task : v # t => pc'[v] = pc[v]
  BY <1>1, <1>2, CallIs
<1>4. queue' \in [Task -> 0..MaxQueue] /\ \A u \in Task : u # t => queue'[u] = queue[u]
  BY <1>1, <1>2, MessageAssumption
<1>5. QED
  BY <1>1, <1>2, <1>3, <1>4, ReadSteps

(* Exec.waitmsg.                                                           *)
LEMMA LookIInv ==
  ASSUME MessageIInv, NEW t \in Task, mstage[t] = "run", pc[t].at \in {"idle", "look"},
         Messages!Look(t)
  PROVE  MessageIInv'
<1>1. CASE Messages!GetMsg(t)
  BY <1>1, GetMsgIInv
<1>2. CASE queue[t] = 0 /\ Messages!Goto(t, "sleep")
           /\ UNCHANGED <<Messages!life, Messages!names, queue, msig>>
  <2>1. /\ pc \in [Task -> CallState] /\ queue \in [Task -> 0..MaxQueue]
        /\ msig \in [Task -> BOOLEAN]
    BY DEF MessageIInv, Messages!TypeOK, CallState
  <2>2. QED
    BY <1>2, <2>1, GotoIs, ReadSteps DEF Messages!life, Messages!names
<1>3. QED
  BY <1>1, <1>2 DEF Messages!Look

(* The signal comes in.                                                    *)
LEMMA WakeUpIInv == ASSUME MessageIInv, NEW t \in Task, Messages!WakeUp(t) PROVE MessageIInv'
<1>1. /\ pc \in [Task -> CallState] /\ queue \in [Task -> 0..MaxQueue]
      /\ msig \in [Task -> BOOLEAN]
  BY DEF MessageIInv, Messages!TypeOK, CallState
<1>2. mstage[t] = "run" /\ pc[t].at = "sleep"
  BY DEF MessageIInv, CallsAreInPlace, Messages!WakeUp
<1>3. msig' \in [Task -> BOOLEAN] /\ \A u \in Task : u # t => msig'[u] = msig[u]
  BY <1>1 DEF Messages!WakeUp
<1>4. QED
  BY <1>1, <1>2, <1>3, GotoIs, ReadSteps DEF Messages!WakeUp, Messages!life, Messages!names

(* Exec.getsignals.                                                        *)
LEMMA GetSignalsIInv == ASSUME MessageIInv, NEW t \in Task, Messages!GetSignals(t) PROVE MessageIInv'
<1>1. /\ pc \in [Task -> CallState] /\ queue \in [Task -> 0..MaxQueue]
      /\ msig \in [Task -> BOOLEAN]
  BY DEF MessageIInv, Messages!TypeOK, CallState
<1>2. mstage[t] = "run" /\ pc[t].at = "idle"
  BY DEF Messages!GetSignals, Messages!Calls, Messages!Idle
<1>3. msig' \in [Task -> BOOLEAN] /\ \A u \in Task : u # t => msig'[u] = msig[u]
  BY <1>1 DEF Messages!GetSignals
<1>4. QED
  BY <1>1, <1>2, <1>3, ReadSteps DEF Messages!GetSignals, Messages!life, Messages!names

(* Exec.run begins.                                                        *)
LEMMA RunNamedIInv ==
  ASSUME MessageIInv, NEW t \in Task, NEW c \in Task, NEW x \in Name \cup {c},
         Messages!Run(t, c, x)
  PROVE  MessageIInv'
<1> USE NamesAreNot, NoneAssumption DEF MessageIInv
<1>1. /\ pc[t].at = "idle" /\ mstage[t] = "run" /\ mstage[c] = "none" /\ c # t /\ c # Root
      /\ pc[c].at = "idle"
      /\ UNCHANGED <<opened, data, readers, waiting, queue, msig>>
      /\ mstage' = [mstage EXCEPT ![c] = "init"]
      /\ mparent' = [mparent EXCEPT ![c] = t] /\ name' = [name EXCEPT ![c] = x]
      /\ pc' = [pc EXCEPT ![t] = [at |-> "create", task |-> c, ref |-> None]]
  BY DEF Messages!Run, Messages!Calls, Messages!Become, Messages!Idle, CallsAreInPlace, SendersFamily
<1>2. /\ pc \in [Task -> CallState] /\ name \in [Task -> Messages!Names \cup {None}]
      /\ mstage \in [Task -> {"none", "init", "run", "close", "exit", "finished", "gone"}]
      /\ mparent \in [Task -> Task \cup {None}]
      /\ x \in Messages!Names
  BY DEF Messages!TypeOK, CallState, Messages!Names
<1>3. /\ pc' \in [Task -> CallState] /\ pc'[t].at = "create" /\ pc'[t].task = c
      /\ \A u \in Task : u # t => pc'[u] = pc[u]
  BY <1>1, <1>2, CallIs, ZenonT(30)
<1>4. /\ mstage' \in [Task -> {"none", "init", "run", "close", "exit", "finished", "gone"}]
      /\ mparent' \in [Task -> Task \cup {None}] /\ name' \in [Task -> Messages!Names \cup {None}]
      /\ mstage'[c] = "init" /\ mparent'[c] = t /\ name'[c] = x
      /\ \A u \in Task : u # c => mstage'[u] = mstage[u] /\ mparent'[u] = mparent[u] /\ name'[u] = name[u]
  BY <1>1, <1>2
<1>5. Messages!TypeOK'
  BY <1>1, <1>3, <1>4 DEF Messages!TypeOK, CallState
<1>6. SendersFamily'
  BY <1>1, <1>2, <1>4 DEF SendersFamily
<1>7. CallsAreInPlace'
  <2>1. ASSUME NEW u \in Task
        PROVE  /\ pc'[u].at # "idle" => mstage'[u] = "run"
               /\ pc'[u].at = "create" => /\ pc'[u].task \in Task
                                          /\ mparent'[pc'[u].task] = u
                                          /\ mstage'[pc'[u].task] = "init"
    BY <1>1, <1>3, <1>4 DEF CallsAreInPlace
  <2>2. ASSUME NEW u \in Task, mstage'[u] = "init"
        PROVE  pc'[mparent'[u]].at = "create" /\ pc'[mparent'[u]].task = u
    <3>1. u # c => /\ mparent[u] \in Task /\ pc[mparent[u]].at = "create"
                   /\ pc[mparent[u]].task = u
      BY <1>1, <1>4, <2>2 DEF CallsAreInPlace, SendersFamily
    <3>2. QED
      BY <1>1, <1>3, <1>4, <3>1
  <2>3. ASSUME NEW u \in Task, pc'[u].at \in {"found", "notify"}
        PROVE  /\ pc'[u].task \in Task
               /\ IF pc'[u].ref = None
                  THEN pc'[u].task = mparent'[u] \/ mparent'[pc'[u].task] = u
                  ELSE u \in readers'[pc'[u].ref] /\ data'[pc'[u].ref] = pc'[u].task
    <3>1. u # t /\ u # c /\ pc'[u] = pc[u] /\ mparent[c] = None
      BY <1>1, <1>3, <2>3 DEF SendersFamily
    <3>2. QED
      BY <1>1, <1>4, <2>3, <3>1 DEF CallsAreInPlace
  <2>4. QED
    BY <2>1, <2>2, <2>3 DEF CallsAreInPlace
<1>8. ReadersAreSending'
  BY <1>1, <1>3 DEF ReadersAreSending, Messages!Names
<1>9. WaitersAreEnding'
  BY <1>1, <1>4 DEF WaitersAreEnding, Messages!Ends, Messages!LastName
<1>10. NamesAreOfTasks'
  BY <1>1, <1>2, <1>4 DEF NamesAreOfTasks, Messages!Names, Messages!TypeOK
<1>11. NoLostMessage'
  BY <1>1, <1>3 DEF NoLostMessage, Messages!NoLostMessage
<1>12. QED
  BY <1>5, <1>6, <1>7, <1>8, <1>9, <1>10, <1>11

(* Exec.run ends: t has its child c, or has none.                          *)
LEMMA RunEnds ==
  ASSUME MessageIInv, NEW c \in Task, mstage[c] = "init",
         NEW ok \in BOOLEAN,
         UNCHANGED <<opened, readers, waiting, queue, msig>>,
         mstage' = [mstage EXCEPT ![c] = IF ok THEN "run" ELSE "none"],
         mparent' = IF ok THEN mparent ELSE [mparent EXCEPT ![c] = None],
         name' = IF ok THEN name ELSE [name EXCEPT ![c] = None],
         data' = IF ok THEN [data EXCEPT ![name[c]] = c] ELSE data,
         ok => data[name[c]] = None,
         Messages!Return(mparent[c])
  PROVE  MessageIInv'
<1> USE NamesAreNot, NoneAssumption DEF MessageIInv
<1>p. PICK t : t = mparent[c]
  OBVIOUS
<1>1. /\ t \in Task /\ pc[t].at = "create" /\ pc[t].task = c /\ mstage[t] = "run"
      /\ c # t /\ c # Root /\ pc[c].at = "idle" /\ name[c] # None
      /\ pc' = [pc EXCEPT ![t] = [at |-> "idle", task |-> None, ref |-> None]]
  BY <1>p DEF Messages!Return, Messages!Idle, CallsAreInPlace, SendersFamily
<1>2. /\ pc \in [Task -> CallState] /\ name \in [Task -> Messages!Names \cup {None}]
      /\ mstage \in [Task -> {"none", "init", "run", "close", "exit", "finished", "gone"}]
      /\ mparent \in [Task -> Task \cup {None}] /\ data \in [Messages!Names -> Task \cup {None}]
  BY DEF Messages!TypeOK, CallState
<1>n. PICK x : x = name[c]
  OBVIOUS
<1>3. /\ pc' \in [Task -> CallState] /\ pc'[t].at = "idle"
      /\ \A u \in Task : u # t => pc'[u] = pc[u]
  BY <1>1, <1>2, CallIs, ZenonT(30)
<1>4. /\ mstage' \in [Task -> {"none", "init", "run", "close", "exit", "finished", "gone"}]
      /\ mparent' \in [Task -> Task \cup {None}] /\ name' \in [Task -> Messages!Names \cup {None}]
      /\ IF ok THEN mstage'[c] = "run" /\ mparent'[c] = t /\ name'[c] = x
         ELSE mstage'[c] = "none" /\ mparent'[c] = None /\ name'[c] = None
      /\ \A u \in Task : u # c => mstage'[u] = mstage[u] /\ mparent'[u] = mparent[u] /\ name'[u] = name[u]
  BY <1>p, <1>n, <1>1, <1>2
<1>5. /\ data' \in [Messages!Names -> Task \cup {None}] /\ x \in Messages!Names
      /\ \A y \in Messages!Names : data'[y] = IF ok /\ y = x THEN c ELSE data[y]
      /\ ok => data[x] = None
  BY <1>n, <1>1, <1>2
<1>6. Messages!TypeOK'
  BY <1>1, <1>3, <1>4, <1>5 DEF Messages!TypeOK, CallState
<1>7. \A u \in Task : mparent[u] # c
  BY <1>1, <1>2 DEF SendersFamily
<1>8. SendersFamily'
  BY <1>1, <1>2, <1>4, <1>7 DEF SendersFamily
<1>9. CallsAreInPlace'
  <2>1. ASSUME NEW u \in Task
        PROVE  /\ pc'[u].at # "idle" => mstage'[u] = "run"
               /\ pc'[u].at = "create" => /\ pc'[u].task \in Task
                                          /\ mparent'[pc'[u].task] = u
                                          /\ mstage'[pc'[u].task] = "init"
    <3>1. pc'[u].at # "idle" => u # t /\ u # c /\ pc'[u] = pc[u]
      BY <1>1, <1>3
    <3>2. pc'[u].at = "create" => pc[u].task # c
      BY <1>p, <3>1 DEF CallsAreInPlace
    <3>3. QED
      BY <1>4, <3>1, <3>2 DEF CallsAreInPlace
  <2>2. ASSUME NEW u \in Task, mstage'[u] = "init"
        PROVE  pc'[mparent'[u]].at = "create" /\ pc'[mparent'[u]].task = u
    <3>1. /\ u # c /\ mparent[u] \in Task /\ pc[mparent[u]].at = "create"
          /\ pc[mparent[u]].task = u
      BY <1>1, <1>4, <2>2 DEF CallsAreInPlace, SendersFamily
    <3>2. QED
      BY <1>1, <1>3, <1>4, <3>1
  <2>3. ASSUME NEW u \in Task, pc'[u].at \in {"found", "notify"}
        PROVE  /\ pc'[u].task \in Task
               /\ IF pc'[u].ref = None
                  THEN pc'[u].task = mparent'[u] \/ mparent'[pc'[u].task] = u
                  ELSE u \in readers'[pc'[u].ref] /\ data'[pc'[u].ref] = pc'[u].task
    <3>1. u # t /\ u # c /\ pc'[u] = pc[u]
      BY <1>1, <1>3, <2>3
    <3>2. pc[u].ref \in Messages!Names \cup {None}
      BY <1>2 DEF CallState
    <3>3. pc[u].ref # None => data[pc[u].ref] = pc[u].task /\ pc[u].task # None
      BY <2>3, <3>1 DEF CallsAreInPlace
    <3>4. CASE pc[u].ref = None
      <4>1. pc[u].task = mparent[u] \/ mparent[pc[u].task] = u
        BY <2>3, <3>1, <3>4 DEF CallsAreInPlace
      <4>2. pc[u].task \in Task /\ (mparent[pc[u].task] = u => pc[u].task # c)
        BY <1>p, <2>3, <3>1 DEF CallsAreInPlace
      <4>3. QED
        BY <1>4, <3>1, <3>4, <4>1, <4>2
    <3>5. CASE pc[u].ref # None
      BY <1>5, <2>3, <3>1, <3>2, <3>3, <3>5 DEF CallsAreInPlace
    <3>6. QED
      BY <3>4, <3>5
  <2>4. QED
    BY <2>1, <2>2, <2>3 DEF CallsAreInPlace
<1>10. ReadersAreSending'
  BY <1>1, <1>3 DEF ReadersAreSending, Messages!Names
<1>11. WaitersAreEnding'
  BY <1>1, <1>4 DEF WaitersAreEnding, Messages!Ends, Messages!LastName
<1>12. NamesAreOfTasks'
  <2>1. ASSUME NEW y \in Messages!Names, data'[y] # None
        PROVE  \/ name'[data'[y]] = y /\ mstage'[data'[y]] \in {"run", "close", "exit"}
               \/ y = Main /\ opened[data'[y]] /\ mstage'[data'[y]] \in {"run", "close"}
    <3>1. CASE ok /\ y = x
      BY <1>4, <1>5, <3>1
    <3>2. CASE ~ (ok /\ y = x)
      <4>1. data'[y] = data[y] /\ data[y] \in Task /\ data[y] # c
        BY <1>2, <1>5, <2>1, <3>2 DEF NamesAreOfTasks
      <4>2. QED
        BY <1>4, <2>1, <4>1 DEF NamesAreOfTasks
    <3>3. QED
      BY <3>1, <3>2
  <2>2. ASSUME NEW u \in Task, mstage'[u] \in {"run", "close", "exit"}, name'[u] # Main
        PROVE  data'[name'[u]] = u
    <3>1. CASE u = c
      BY <1>4, <1>5, <2>2, <3>1
    <3>2. CASE u # c
      <4>1. data[name[u]] = u /\ name[u] \in Messages!Names
        BY <1>2, <1>4, <2>2, <3>2 DEF NamesAreOfTasks, SendersFamily
      <4>2. QED
        BY <1>4, <1>5, <3>2, <4>1
    <3>3. QED
      BY <3>1, <3>2
  <2>3. QED
    BY <2>1, <2>2 DEF NamesAreOfTasks, Messages!Names
<1>13. NoLostMessage'
  BY <1>1, <1>3 DEF NoLostMessage, Messages!NoLostMessage
<1>14. QED
  BY <1>6, <1>8, <1>9, <1>10, <1>11, <1>12, <1>13

(* TMSG_INITTASK.                                                          *)
LEMMA InitTaskIInv == ASSUME MessageIInv, NEW c \in Task, Messages!InitTask(c) PROVE MessageIInv'
  BY RunEnds DEF Messages!InitTask, Messages!Become

(* ... or not;                                                             *)
LEMMA InitTaskFailsIInv ==
  ASSUME MessageIInv, NEW c \in Task, Messages!InitTaskFails(c) PROVE MessageIInv'
  BY RunEnds DEF Messages!InitTaskFails, Messages!Become

(* luaopen_tek_lib_exec: the name "main" is taken if it is free.           *)
LEMMA OpenLibraryIInv ==
  ASSUME MessageIInv, NEW c \in Task, Messages!OpenLibrary(c) PROVE MessageIInv'
<1> USE NamesAreNot, NoneAssumption DEF MessageIInv
<1>1. /\ mstage[c] = "run" /\ ~opened[c]
      /\ UNCHANGED <<mstage, mparent, name, readers, waiting, queue, msig, pc>>
      /\ opened' = [opened EXCEPT ![c] = TRUE]
      /\ data' = IF data[Main] = None THEN [data EXCEPT ![Main] = c] ELSE data
  BY DEF Messages!OpenLibrary
<1>2. opened \in [Task -> BOOLEAN] /\ data \in [Messages!Names -> Task \cup {None}]
  BY DEF Messages!TypeOK
<1>3. /\ opened' \in [Task -> BOOLEAN] /\ opened'[c]
      /\ \A u \in Task : opened[u] => opened'[u]
      /\ data' \in [Messages!Names -> Task \cup {None}]
      /\ \A x \in Messages!Names : \/ data'[x] = data[x]
                                   \/ x = Main /\ data[x] = None /\ data'[x] = c
  BY <1>1, <1>2
<1>4. Messages!TypeOK'
  BY <1>1, <1>3 DEF Messages!TypeOK
<1>5. SendersFamily' /\ WaitersAreEnding'
  BY <1>1, <1>3, RootAssumption DEF SendersFamily, WaitersAreEnding, Messages!Ends, Messages!LastName
<1>6. CallsAreInPlace'
  <2>1. ASSUME NEW u \in Task, pc[u].at \in {"found", "notify"}, pc[u].ref # None
        PROVE  data'[pc[u].ref] = pc[u].task
    <3>1. pc[u].ref \in Messages!Names /\ data[pc[u].ref] = pc[u].task /\ pc[u].task \in Task
      BY <2>1 DEF CallsAreInPlace, Messages!TypeOK
    <3>2. QED
      BY <1>3, <3>1
  <2>2. QED
    BY <1>1, <2>1 DEF CallsAreInPlace
<1>7. ReadersAreSending' /\ NoLostMessage'
  BY <1>1 DEF ReadersAreSending, NoLostMessage, Messages!NoLostMessage, Messages!Names
<1>8. NamesAreOfTasks'
  <2>1. ASSUME NEW x \in Messages!Names, data'[x] # None
        PROVE  \/ name[data'[x]] = x /\ mstage[data'[x]] \in {"run", "close", "exit"}
               \/ x = Main /\ opened'[data'[x]] /\ mstage[data'[x]] \in {"run", "close"}
    <3>1. data'[x] \in Task
      BY <1>3, <2>1
    <3>2. QED
      BY <1>1, <1>3, <2>1, <3>1 DEF NamesAreOfTasks
  <2>2. ASSUME NEW u \in Task, mstage[u] \in {"run", "close", "exit"}, name[u] # Main
        PROVE  data'[name[u]] = u
    <3>1. name[u] \in Messages!Names /\ data[name[u]] = u
      BY <2>2 DEF NamesAreOfTasks, SendersFamily, Messages!TypeOK
    <3>2. QED
      BY <1>3, <2>2, <3>1
  <2>3. QED
    BY <1>1, <2>1, <2>2 DEF NamesAreOfTasks, Messages!Names
<1>9. QED
  BY <1>4, <1>5, <1>6, <1>7, <1>8

(* What a step of tasks that end leaves alone: they are in no call, and    *)
(* their names are not None.                                               *)
LEMMA LifeSteps ==
  ASSUME MessageIInv, NEW S \in SUBSET Task,
         UNCHANGED <<mparent, name, opened, readers, queue, msig, pc>>,
         mstage' \in [Task -> {"none", "init", "run", "close", "exit", "finished", "gone"}],
         waiting' \in [Task -> Messages!Names \cup {None}],
         data' \in [Messages!Names -> Task \cup {None}],
         \A u \in Task \ S : mstage'[u] = mstage[u],
         \A u \in S : /\ mstage[u] \in {"run", "close", "exit"} /\ pc[u].at = "idle"
                      /\ mstage'[u] \in {"close", "exit", "finished", "gone"}
                      /\ IF u = Root THEN mstage'[u] \in {"close", "gone"}
                         ELSE mstage'[u] # "gone"
                      /\ \A c \in Task : mparent[c] # u,
         \A x \in Messages!Names : readers[x] # {} => data'[x] = data[x],
         WaitersAreEnding', NamesAreOfTasks'
  PROVE  MessageIInv'
<1> USE NamesAreNot, NoneAssumption DEF MessageIInv
<1>1. Messages!TypeOK'
  BY DEF Messages!TypeOK
<1>2. SendersFamily'
  BY RootAssumption DEF SendersFamily, Messages!TypeOK
<1>3. CallsAreInPlace'
  <2>1. ASSUME NEW u \in Task
        PROVE  /\ pc[u].at # "idle" => mstage'[u] = "run"
               /\ pc[u].at = "create" => mstage'[pc[u].task] = "init"
               /\ mstage'[u] = "init" => mstage[u] = "init"
    BY DEF CallsAreInPlace
  <2>2. ASSUME NEW u \in Task, pc[u].at \in {"found", "notify"}, pc[u].ref # None
        PROVE  data'[pc[u].ref] = pc[u].task
    <3>1. /\ pc[u].ref \in Messages!Names /\ data[pc[u].ref] = pc[u].task
          /\ u \in readers[pc[u].ref]
      BY <2>2 DEF CallsAreInPlace, Messages!TypeOK
    <3>2. QED
      BY <3>1
  <2>3. QED
    BY <2>1, <2>2 DEF CallsAreInPlace
<1>4. ReadersAreSending' /\ NoLostMessage'
  BY DEF ReadersAreSending, NoLostMessage, Messages!NoLostMessage, Messages!Names
<1>5. QED
  BY <1>1, <1>2, <1>3, <1>4

(* Who ends has no children and is in no call.                             *)
LEMMA EndsAlone ==
  ASSUME MessageIInv, NEW t \in Task, Messages!Ends(t)
  PROVE  /\ pc[t].at = "idle" /\ mstage[t] \in {"close", "exit"}
         /\ \A c \in Task : mparent[c] # t
         /\ Messages!LastName(t) \in Messages!Names
         /\ mstage[t] = "exit" => Messages!After(t) = "finished" /\ t # Root
         /\ mstage[t] = "close" => Messages!After(t) = IF t = Root THEN "gone" ELSE "exit"
<1> USE NamesAreNot, NoneAssumption DEF MessageIInv
<1>1. mstage[t] \in {"close", "exit"}
  BY DEF Messages!Ends
<1>2. pc[t].at = "idle"
  BY <1>1 DEF CallsAreInPlace
<1>3. \A c \in Task : mparent[c] # t
  BY <1>1 DEF SendersFamily
<1>4. Messages!LastName(t) \in Messages!Names
  BY <1>1 DEF Messages!LastName, SendersFamily, Messages!TypeOK
<1>5. /\ mstage[t] = "exit" => Messages!After(t) = "finished" /\ t # Root
      /\ mstage[t] = "close" => Messages!After(t) = IF t = Root THEN "gone" ELSE "exit"
  BY DEF Messages!After, SendersFamily
<1>6. QED
  BY <1>1, <1>2, <1>3, <1>4, <1>5

(* The Lua code ends.                                                      *)
LEMMA EndIInv == ASSUME MessageIInv, NEW t \in Task, Messages!End(t) PROVE MessageIInv'
<1> USE NamesAreNot, NoneAssumption DEF MessageIInv
<1>p. PICK s : s = IF opened[t] THEN "close" ELSE "exit"
  OBVIOUS
<1>1. /\ mstage[t] = "run" /\ pc[t].at = "idle" /\ \A c \in Task : mparent[c] # t
      /\ mstage' = [mstage EXCEPT ![t] = s] /\ s \in {"close", "exit"}
      /\ UNCHANGED <<mparent, name, opened, data, readers, waiting, queue, msig, pc>>
  BY <1>p DEF Messages!End, Messages!Become, Messages!names, Messages!Idle
<1>2. /\ mstage \in [Task -> {"none", "init", "run", "close", "exit", "finished", "gone"}]
      /\ waiting \in [Task -> Messages!Names \cup {None}]
      /\ data \in [Messages!Names -> Task \cup {None}]
      /\ t = Root => s = "close"
  BY <1>p DEF Messages!TypeOK, SendersFamily
<1>3. /\ mstage' \in [Task -> {"none", "init", "run", "close", "exit", "finished", "gone"}]
      /\ mstage'[t] = s /\ \A u \in Task : u # t => mstage'[u] = mstage[u]
  BY <1>1, <1>2
<1>4. WaitersAreEnding'
  BY <1>1, <1>3 DEF WaitersAreEnding, Messages!Ends, Messages!LastName
<1>5. NamesAreOfTasks'
  <2>1. ASSUME NEW x \in Messages!Names, data[x] # None
        PROVE  \/ name[data[x]] = x /\ mstage'[data[x]] \in {"run", "close", "exit"}
               \/ x = Main /\ opened[data[x]] /\ mstage'[data[x]] \in {"run", "close"}
    BY <1>p, <1>1, <1>2, <1>3, <2>1 DEF NamesAreOfTasks
  <2>2. ASSUME NEW u \in Task, mstage'[u] \in {"run", "close", "exit"}, name[u] # Main
        PROVE  data[name[u]] = u
    BY <1>1, <1>3, <2>2 DEF NamesAreOfTasks
  <2>3. QED
    BY <1>1, <2>1, <2>2 DEF NamesAreOfTasks, Messages!Names
<1>6. QED
  <2>s. PICK S \in SUBSET Task : S = {t}
    OBVIOUS
  <2>1. \A u \in Task \ S : mstage'[u] = mstage[u]
    BY <2>s, <1>3
  <2>2. \A u \in S : /\ mstage[u] \in {"run", "close", "exit"} /\ pc[u].at = "idle"
                     /\ mstage'[u] \in {"close", "exit", "finished", "gone"}
                     /\ IF u = Root THEN mstage'[u] \in {"close", "gone"}
                        ELSE mstage'[u] # "gone"
                     /\ \A c \in Task : mparent[c] # u
    BY <2>s, <1>1, <1>2, <1>3
  <2>3. QED
    BY <1>1, <1>2, <1>3, <1>4, <1>5, <2>1, <2>2, LifeSteps

(* The name is not there any more.                                         *)
LEMMA NameGoneIInv == ASSUME MessageIInv, NEW t \in Task, Messages!NameGone(t) PROVE MessageIInv'
<1> USE NamesAreNot, NoneAssumption DEF MessageIInv
<1>p. PICK s : s = Messages!After(t)
  OBVIOUS
<1>1. /\ Messages!Ends(t) /\ waiting[t] = None /\ data[Messages!LastName(t)] = None
      /\ mstage' = [mstage EXCEPT ![t] = s]
      /\ UNCHANGED <<mparent, name, opened, data, readers, waiting, queue, msig, pc>>
  BY <1>p DEF Messages!NameGone, Messages!Become, Messages!names
<1>2. /\ mstage \in [Task -> {"none", "init", "run", "close", "exit", "finished", "gone"}]
      /\ waiting \in [Task -> Messages!Names \cup {None}]
      /\ data \in [Messages!Names -> Task \cup {None}]
  BY DEF Messages!TypeOK
<1>3. /\ pc[t].at = "idle" /\ mstage[t] \in {"close", "exit"} /\ \A c \in Task : mparent[c] # t
      /\ mstage[t] = "exit" => s = "finished" /\ t # Root
      /\ mstage[t] = "close" => s = IF t = Root THEN "gone" ELSE "exit"
  BY <1>p, <1>1, EndsAlone
<1>4. /\ mstage' \in [Task -> {"none", "init", "run", "close", "exit", "finished", "gone"}]
      /\ mstage'[t] = s /\ \A u \in Task : u # t => mstage'[u] = mstage[u]
  BY <1>1, <1>2, <1>3
<1>5. WaitersAreEnding'
  BY <1>1, <1>4 DEF WaitersAreEnding, Messages!Ends, Messages!LastName
<1>6. NamesAreOfTasks'
  <2>1. ASSUME NEW x \in Messages!Names, data[x] # None
        PROVE  \/ name[data[x]] = x /\ mstage'[data[x]] \in {"run", "close", "exit"}
               \/ x = Main /\ opened[data[x]] /\ mstage'[data[x]] \in {"run", "close"}
    <3>1. CASE data[x] = t
      <4>1. CASE mstage[t] = "close"
        <5>1. x # Main
          BY <1>1, <2>1, <4>1 DEF Messages!LastName
        <5>2. name[t] = x /\ t # Root
          <6>1. name[t] = x
            BY <2>1, <3>1, <5>1 DEF NamesAreOfTasks
          <6>2. t # Root
            BY <5>1, <6>1 DEF SendersFamily
          <6>3. QED
            BY <6>1, <6>2
        <5>3. QED
          BY <1>3, <1>4, <3>1, <4>1, <5>2
      <4>2. CASE mstage[t] = "exit"
        <5>1. name[t] = x
          BY <2>1, <3>1, <4>2 DEF NamesAreOfTasks
        <5>2. QED
          BY <1>1, <2>1, <4>2, <5>1 DEF Messages!LastName
      <4>3. QED
        BY <1>3, <4>1, <4>2
    <3>2. CASE data[x] # t
      BY <1>2, <1>4, <2>1, <3>2 DEF NamesAreOfTasks
    <3>3. QED
      BY <3>1, <3>2
  <2>2. ASSUME NEW u \in Task, mstage'[u] \in {"run", "close", "exit"}, name[u] # Main
        PROVE  data[name[u]] = u
    BY <1>3, <1>4, <2>2 DEF NamesAreOfTasks
  <2>3. QED
    BY <1>1, <2>1, <2>2 DEF NamesAreOfTasks, Messages!Names
<1>7. QED
  <2>s. PICK S \in SUBSET Task : S = {t}
    OBVIOUS
  <2>1. \A u \in Task \ S : mstage'[u] = mstage[u]
    BY <2>s, <1>4
  <2>2. \A u \in S : /\ mstage[u] \in {"run", "close", "exit"} /\ pc[u].at = "idle"
                     /\ mstage'[u] \in {"close", "exit", "finished", "gone"}
                     /\ IF u = Root THEN mstage'[u] \in {"close", "gone"}
                        ELSE mstage'[u] # "gone"
                     /\ \A c \in Task : mparent[c] # u
    BY <2>s, <1>3, <1>4
  <2>3. QED
    BY <1>1, <1>2, <1>4, <1>5, <1>6, <2>1, <2>2, LifeSteps

(* It is in use: t waits for it.                                           *)
LEMMA NameInUseIInv == ASSUME MessageIInv, NEW t \in Task, Messages!NameInUse(t) PROVE MessageIInv'
<1> USE NamesAreNot, NoneAssumption DEF MessageIInv
<1>p. PICK x : x = Messages!LastName(t)
  OBVIOUS
<1>1. /\ Messages!Ends(t) /\ waiting' = [waiting EXCEPT ![t] = x] /\ x \in Messages!Names
      /\ UNCHANGED <<mstage, mparent, opened, name, data, readers, queue, msig, pc>>
  BY <1>p, EndsAlone DEF Messages!NameInUse, Messages!life
<1>2. /\ mstage \in [Task -> {"none", "init", "run", "close", "exit", "finished", "gone"}]
      /\ waiting \in [Task -> Messages!Names \cup {None}]
      /\ data \in [Messages!Names -> Task \cup {None}]
  BY DEF Messages!TypeOK
<1>3. /\ waiting' \in [Task -> Messages!Names \cup {None}]
      /\ waiting'[t] = x /\ \A u \in Task : u # t => waiting'[u] = waiting[u]
  BY <1>1, <1>2
<1>4. WaitersAreEnding'
  BY <1>p, <1>1, <1>3 DEF WaitersAreEnding, Messages!Ends, Messages!LastName
<1>5. NamesAreOfTasks'
  BY <1>1 DEF NamesAreOfTasks, Messages!Names
<1>6. PICK S \in SUBSET Task : S = {}
  OBVIOUS
<1>7. QED
  BY <1>1, <1>2, <1>3, <1>4, <1>5, <1>6, LifeSteps

(* The name goes, and with it all who wait to do the same.                 *)
LEMMA DestroyNameIInv == ASSUME MessageIInv, NEW t \in Task, Messages!DestroyName(t) PROVE MessageIInv'
<1> USE NamesAreNot, NoneAssumption DEF MessageIInv
<1>p. PICK x : x = Messages!LastName(t)
  OBVIOUS
<1>1. /\ Messages!Ends(t) /\ data[x] # None /\ readers[x] = {} /\ x \in Messages!Names
      /\ data' = [data EXCEPT ![x] = None]
      /\ waiting' = [u \in Task |-> IF waiting[u] = x THEN None ELSE waiting[u]]
      /\ mstage' = [u \in Task |-> IF u = t \/ waiting[u] = x THEN Messages!After(u) ELSE mstage[u]]
      /\ UNCHANGED <<mparent, opened, name, readers, queue, msig, pc>>
  BY <1>p, EndsAlone DEF Messages!DestroyName
<1>2. /\ mstage \in [Task -> {"none", "init", "run", "close", "exit", "finished", "gone"}]
      /\ waiting \in [Task -> Messages!Names \cup {None}]
      /\ data \in [Messages!Names -> Task \cup {None}]
  BY DEF Messages!TypeOK
<1>s. PICK S \in SUBSET Task : S = {u \in Task : u = t \/ waiting[u] = x}
  OBVIOUS
<1>3. \A u \in S : u \in Task /\ Messages!Ends(u) /\ Messages!LastName(u) = x
  BY <1>p, <1>s, <1>1 DEF WaitersAreEnding
<1>4. \A u \in S : /\ mstage[u] \in {"close", "exit"} /\ pc[u].at = "idle"
                   /\ \A c \in Task : mparent[c] # u
                   /\ mstage[u] = "exit" => /\ name[u] = x /\ u # Root
                                            /\ Messages!After(u) = "finished"
                   /\ mstage[u] = "close" => /\ x = Main
                                             /\ Messages!After(u) = IF u = Root THEN "gone" ELSE "exit"
  BY <1>3, EndsAlone DEF Messages!LastName
<1>5. /\ mstage' \in [Task -> {"none", "init", "run", "close", "exit", "finished", "gone"}]
      /\ waiting' \in [Task -> Messages!Names \cup {None}]
      /\ data' \in [Messages!Names -> Task \cup {None}]
      /\ data'[x] = None /\ \A y \in Messages!Names : y # x => data'[y] = data[y]
      /\ \A u \in S : mstage'[u] = Messages!After(u) /\ waiting'[u] # x
      /\ \A u \in Task \ S : mstage'[u] = mstage[u] /\ waiting'[u] = waiting[u]
      /\ \A u \in Task : waiting'[u] # None => u \notin S \/ u = t
  <2>1. \A u \in Task : mstage'[u] = IF u \in S THEN Messages!After(u) ELSE mstage[u]
    BY <1>s, <1>1
  <2>2. \A u \in S : Messages!After(u) \in {"exit", "finished", "gone"}
    BY <1>4
  <2>3. \A u \in Task : waiting'[u] = IF waiting[u] = x THEN None ELSE waiting[u]
    BY <1>1
  <2>4. mstage' \in [Task -> {"none", "init", "run", "close", "exit", "finished", "gone"}]
    <3>1. mstage' = [u \in Task |-> IF u \in S THEN Messages!After(u) ELSE mstage[u]]
      BY <1>s, <1>1
    <3>2. QED
      BY <1>2, <2>2, <3>1
  <2>5. waiting' \in [Task -> Messages!Names \cup {None}]
    BY <1>1, <1>2
  <2>6. QED
    BY <1>s, <1>1, <1>2, <2>1, <2>3, <2>4, <2>5
<1>6. WaitersAreEnding'
  <2>1. ASSUME NEW u \in Task, waiting'[u] # None
        PROVE  /\ mstage'[u] = mstage[u] /\ waiting[u] = waiting'[u]
    <3>1. waiting'[t] = None
      BY <1>p, <1>1 DEF WaitersAreEnding
    <3>2. u \notin S
      BY <1>5, <2>1, <3>1
    <3>3. QED
      BY <1>5, <3>2
  <2>2. QED
    BY <1>1, <2>1 DEF WaitersAreEnding, Messages!Ends, Messages!LastName
<1>7. NamesAreOfTasks'
  <2>1. ASSUME NEW y \in Messages!Names, data'[y] # None
        PROVE  \/ name[data'[y]] = y /\ mstage'[data'[y]] \in {"run", "close", "exit"}
               \/ y = Main /\ opened[data'[y]] /\ mstage'[data'[y]] \in {"run", "close"}
    <3>1. y # x /\ data'[y] = data[y] /\ data[y] \in Task
      BY <1>2, <1>5, <2>1
    <3>2. CASE data[y] \in S
      <4>1. CASE mstage[data[y]] = "exit"
        BY <1>4, <2>1, <3>1, <3>2, <4>1 DEF NamesAreOfTasks
      <4>2. CASE mstage[data[y]] = "close"
        <5>1. y # Main /\ name[data[y]] = y
          BY <1>4, <2>1, <3>1, <3>2, <4>2 DEF NamesAreOfTasks
        <5>2. data[y] # Root
          BY <5>1 DEF SendersFamily
        <5>3. QED
          BY <1>4, <1>5, <3>1, <3>2, <4>2, <5>1, <5>2
      <4>3. QED
        BY <1>4, <3>2, <4>1, <4>2
    <3>3. CASE data[y] \notin S
      BY <1>5, <2>1, <3>1, <3>3 DEF NamesAreOfTasks
    <3>4. QED
      BY <3>2, <3>3
  <2>2. ASSUME NEW u \in Task, mstage'[u] \in {"run", "close", "exit"}, name[u] # Main
        PROVE  data'[name[u]] = u
    <3>1. mstage[u] \in {"run", "close", "exit"} /\ (u \in S => mstage[u] = "close")
      BY <1>4, <1>5, <2>2
    <3>2. name[u] \in Messages!Names /\ data[name[u]] = u
      BY <2>2, <3>1 DEF NamesAreOfTasks, SendersFamily, Messages!TypeOK
    <3>3. name[u] # x
      <4>1. CASE mstage[t] = "close"
        BY <1>4, <1>s, <2>2, <4>1
      <4>2. CASE mstage[t] = "exit"
        <5>1. SUFFICES ASSUME name[u] = x PROVE FALSE
          OBVIOUS
        <5>2. name[t] = x /\ t \in S
          BY <1>4, <1>s, <4>2
        <5>3. data[x] = t /\ u = t
          BY <2>2, <3>2, <4>2, <5>1, <5>2 DEF NamesAreOfTasks
        <5>4. QED
          BY <3>1, <4>2, <5>2, <5>3
      <4>3. QED
        BY <1>4, <1>s, <4>1, <4>2
    <3>4. QED
      BY <1>5, <3>2, <3>3
  <2>3. QED
    BY <1>1, <2>1, <2>2 DEF NamesAreOfTasks, Messages!Names
<1>8. \A u \in S : /\ mstage[u] \in {"run", "close", "exit"} /\ pc[u].at = "idle"
                   /\ mstage'[u] \in {"close", "exit", "finished", "gone"}
                   /\ IF u = Root THEN mstage'[u] \in {"close", "gone"}
                      ELSE mstage'[u] # "gone"
                   /\ \A c \in Task : mparent[c] # u
  BY <1>4, <1>5
<1>9. \A y \in Messages!Names : readers[y] # {} => data'[y] = data[y]
  BY <1>1, <1>5
<1>10. QED
  BY <1>1, <1>5, <1>6, <1>7, <1>8, <1>9, LifeSteps, SMTT(30)

(* A child is joined and freed.                                            *)
LEMMA JoinChildIInv ==
  ASSUME MessageIInv, NEW t \in Task, NEW c \in Task, Messages!Join(t, c)
  PROVE  MessageIInv'
<1> USE NamesAreNot, NoneAssumption DEF MessageIInv
<1>1. /\ pc[t].at = "idle" /\ mstage[t] = "run" /\ mparent[c] = t /\ mstage[c] = "finished"
      /\ c # Root /\ pc[c].at = "idle"
      /\ mstage' = [mstage EXCEPT ![c] = "none"] /\ mparent' = [mparent EXCEPT ![c] = None]
      /\ name' = [name EXCEPT ![c] = None] /\ opened' = [opened EXCEPT ![c] = FALSE]
      /\ queue' = [queue EXCEPT ![c] = 0] /\ msig' = [msig EXCEPT ![c] = FALSE]
      /\ UNCHANGED <<data, readers, waiting, pc>>
  BY DEF Messages!Join, Messages!Become, Messages!Idle, SendersFamily, CallsAreInPlace
<1>2. /\ name \in [Task -> Messages!Names \cup {None}] /\ opened \in [Task -> BOOLEAN]
      /\ mstage \in [Task -> {"none", "init", "run", "close", "exit", "finished", "gone"}]
      /\ mparent \in [Task -> Task \cup {None}]
      /\ queue \in [Task -> 0..MaxQueue] /\ msig \in [Task -> BOOLEAN]
      /\ data \in [Messages!Names -> Task \cup {None}]
  BY DEF Messages!TypeOK
<1>3. /\ mstage' \in [Task -> {"none", "init", "run", "close", "exit", "finished", "gone"}]
      /\ mparent' \in [Task -> Task \cup {None}] /\ name' \in [Task -> Messages!Names \cup {None}]
      /\ opened' \in [Task -> BOOLEAN]
      /\ mstage'[c] = "none" /\ mparent'[c] = None /\ name'[c] = None
      /\ \A u \in Task : u # c => /\ mstage'[u] = mstage[u] /\ mparent'[u] = mparent[u]
                                  /\ name'[u] = name[u] /\ opened'[u] = opened[u]
  BY <1>1, <1>2
<1>4. /\ queue' \in [Task -> 0..MaxQueue] /\ msig' \in [Task -> BOOLEAN]
      /\ \A u \in Task : u # c => queue'[u] = queue[u] /\ msig'[u] = msig[u]
  BY <1>1, <1>2, MessageAssumption
<1>5. Messages!TypeOK'
  BY <1>1, <1>3, <1>4 DEF Messages!TypeOK
<1>6. \A u \in Task : mparent[u] # c
  BY <1>1, <1>2 DEF SendersFamily
<1>7. SendersFamily'
  BY <1>1, <1>2, <1>3, <1>6, RootAssumption DEF SendersFamily
<1>8. CallsAreInPlace'
  <2>1. ASSUME NEW u \in Task
        PROVE  /\ pc[u].at # "idle" => mstage'[u] = "run"
               /\ pc[u].at = "create" => /\ pc[u].task \in Task
                                         /\ mparent'[pc[u].task] = u
                                         /\ mstage'[pc[u].task] = "init"
    BY <1>1, <1>3 DEF CallsAreInPlace
  <2>2. ASSUME NEW u \in Task, mstage'[u] = "init"
        PROVE  pc[mparent'[u]].at = "create" /\ pc[mparent'[u]].task = u
    BY <1>1, <1>3, <2>2 DEF CallsAreInPlace
  <2>3. ASSUME NEW u \in Task, pc[u].at \in {"found", "notify"}
        PROVE  /\ pc[u].task \in Task
               /\ IF pc[u].ref = None
                  THEN pc[u].task = mparent'[u] \/ mparent'[pc[u].task] = u
                  ELSE u \in readers[pc[u].ref] /\ data[pc[u].ref] = pc[u].task
    <3>1. u # c /\ u # t
      BY <1>1, <2>3
    <3>2. QED
      BY <1>1, <1>3, <2>3, <3>1 DEF CallsAreInPlace
  <2>4. QED
    BY <1>1, <2>1, <2>2, <2>3 DEF CallsAreInPlace
<1>9. ReadersAreSending'
  BY <1>1 DEF ReadersAreSending, Messages!Names
<1>10. WaitersAreEnding'
  BY <1>1, <1>3 DEF WaitersAreEnding, Messages!Ends, Messages!LastName
<1>11. NamesAreOfTasks'
  <2>1. \A x \in Messages!Names : data[x] # c
    BY <1>1 DEF NamesAreOfTasks
  <2>2. QED
    BY <1>1, <1>2, <1>3, <2>1 DEF NamesAreOfTasks, Messages!Names
<1>12. NoLostMessage'
  BY <1>1, <1>4 DEF NoLostMessage, Messages!NoLostMessage
<1>13. QED
  BY <1>5, <1>7, <1>8, <1>9, <1>10, <1>11, <1>12

(* Every step of LuaMsg preserves the invariant, ...                       *)
LEMMA MessageNextIInv == MessageIInv /\ Messages!Next => MessageIInv'
<1> SUFFICES ASSUME MessageIInv, Messages!Next PROVE MessageIInv'
  OBVIOUS
<1>1. ASSUME NEW t \in Task, Messages!CallNext(t) PROVE MessageIInv'
  <2>1. Messages!Look(t) /\ pc[t].at = "look" => mstage[t] = "run"
    BY DEF MessageIInv, CallsAreInPlace
  <2>2. QED
    BY <1>1, <2>1, PutMsgIInv, MsgSignalIInv, WakeUpIInv, LookIInv, InitTaskIInv, InitTaskFailsIInv
       DEF Messages!CallNext
<1>2. ASSUME NEW t \in Task, Messages!LifeNext(t) PROVE MessageIInv'
  BY <1>2, RunNamedIInv, OpenLibraryIInv, EndIInv, NameGoneIInv, NameInUseIInv, DestroyNameIInv,
     JoinChildIInv DEF Messages!LifeNext
<1>3. ASSUME NEW t \in Task, Messages!Calls(t), Messages!GetMsg(t) \/ Messages!Look(t)
      PROVE  MessageIInv'
  BY <1>3, GetMsgIInv, LookIInv DEF Messages!Calls, Messages!Idle
<1>4. ASSUME NEW t \in Task, Messages!TimedOut(t) PROVE MessageIInv'
  BY <1>4, GetMsgIInv DEF Messages!TimedOut, MessageIInv, CallsAreInPlace
<1>5. QED
  BY <1>1, <1>2, <1>3, <1>4, LockTaskIInv, RelativeIInv, GetSignalsIInv DEF Messages!Next

(* ... and so does a step of another component.                            *)
LEMMA MessageStutters == MessageIInv /\ UNCHANGED msgvars => MessageIInv'
<1> SUFFICES ASSUME MessageIInv, UNCHANGED msgvars PROVE MessageIInv'
  OBVIOUS
<1> USE DEF MessageIInv, msgvars, Messages!Names
<1>1. Messages!TypeOK' /\ SendersFamily' /\ ReadersAreSending'
  BY DEF Messages!TypeOK, SendersFamily, ReadersAreSending
<1>2. CallsAreInPlace' /\ NamesAreOfTasks'
  BY DEF CallsAreInPlace, NamesAreOfTasks
<1>3. WaitersAreEnding' /\ NoLostMessage'
  BY DEF WaitersAreEnding, Messages!Ends, Messages!LastName, NoLostMessage, Messages!NoLostMessage
<1>4. QED
  BY <1>1, <1>2, <1>3

(* ... so it always holds, in LuaMsg and in LuaTasks.                      *)
THEOREM MessageInvariant == Messages!Spec => []MessageIInv
<1>1. MessageIInv /\ [Messages!Next]_(Messages!vars) => MessageIInv'
  BY MessageNextIInv, MessageStutters
     DEF Messages!vars, Messages!life, Messages!names, msgvars
<1>2. QED
  BY <1>1, MessageInitIInv, PTL DEF Messages!Spec


(* The same of the module that TLC checks.                                 *)
THEOREM TasksMessageInvariant == AllSpec => []MessageIInv
<1>1. AllInit => MessageIInv
  BY MessageInitIInv DEF AllInit
<1>2. MessageIInv /\ [AllNext]_allvars => MessageIInv'
  BY MessageNextIInv, MessageStutters DEF AllNext, allvars
<1>3. QED
  BY <1>1, <1>2, PTL DEF AllSpec

(* What the invariant says of names and receivers.                         *)
LEMMA MessageIsSound == MessageIInv => NamesAreAlive /\ NoLostMessage
<1> SUFFICES ASSUME MessageIInv PROVE NamesAreAlive
  BY DEF MessageIInv
<1> USE NamesAreNot, NoneAssumption DEF MessageIInv
<1>1. Messages!NamesAreAlive
  BY DEF Messages!NamesAreAlive, NamesAreOfTasks
<1>2. Messages!ReceiverIsThere
  <2>1. ASSUME NEW t \in Task, pc[t].at \in {"found", "notify"}
        PROVE  /\ mstage[pc[t].task] # "none"
               /\ pc[t].ref # None => mstage[pc[t].task] \notin {"init", "finished"}
    <3>1. pc[t].task \in Task /\ mstage[t] = "run"
      BY <2>1 DEF CallsAreInPlace
    <3>2. CASE pc[t].ref = None
      BY <2>1, <3>1, <3>2 DEF CallsAreInPlace, SendersFamily
    <3>3. CASE pc[t].ref # None
      <4>1. pc[t].ref \in Messages!Names /\ data[pc[t].ref] = pc[t].task
        BY <2>1, <3>3 DEF CallsAreInPlace, Messages!TypeOK
      <4>2. QED
        BY <3>1, <4>1 DEF NamesAreOfTasks
    <3>4. QED
      BY <3>2, <3>3
  <2>2. QED
    BY <2>1 DEF Messages!ReceiverIsThere
<1>3. QED
  BY <1>1, <1>2 DEF NamesAreAlive

(* A name leads to a task that is there, ...                               *)
THEOREM NamesAreAliveHolds == AllSpec => []NamesAreAlive
  BY TasksMessageInvariant, MessageIsSound, PTL

(* ... and no task sleeps in waitmsg over a message.                       *)
THEOREM NoLostMessageHolds == AllSpec => []NoLostMessage
  BY TasksMessageInvariant, MessageIsSound, PTL
-----------------------------------------------------------------------------
(* What an interval calls: checkAbort, a function of the application, once *)
(* or again and again, or a change of the server's state.                  *)
Kind == {"abort", "user", "once", "state"}

(* The numbers in use, and the next to be given out.                       *)
PoolIsSound(p) ==
  /\ p \in [ids : SUBSET (Nat \ {0}), next : Nat \ {0}, num : Nat]
  /\ Ids!IsFree(p)

(* Intervals are registered under the ids in use, the check for abortion   *)
(* among them.                                                             *)
IntervalsAreSound ==
  /\ intervals \in [pool.ids -> [kind : Kind, every : Nat, left : Int]]
  /\ Server!Abort \in pool.ids /\ intervals[Server!Abort].kind = "abort"

(* What is due and kept is registered.  The check for abortion is not the  *)
(* function of a registerOnce, whose interval is removed after the call.   *)
DueIsSound ==
  /\ due \in [DOMAIN due -> [kind : Kind, every : Nat, kept : BOOLEAN]]
  /\ \A id \in DOMAIN due :
       /\ due[id].kept => id \in pool.ids
       /\ id = Server!Abort => due[id].kind = "abort"
  /\ cur # None => /\ at = "call"
                   /\ cur.id = Server!Abort => cur.kind # "once"

(* An interval that is going to be called in this turn, ...                *)
Pending(id) == id \in DOMAIN due /\ due[id].kept

(* ... or else it is due when the turn began or later: therefore the time  *)
(* to wait, counted from there, is never negative.                         *)
DueIsAhead ==
  at = "pass" \/ cur # None =>
    \A id \in pool.ids : Pending(id) \/ intervals[id].left + lag >= 0

(* The inductive invariant, but for NO_TIMEOUT. *)
IntervalsIInv ==
  /\ Server!TypeOK /\ PoolIsSound(pool) /\ IntervalsAreSound /\ DueIsSound /\ DueIsAhead

(* Numbers have a least one, ...                                           *)
LEMMA LeastNat == ASSUME NEW S \in SUBSET Nat, S # {} PROVE \E n \in S : \A m \in S : n <= m
<1>1. OpToRel(<, Nat) = {p \in Nat \X Nat : p[1] < p[2]}
  BY DEF OpToRel
<1>2. IsWellFoundedOn({p \in Nat \X Nat : p[1] < p[2]}, Nat)
  BY NatLessThanWellFounded, <1>1
<1>3. PICK n \in S : \A y \in S : ~ (<<y, n>> \in {p \in Nat \X Nat : p[1] < p[2]})
  BY <1>2, WFMin
<1>4. \A m \in S : ~ (m < n)
  <2>1. ASSUME NEW m \in S PROVE <<m, n>> \in Nat \X Nat /\ <<m, n>>[1] = m /\ <<m, n>>[2] = n
    OBVIOUS
  <2>2. QED
    BY <1>3, <2>1
<1>5. QED
  BY <1>4

(* ... and so have integers that are bounded below; ...                    *)
LEMMA LeastInt ==
  ASSUME NEW S \in SUBSET Int, NEW b \in Int, S # {}, \A n \in S : n >= b
  PROVE  \E n \in S : \A m \in S : n <= m
<1> DEFINE T == {n - b : n \in S}
<1>1. T \in SUBSET Nat /\ T # {}
  <2>1. ASSUME NEW n \in S PROVE n - b \in Nat
    <3>1. n \in Int /\ n >= b
      OBVIOUS
    <3>2. QED
      BY <3>1
  <2>2. QED
    BY <2>1
<1>2. PICK k \in T : \A m \in T : k <= m
  <2> HIDE DEF T
  <2> QED BY <1>1, LeastNat
<1>3. PICK n \in S : k = n - b
  BY <1>1
<1>4. ASSUME NEW m \in S PROVE n <= m
  <2>1. m - b \in T
    OBVIOUS
  <2>2. k <= m - b /\ m \in Int /\ n \in Int
    BY <1>2, <2>1
  <2>3. QED
    BY <1>3, <2>2
<1>5. QED
  BY <1>4

(* ... those that are bounded above have a greatest.                       *)
LEMMA GreatestInt ==
  ASSUME NEW S \in SUBSET Int, NEW b \in Int, S # {}, \A n \in S : n <= b
  PROVE  \E n \in S : \A m \in S : n >= m
<1> DEFINE T == {0 - n : n \in S}
<1>1. /\ T \in SUBSET Int /\ T # {} /\ 0 - b \in Int
      /\ \A n \in S : 0 - n \in T
  <2>1. ASSUME NEW n \in S PROVE 0 - n \in T /\ 0 - n \in Int
    OBVIOUS
  <2>2. T \in SUBSET Int
    BY <2>1
  <2>3. T # {}
    OBVIOUS
  <2>4. QED
    BY <2>1, <2>2, <2>3
<1>2. \A k \in T : \E n \in S : k = 0 - n
  OBVIOUS
<1> HIDE DEF T
<1>3. \A k \in T : k >= 0 - b
  BY <1>2
<1>4. PICK k \in T : \A m \in T : k <= m
  BY <1>1, <1>3, LeastInt
<1>5. PICK n \in S : k = 0 - n
  BY <1>2
<1>6. ASSUME NEW m \in S PROVE n >= m
  BY <1>1, <1>4, <1>5
<1>7. QED
  BY <1>6

(* Server:allocId.                                                         *)
LEMMA AllocIsSound ==
  ASSUME NEW p, PoolIsSound(p)
  PROVE  /\ PoolIsSound(Ids!AllocId(p)) /\ p.next \notin p.ids
         /\ Ids!AllocId(p).ids = p.ids \cup {p.next}
         /\ Ids!AllocId(p).num \in {p.num, p.next}
<1>p. PICK ids, next, num : ids = p.ids /\ next = p.next /\ num = p.num
  OBVIOUS
<1>1. /\ ids \in SUBSET (Nat \ {0}) /\ next \in Nat \ {0} /\ num \in Nat
      /\ next \notin ids /\ 1..(next - 1) \subseteq ids /\ next <= num + 1
      /\ \A id \in ids : id <= num
  BY <1>p DEF PoolIsSound, Ids!IsFree
<1>2. CASE next = num + 1
  <2>1. Ids!AllocId(p) = [ids |-> ids \cup {next}, next |-> num + 2, num |-> next]
    BY <1>p, <1>2 DEF Ids!AllocId
  <2>2. QED
    BY <1>p, <1>1, <1>2, <2>1 DEF PoolIsSound, Ids!IsFree
<1>3. CASE next # num + 1
  <2>1. PICK k : k = Ids!Min((next + 1)..(num + 1) \ ids)
    OBVIOUS
  <2>2. k \in (next + 1)..(num + 1) \ ids /\ \A m \in (next + 1)..(num + 1) \ ids : k <= m
    <3>1. PICK S : S = (next + 1)..(num + 1) \ ids
      OBVIOUS
    <3>2. S \in SUBSET Int /\ num + 1 \in S /\ \A n \in S : n >= next + 1
      BY <1>1, <1>3, <3>1
    <3>3. \E n \in S : \A m \in S : n <= m
      BY <1>1, <3>2, LeastInt
    <3>4. k \in S /\ \A m \in S : k <= m
      BY <2>1, <3>1, <3>3 DEF Ids!Min
    <3>5. QED
      BY <3>1, <3>4
  <2>3. Ids!AllocId(p) = [ids |-> ids \cup {next}, next |-> k, num |-> num]
    BY <1>p, <1>3, <2>1 DEF Ids!AllocId
  <2>4. 1..(k - 1) \subseteq ids \cup {next}
    BY <1>1, <2>2
  <2>5. QED
    BY <1>p, <1>1, <1>3, <2>2, <2>3, <2>4 DEF PoolIsSound, Ids!IsFree
<1>4. QED
  BY <1>2, <1>3

(* Server:freeId.                                                          *)
LEMMA FreeIsSound ==
  ASSUME NEW p, PoolIsSound(p), NEW id \in p.ids
  PROVE  /\ PoolIsSound(Ids!FreeId(p, id))
         /\ Ids!FreeId(p, id).ids = p.ids \ {id}
         /\ Ids!FreeId(p, id).num <= p.num
<1>p. PICK ids, next, num : ids = p.ids /\ next = p.next /\ num = p.num
  OBVIOUS
<1>1. /\ ids \in SUBSET (Nat \ {0}) /\ next \in Nat \ {0} /\ num \in Nat
      /\ next \notin ids /\ 1..(next - 1) \subseteq ids /\ next <= num + 1
      /\ \A i \in ids : i <= num
      /\ id \in ids /\ id \in Nat \ {0} /\ id <= num /\ id # next
  BY <1>p DEF PoolIsSound, Ids!IsFree
<1>2. \A a, b \in Nat : Ids!Min({a, b}) = IF a <= b THEN a ELSE b
  BY DEF Ids!Min
<1>3. CASE id < num
  <2>1. Ids!FreeId(p, id) = [ids |-> ids \ {id}, num |-> num, next |-> IF id <= next THEN id ELSE next]
    BY <1>p, <1>1, <1>2, <1>3 DEF Ids!FreeId
  <2>2. QED
    BY <1>p, <1>1, <1>3, <2>1 DEF PoolIsSound, Ids!IsFree
<1>4. CASE id = num /\ num <= next
  <2>1. Ids!FreeId(p, id) = [ids |-> ids \ {id}, num |-> num, next |-> num]
    BY <1>p, <1>1, <1>2, <1>4 DEF Ids!FreeId
  <2>2. QED
    BY <1>p, <1>1, <1>4, <2>1 DEF PoolIsSound, Ids!IsFree
<1>5. CASE id = num /\ next < num
  <2>1. PICK S : S = {next} \cup {i \in ids \ {id} : next < i /\ i < num}
    OBVIOUS
  <2>2. PICK k : k = Ids!Max(S)
    OBVIOUS
  <2>3. S \in SUBSET Int /\ next \in S /\ \A n \in S : n <= num - 1
    <3>1. ASSUME NEW n \in S PROVE n \in Int /\ n <= num - 1
      <4>1. n = next \/ (n \in ids /\ n \in Nat /\ n < num)
        BY <1>1, <2>1
      <4>2. QED
        BY <1>1, <1>5, <4>1
    <3>2. QED
      BY <2>1, <3>1
  <2>4. k \in S /\ \A m \in S : k >= m
    <3>1. \E n \in S : \A m \in S : n >= m
      <4>1. num - 1 \in Int /\ S # {}
        BY <1>1, <2>3
      <4>2. QED
        BY <2>3, <4>1, GreatestInt
    <3>2. QED
      BY <2>2, <3>1 DEF Ids!Max
  <2>5. k \in Nat /\ next <= k /\ k < num
    BY <1>1, <1>5, <2>1, <2>3, <2>4
  <2>6. Ids!FreeId(p, id) = [ids |-> ids \ {id}, num |-> k + 1, next |-> next]
    <3>1. ~ (id < num \/ num <= next)
      BY <1>1, <1>5
    <3>2. Ids!Min({k + 1, next}) = next
      BY <1>1, <1>2, <2>5
    <3>3. QED
      BY <1>p, <1>5, <2>1, <2>2, <3>1, <3>2 DEF Ids!FreeId
  <2>7. \A i \in ids \ {id} : i <= k + 1
    <3>1. ASSUME NEW i \in ids \ {id} PROVE i <= k + 1
      <4>1. CASE i <= next
        BY <1>1, <2>5, <4>1
      <4>2. CASE next < i
        <5>1. i \in S
          BY <1>1, <1>5, <2>1, <4>2
        <5>2. QED
          BY <1>1, <2>4, <2>5, <5>1
      <4>3. QED
        BY <1>1, <4>1, <4>2
    <3>2. QED
      BY <3>1
  <2>8. QED
    BY <1>p, <1>1, <1>5, <2>5, <2>6, <2>7 DEF PoolIsSound, Ids!IsFree
<1>6. QED
  BY <1>1, <1>3, <1>4, <1>5

(* They are the same for the ids of LuaServer.                             *)
LEMMA SamePool ==
  ASSUME NEW p
  PROVE  /\ Server!AllocId(p) = Ids!AllocId(p)
         /\ \A id : Server!FreeId(p, id) = Ids!FreeId(p, id)
         /\ Server!IsFree(p) <=> Ids!IsFree(p)
<1>1. Server!AllocId(p) = Ids!AllocId(p)
  BY DEF Server!AllocId, Ids!AllocId, Server!Min, Ids!Min
<1>2. \A id : Server!FreeId(p, id) = Ids!FreeId(p, id)
  BY DEF Server!FreeId, Ids!FreeId, Server!Min, Ids!Min, Server!Max, Ids!Max
<1>3. Server!IsFree(p) <=> Ids!IsFree(p)
  BY DEF Server!IsFree, Ids!IsFree
<1>4. QED
  BY <1>1, <1>2, <1>3

(* Before the server runs: nothing is due.                                 *)
LEMMA ServerInitIInv ==
  ASSUME NEW place \in {"init", "end"}, Server!InitAt(place), horizon \in -MaxLag..MaxHorizon
  PROVE  IntervalsIInv
<1> USE ServerAssumption DEF Server!InitAt, Server!Abort
<1>1. Server!TypeOK
  <2>1. pool.ids \subseteq 1..MaxIds /\ pool.num \in 0..MaxIds
    <3>1. pool.ids = {1} /\ pool.num = 1
      OBVIOUS
    <3>2. QED
      BY <3>1
  <2>2. DOMAIN due \subseteq 1..MaxIds
    <3>1. DOMAIN due = {}
      OBVIOUS
    <3>2. QED
      BY ONLY <3>1
  <2>3. lag \in 0..MaxLag /\ wait \in {None} \cup Nat
    OBVIOUS
  <2>4. at \in {"init", "end"} /\ status \in BOOLEAN /\ asked \in BOOLEAN
    OBVIOUS
  <2>5. QED
    BY <2>1, <2>2, <2>3, <2>4 DEF Server!TypeOK
<1>2. PoolIsSound(pool)
  BY DEF PoolIsSound, Ids!IsFree
<1>3. IntervalsAreSound
  BY DEF IntervalsAreSound, Kind, Server!Interval
<1>4. DueIsSound /\ DueIsAhead
  BY DEF DueIsSound, DueIsAhead
<1>5. QED
  BY <1>1, <1>2, <1>3, <1>4 DEF IntervalsIInv

(* Steps that leave the intervals and those that are due alone.            *)
LEMMA QuietSteps ==
  ASSUME IntervalsIInv, UNCHANGED <<intervals, pool, due, lag, horizon>>,
         at' \in {"init", "turn", "pass", "call", "wait", "end"},
         status' \in BOOLEAN, asked' \in BOOLEAN, wait' \in {None} \cup Nat,
         cur' = cur \/ cur' = None, cur' # None => at' = "call",
         at' = "pass" \/ cur' # None => at = "pass" \/ cur # None
  PROVE  IntervalsIInv'
<1> USE DEF IntervalsIInv
<1>1. Server!TypeOK' /\ IntervalsAreSound' /\ PoolIsSound(pool)'
  BY DEF Server!TypeOK, IntervalsAreSound, PoolIsSound, Ids!IsFree
<1>2. DueIsSound' /\ DueIsAhead'
  BY DEF DueIsSound, DueIsAhead, Pending
<1>3. QED
  BY <1>1, <1>2

(* registerInterval, registerOnce and setServerState with a delay.         *)
LEMMA RegisterIInv ==
  ASSUME IntervalsIInv, NEW kind \in {"user", "once", "state"}, NEW every \in Nat, NEW left \in Nat,
         Server!Register(kind, every, left)
  PROVE  IntervalsIInv'
<1> USE ServerAssumption DEF IntervalsIInv
<1>p. PICK id, r : id = pool.next /\ r = Server!Interval(kind, every, left)
  OBVIOUS
<1>1. /\ pool' = Ids!AllocId(pool) /\ id <= MaxIds
      /\ intervals' = [i \in DOMAIN intervals \cup {id} |-> IF i = id THEN r ELSE intervals[i]]
      /\ UNCHANGED <<at, status, asked, due, cur, lag, wait, horizon>>
  BY <1>p, SamePool DEF Server!Register
<1>2. /\ PoolIsSound(pool') /\ id \notin pool.ids /\ pool'.ids = pool.ids \cup {id}
      /\ pool'.num \in {pool.num, id} /\ id \in Nat \ {0}
  BY <1>p, <1>1, AllocIsSound DEF PoolIsSound
<1>3. /\ intervals \in [pool.ids -> [kind : Kind, every : Nat, left : Int]]
      /\ Server!Abort \in pool.ids /\ intervals[Server!Abort].kind = "abort"
      /\ r \in [kind : Kind, every : Nat, left : Int] /\ r.left = left
  BY <1>p DEF IntervalsAreSound, Server!Interval, Kind
<1>4. /\ intervals' \in [pool'.ids -> [kind : Kind, every : Nat, left : Int]]
      /\ intervals'[id] = r /\ \A i \in pool.ids : intervals'[i] = intervals[i]
  BY <1>1, <1>2, <1>3
<1>5. Server!TypeOK'
  BY <1>1, <1>2 DEF Server!TypeOK
<1>6. IntervalsAreSound'
  BY <1>2, <1>3, <1>4 DEF IntervalsAreSound, Server!Abort
<1>7. DueIsSound'
  BY <1>1, <1>2 DEF DueIsSound
<1>8. DueIsAhead'
  <2>1. ASSUME at = "pass" \/ cur # None, NEW i \in pool'.ids
        PROVE  Pending(i)' \/ intervals'[i].left + lag' >= 0
    <3>1. CASE i = id
      <4>1. lag \in Nat /\ left \in Nat /\ intervals'[i].left = left
        BY <1>3, <1>4, <3>1 DEF Server!TypeOK
      <4>2. QED
        BY <1>1, <4>1
    <3>2. CASE i # id
      BY <1>1, <1>2, <1>4, <2>1, <3>2 DEF DueIsAhead, Pending
    <3>3. QED
      BY <3>1, <3>2
  <2>2. QED
    BY <1>1, <2>1 DEF DueIsAhead
<1>9. QED
  BY <1>2, <1>5, <1>6, <1>7, <1>8

(* removeInterval, by the application or by the function of registerOnce.  *)
LEMMA RemoveIInv ==
  ASSUME IntervalsIInv, NEW id, id # Server!Abort, Server!Remove(id),
         UNCHANGED <<status, asked, lag, wait, horizon>>,
         at' \in {"init", "pass", "call"},
         cur' = cur \/ cur' = None, cur' # None => at' = "call",
         at' = "pass" \/ cur' # None => at = "pass" \/ cur # None
  PROVE  IntervalsIInv'
<1> USE DEF IntervalsIInv
<1>1. CASE id \notin DOMAIN intervals
  <2>1. UNCHANGED <<intervals, pool, due>>
    BY <1>1 DEF Server!Remove
  <2>2. status \in BOOLEAN /\ asked \in BOOLEAN /\ wait \in {None} \cup Nat
    BY DEF Server!TypeOK
  <2>3. QED
    BY <2>1, <2>2, QuietSteps
<1>2. CASE id \in DOMAIN intervals
  <2>1. /\ intervals \in [pool.ids -> [kind : Kind, every : Nat, left : Int]]
        /\ due \in [DOMAIN due -> [kind : Kind, every : Nat, kept : BOOLEAN]]
        /\ id \in pool.ids
    BY <1>2 DEF IntervalsAreSound, DueIsSound
  <2>2. /\ intervals' = [i \in pool.ids \ {id} |-> intervals[i]]
        /\ pool' = Ids!FreeId(pool, id)
        /\ due' = [i \in DOMAIN due |-> IF i = id THEN [due[i] EXCEPT !.kept = FALSE] ELSE due[i]]
    BY <1>2, <2>1, SamePool DEF Server!Remove
  <2>3. PoolIsSound(pool') /\ pool'.ids = pool.ids \ {id} /\ pool'.num <= pool.num
    BY <2>1, <2>2, FreeIsSound
  <2>4. pool'.num \in Nat /\ pool.num \in 0..MaxIds /\ pool.ids \subseteq 1..MaxIds
    BY <2>3 DEF PoolIsSound, Server!TypeOK
  <2>5. /\ DOMAIN due' = DOMAIN due
        /\ \A i \in DOMAIN due : /\ due'[i] \in [kind : Kind, every : Nat, kept : BOOLEAN]
                                 /\ due'[i].kind = due[i].kind
                                 /\ due'[i].kept <=> due[i].kept /\ i # id
    <3>1. DOMAIN due' = DOMAIN due
      BY <2>2
    <3>2. ASSUME NEW i \in DOMAIN due
          PROVE  /\ due'[i] \in [kind : Kind, every : Nat, kept : BOOLEAN]
                 /\ due'[i].kind = due[i].kind
                 /\ due'[i].kept <=> due[i].kept /\ i # id
      <4>1. due[i] \in [kind : Kind, every : Nat, kept : BOOLEAN]
        BY <2>1
      <4>2. due'[i] = IF i = id THEN [due[i] EXCEPT !.kept = FALSE] ELSE due[i]
        BY <2>2
      <4>3. QED
        BY ONLY <4>1, <4>2
    <3>3. QED
      BY <3>1, <3>2
  <2>6. Server!TypeOK'
    <3>1. pool'.ids \subseteq 1..MaxIds /\ pool'.num \in 0..MaxIds
      BY ONLY <2>3, <2>4, ServerAssumption
    <3>2. DOMAIN due' \subseteq 1..MaxIds
      BY <2>5 DEF Server!TypeOK
    <3>3. /\ at' \in {"init", "turn", "pass", "call", "wait", "end"}
          /\ status' \in BOOLEAN /\ asked' \in BOOLEAN
          /\ lag' \in 0..MaxLag /\ wait' \in {None} \cup Nat
      BY DEF Server!TypeOK
    <3>4. QED
      BY <3>1, <3>2, <3>3 DEF Server!TypeOK
  <2>7. IntervalsAreSound'
    BY <2>1, <2>2, <2>3 DEF IntervalsAreSound, Server!Abort
  <2>8. DueIsSound'
    <3>1. due' \in [DOMAIN due' -> [kind : Kind, every : Nat, kept : BOOLEAN]]
      BY <2>2, <2>5
    <3>2. QED
      BY <2>3, <2>5, <3>1 DEF DueIsSound, Server!Abort
  <2>9. DueIsAhead'
    <3>1. ASSUME at = "pass" \/ cur # None, NEW i \in pool'.ids
          PROVE  Pending(i)' \/ intervals'[i].left + lag >= 0
      <4>1. Pending(i) \/ intervals[i].left + lag >= 0
        BY <2>3, <3>1 DEF DueIsAhead
      <4>2. intervals'[i] = intervals[i] /\ i # id
        BY <2>2, <2>3, <3>1
      <4>3. QED
        BY <2>5, <4>1, <4>2 DEF Pending
    <3>2. QED
      BY <3>1 DEF DueIsAhead
  <2>10. QED
    BY <2>3, <2>6, <2>7, <2>8, <2>9
<1>3. QED
  BY <1>1, <1>2

(* Steps of the loop that look at nothing, those of requests, and Ask.     *)
LEMMA LoopIInv ==
  ASSUME IntervalsIInv,
         Server!Run \/ Server!Leave \/ Server!TimesOut \/ Server!Accept
           \/ Server!EndOfRequest \/ Server!SetServerState \/ Server!Ask
  PROVE  IntervalsIInv'
<1>1. /\ at \in {"init", "turn", "pass", "call", "wait", "end"}
      /\ status \in BOOLEAN /\ asked \in BOOLEAN /\ wait \in {None} \cup Nat
      /\ cur # None => at = "call"
  BY DEF IntervalsIInv, Server!TypeOK, DueIsSound
<1>2. UNCHANGED <<intervals, pool, due, lag, horizon>>
  BY DEF Server!Run, Server!Leave, Server!TimesOut, Server!Accept, Server!EndOfRequest,
         Server!SetServerState, Server!Ask
<1>3. /\ at' \in {"init", "turn", "pass", "call", "wait", "end"}
      /\ status' \in BOOLEAN /\ asked' \in BOOLEAN /\ wait' \in {None} \cup Nat
      /\ cur' = cur /\ (cur' # None => at' = "call")
      /\ at' = "pass" \/ cur' # None => at = "pass" \/ cur # None
  BY <1>1 DEF Server!Run, Server!Leave, Server!TimesOut, Server!Accept, Server!EndOfRequest,
              Server!SetServerState, Server!Ask
<1>4. QED
  BY <1>2, <1>3, QuietSteps

(* The time to wait is that of the interval due first, which is ahead; or  *)
(* there is no end of it, as none is due before NO_TIMEOUT.                *)
LEMMA TimeToWait ==
  ASSUME IntervalsIInv, Server!EndOfPass
  PROVE  \/ wait' \in Nat
         \/ wait' = None /\ \A id \in pool.ids : horizon <= intervals[id].left
<1>1. at = "pass" /\ due = <<>>
  BY DEF Server!EndOfPass
<1>2. /\ intervals \in [pool.ids -> [kind : Kind, every : Nat, left : Int]]
      /\ Server!Abort \in pool.ids /\ lag \in Nat /\ horizon \in Int
  BY ServerAssumption DEF IntervalsIInv, Server!TypeOK, IntervalsAreSound
<1>3. \A id \in pool.ids : intervals[id].left + lag >= 0
  <2>1. DOMAIN due = {}
    BY <1>1
  <2>2. QED
    BY <1>1, <2>1 DEF IntervalsIInv, DueIsAhead, Pending
<1>4. PICK S : S = {intervals[id].left : id \in DOMAIN intervals}
  OBVIOUS
<1>5. PICK k : k = Server!Min(S)
  OBVIOUS
<1>6. S \in SUBSET Int /\ S # {} /\ \A n \in S : n >= 0 - lag
  <2>1. ASSUME NEW n \in S PROVE n \in Int /\ n >= 0 - lag
    <3>1. PICK id \in pool.ids : n = intervals[id].left
      BY <1>2, <1>4
    <3>2. intervals[id].left \in Int /\ intervals[id].left + lag >= 0 /\ lag \in Nat
      BY <1>2, <1>3
    <3>3. QED
      BY ONLY <3>1, <3>2
  <2>2. S # {}
    <3>1. Server!Abort \in DOMAIN intervals
      BY <1>2
    <3>2. intervals[Server!Abort].left \in S
      BY <1>4, <3>1
    <3>3. QED
      BY <3>2
  <2>3. QED
    BY <2>1, <2>2
<1>7. k \in S /\ \A n \in S : k <= n
  <2>1. 0 - lag \in Int
    BY <1>2
  <2>2. \E n \in S : \A m \in S : n <= m
    BY <1>6, <2>1, LeastInt
  <2>3. QED
    BY <1>5, <2>2 DEF Server!Min
<1>8. k \in Int /\ k + lag >= 0 /\ k + lag \in Nat
  BY ONLY <1>2, <1>6, <1>7
<1>9. wait' = IF k < horizon /\ k + lag >= 0 THEN k + lag ELSE None
  BY <1>4, <1>5 DEF Server!EndOfPass
<1>10. ASSUME ~ (k < horizon), NEW id \in pool.ids PROVE horizon <= intervals[id].left
  <2>1. intervals[id].left \in Int /\ k <= intervals[id].left
    BY <1>2, <1>4, <1>7
  <2>2. QED
    BY ONLY <1>2, <1>8, <1>10, <2>1
<1>11. QED
  BY <1>8, <1>9, <1>10

LEMMA EndOfPassIInv == ASSUME IntervalsIInv, Server!EndOfPass PROVE IntervalsIInv'
<1>1. /\ at = "pass" /\ at' = "wait" /\ wait' \in {None} \cup Nat
      /\ UNCHANGED <<status, asked, intervals, pool, due, cur, lag, horizon>>
  BY TimeToWait DEF Server!EndOfPass
<1>2. status \in BOOLEAN /\ asked \in BOOLEAN /\ (cur # None => at = "call")
  BY DEF IntervalsIInv, Server!TypeOK, DueIsSound
<1>3. QED
  BY <1>1, <1>2, QuietSteps

(* What is not due yet is ahead.                                           *)
LEMMA ExpireIInv == ASSUME IntervalsIInv, Server!Expire PROVE IntervalsIInv'
<1> USE DEF IntervalsIInv
<1>1. /\ at = "turn" /\ at' = "pass" /\ lag' = 0
      /\ UNCHANGED <<status, asked, intervals, pool, cur, wait, horizon>>
      /\ due' = [id \in {i \in DOMAIN intervals : intervals[i].left <= 0} |->
                   [kind |-> intervals[id].kind, every |-> intervals[id].every, kept |-> TRUE]]
  BY DEF Server!Expire
<1>2. /\ intervals \in [pool.ids -> [kind : Kind, every : Nat, left : Int]]
      /\ intervals[Server!Abort].kind = "abort" /\ cur = None
      /\ pool.ids \subseteq 1..MaxIds
  BY <1>1 DEF Server!TypeOK, IntervalsAreSound, DueIsSound
<1>3. /\ DOMAIN due' = {i \in pool.ids : intervals[i].left <= 0}
      /\ \A i \in DOMAIN due' :
           due'[i] = [kind |-> intervals[i].kind, every |-> intervals[i].every, kept |-> TRUE]
  BY <1>1, <1>2
<1>4. Server!TypeOK'
  <2>1. DOMAIN due' \subseteq 1..MaxIds
    BY <1>2, <1>3
  <2>2. 0 \in 0..MaxLag
    BY ServerAssumption
  <2>3. QED
    BY <1>1, <2>1, <2>2 DEF Server!TypeOK
<1>5. IntervalsAreSound' /\ PoolIsSound(pool)'
  BY <1>1 DEF IntervalsAreSound, PoolIsSound, Ids!IsFree
<1>6. DueIsSound'
  <2>1. ASSUME NEW i \in DOMAIN due'
        PROVE  due'[i] \in [kind : Kind, every : Nat, kept : BOOLEAN]
    <3>1. i \in pool.ids
      BY <1>3
    <3>2. intervals[i].kind \in Kind /\ intervals[i].every \in Nat
      BY <1>2, <3>1
    <3>3. due'[i] = [kind |-> intervals[i].kind, every |-> intervals[i].every, kept |-> TRUE]
      BY <1>3
    <3>4. QED
      BY ONLY <3>2, <3>3
  <2>2. due' \in [DOMAIN due' -> [kind : Kind, every : Nat, kept : BOOLEAN]]
    BY <1>1, <2>1
  <2>3. QED
    BY <1>1, <1>2, <1>3, <2>2 DEF DueIsSound
<1>7. DueIsAhead'
  <2>1. ASSUME NEW i \in pool.ids PROVE Pending(i)' \/ intervals[i].left + 0 >= 0
    <3>1. intervals[i].left \in Int
      BY <1>2
    <3>2. CASE intervals[i].left <= 0
      <4>1. i \in DOMAIN due'
        BY <1>3, <3>2
      <4>2. due'[i] = [kind |-> intervals[i].kind, every |-> intervals[i].every, kept |-> TRUE]
        BY <1>3, <4>1
      <4>3. due'[i].kept
        BY ONLY <4>2
      <4>4. QED
        BY <4>1, <4>3 DEF Pending
    <3>3. CASE ~ (intervals[i].left <= 0)
      BY <3>1, <3>3
    <3>4. QED
      BY <3>2, <3>3
  <2>2. QED
    BY <1>1, <2>1 DEF DueIsAhead
<1>8. QED
  BY <1>4, <1>5, <1>6, <1>7

(* A function that is called is due in its interval from this turn.        *)
LEMMA CallIInv == ASSUME IntervalsIInv, NEW id \in DOMAIN due, Server!Call(id) PROVE IntervalsIInv'
<1> USE DEF IntervalsIInv
<1>1. /\ at = "pass" /\ due' = [i \in DOMAIN due \ {id} |-> due[i]]
      /\ UNCHANGED <<pool, lag, wait, horizon>> /\ Server!Renew(id)
  BY DEF Server!Call
<1>2. /\ status \in BOOLEAN /\ asked \in BOOLEAN /\ lag \in Nat /\ cur = None
      /\ intervals \in [pool.ids -> [kind : Kind, every : Nat, left : Int]]
      /\ Server!Abort \in pool.ids /\ intervals[Server!Abort].kind = "abort"
      /\ due \in [DOMAIN due -> [kind : Kind, every : Nat, kept : BOOLEAN]]
      /\ due[id].kept => id \in pool.ids
      /\ id = Server!Abort => due[id].kind = "abort"
      /\ DOMAIN due \subseteq 1..MaxIds
  BY <1>1 DEF Server!TypeOK, IntervalsAreSound, DueIsSound
<1>3. /\ status' \in BOOLEAN /\ asked' \in BOOLEAN
      /\ \/ at' = "pass" /\ cur' = None
         \/ at' = "call" /\ cur'.id = id /\ id # Server!Abort
  <2>1. CASE due[id].kind = "abort"
    BY <1>1, <1>2, <2>1 DEF Server!Call
  <2>2. CASE due[id].kind = "state"
    BY <1>1, <1>2, <2>2 DEF Server!Call
  <2>3. CASE due[id].kind \notin {"abort", "state"}
    BY <1>1, <1>2, <2>3 DEF Server!Call
  <2>4. QED
    BY <2>1, <2>2, <2>3
<1>4. /\ DOMAIN due' = DOMAIN due \ {id}
      /\ \A i \in DOMAIN due' : due'[i] = due[i]
  BY <1>1
<1>5. /\ intervals' \in [pool.ids -> [kind : Kind, every : Nat, left : Int]]
      /\ \A i \in pool.ids : /\ intervals'[i].kind = intervals[i].kind
                             /\ i # id \/ ~ due[id].kept => intervals'[i] = intervals[i]
      /\ due[id].kept => intervals'[id].left = due[id].every - lag
  <2>1. CASE due[id].kept
    <3>1. PICK k : k = due[id].every - lag
      OBVIOUS
    <3>2. k \in Int
      <4>1. due[id].every \in Nat /\ lag \in Nat
        BY <1>2
      <4>2. QED
        BY ONLY <3>1, <4>1
    <3>3. intervals' = [intervals EXCEPT ![id].left = k]
      BY <1>1, <2>1, <3>1 DEF Server!Renew
    <3>4. /\ DOMAIN intervals = pool.ids /\ id \in pool.ids
          /\ \A i \in pool.ids : intervals[i] \in [kind : Kind, every : Nat, left : Int]
      BY <1>2, <2>1
    <3>5. /\ intervals' \in [pool.ids -> [kind : Kind, every : Nat, left : Int]]
          /\ intervals'[id].left = k
          /\ \A i \in pool.ids : /\ intervals'[i].kind = intervals[i].kind
                                 /\ i # id => intervals'[i] = intervals[i]
      BY ONLY <1>2, <3>2, <3>3, <3>4
    <3>6. QED
      BY <2>1, <3>1, <3>5
  <2>2. CASE ~ due[id].kept
    BY <1>1, <1>2, <2>2 DEF Server!Renew
  <2>3. QED
    BY <2>1, <2>2
<1>6. Server!TypeOK'
  <2>1. DOMAIN due' \subseteq 1..MaxIds
    BY <1>2, <1>4
  <2>2. QED
    BY <1>1, <1>3, <2>1 DEF Server!TypeOK
<1>7. PoolIsSound(pool)' /\ IntervalsAreSound'
  BY <1>1, <1>2, <1>5 DEF PoolIsSound, Ids!IsFree, IntervalsAreSound, Server!Abort
<1>8. DueIsSound'
  <2>1. due' \in [DOMAIN due' -> [kind : Kind, every : Nat, kept : BOOLEAN]]
    BY <1>1, <1>2
  <2>2. \A i \in DOMAIN due' :
          /\ due'[i].kept => i \in pool'.ids
          /\ i = Server!Abort => due'[i].kind = "abort"
    BY <1>1, <1>4 DEF DueIsSound
  <2>3. QED
    BY <1>3, <2>1, <2>2 DEF DueIsSound, Server!Abort
<1>9. DueIsAhead'
  <2>1. ASSUME NEW i \in pool.ids PROVE Pending(i)' \/ intervals'[i].left + lag >= 0
    <3>1. Pending(i) \/ intervals[i].left + lag >= 0
      BY <1>1 DEF DueIsAhead
    <3>2. CASE i = id /\ due[id].kept
      <4>1. due[id].every \in Nat /\ intervals'[i].left = due[id].every - lag
        BY <1>2, <1>5, <3>2
      <4>2. QED
        BY ONLY <1>2, <4>1
    <3>3. CASE i # id
      BY <1>4, <1>5, <3>1, <3>3 DEF Pending
    <3>4. CASE i = id /\ ~ due[id].kept
      BY <1>5, <3>1, <3>4 DEF Pending
    <3>5. QED
      BY <3>2, <3>3, <3>4
  <2>2. QED
    BY <1>1, <2>1 DEF DueIsAhead
<1>10. QED
  BY <1>6, <1>7, <1>8, <1>9

(* A function has returned: that of registerOnce removes its interval.     *)
LEMMA ReturnIInv == ASSUME IntervalsIInv, Server!Return PROVE IntervalsIInv'
<1>1. /\ at = "call" /\ cur # None /\ at' = "pass" /\ cur' = None
      /\ UNCHANGED <<status, asked, lag, wait, horizon>>
      /\ IF cur.kind = "once" THEN Server!Remove(cur.id) ELSE UNCHANGED <<intervals, pool, due>>
  BY DEF Server!Return
<1>2. /\ cur.id = Server!Abort => cur.kind # "once"
      /\ status \in BOOLEAN /\ asked \in BOOLEAN /\ wait \in {None} \cup Nat
  BY <1>1 DEF IntervalsIInv, Server!TypeOK, DueIsSound
<1>3. CASE cur.kind = "once"
  BY <1>1, <1>2, <1>3, RemoveIInv
<1>4. CASE cur.kind # "once"
  BY <1>1, <1>2, <1>4, QuietSteps
<1>5. QED
  BY <1>3, <1>4

(* Time that is left gets shorter by one, down to the bound.               *)
LEMMA LessByOne ==
  ASSUME NEW n \in Int, NEW k, k = Server!Max({n - 1, -MaxLag})
  PROVE  k = IF n - 1 >= -MaxLag THEN n - 1 ELSE -MaxLag
<1>1. n \in Int
  OBVIOUS
<1>2. PICK b : b = n - 1
  OBVIOUS
<1>3. b \in Int /\ -MaxLag \in Int
  BY ONLY <1>1, <1>2, ServerAssumption
<1>4. \E m \in {b, -MaxLag} : \A x \in {b, -MaxLag} : m >= x
  BY ONLY <1>3
<1>5. k \in {b, -MaxLag} /\ \A x \in {b, -MaxLag} : k >= x
  BY <1>2, <1>4 DEF Server!Max
<1>6. k = IF b >= -MaxLag THEN b ELSE -MaxLag
  BY ONLY <1>3, <1>5
<1>7. QED
  BY ONLY <1>2, <1>6

(* As time goes on, either the wait gets shorter or the turn gets longer,  *)
(* by as much as the intervals.                                            *)
LEMMA TickIInv == ASSUME IntervalsIInv, Server!Tick PROVE IntervalsIInv'
<1> USE DEF IntervalsIInv
<1>1. /\ UNCHANGED <<at, status, asked, pool, due, cur>>
      /\ intervals' = [id \in DOMAIN intervals |->
           [intervals[id] EXCEPT !.left = Server!Max({intervals[id].left - 1, -MaxLag})]]
      /\ \/ at = "wait" /\ wait # 0 /\ lag' = lag
            /\ wait' = IF wait = None THEN None ELSE wait - 1
         \/ (at # "wait" \/ wait = 0) /\ lag < MaxLag /\ lag' = lag + 1 /\ wait' = wait
      /\ horizon' \in {horizon, Server!Max({horizon - 1, -MaxLag})}
  BY DEF Server!Tick
<1>2. /\ intervals \in [pool.ids -> [kind : Kind, every : Nat, left : Int]]
      /\ lag \in 0..MaxLag /\ wait \in {None} \cup Nat
      /\ cur # None => at = "call"
  BY DEF Server!TypeOK, IntervalsAreSound, DueIsSound
<1>3. /\ lag' \in 0..MaxLag /\ wait' \in {None} \cup Nat
      /\ at # "wait" => lag' = lag + 1
  BY ONLY <1>1, <1>2, ServerAssumption
<1>4. ASSUME NEW i \in pool.ids
      PROVE  /\ intervals'[i] \in [kind : Kind, every : Nat, left : Int]
             /\ intervals'[i].kind = intervals[i].kind
             /\ intervals'[i].left >= intervals[i].left - 1
  <2>1. PICK k : k = Server!Max({intervals[i].left - 1, -MaxLag})
    OBVIOUS
  <2>2. intervals[i] \in [kind : Kind, every : Nat, left : Int] /\ intervals[i].left \in Int
    BY <1>2
  <2>3. k = IF intervals[i].left - 1 >= -MaxLag THEN intervals[i].left - 1 ELSE -MaxLag
    BY <2>1, <2>2, LessByOne
  <2>4. k \in Int /\ k >= intervals[i].left - 1
    BY ONLY <2>2, <2>3, ServerAssumption
  <2>5. intervals'[i] = [intervals[i] EXCEPT !.left = k]
    BY <1>1, <1>2, <2>1
  <2>6. QED
    BY ONLY <2>2, <2>4, <2>5
<1>5. Server!TypeOK'
  <2>1. horizon \in Int /\ horizon \in -MaxLag..MaxHorizon
    BY ServerAssumption DEF Server!TypeOK
  <2>2. horizon' = horizon
          \/ horizon' = IF horizon - 1 >= -MaxLag THEN horizon - 1 ELSE -MaxLag
    BY <1>1, <2>1, LessByOne
  <2>3. horizon' \in -MaxLag..MaxHorizon
    BY ONLY <2>1, <2>2, ServerAssumption
  <2>4. QED
    BY <1>1, <1>3, <2>3 DEF Server!TypeOK
<1>6. IntervalsAreSound' /\ PoolIsSound(pool)'
  <2>1. intervals' \in [pool.ids -> [kind : Kind, every : Nat, left : Int]]
    <3>1. DOMAIN intervals = pool.ids
      BY <1>2
    <3>2. intervals' = [id \in pool.ids |-> intervals'[id]]
      BY <1>1, <3>1
    <3>3. QED
      BY <1>4, <3>2
  <2>2. QED
    BY <1>1, <1>4, <2>1 DEF IntervalsAreSound, PoolIsSound, Ids!IsFree, Server!Abort
<1>7. DueIsSound'
  BY <1>1 DEF DueIsSound, Server!Abort
<1>8. DueIsAhead'
  <2>1. ASSUME at = "pass" \/ cur # None, NEW i \in pool.ids
        PROVE  Pending(i)' \/ intervals'[i].left + lag' >= 0
    <3>1. Pending(i) \/ intervals[i].left + lag >= 0
      BY <2>1 DEF DueIsAhead
    <3>2. lag' = lag + 1 /\ intervals[i].left \in Int /\ intervals'[i].left \in Int
      BY <1>2, <1>3, <1>4, <2>1
    <3>3. CASE Pending(i)
      BY <1>1, <3>3 DEF Pending
    <3>4. CASE intervals[i].left + lag >= 0
      <4>1. intervals'[i].left >= intervals[i].left - 1 /\ lag \in Nat
        BY <1>2, <1>4
      <4>2. intervals'[i].left + lag' >= 0
        BY ONLY <3>2, <3>4, <4>1
      <4>3. QED
        BY <4>2
    <3>5. QED
      BY <3>1, <3>3, <3>4
  <2>2. QED
    BY <1>1, <1>3, <2>1 DEF DueIsAhead
<1>9. QED
  BY <1>5, <1>6, <1>7, <1>8

(* Every step keeps this invariant.                                        *)
LEMMA ServerNextIntervals == ASSUME IntervalsIInv, Server!ServerNext PROVE IntervalsIInv'
<1>1. CASE Server!ServerStep
  BY <1>1, LoopIInv, ExpireIInv, CallIInv, ReturnIInv, EndOfPassIInv DEF Server!ServerStep
<1>2. CASE Server!ApplicationStep
  <2>1. ASSUME NEW d \in Delay, Server!RegisterInterval(d) \/ Server!SetServerStateLater(d)
        PROVE  IntervalsIInv'
    <3>1. d \in Nat
      BY ServerAssumption
    <3>2. QED
      BY <2>1, <3>1, RegisterIInv DEF Server!RegisterInterval, Server!SetServerStateLater
  <2>2. ASSUME NEW d \in Delay \cup {0}, Server!RegisterOnce(d) PROVE IntervalsIInv'
    <3>1. d \in Nat /\ 1 \in Nat
      BY ServerAssumption
    <3>2. QED
      BY <2>2, <3>1, RegisterIInv DEF Server!RegisterOnce
  <2>3. ASSUME NEW id \in pool.ids, Server!RemoveInterval(id) PROVE IntervalsIInv'
    <3>1. /\ at \in {"init", "call"} /\ id # Server!Abort /\ Server!Remove(id)
          /\ UNCHANGED <<at, status, asked, cur, lag, wait, horizon>>
      BY <2>3 DEF Server!RemoveInterval, Server!Application
    <3>2. cur # None => at = "call"
      BY DEF IntervalsIInv, DueIsSound
    <3>3. QED
      BY <3>1, <3>2, RemoveIInv
  <2>4. ASSUME Server!SetServerState PROVE IntervalsIInv'
    BY <2>4, LoopIInv
  <2>5. QED
    BY <1>2, <2>1, <2>2, <2>3, <2>4 DEF Server!ApplicationStep
<1>3. CASE Server!Ask \/ Server!Accept
  BY <1>3, LoopIInv
<1>4. CASE Server!Tick
  BY <1>4, TickIInv
<1>5. QED
  BY <1>1, <1>2, <1>3, <1>4 DEF Server!ServerNext

(* Whatever is registered is due, and due again, in less than the bound on *)
(* the time until NO_TIMEOUT: while the bound stands for that time, it is  *)
(* not the case that nothing is due before.                                *)
DeadlinesAreSound ==
  /\ \A id \in pool.ids : intervals[id].every < MaxHorizon /\ intervals[id].left < MaxHorizon
  /\ \A id \in DOMAIN due : due[id].every < MaxHorizon
  /\ at = "wait" /\ wait = None => \A id \in pool.ids : horizon <= intervals[id].left

(* The inductive invariant. *)
ServerIInv == IntervalsIInv /\ DeadlinesAreSound

(* An interval with a deadline that is near is registered. *)
LEMMA RegisterDeadlines ==
  ASSUME IntervalsIInv, DeadlinesAreSound, NEW kind, NEW every, NEW left,
         every < MaxHorizon, left < MaxHorizon, Server!Register(kind, every, left)
  PROVE  DeadlinesAreSound'
<1>1. /\ DOMAIN intervals = pool.ids /\ pool'.ids = pool.ids \cup {pool.next}
      /\ pool.next \notin pool.ids
  BY SamePool, AllocIsSound DEF IntervalsIInv, IntervalsAreSound, Server!Register
<1>2. \A id \in pool'.ids :
        intervals'[id] = IF id = pool.next THEN Server!Interval(kind, every, left) ELSE intervals[id]
  BY <1>1 DEF Server!Register
<1>3. /\ Server!Interval(kind, every, left).every = every
      /\ Server!Interval(kind, every, left).left = left
  BY DEF Server!Interval
<1>4. \A id \in pool'.ids : intervals'[id].every < MaxHorizon /\ intervals'[id].left < MaxHorizon
  BY <1>1, <1>2, <1>3 DEF DeadlinesAreSound
<1>5. at' # "wait" /\ due' = due
  BY DEF Server!Register, Server!Application
<1>6. QED
  BY <1>4, <1>5 DEF DeadlinesAreSound

(* An interval is removed. *)
LEMMA RemoveDeadlines ==
  ASSUME IntervalsIInv, DeadlinesAreSound, NEW id, Server!Remove(id), at' # "wait"
  PROVE  DeadlinesAreSound'
<1>1. CASE id \notin DOMAIN intervals
  BY <1>1 DEF Server!Remove, DeadlinesAreSound
<1>2. CASE id \in DOMAIN intervals
  <2>1. DOMAIN intervals = pool.ids /\ due \in [DOMAIN due -> [kind : Kind, every : Nat, kept : BOOLEAN]]
    BY DEF IntervalsIInv, IntervalsAreSound, DueIsSound
  <2>2. pool'.ids = pool.ids \ {id}
    <3>1. pool' = Ids!FreeId(pool, id)
      BY <1>2, SamePool DEF Server!Remove
    <3>2. PoolIsSound(pool) /\ id \in pool.ids
      BY <1>2, <2>1 DEF IntervalsIInv
    <3>3. QED
      BY <3>1, <3>2, FreeIsSound
  <2>3. \A i \in pool'.ids : i \in pool.ids /\ intervals'[i] = intervals[i]
    BY <1>2, <2>1, <2>2 DEF Server!Remove
  <2>4. DOMAIN due' = DOMAIN due
    BY <1>2 DEF Server!Remove
  <2>5. ASSUME NEW i \in DOMAIN due PROVE due'[i].every = due[i].every
    <3>1. due'[i] = IF i = id THEN [due[i] EXCEPT !.kept = FALSE] ELSE due[i]
      BY <1>2, <2>5 DEF Server!Remove
    <3>2. due[i] \in [kind : Kind, every : Nat, kept : BOOLEAN]
      BY <2>1, <2>5
    <3>3. QED
      BY ONLY <3>1, <3>2
  <2>6. QED
    BY <2>3, <2>4, <2>5 DEF DeadlinesAreSound
<1>3. QED
  BY <1>1, <1>2

(* An interval that is called is due again as it was registered.           *)
LEMMA CallDeadlines ==
  ASSUME IntervalsIInv, DeadlinesAreSound, NEW id \in DOMAIN due, Server!Call(id)
  PROVE  DeadlinesAreSound'
<1>1. /\ at' # "wait" /\ pool' = pool /\ Server!Renew(id)
      /\ due' = [i \in DOMAIN due \ {id} |-> due[i]]
  BY DEF Server!Call
<1>2. /\ intervals \in [pool.ids -> [kind : Kind, every : Nat, left : Int]]
      /\ due[id].every \in Nat /\ due[id].every < MaxHorizon /\ lag \in Nat
  BY DEF IntervalsIInv, IntervalsAreSound, DueIsSound, DeadlinesAreSound, Server!TypeOK
<1>3. ASSUME NEW i \in pool.ids
      PROVE  intervals'[i].every < MaxHorizon /\ intervals'[i].left < MaxHorizon
  <2>1. intervals[i].every < MaxHorizon /\ intervals[i].left < MaxHorizon
    BY <1>3 DEF DeadlinesAreSound
  <2>2. CASE due[id].kept /\ i = id
    <3>1. PICK k : k = due[id].every - lag
      OBVIOUS
    <3>2. k < MaxHorizon
      BY ONLY <1>2, <3>1, ServerAssumption
    <3>3. intervals' = [intervals EXCEPT ![id].left = k]
      BY <1>1, <2>2, <3>1 DEF Server!Renew
    <3>4. intervals[i] \in [kind : Kind, every : Nat, left : Int] /\ i \in DOMAIN intervals
      BY <1>2
    <3>5. intervals'[i].every = intervals[i].every /\ intervals'[i].left = k
      BY ONLY <2>2, <3>3, <3>4
    <3>6. QED
      BY <2>1, <3>2, <3>5
  <2>3. CASE ~ (due[id].kept /\ i = id)
    <3>1. intervals'[i] = intervals[i]
      BY <1>1, <1>2, <2>3 DEF Server!Renew
    <3>2. QED
      BY <2>1, <3>1
  <2>4. QED
    BY <2>2, <2>3
<1>4. \A i \in DOMAIN due' : due'[i].every < MaxHorizon
  BY <1>1 DEF DeadlinesAreSound
<1>5. QED
  BY <1>1, <1>3, <1>4 DEF DeadlinesAreSound

(* What is due, and NO_TIMEOUT, get nearer at the same rate.               *)
LEMMA TickDeadlines ==
  ASSUME IntervalsIInv, DeadlinesAreSound, Server!Tick PROVE DeadlinesAreSound'
<1>1. /\ UNCHANGED <<at, pool, due>>
      /\ intervals' = [id \in DOMAIN intervals |->
           [intervals[id] EXCEPT !.left = Server!Max({intervals[id].left - 1, -MaxLag})]]
      /\ \/ at = "wait" /\ wait # 0 /\ lag' = lag
            /\ wait' = IF wait = None THEN None ELSE wait - 1
         \/ (at # "wait" \/ wait = 0) /\ lag < MaxLag /\ lag' = lag + 1 /\ wait' = wait
      /\ \/ horizon' = Server!Max({horizon - 1, -MaxLag})
         \/ horizon = MaxHorizon /\ horizon' = horizon
  BY DEF Server!Tick
<1>2. /\ intervals \in [pool.ids -> [kind : Kind, every : Nat, left : Int]]
      /\ Server!Abort \in pool.ids /\ wait \in {None} \cup Nat /\ horizon \in Int
  BY ServerAssumption DEF IntervalsIInv, IntervalsAreSound, Server!TypeOK
<1>3. ASSUME NEW i \in pool.ids
      PROVE  /\ intervals'[i].every = intervals[i].every /\ intervals[i].left \in Int
             /\ intervals'[i].left = IF intervals[i].left - 1 >= -MaxLag
                                      THEN intervals[i].left - 1 ELSE -MaxLag
  <2>1. intervals[i] \in [kind : Kind, every : Nat, left : Int] /\ intervals[i].left \in Int
    BY <1>2
  <2>2. PICK k : k = Server!Max({intervals[i].left - 1, -MaxLag})
    OBVIOUS
  <2>3. intervals'[i] = [intervals[i] EXCEPT !.left = k]
    BY <1>1, <1>2, <2>2
  <2>4. intervals'[i].every = intervals[i].every /\ intervals'[i].left = k
    BY ONLY <2>1, <2>3
  <2>5. QED
    BY <2>1, <2>2, <2>4, LessByOne
<1>4. \A i \in pool.ids : intervals'[i].every < MaxHorizon /\ intervals'[i].left < MaxHorizon
  <2>1. ASSUME NEW i \in pool.ids PROVE intervals'[i].left < MaxHorizon
    <3>1. intervals[i].left < MaxHorizon
      BY DEF DeadlinesAreSound
    <3>2. QED
      BY ONLY <1>3, <3>1, ServerAssumption, i \in pool.ids
  <2>2. QED
    BY <1>3, <2>1 DEF DeadlinesAreSound
<1>5. ASSUME at = "wait", wait' = None, NEW i \in pool.ids PROVE horizon' <= intervals'[i].left
  <2>1. wait = None
    <3>1. ASSUME wait \in Nat, wait # 0 PROVE wait - 1 # None
      BY ONLY <3>1, ServerAssumption
    <3>2. QED
      BY <1>1, <1>2, <1>5, <3>1
  <2>2. horizon <= intervals[i].left /\ intervals[i].left < MaxHorizon
    BY <1>5, <2>1 DEF DeadlinesAreSound
  <2>3. intervals[i].left \in Int /\ horizon \in Int /\ MaxHorizon \in Nat /\ MaxLag \in Nat
    BY <1>2, <1>3, ServerAssumption
  <2>4. horizon # MaxHorizon
    BY ONLY <2>2, <2>3
  <2>5. horizon' = IF horizon - 1 >= -MaxLag THEN horizon - 1 ELSE -MaxLag
    BY <1>1, <1>2, <2>4, LessByOne
  <2>6. intervals'[i].left = IF intervals[i].left - 1 >= -MaxLag
                             THEN intervals[i].left - 1 ELSE -MaxLag
    BY <1>3
  <2>7. QED
    BY ONLY <2>2, <2>3, <2>5, <2>6
<1>6. QED
  BY <1>1, <1>4, <1>5 DEF DeadlinesAreSound

(* Every step keeps these facts, ...                                       *)
LEMMA ServerNextDeadlines ==
  ASSUME IntervalsIInv, DeadlinesAreSound, Server!ServerNext PROVE DeadlinesAreSound'
<1>1. CASE Server!Run \/ Server!Leave \/ Server!TimesOut \/ Server!EndOfRequest \/ Server!Accept
  BY <1>1 DEF Server!Run, Server!Leave, Server!TimesOut, Server!EndOfRequest, Server!Accept,
              DeadlinesAreSound
<1>2. CASE Server!Ask \/ Server!SetServerState
  BY <1>2 DEF Server!Ask, Server!SetServerState, DeadlinesAreSound
<1>3. CASE Server!Expire
  <2>1. /\ at' # "wait" /\ UNCHANGED <<intervals, pool>>
        /\ \A id \in DOMAIN due' : id \in DOMAIN intervals /\ due'[id].every = intervals[id].every
    BY <1>3 DEF Server!Expire
  <2>2. DOMAIN intervals = pool.ids
    BY DEF IntervalsIInv, IntervalsAreSound
  <2>3. QED
    BY <2>1, <2>2 DEF DeadlinesAreSound
<1>4. CASE \E id \in DOMAIN due : Server!Call(id)
  BY <1>4, CallDeadlines
<1>5. CASE Server!Return
  <2>1. at' # "wait" /\ (Server!Remove(cur.id) \/ UNCHANGED <<intervals, pool, due>>)
    BY <1>5 DEF Server!Return
  <2>2. QED
    BY <2>1, RemoveDeadlines DEF DeadlinesAreSound
<1>6. CASE Server!EndOfPass
  <2>1. at' = "wait" /\ UNCHANGED <<intervals, pool, due, horizon>>
    BY <1>6 DEF Server!EndOfPass
  <2>2. None \notin Nat
    BY ServerAssumption
  <2>3. wait' = None => \A id \in pool.ids : horizon <= intervals[id].left
    BY <1>6, <2>2, TimeToWait
  <2>4. QED
    BY <2>1, <2>3 DEF DeadlinesAreSound
<1>7. CASE Server!ApplicationStep
  <2>1. 1 < MaxHorizon /\ 0 < MaxHorizon /\ \A d \in Delay \cup {0} : d < MaxHorizon
    BY ServerAssumption
  <2>2. ASSUME NEW d \in Delay, Server!RegisterInterval(d) \/ Server!SetServerStateLater(d)
        PROVE  DeadlinesAreSound'
    BY <2>1, <2>2, RegisterDeadlines DEF Server!RegisterInterval, Server!SetServerStateLater
  <2>3. ASSUME NEW d \in Delay \cup {0}, Server!RegisterOnce(d) PROVE DeadlinesAreSound'
    BY <2>1, <2>3, RegisterDeadlines DEF Server!RegisterOnce
  <2>4. ASSUME NEW id \in pool.ids, Server!RemoveInterval(id) PROVE DeadlinesAreSound'
    BY <2>4, RemoveDeadlines DEF Server!RemoveInterval, Server!Application
  <2>5. QED
    BY <1>2, <1>7, <2>2, <2>3, <2>4 DEF Server!ApplicationStep
<1>8. CASE Server!Tick
  BY <1>8, TickDeadlines
<1>9. QED
  BY <1>1, <1>2, <1>3, <1>4, <1>5, <1>6, <1>7, <1>8 DEF Server!ServerNext, Server!ServerStep

(* ... so the invariant is inductive.                                      *)
LEMMA ServerNextIInv == ASSUME ServerIInv, Server!ServerNext PROVE ServerIInv'
BY ServerNextIntervals, ServerNextDeadlines DEF ServerIInv

(* It holds before the server runs. *)
LEMMA ServerStartIInv ==
  ASSUME NEW place \in {"init", "end"}, Server!InitAt(place), horizon \in -MaxLag..MaxHorizon
  PROVE  ServerIInv
<1>1. DeadlinesAreSound
  <2>1. /\ at # "wait" /\ pool.ids = {1} /\ DOMAIN due = {}
        /\ intervals[1].every = 1 /\ intervals[1].left = 1
    BY DEF Server!InitAt, Server!Abort, Server!Interval
  <2>2. QED
    BY <2>1, ServerAssumption DEF DeadlinesAreSound
<1>2. QED
  BY <1>1, ServerInitIInv DEF ServerIInv

(* Nothing happens in the server.                                          *)
LEMMA ServerStutters == ASSUME ServerIInv, UNCHANGED srvvars PROVE ServerIInv'
BY DEF srvvars, ServerIInv, IntervalsIInv, DeadlinesAreSound, Server!TypeOK, PoolIsSound, Ids!IsFree, IntervalsAreSound,
       Server!Abort, DueIsSound, DueIsAhead, Pending

(* The numbers that are allocated and freed in any order.                  *)
LEMMA NumbersAreSound ==
  /\ Ids!Init => PoolIsSound(numbers)
  /\ PoolIsSound(numbers) /\ Ids!Next => PoolIsSound(numbers)'
<1>1. ASSUME Ids!Init PROVE PoolIsSound(numbers)
  BY <1>1 DEF Ids!Init, PoolIsSound, Ids!IsFree
<1>2. ASSUME PoolIsSound(numbers), Ids!Next PROVE PoolIsSound(numbers)'
  <2>1. PoolIsSound(numbers')
    BY <1>2, AllocIsSound, FreeIsSound DEF Ids!Next
  <2>2. QED
    BY <2>1 DEF PoolIsSound, Ids!IsFree
<1>3. QED
  BY <1>1, <1>2

(* The web server by itself: of whatever is registered and removed, in     *)
(* whatever function, the intervals, the ids and what is due agree.        *)
THEOREM ServerInvariant == Server!Spec => []ServerIInv
<1>1. Server!ServerInit => ServerIInv
  BY ServerStartIInv DEF Server!ServerInit
<1>2. ServerIInv /\ [Server!ServerNext]_(Server!srvvars) => ServerIInv'
  BY ServerNextIInv, ServerStutters DEF Server!srvvars, srvvars
<1>3. QED
  BY <1>1, <1>2, PTL DEF Server!Spec

(* The same of the module that TLC checks, and of its numbers.             *)
THEOREM TasksServerInvariant == AllSpec => [](ServerIInv /\ PoolIsSound(numbers))
<1>1. AllInit => ServerIInv /\ PoolIsSound(numbers)
  <2>1. MaxHorizon \in -MaxLag..MaxHorizon
    BY ServerAssumption
  <2>2. QED
    BY <2>1, ServerStartIInv, NumbersAreSound DEF AllInit, Server!ServerInit
<1>2. ServerIInv /\ PoolIsSound(numbers) /\ [AllNext]_allvars
        => (ServerIInv /\ PoolIsSound(numbers))'
  <2>1. ASSUME ServerIInv, [AllNext]_allvars PROVE ServerIInv'
    BY <2>1, ServerNextIInv, ServerStutters DEF AllNext, allvars
  <2>2. ASSUME PoolIsSound(numbers), [AllNext]_allvars PROVE PoolIsSound(numbers)'
    <3>1. CASE UNCHANGED numbers
      BY <2>2, <3>1 DEF PoolIsSound, Ids!IsFree
    <3>2. QED
      BY <2>2, <3>1, NumbersAreSound DEF AllNext, allvars
  <2>3. QED
    BY <2>1, <2>2
<1>3. QED
  BY <1>1, <1>2, PTL DEF AllSpec

(* No id is given out twice, the check for abortion is kept, and the       *)
(* server does not wait without end, unless nothing is due before          *)
(* NO_TIMEOUT.                                                             *)
THEOREM IntervalsAreKeptHolds == AllSpec => []IntervalsAreKept
<1>1. ServerIInv /\ PoolIsSound(numbers) => IntervalsAreKept
  <2>1. ASSUME ServerIInv PROVE Server!IntervalsAreKept
    <3>1. /\ DOMAIN intervals = pool.ids /\ Ids!IsFree(pool)
          /\ intervals[Server!Abort].kind = "abort"
          /\ at = "wait" /\ wait = None => \A id \in pool.ids : horizon <= intervals[id].left
      BY <2>1 DEF ServerIInv, IntervalsIInv, DeadlinesAreSound, IntervalsAreSound, PoolIsSound
    <3>2. Server!IsFree(pool)
      BY <3>1, SamePool
    <3>3. QED
      BY <3>1, <3>2 DEF Server!IntervalsAreKept, Server!Beyond
  <2>2. QED
    BY <2>1 DEF IntervalsAreKept, PoolIsSound
<1>2. QED
  BY <1>1, TasksServerInvariant, PTL
=============================================================================
