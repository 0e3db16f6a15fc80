--------------------------- MODULE ExecSyncProofs ---------------------------
(***************************************************************************)
(* Proofs about locks (ExecLock), ports (ExecPort) and the two together    *)
(* (ExecSync), for any number of tasks, messages and levels of nesting:    *)
(* who is inside a lock owns it, ownership is handed over in order, no     *)
(* wakeup is lost, TSendMsg returns the answer it was given, and neither   *)
(* of the two leaves the other one the signal they share.                  *)
(***************************************************************************)
EXTENDS ExecSync, ListProofs

(* Where a task of ExecSync can be. *)
Where == {"idle", "lockwait", "notify", "syncwait", "syncget", "testport", "waitport",
          "setflags"}

-----------------------------------------------------------------------------
(* Locks.  The lemmas hold in a system where tasks do other things, and    *)
(* receive other signals, as long as an idle task has no signal "single".  *)
IdleIsQuiet == \A t \in Task : pc[t] = "idle" => ~Single(t)

(* The lock's share of the types.                                          *)
LockTypeOK ==
  /\ owner \in Task \cup {None}
  /\ nest \in Nat
  /\ waiters \in Seq(Task)
  /\ waitcount \in Nat
  /\ sig \in [Task -> SUBSET {"single", "user"}]
  /\ pc \in [Task -> Where]
  /\ depth \in [Task -> Nat]

(* t's wait for the lock is over.                                          *)
Woken(t) == pc[t] = "lockwait" /\ Single(t)

(* The owner is a task that is inside or has been signalled, and the lock  *)
(* is free exactly when its nesting count is zero.                         *)
OwnerIsActive ==
  /\ owner = None <=> nest = 0
  /\ owner # None => depth[owner] > 0 \/ Woken(owner)
  /\ \A t \in Task : depth[t] > 0 => pc[t] # "lockwait"

(* A signalled task owns the lock, and enters it before anybody else has   *)
(* touched it.                                                             *)
WokenIsFirst == \A t \in Task : Woken(t) => owner = t /\ depth[t] = 0 /\ nest = 1

(* The list and its length agree, and it holds sleeping tasks only.        *)
QueueIsConsistent ==
  /\ waitcount = Len(waiters)
  /\ \A i \in 1..Len(waiters) : /\ pc[waiters[i]] = "lockwait"
                                /\ ~Single(waiters[i])

(* What always holds of a lock, whatever else its users do.                *)
LockInv ==
  /\ LockTypeOK
  /\ InsideOwns
  /\ WaiterIsServed
  /\ OwnerIsActive
  /\ WokenIsFirst
  /\ QueueIsConsistent

(* The free lock satisfies the invariant, ... *)
LEMMA InitLockInv == Init => LockInv
  BY NoneAssumption DEF Init, LockInv, Single, Woken, LockTypeOK, Where, InsideOwns,
     WaiterIsServed, OwnerIsActive, WokenIsFirst, QueueIsConsistent

(* ... a TLock that enters at once preserves it, ... *)
LEMMA LockAtOnceInv ==
  ASSUME LockInv, IdleIsQuiet, NEW t \in Task, LockAtOnce(t)
  PROVE  LockInv'
<1> USE NoneAssumption DEF Single, Woken, LockAtOnce
<1>1. LockTypeOK'
  BY DEF LockInv, LockTypeOK
<1>2. \A u \in Task : ~Woken(u)
  <2>1. ASSUME NEW u \in Task, Woken(u) PROVE FALSE
    BY <2>1 DEF LockInv, WokenIsFirst, OwnerIsActive
  <2>2. QED
    BY <2>1
<1>3. nest = depth[t] /\ nest \in Nat
  <2>1. depth[t] \in Nat /\ nest \in Nat
    BY DEF LockInv, LockTypeOK
  <2>2. CASE owner = None
    BY <2>1, <2>2 DEF LockInv, InsideOwns, OwnerIsActive
  <2>3. CASE owner = t
    BY <1>2, <2>1, <2>3 DEF LockInv, InsideOwns, OwnerIsActive
  <2>4. QED
    BY <2>2, <2>3
<1>4. InsideOwns'
  BY <1>3 DEF LockInv, LockTypeOK, InsideOwns
<1>5. WokenIsFirst'
  BY <1>2 DEF WokenIsFirst
<1>6. OwnerIsActive'
  BY <1>3 DEF LockInv, LockTypeOK, OwnerIsActive
<1>7. WaiterIsServed' /\ QueueIsConsistent'
  BY DEF LockInv, LockTypeOK, WaiterIsServed, QueueIsConsistent
<1>8. QED
  BY <1>1, <1>4, <1>5, <1>6, <1>7 DEF LockInv

(* ... so does one that has to queue, ... *)
LEMMA LockQueueInv ==
  ASSUME LockInv, IdleIsQuiet, NEW t \in Task, LockQueue(t)
  PROVE  LockInv'
<1> USE NoneAssumption DEF Single, Woken, LockQueue
<1>1. LockTypeOK'
  BY DEF LockInv, LockTypeOK, Where
<1>2. InsideOwns' /\ OwnerIsActive' /\ WokenIsFirst'
  BY DEF LockInv, LockTypeOK, IdleIsQuiet, InsideOwns, OwnerIsActive, WokenIsFirst
<1>3. /\ Len(waiters') = Len(waiters) + 1
      /\ waiters'[Len(waiters) + 1] = t
      /\ \A i \in 1..Len(waiters) : waiters'[i] = waiters[i]
  BY DEF LockInv, LockTypeOK
<1>4. \A i \in 1..Len(waiters) : waiters[i] # t
  BY DEF LockInv, LockTypeOK, QueueIsConsistent
<1>5. WaiterIsServed'
  BY <1>3, <1>4 DEF LockInv, LockTypeOK, WaiterIsServed, QueueIsConsistent
<1>6. QueueIsConsistent'
  BY <1>3, <1>4 DEF LockInv, LockTypeOK, IdleIsQuiet, QueueIsConsistent
<1>7. QED
  BY <1>1, <1>2, <1>5, <1>6 DEF LockInv

(* ... the return of a waiter that was signalled, ... *)
LEMMA LockWokenInv ==
  ASSUME LockInv, NEW t \in Task, LockWoken(t)
  PROVE  LockInv'
<1> USE NoneAssumption DEF Single, Woken, LockWoken
<1>1. LockTypeOK'
  BY DEF LockInv, LockTypeOK, Where
<1>2. InsideOwns' /\ OwnerIsActive' /\ WokenIsFirst'
  BY DEF LockInv, LockTypeOK, InsideOwns, OwnerIsActive, WokenIsFirst
<1>3. WaiterIsServed' /\ QueueIsConsistent'
  BY DEF LockInv, LockTypeOK, WaiterIsServed, QueueIsConsistent
<1>4. QED
  BY <1>1, <1>2, <1>3 DEF LockInv

(* ... TUnlock, whether it leaves a level, hands over or frees the lock, ... *)
LEMMA UnlockInv ==
  ASSUME LockInv, NEW t \in Task, Unlock(t)
  PROVE  LockInv'
<1> USE NoneAssumption DEF Single, Woken, Unlock
<1>1. owner = t /\ nest = depth[t] /\ nest \in Nat /\ nest > 0
  BY DEF LockInv, LockTypeOK, InsideOwns
<1>2. CASE UnlockNested(t)
  <2>1. LockTypeOK'
    BY <1>1, <1>2 DEF LockInv, LockTypeOK, UnlockNested
  <2>2. InsideOwns' /\ OwnerIsActive' /\ WokenIsFirst'
    BY <1>1, <1>2 DEF LockInv, LockTypeOK, InsideOwns, OwnerIsActive,
       WokenIsFirst, UnlockNested
  <2>3. WaiterIsServed' /\ QueueIsConsistent'
    BY <1>1, <1>2 DEF LockInv, LockTypeOK, WaiterIsServed, QueueIsConsistent,
       UnlockNested
  <2>4. QED
    BY <2>1, <2>2, <2>3 DEF LockInv
<1>3. CASE UnlockHandOver(t)
  <2> DEFINE w == Head(waiters)
  <2>1. /\ Len(waiters) \in Nat /\ Len(waiters) > 0
        /\ w = waiters[1]
        /\ w \in Task
        /\ Len(waiters') = Len(waiters) - 1
        /\ waiters' \in Seq(Task)
        /\ \A i \in 1..Len(waiters') : waiters'[i] = waiters[i + 1]
    BY <1>3 DEF LockInv, LockTypeOK, QueueIsConsistent, UnlockHandOver
  <2>2. pc[w] = "lockwait" /\ ~Single(w) /\ w # t /\ depth[w] = 0
    BY <2>1 DEF LockInv, LockTypeOK, QueueIsConsistent, OwnerIsActive
  <2>3. \A u \in Task : ~Woken(u)
    BY <1>1 DEF LockInv, LockTypeOK, WokenIsFirst
  <2>4. \A i \in 1..Len(waiters') : waiters'[i] # w
    BY <2>1 DEF LockInv, WaiterIsServed
  <2>5. LockTypeOK'
    BY <1>1, <1>3, <2>1 DEF LockInv, LockTypeOK, UnlockHandOver
  <2>6. InsideOwns' /\ OwnerIsActive' /\ WokenIsFirst'
    BY <1>1, <1>3, <2>1, <2>2, <2>3 DEF LockInv, LockTypeOK, InsideOwns,
       OwnerIsActive, WokenIsFirst, UnlockHandOver
  <2>7. QueueIsConsistent'
    BY <1>3, <2>1, <2>3, <2>4 DEF LockInv, LockTypeOK, QueueIsConsistent,
       UnlockHandOver
  <2>8. WaiterIsServed'
    <3>1. ASSUME NEW u \in Task, pc'[u] = "lockwait", ~Single(u)'
          PROVE  \E i \in 1..Len(waiters') : waiters'[i] = u
      <4>1. u # w /\ pc[u] = "lockwait" /\ ~Single(u)
        BY <1>3, <2>1, <2>3, <3>1 DEF LockInv, LockTypeOK, UnlockHandOver
      <4>2. PICK i \in 1..Len(waiters) : waiters[i] = u
        BY <4>1 DEF LockInv, WaiterIsServed
      <4>3. i - 1 \in 1..Len(waiters') /\ waiters'[i - 1] = u
        BY <2>1, <4>1, <4>2
      <4>4. QED
        BY <4>3
    <3>2. \A i, j \in 1..Len(waiters') : waiters'[i] = waiters'[j] => i = j
      <4>1. ASSUME NEW i \in 1..Len(waiters'), NEW j \in 1..Len(waiters'),
                   waiters'[i] = waiters'[j]
            PROVE  i = j
        <5>1. i + 1 \in 1..Len(waiters) /\ j + 1 \in 1..Len(waiters)
          BY <2>1
        <5>2. waiters[i + 1] = waiters[j + 1]
          BY <2>1, <4>1
        <5>3. i + 1 = j + 1
          BY <5>1, <5>2 DEF LockInv, WaiterIsServed
        <5>4. QED
          BY <5>3
      <4>2. QED
        BY <4>1
    <3>3. owner' # None
      BY <1>3, <2>1 DEF UnlockHandOver
    <3>4. QED
      BY <3>1, <3>2, <3>3 DEF WaiterIsServed
  <2>9. QED
    BY <2>5, <2>6, <2>7, <2>8 DEF LockInv
<1>4. CASE UnlockFree(t)
  <2>1. waiters = <<>>
    BY <1>4, EmptySeq DEF LockInv, LockTypeOK, QueueIsConsistent, UnlockFree
  <2>2. LockTypeOK'
    BY <1>1, <1>4 DEF LockInv, LockTypeOK, UnlockFree
  <2>3. InsideOwns' /\ OwnerIsActive' /\ WokenIsFirst'
    BY <1>1, <1>4 DEF LockInv, LockTypeOK, InsideOwns, OwnerIsActive,
       WokenIsFirst, UnlockFree
  <2>4. WaiterIsServed' /\ QueueIsConsistent'
    BY <2>1, <1>4 DEF LockInv, LockTypeOK, WaiterIsServed, QueueIsConsistent,
       UnlockFree
  <2>5. QED
    BY <2>2, <2>3, <2>4 DEF LockInv
<1>5. QED
  BY <1>2, <1>3, <1>4

(* ... thus every step of the lock, ... *)
LEMMA NextLockInv == LockInv /\ IdleIsQuiet /\ Next => LockInv'
  BY LockAtOnceInv, LockQueueInv, LockWokenInv, UnlockInv DEF Next

(* ... and every other step that leaves alone who waits for the lock.      *)
LEMMA OtherLockInv ==
  ASSUME LockInv, LockTypeOK', UNCHANGED lockvars,
         \A t \in Task : /\ pc'[t] = "lockwait" <=> pc[t] = "lockwait"
                         /\ pc[t] = "lockwait" => (Single(t)' <=> Single(t))
  PROVE  LockInv'
<1>1. /\ UNCHANGED <<owner, nest, waiters, waitcount, depth>>
      /\ owner \in Task \cup {None} /\ waiters \in Seq(Task)
      /\ \A t \in Task : Woken(t)' <=> Woken(t)
  BY DEF lockvars, LockInv, LockTypeOK, Woken
<1>2. InsideOwns' /\ WokenIsFirst'
  BY <1>1 DEF LockInv, InsideOwns, WokenIsFirst
<1>3. OwnerIsActive'
  BY <1>1 DEF LockInv, OwnerIsActive
<1>4. QueueIsConsistent'
  <2>1. \A i \in 1..Len(waiters) : waiters[i] \in Task
    BY <1>1
  <2>2. QED
    BY <1>1, <2>1 DEF LockInv, QueueIsConsistent
<1>5. WaiterIsServed'
  BY <1>1 DEF LockInv, WaiterIsServed
<1>6. QED
  BY <1>2, <1>3, <1>4, <1>5 DEF LockInv

(* A lock with waiters goes to the first of them and to nobody else.       *)
LEMMA NextInOrder ==
  ASSUME LockInv, Next, owner' # owner, waiters # <<>>
  PROVE  owner' = Head(waiters)
<1>1. PICK t \in Task : LockAtOnce(t) \/ LockQueue(t) \/ LockWoken(t) \/ Unlock(t)
  BY DEF Next
<1>2. owner # None
  BY DEF LockInv, WaiterIsServed
<1>3. Len(waiters) \in Nat \ {0}
  BY EmptySeq DEF LockInv, LockTypeOK
<1>4. QED
  BY <1>1, <1>2, <1>3 DEF LockInv, QueueIsConsistent, LockAtOnce, LockQueue,
     LockWoken, Unlock, UnlockNested, UnlockHandOver, UnlockFree

(* A step of the lock is a step of the mutex, or none.                     *)
LEMMA NextIsMutex ==
  ASSUME LockInv, Next
  PROVE  [Mutex!Next]_depth
<1>1. ASSUME NEW t \in Task, LockAtOnce(t) PROVE Mutex!Enter(t)
  BY <1>1, NoneAssumption DEF LockAtOnce, Mutex!Enter, LockInv, LockTypeOK, InsideOwns
<1>2. ASSUME NEW t \in Task, LockWoken(t) PROVE Mutex!Enter(t)
  BY <1>2 DEF LockWoken, Mutex!Enter, LockInv, LockTypeOK, InsideOwns, WokenIsFirst, Woken
<1>3. ASSUME NEW t \in Task, Unlock(t) PROVE Mutex!Leave(t)
  BY <1>3 DEF Unlock, Mutex!Leave
<1>4. ASSUME NEW t \in Task, LockQueue(t) PROVE UNCHANGED depth
  BY <1>4 DEF LockQueue
<1>5. QED
  BY <1>1, <1>2, <1>3, <1>4 DEF Next, Mutex!Next
-----------------------------------------------------------------------------
(* The inductive invariant of locks by themselves.                         *)
IInv == TypeOK /\ LockInv /\ WokenOwns

(* It holds initially, and every step preserves it.                        *)
LEMMA InitIInv == Init => IInv
  BY InitLockInv, NoneAssumption DEF Init, IInv, TypeOK, WokenOwns, Single

(* ... and every step preserves it.                                        *)
LEMMA NextIInv == IInv /\ [Next]_vars => IInv'
<1> SUFFICES ASSUME IInv, [Next]_vars PROVE IInv'
  OBVIOUS
<1>1. CASE UNCHANGED vars
  BY <1>1 DEF IInv, vars, lockvars, Single, Woken, TypeOK, LockInv, LockTypeOK, InsideOwns,
     WokenOwns, WaiterIsServed, OwnerIsActive, WokenIsFirst, QueueIsConsistent
<1>2. CASE Next
  <2>1. IdleIsQuiet
    BY DEF IInv, WokenOwns, IdleIsQuiet
  <2>2. LockInv'
    BY <1>2, <2>1, NextLockInv DEF IInv
  <2>3. PICK t \in Task : LockAtOnce(t) \/ LockQueue(t) \/ LockWoken(t) \/ Unlock(t)
    BY <1>2 DEF Next
  <2>4. waitcount > 0 => Head(waiters) \in Task
    <3>1. waiters \in Seq(Task) /\ waitcount = Len(waiters)
      BY DEF IInv, LockInv, LockTypeOK, QueueIsConsistent
    <3>2. QED
      BY <3>1
  <2>5. pc' \in [Task -> {"idle", "lockwait"}] /\ sig' \in [Task -> SUBSET {"single"}]
    BY <2>3, <2>4, ZenonT(30)
       DEF IInv, TypeOK, LockAtOnce, LockQueue, LockWoken, Unlock, UnlockNested,
       UnlockHandOver, UnlockFree
  <2>6. TypeOK'
    BY <2>2, <2>5 DEF TypeOK, LockInv, LockTypeOK
  <2>7. WokenOwns'
    <3>1. ASSUME NEW u \in Task, Single(u)' PROVE pc'[u] = "lockwait"
      <4>1. Single(u) => pc[u] = "lockwait"
        BY DEF IInv, WokenOwns
      <4>2. waitcount > 0 => pc[Head(waiters)] = "lockwait"
        <5>1. waiters \in Seq(Task) /\ waitcount = Len(waiters)
          BY DEF IInv, LockInv, LockTypeOK, QueueIsConsistent
        <5>2. waitcount > 0 => Head(waiters) = waiters[1] /\ 1 \in 1..Len(waiters)
          BY <5>1
        <5>3. QED
          BY <5>2 DEF IInv, LockInv, QueueIsConsistent
      <4>3. QED
        BY <2>3, <2>4, <3>1, <4>1, <4>2 DEF IInv, TypeOK, Single, LockAtOnce, LockQueue,
           LockWoken, Unlock, UnlockNested, UnlockHandOver, UnlockFree
    <3>2. QED
      BY <2>2, <3>1 DEF WokenOwns, LockInv, WokenIsFirst, Woken
  <2>8. QED
    BY <2>2, <2>6, <2>7 DEF IInv
<1>3. QED
  BY <1>1, <1>2

(* Every value the variables take is of its type. *)
THEOREM LockTypeCorrect == Spec => []TypeOK
<1>1. IInv => TypeOK
  BY DEF IInv
<1>2. QED
  BY InitIInv, NextIInv, <1>1, PTL DEF Spec

(* Owner, nesting count, queue, waiting count and signals always fit       *)
(* together: the inductive invariant the theorems about locks rest on.     *)
THEOREM LockInvariant == Spec => []IInv
  BY InitIInv, NextIInv, PTL DEF Spec

(* Whoever's TLock has returned owns the lock: two tasks are never inside  *)
(* together, although a woken waiter does not test the lock again.         *)
THEOREM InsideOwnsHolds == Spec => []InsideOwns
<1>1. IInv => InsideOwns
  BY DEF IInv, LockInv
<1>2. QED
  BY LockInvariant, <1>1, PTL

(* The signal and the ownership of the lock are given out together.        *)
THEOREM WokenOwnsHolds == Spec => []WokenOwns
<1>1. IInv => WokenOwns
  BY DEF IInv
<1>2. QED
  BY LockInvariant, <1>1, PTL

(* No waiter is forgotten, queued twice, or left waiting for a free lock.  *)
THEOREM WaiterIsServedHolds == Spec => []WaiterIsServed
<1>1. IInv => WaiterIsServed
  BY DEF IInv, LockInv
<1>2. QED
  BY LockInvariant, <1>1, PTL

(* A lock with waiters goes to the first of them and to nobody else.       *)
THEOREM HandOverInOrderHolds == Spec => HandOverInOrder
<1>1. IInv /\ [Next]_vars =>
        [owner' # owner /\ waiters # <<>> => owner' = Head(waiters)]_vars
  BY NextInOrder DEF IInv
<1>2. QED
  BY LockInvariant, <1>1, PTL DEF Spec, HandOverInOrder

(* TLock and TUnlock implement the recursive mutex. *)
THEOREM LockImplementsMutex == Spec => ImplementsMutex
<1>1. Init => Mutex!Init
  BY DEF Init, Mutex!Init
<1>2. IInv /\ [Next]_vars => [Mutex!Next]_depth
  <2>1. CASE UNCHANGED vars
    BY <2>1 DEF vars, lockvars
  <2>2. QED
    BY <2>1, NextIsMutex DEF IInv
<1>3. QED
  BY LockInvariant, <1>1, <1>2, PTL DEF Spec, ImplementsMutex, Mutex!Spec
-----------------------------------------------------------------------------
(* Ports, whose tasks may also wait for locks.                             *)
Sync(t) == Port!SyncPort(t)
User(t) == Port!UserPort(t)

(* No one is about to signal t that a reply has come.                      *)
NoReplyDue(t) == \A s \in Task : target[s] # Sync(t)

(* The ports' share of the types.                                          *)
PortTypeOK ==
  /\ queue \in [Port!Port -> Seq(Msg)]
  /\ flags \in [Msg -> SUBSET {"SENT", "RETURNED", "MODIFIED", "QUEUED"}]
  /\ rport \in [Msg -> Port!Port \cup {None}]
  /\ sig \in [Task -> SUBSET {"single", "user"}]
  /\ pc \in [Task -> Where]
  /\ target \in [Task -> Port!Port \cup {None}]
  /\ cur \in [Task -> Msg \cup {None}]
  /\ holder \in [Msg -> Task \cup {None}]
  /\ answer \in [Msg -> Port!Verdict \cup {None}]

(* A task is in one call at a time.                                        *)
OneCall ==
  \A t \in Task :
    /\ target[t] # None <=> pc[t] = "notify"
    /\ cur[t] # None => pc[t] \in {"notify", "syncwait", "syncget"}
    /\ pc[t] \in {"syncwait", "syncget"} => cur[t] # None

(* A message is in one queue, once, or with a task.  While it is queued    *)
(* its flags say so, or it has just been put back.                         *)
MessageInOnePlace ==
  /\ \A p \in Port!Port : IsInjective(queue[p])
  /\ \A p, q \in Port!Port, m \in Msg :
       Contains(queue[p], m) /\ Contains(queue[q], m) => p = q
  /\ \A p \in Port!Port, m \in Msg :
       Contains(queue[p], m) =>
         holder[m] = None /\ ("QUEUED" \in flags[m] \/ flags[m] = Port!SENT)
  /\ \A m \in Msg : holder[m] # None => "QUEUED" \notin flags[m]

(* A sync port is used for the message that is being sent, and no other: a *)
(* request that will be answered there is the one its sender waits for.    *)
SyncPortIsForCur ==
  /\ \A t \in Task, m \in Msg :
       rport[m] = Sync(t) /\ Port!IsRequest(m) => cur[t] = m
  /\ \A t \in Task : cur[t] # None => rport[cur[t]] = Sync(t)

(* There is nothing at the sync port of a task that is sending no message, *)
(* nor before the answer comes ...                                         *)
QuietBefore ==
  \A t \in Task :
    /\ cur[t] = None => /\ queue[Sync(t)] = <<>> /\ NoReplyDue(t)
                        /\ Single(t) => pc[t] = "lockwait"
    /\ cur[t] # None /\ Port!IsRequest(cur[t]) =>
         /\ queue[Sync(t)] = <<>> /\ NoReplyDue(t) /\ ~Single(t) /\ pc[t] # "syncget"
         /\ holder[cur[t]] # None \/ \E p \in Port!Port : Contains(queue[p], cur[t])

(* ... and then the answer is there alone, with one signal: to be sent,    *)
(* pending, or taken.                                                      *)
OneSignalForReply ==
  \A t \in Task : cur[t] # None /\ ~Port!IsRequest(cur[t]) =>
    /\ queue[Sync(t)] = <<cur[t]>>
    /\ answer[cur[t]] = flags[cur[t]] \ {"QUEUED"}
    /\ \A r, s \in Task : target[r] = Sync(t) /\ target[s] = Sync(t) => r = s
    /\ Single(t) => pc[t] # "syncget" /\ NoReplyDue(t)
    /\ ~Single(t) => (pc[t] = "syncget" <=> NoReplyDue(t))

(* What always holds of ports, whatever else their users do.               *)
PortInv ==
  /\ PortTypeOK
  /\ OneCall
  /\ MessageInOnePlace
  /\ SyncPortIsForCur
  /\ QuietBefore
  /\ OneSignalForReply
  /\ Port!NoLostWakeup

(* A message is put back behind another one.                               *)
LEMMA InsertOne ==
  ASSUME NEW T, NEW s \in Seq(T), NEW m \in T, IsInjective(s), ~ Contains(s, m),
         NEW k \in 1..(Len(s) + 1)
  PROVE  /\ Port!InsertAt(s, k, m) \in Seq(T) /\ IsInjective(Port!InsertAt(s, k, m))
         /\ \A n : Contains(Port!InsertAt(s, k, m), n) <=> Contains(s, n) \/ n = m
<1> DEFINE l == Len(s)
           a == SubSeq(s, 1, k - 1)
           b == SubSeq(s, k, l)
           c == a \o <<m>>
           r == Port!InsertAt(s, k, m)
<1>1. /\ l \in Nat /\ k \in 1..(l + 1) /\ DOMAIN s = 1..l
      /\ \A i \in 1..l : s[i] \in T
  OBVIOUS
<1>2. /\ a \in Seq(T) /\ Len(a) = k - 1
      /\ \A i \in 1..(k - 1) : a[i] = s[i]
  <2>1. \A i \in 1..(k - 1) : s[i] \in T
    BY <1>1
  <2>2. k - 1 \in Int /\ (1 <= k - 1 \/ k - 1 = 0)
    BY <1>1
  <2>3. /\ a \in Seq(T) /\ Len(a) = IF 1 <= k - 1 THEN (k - 1) - 1 + 1 ELSE 0
        /\ \A i \in 1..((k - 1) - 1 + 1) : a[i] = s[1 + i - 1]
    BY <2>1, <2>2, SubSeqProperties
  <2>4. QED
    BY <1>1, <2>2, <2>3
<1>3. /\ b \in Seq(T) /\ Len(b) = l - k + 1
      /\ \A i \in 1..(l - k + 1) : b[i] = s[k + i - 1]
  <2>1. \A i \in k..l : s[i] \in T
    BY <1>1
  <2>2. k \in Int /\ l \in Int /\ (k <= l \/ l - k + 1 = 0)
    BY <1>1
  <2>3. /\ b \in Seq(T) /\ Len(b) = IF k <= l THEN l - k + 1 ELSE 0
        /\ \A i \in 1..(l - k + 1) : b[i] = s[k + i - 1]
    BY <2>1, <2>2, SubSeqProperties
  <2>4. QED
    BY <1>1, <2>2, <2>3
<1>4. r = c \o b
  BY DEF Port!InsertAt
<1> HIDE DEF a, b, l
<1>5. /\ c \in Seq(T) /\ Len(c) = k
      /\ \A i \in 1..k : c[i] = IF i <= k - 1 THEN s[i] ELSE m
  <2>1. <<m>> \in Seq(T) /\ Len(<<m>>) = 1 /\ <<m>>[1] = m
    OBVIOUS
  <2>2. /\ a \o <<m>> \in Seq(T) /\ Len(a \o <<m>>) = Len(a) + Len(<<m>>)
        /\ \A i \in 1..(Len(a) + Len(<<m>>)) :
             (a \o <<m>>)[i] = IF i <= Len(a) THEN a[i] ELSE <<m>>[i - Len(a)]
    BY ONLY <1>2, <2>1, ConcatProperties
  <2>3. k - 1 + 1 = k /\ k - (k - 1) = 1
    BY <1>1
  <2>4. ASSUME NEW i \in 1..k PROVE c[i] = IF i <= k - 1 THEN s[i] ELSE m
    <3>1. CASE i <= k - 1
      <4>1. i \in 1..(k - 1)
        BY <1>1, <3>1
      <4>2. QED
        BY <1>2, <2>1, <2>2, <2>3, <3>1, <4>1
    <3>2. CASE ~ (i <= k - 1)
      <4>1. i = k
        BY <1>1, <3>2
      <4>2. QED
        BY <1>2, <2>1, <2>2, <2>3, <3>2, <4>1, ZenonT(30)
    <3>3. QED
      BY <3>1, <3>2
  <2>5. QED
    BY <1>2, <2>1, <2>2, <2>3, <2>4
<1> HIDE DEF c, r
<1>6. /\ r \in Seq(T) /\ Len(r) = l + 1
      /\ \A i \in 1..(l + 1) : r[i] = IF i < k THEN s[i] ELSE IF i = k THEN m ELSE s[i - 1]
  <2>1. /\ c \o b \in Seq(T) /\ Len(c \o b) = Len(c) + Len(b)
        /\ \A i \in 1..(Len(c) + Len(b)) :
             (c \o b)[i] = IF i <= Len(c) THEN c[i] ELSE b[i - Len(c)]
    BY <1>3, <1>5, ConcatProperties
  <2>2. k + (l - k + 1) = l + 1
    BY <1>1
  <2>3. ASSUME NEW i \in 1..(l + 1)
        PROVE  r[i] = IF i < k THEN s[i] ELSE IF i = k THEN m ELSE s[i - 1]
    <3>1. CASE i <= k
      <4>1. i \in 1..k /\ (i <= k - 1 <=> i < k) /\ (~ (i < k) => i = k)
        BY <1>1, <3>1
      <4>2. r[i] = c[i]
        BY <1>3, <1>4, <1>5, <2>1, <2>2, <3>1
      <4>3. QED
        BY <1>5, <4>1, <4>2
    <3>2. CASE ~ (i <= k)
      <4>1. i - k \in 1..(l - k + 1) /\ k + (i - k) - 1 = i - 1 /\ ~ (i < k) /\ i # k
        BY <1>1, <3>2
      <4>2. r[i] = b[i - k]
        BY <1>3, <1>4, <1>5, <2>1, <2>2, <3>2
      <4>3. QED
        BY <1>3, <4>1, <4>2
    <3>3. QED
      BY <3>1, <3>2
  <2>4. QED
    BY <1>3, <1>4, <1>5, <2>1, <2>2, <2>3
<1>7. DOMAIN r = 1..(l + 1)
  BY <1>1, <1>6
<1>8. \A i, j \in 1..l : s[i] = s[j] => i = j
  BY <1>1 DEF IsInjective
<1>9. \A i \in 1..l : s[i] # m
  BY DEF Contains, l
<1>10. ASSUME NEW i \in 1..(l + 1), NEW j \in 1..(l + 1), r[i] = r[j] PROVE i = j
  <2>1. ASSUME NEW x \in 1..(l + 1), x # k
        PROVE  (IF x < k THEN x ELSE x - 1) \in 1..l /\ r[x] = s[IF x < k THEN x ELSE x - 1]
    BY <1>1, <1>6, <2>1
  <2>2. r[k] = m
    BY <1>1, <1>6
  <2>3. CASE i = k \/ j = k
    BY <1>9, <1>10, <2>1, <2>2, <2>3
  <2>4. CASE i # k /\ j # k
    <3>1. (IF i < k THEN i ELSE i - 1) = (IF j < k THEN j ELSE j - 1)
      BY <1>8, <1>10, <2>1, <2>4
    <3>2. QED
      BY <1>1, <2>4, <3>1
  <2>5. QED
    BY <2>3, <2>4
<1>11. ASSUME NEW n PROVE Contains(r, n) <=> Contains(s, n) \/ n = m
  <2>1. ASSUME NEW i \in 1..(l + 1), r[i] = n PROVE n = m \/ \E j \in 1..l : s[j] = n
    <3>1. CASE i < k
      <4>1. i \in 1..l /\ s[i] = n
        BY <1>1, <1>6, <2>1, <3>1
      <4>2. QED
        BY <4>1
    <3>2. CASE i = k
      BY <1>1, <1>6, <2>1, <3>2
    <3>3. CASE i > k
      <4>1. i - 1 \in 1..l /\ s[i - 1] = n
        BY <1>1, <1>6, <2>1, <3>3
      <4>2. QED
        BY <4>1
    <3>4. QED
      BY <1>1, <3>1, <3>2, <3>3
  <2>2. ASSUME NEW j \in 1..l, s[j] = n PROVE \E i \in 1..(l + 1) : r[i] = n
    <3>1. CASE j < k
      <4>1. j \in 1..(l + 1) /\ r[j] = n
        BY <1>1, <1>6, <2>2, <3>1
      <4>2. QED
        BY <4>1
    <3>2. CASE j >= k
      <4>1. j + 1 \in 1..(l + 1) /\ ~ (j + 1 < k) /\ j + 1 # k /\ (j + 1) - 1 = j
        BY <1>1, <3>2
      <4>2. r[j + 1] = n
        BY <1>6, <2>2, <4>1
      <4>3. QED
        BY <4>1, <4>2
    <3>3. QED
      BY <1>1, <3>1, <3>2
  <2>3. k \in 1..(l + 1) /\ r[k] = m
    BY <1>1, <1>6
  <2>4. QED
    BY <1>6, <2>1, <2>2, <2>3 DEF Contains, l
<1>12. QED
  BY <1>6, <1>7, <1>10, <1>11 DEF IsInjective, r

(* The ports of the tasks.                                                 *)
LEMMA PortsDiffer ==
  /\ \A t \in Task : /\ Sync(t) \in Port!Port /\ User(t) \in Port!Port
                     /\ Port!SigTask(Sync(t)) = t /\ Port!PortSignal(Sync(t)) = "single"
                     /\ Port!SigTask(User(t)) = t /\ Port!PortSignal(User(t)) = "user"
  /\ \A t, u \in Task : /\ Sync(t) # User(u)
                        /\ Sync(t) = Sync(u) => t = u
                        /\ User(t) = User(u) => t = u
  /\ \A p \in Port!Port : \E t \in Task : p = Sync(t) \/ p = User(t)
  /\ None \notin Port!Port /\ None \notin Msg /\ None \notin Task
  BY NoPortAssumption, NoneAssumption DEF Sync, User, Port!SyncPort, Port!UserPort, Port!Port,
     Port!SigTask, Port!PortSignal

(* Adding a message that is in no queue to one, ...                        *)
LEMMA Enqueued ==
  ASSUME PortTypeOK, MessageInOnePlace,
         NEW p \in Port!Port, NEW m \in Msg, NEW f \in Port!Verdict \cup {Port!SENT},
         \A q \in Port!Port : ~ Contains(queue[q], m),
         Port!Enqueue(p, m, f)
  PROVE  /\ queue' \in [Port!Port -> Seq(Msg)]
         /\ flags' \in [Msg -> SUBSET {"SENT", "RETURNED", "MODIFIED", "QUEUED"}]
         /\ holder' \in [Msg -> Task \cup {None}]
         /\ \A q \in Port!Port :
              queue'[q] = IF q = p THEN Append(queue[q], m) ELSE queue[q]
         /\ \A q \in Port!Port, n \in Msg :
              Contains(queue'[q], n) <=> Contains(queue[q], n) \/ (q = p /\ n = m)
         /\ \A n \in Msg : n # m => flags'[n] = flags[n] /\ holder'[n] = holder[n]
         /\ flags'[m] \ {"QUEUED"} = f
         /\ MessageInOnePlace'
<1>1. /\ queue \in [Port!Port -> Seq(Msg)] /\ holder \in [Msg -> Task \cup {None}]
      /\ flags \in [Msg -> SUBSET {"SENT", "RETURNED", "MODIFIED", "QUEUED"}]
      /\ f \in SUBSET {"SENT", "RETURNED", "MODIFIED", "QUEUED"} /\ "QUEUED" \notin f
  BY DEF PortTypeOK, Port!Verdict, Port!FAILED, Port!ACKD, Port!REPLIED, Port!SENT
<1>2. /\ queue' = [queue EXCEPT ![p] = Append(@, m)]
      /\ flags' = [flags EXCEPT ![m] = f \cup {"QUEUED"}]
      /\ holder' = [holder EXCEPT ![m] = None]
  BY DEF Port!Enqueue
<1>3. \A q \in Port!Port :
        queue'[q] = IF q = p THEN Append(queue[q], m) ELSE queue[q]
  BY <1>1, <1>2
<1>4. /\ \A n \in Msg : n # m => flags'[n] = flags[n] /\ holder'[n] = holder[n]
      /\ flags'[m] = f \cup {"QUEUED"} /\ holder'[m] = None
  BY <1>1, <1>2
<1>5. flags'[m] \ {"QUEUED"} = f /\ "QUEUED" \in flags'[m]
  BY <1>1, <1>4
<1>6. IsInjective(queue[p]) /\ queue[p] \in Seq(Msg)
  BY <1>1 DEF MessageInOnePlace
<1>7. /\ Append(queue[p], m) \in Seq(Msg) /\ IsInjective(Append(queue[p], m))
      /\ \A n : Contains(Append(queue[p], m), n) <=> Contains(queue[p], n) \/ n = m
  BY <1>6, AppendOne
<1>8. \A q \in Port!Port, n \in Msg :
        Contains(queue'[q], n) <=> Contains(queue[q], n) \/ (q = p /\ n = m)
  BY <1>3, <1>7
<1>9. /\ queue' \in [Port!Port -> Seq(Msg)]
      /\ flags' \in [Msg -> SUBSET {"SENT", "RETURNED", "MODIFIED", "QUEUED"}]
      /\ holder' \in [Msg -> Task \cup {None}]
  BY <1>1, <1>2, <1>7
<1>10. \A q \in Port!Port : IsInjective(queue'[q])
  BY <1>3, <1>7 DEF MessageInOnePlace
<1>11. \A q, r \in Port!Port, n \in Msg :
         Contains(queue'[q], n) /\ Contains(queue'[r], n) => q = r
  BY <1>8 DEF MessageInOnePlace
<1>12. \A q \in Port!Port, n \in Msg :
         Contains(queue'[q], n) =>
           holder'[n] = None /\ ("QUEUED" \in flags'[n] \/ flags'[n] = Port!SENT)
  BY <1>4, <1>5, <1>8 DEF MessageInOnePlace
<1>13. \A n \in Msg : holder'[n] # None => "QUEUED" \notin flags'[n]
  BY <1>4 DEF MessageInOnePlace
<1>14. MessageInOnePlace'
  BY <1>10, <1>11, <1>12, <1>13 DEF MessageInOnePlace
<1>15. QED
  BY <1>3, <1>4, <1>5, <1>8, <1>9, <1>14

(* t takes m, the first message of p's queue.                              *)
Dequeue(p, t, m) ==
  /\ queue[p] # <<>> /\ m = Head(queue[p])
  /\ queue' = [queue EXCEPT ![p] = Tail(@)]
  /\ holder' = [holder EXCEPT ![m] = t]
  /\ \A n \in Msg : n # m => flags'[n] = flags[n]
  /\ "QUEUED" \notin flags'[m]

(* ... taking the first message from a queue, ...                          *)
LEMMA Dequeued ==
  ASSUME PortTypeOK, MessageInOnePlace,
         NEW p \in Port!Port, NEW t \in Task, NEW m \in Msg,
         Dequeue(p, t, m)
  PROVE  /\ queue' \in [Port!Port -> Seq(Msg)]
         /\ holder' \in [Msg -> Task \cup {None}]
         /\ Contains(queue[p], m)
         /\ \A q \in Port!Port : queue'[q] = IF q = p THEN Tail(queue[q]) ELSE queue[q]
         /\ \A q \in Port!Port, n \in Msg :
              Contains(queue'[q], n) <=> Contains(queue[q], n) /\ n # m
         /\ \A n \in Msg : n # m => holder'[n] = holder[n]
         /\ holder'[m] = t
         /\ MessageInOnePlace'
<1> USE DEF Dequeue
<1>1. queue \in [Port!Port -> Seq(Msg)] /\ holder \in [Msg -> Task \cup {None}]
  BY DEF PortTypeOK
<1>2. \A q \in Port!Port : queue'[q] = IF q = p THEN Tail(queue[q]) ELSE queue[q]
  BY <1>1
<1>3. /\ \A n \in Msg : n # m => holder'[n] = holder[n]
      /\ holder'[m] = t
  BY <1>1
<1>4. IsInjective(queue[p]) /\ queue[p] \in Seq(Msg)
  BY <1>1 DEF MessageInOnePlace
<1>5. /\ Contains(queue[p], m)
      /\ Tail(queue[p]) \in Seq(Msg) /\ IsInjective(Tail(queue[p]))
      /\ \A n : Contains(Tail(queue[p]), n) <=> Contains(queue[p], n) /\ n # m
  BY <1>4, TailOne
<1>6. \A q \in Port!Port, n \in Msg :
        Contains(queue'[q], n) <=> Contains(queue[q], n) /\ n # m
  <2>1. ASSUME NEW q \in Port!Port, NEW n \in Msg
        PROVE  Contains(queue'[q], n) <=> Contains(queue[q], n) /\ n # m
    <3>1. q # p => ~ Contains(queue[q], m)
      BY <1>5 DEF MessageInOnePlace
    <3>2. QED
      BY <1>2, <1>5, <3>1
  <2>2. QED
    BY <2>1
<1>7. /\ queue' \in [Port!Port -> Seq(Msg)]
      /\ holder' \in [Msg -> Task \cup {None}]
  BY <1>1, <1>5
<1>8. \A q \in Port!Port : IsInjective(queue'[q])
  BY <1>2, <1>5 DEF MessageInOnePlace
<1>9. \A q, r \in Port!Port, n \in Msg :
        Contains(queue'[q], n) /\ Contains(queue'[r], n) => q = r
  BY <1>6 DEF MessageInOnePlace
<1>10. \A q \in Port!Port, n \in Msg :
         Contains(queue'[q], n) =>
           holder'[n] = None /\ ("QUEUED" \in flags'[n] \/ flags'[n] = Port!SENT)
  BY <1>3, <1>6 DEF MessageInOnePlace
<1>11. \A n \in Msg : holder'[n] # None => "QUEUED" \notin flags'[n]
  BY <1>3 DEF MessageInOnePlace
<1>12. MessageInOnePlace'
  BY <1>8, <1>9, <1>10, <1>11 DEF MessageInOnePlace
<1>13. QED
  BY <1>2, <1>3, <1>5, <1>6, <1>7, <1>12

(* ... and what is known of a message that is being sent.                  *)
LEMMA CurFacts ==
  ASSUME MessageInOnePlace, QuietBefore, OneSignalForReply,
         NEW t \in Task, NEW m \in Msg, cur[t] = m
  PROVE  /\ ~ Port!IsRequest(m) => queue[Sync(t)] = <<m>> /\ Contains(queue[Sync(t)], m)
         /\ holder[m] # None => flags[m] = Port!SENT /\ Port!IsRequest(m)
         /\ holder[m] # None \/ \E p \in Port!Port : Contains(queue[p], m)
         /\ \A u \in Task : Contains(queue[User(u)], m) => Port!IsRequest(m)
<1>1. m # None
  BY NoPortAssumption
<1>2. ASSUME ~ Port!IsRequest(m)
      PROVE  queue[Sync(t)] = <<m>> /\ Contains(queue[Sync(t)], m) /\ holder[m] = None
  <2>1. queue[Sync(t)] = <<m>>
    BY <1>1, <1>2 DEF OneSignalForReply
  <2>2. Contains(queue[Sync(t)], m)
    BY <2>1 DEF Contains
  <2>3. QED
    BY <2>1, <2>2, PortsDiffer DEF MessageInOnePlace
<1>3. ASSUME holder[m] # None PROVE flags[m] = Port!SENT /\ Port!IsRequest(m)
  BY <1>2, <1>3 DEF MessageInOnePlace, Port!IsRequest, Port!SENT
<1>4. holder[m] # None \/ \E p \in Port!Port : Contains(queue[p], m)
  BY <1>1, <1>2, PortsDiffer DEF QuietBefore
<1>5. ASSUME NEW u \in Task, Contains(queue[User(u)], m) PROVE Port!IsRequest(m)
  BY <1>2, <1>5, PortsDiffer DEF MessageInOnePlace
<1>6. QED
  BY <1>2, <1>3, <1>4, <1>5

(* A step that concerns no sync port leaves alone what TSendMsg relies on. *)
LEMMA SyncUntouched ==
  ASSUME SyncPortIsForCur, QuietBefore, OneSignalForReply,
         PortTypeOK, cur' = cur,
         \A t \in Task : queue'[Sync(t)] = queue[Sync(t)],
         \A s, t \in Task : target'[s] = Sync(t) <=> target[s] = Sync(t),
         \A t \in Task : /\ pc'[t] = "syncget" <=> pc[t] = "syncget"
                         /\ cur[t] # None => (Single(t)' <=> Single(t))
                         /\ cur[t] = None => (Single(t)' => pc'[t] = "lockwait"),
         \A n \in Msg : \/ rport'[n] = rport[n] /\ (Port!IsRequest(n)' => Port!IsRequest(n))
                        \/ ~ Port!IsRequest(n)'
                        \/ \A t \in Task : rport'[n] # Sync(t),
         \A t \in Task, n \in Msg : cur[t] = n =>
           /\ rport'[n] = rport[n] /\ (Port!IsRequest(n)' <=> Port!IsRequest(n))
           /\ ~ Port!IsRequest(n) => flags'[n] = flags[n] /\ answer'[n] = answer[n]
           /\ holder'[n] # None \/ \E p \in Port!Port : Contains(queue'[p], n)
  PROVE  SyncPortIsForCur' /\ QuietBefore' /\ OneSignalForReply'
<1>1. \A t \in Task : cur[t] # None => cur[t] \in Msg
  BY DEF PortTypeOK
<1>2. \A t \in Task : NoReplyDue(t)' <=> NoReplyDue(t)
  BY DEF NoReplyDue
<1>3. \A t \in Task : cur[t] # None =>
        (Port!IsRequest(cur[t])' <=> Port!IsRequest(cur[t]))
  BY <1>1
<1>4. SyncPortIsForCur'
  <2>1. ASSUME NEW t \in Task, NEW m \in Msg, rport'[m] = Sync(t), Port!IsRequest(m)'
        PROVE  cur'[t] = m
    BY <2>1 DEF SyncPortIsForCur
  <2>2. ASSUME NEW t \in Task, cur'[t] # None PROVE rport'[cur'[t]] = Sync(t)
    BY <1>1, <2>2 DEF SyncPortIsForCur
  <2>3. QED
    BY <2>1, <2>2 DEF SyncPortIsForCur, Sync, Port!SyncPort
<1>5. QuietBefore'
  <2>1. ASSUME NEW t \in Task, cur'[t] = None
        PROVE  /\ queue'[Sync(t)] = <<>> /\ NoReplyDue(t)'
               /\ Single(t)' => pc'[t] = "lockwait"
    BY <1>2, <2>1 DEF QuietBefore
  <2>2. ASSUME NEW t \in Task, cur'[t] # None, Port!IsRequest(cur[t])'
        PROVE  /\ queue'[Sync(t)] = <<>> /\ NoReplyDue(t)' /\ ~Single(t)' /\ pc'[t] # "syncget"
               /\ holder'[cur'[t]] # None \/ \E p \in Port!Port : Contains(queue'[p], cur'[t])
    BY <1>1, <1>2, <1>3, <2>2 DEF QuietBefore
  <2>3. QED
    BY <2>1, <2>2 DEF QuietBefore, Sync, Port!SyncPort
<1>6. OneSignalForReply'
  <2>1. ASSUME NEW t \in Task, cur'[t] # None, ~ Port!IsRequest(cur[t])'
        PROVE  /\ queue'[Sync(t)] = <<cur'[t]>>
               /\ answer'[cur'[t]] = flags'[cur'[t]] \ {"QUEUED"}
               /\ \A r, s \in Task : target'[r] = Sync(t) /\ target'[s] = Sync(t) => r = s
               /\ Single(t)' => pc'[t] # "syncget" /\ NoReplyDue(t)'
               /\ ~Single(t)' => (pc'[t] = "syncget" <=> NoReplyDue(t)')
    BY <1>1, <1>2, <1>3, <2>1 DEF OneSignalForReply
  <2>2. QED
    BY <2>1 DEF OneSignalForReply, Sync, Port!SyncPort
<1>7. QED
  BY <1>4, <1>5, <1>6

(* TAllocMsg takes memory that is in nobody's hands, ...                   *)
LEMMA AllocMsgInv ==
  ASSUME PortInv, NEW t \in Task, NEW m \in Msg, Port!AllocMsg(t, m)
  PROVE  PortInv'
<1>1. /\ pc[t] = "idle" /\ holder[m] = None
      /\ \A p \in Port!Port : ~ Contains(queue[p], m)
      /\ UNCHANGED <<queue, rport, sig, pc, target, cur, answer>>
  BY DEF Port!AllocMsg, Port!Queued, Port!ToSet, Contains
<1>2. /\ \A n \in Msg : n # m => flags'[n] = flags[n] /\ holder'[n] = holder[n]
      /\ flags'[m] = {} /\ holder'[m] = t
  BY DEF PortInv, PortTypeOK, Port!AllocMsg
<1>3. PortTypeOK'
  BY DEF PortInv, PortTypeOK, Port!AllocMsg
<1>4. OneCall'
  BY <1>1 DEF PortInv, OneCall
<1>5. MessageInOnePlace'
  BY <1>1, <1>2 DEF PortInv, MessageInOnePlace
<1>6. \A u \in Task : cur[u] # m
  BY <1>1, CurFacts DEF PortInv
<1>7. /\ ~ Port!IsRequest(m)'
      /\ \A n \in Msg : n # m => (Port!IsRequest(n)' <=> Port!IsRequest(n))
  BY <1>2 DEF Port!IsRequest, Port!SENT
<1>8. SyncPortIsForCur' /\ QuietBefore' /\ OneSignalForReply'
  <2>1. ASSUME NEW u \in Task, NEW n \in Msg, cur[u] = n
        PROVE  /\ rport'[n] = rport[n] /\ (Port!IsRequest(n)' <=> Port!IsRequest(n))
               /\ ~ Port!IsRequest(n) => flags'[n] = flags[n] /\ answer'[n] = answer[n]
               /\ holder'[n] # None \/ \E p \in Port!Port : Contains(queue'[p], n)
    BY <1>1, <1>2, <1>6, <1>7, <2>1, CurFacts DEF PortInv
  <2>2. \A u \in Task : cur[u] = None => (Single(u)' => pc'[u] = "lockwait")
    BY <1>1 DEF PortInv, QuietBefore, Single
  <2>3. QED
    BY <1>1, <1>7, <2>1, <2>2, SyncUntouched DEF PortInv, Single
<1>9. Port!NoLostWakeup'
  BY <1>1 DEF PortInv, Port!NoLostWakeup, Port!UserPort
<1>10. QED
  BY <1>3, <1>4, <1>5, <1>8, <1>9 DEF PortInv

(* ... TPutMsg sends one that its task has, with no sync port, ...         *)
LEMMA PutMsgInv ==
  ASSUME PortInv, NEW t \in Task, NEW s \in Task, NEW m \in Msg,
         NEW rp \in {None, Port!UserPort(t)}, Port!PutMsg(t, s, rp, m)
  PROVE  PortInv'
<1>1. /\ pc[t] = "idle" /\ holder[m] = t /\ flags[m] # Port!SENT
      /\ Port!Enqueue(User(s), m, Port!SENT)
      /\ UNCHANGED <<sig, cur, answer>>
  BY DEF Port!PutMsg, Port!MustAnswer, User
<1>2. /\ \A n \in Msg : rport'[n] = IF n = m THEN rp ELSE rport[n]
      /\ \A u \in Task : target'[u] = IF u = t THEN User(s) ELSE target[u]
      /\ \A u \in Task : pc'[u] = IF u = t THEN "notify" ELSE pc[u]
  BY DEF PortInv, PortTypeOK, Port!PutMsg, Port!Goto, User
<1>3. /\ rport' \in [Msg -> Port!Port \cup {None}]
      /\ target' \in [Task -> Port!Port \cup {None}]
      /\ pc' \in [Task -> Where]
  <2>1. rp \in Port!Port \cup {None} /\ Port!UserPort(s) \in Port!Port
    BY PortsDiffer DEF User
  <2>2. QED
    BY <2>1 DEF PortInv, PortTypeOK, Port!PutMsg, Port!Goto, Where
<1>4. t # None /\ cur[t] = None /\ target[t] = None
  BY <1>1, PortsDiffer DEF PortInv, OneCall
<1>5. \A q \in Port!Port : ~ Contains(queue[q], m)
  BY <1>1, <1>4 DEF PortInv, MessageInOnePlace
<1>6. /\ queue' \in [Port!Port -> Seq(Msg)]
      /\ flags' \in [Msg -> SUBSET {"SENT", "RETURNED", "MODIFIED", "QUEUED"}]
      /\ holder' \in [Msg -> Task \cup {None}]
      /\ \A q \in Port!Port :
           queue'[q] = IF q = User(s) THEN Append(queue[q], m) ELSE queue[q]
      /\ \A q \in Port!Port, n \in Msg :
           Contains(queue'[q], n) <=> Contains(queue[q], n) \/ (q = User(s) /\ n = m)
      /\ \A n \in Msg : n # m => flags'[n] = flags[n] /\ holder'[n] = holder[n]
      /\ MessageInOnePlace'
  <2>1. User(s) \in Port!Port /\ Port!SENT \in Port!Verdict \cup {Port!SENT}
    BY PortsDiffer
  <2>2. QED
    BY <1>1, <1>5, <2>1, Enqueued DEF PortInv
<1>7. PortTypeOK'
  BY <1>1, <1>3, <1>6 DEF PortInv, PortTypeOK
<1>8. OneCall'
  BY <1>1, <1>2, <1>4, PortsDiffer DEF PortInv, OneCall
<1>9. \A u \in Task : cur[u] # m
  BY <1>1, <1>4, CurFacts DEF PortInv
<1>10. \A n \in Msg : n # m => (Port!IsRequest(n)' <=> Port!IsRequest(n))
  BY <1>6 DEF Port!IsRequest
<1>11. SyncPortIsForCur' /\ QuietBefore' /\ OneSignalForReply'
  <2>1. ASSUME NEW u \in Task, NEW n \in Msg, cur[u] = n
        PROVE  /\ rport'[n] = rport[n] /\ (Port!IsRequest(n)' <=> Port!IsRequest(n))
               /\ ~ Port!IsRequest(n) => flags'[n] = flags[n] /\ answer'[n] = answer[n]
               /\ holder'[n] # None \/ \E p \in Port!Port : Contains(queue'[p], n)
    <3>1. holder[n] # None \/ \E p \in Port!Port : Contains(queue[p], n)
      BY <2>1, CurFacts DEF PortInv
    <3>2. QED
      BY <1>1, <1>2, <1>6, <1>9, <1>10, <2>1, <3>1
  <2>2. \A u \in Task : cur[u] = None => (Single(u)' => pc'[u] = "lockwait")
    BY <1>1, <1>2 DEF PortInv, QuietBefore, Single
  <2>3. \A u \in Task : queue'[Sync(u)] = queue[Sync(u)]
    BY <1>6, PortsDiffer
  <2>4. \A r, u \in Task : target'[r] = Sync(u) <=> target[r] = Sync(u)
    BY <1>2, <1>4, PortsDiffer
  <2>5. \A u \in Task : rport'[m] # Sync(u)
    BY <1>2, PortsDiffer DEF User
  <2>6. \A u \in Task : pc'[u] = "syncget" <=> pc[u] = "syncget"
    BY <1>1, <1>2
  <2>7. \A n \in Msg : \/ rport'[n] = rport[n] /\ (Port!IsRequest(n)' => Port!IsRequest(n))
                       \/ ~ Port!IsRequest(n)'
                       \/ \A u \in Task : rport'[n] # Sync(u)
    BY <1>2, <1>10, <2>5
  <2>8. QED
    BY <1>1, <2>1, <2>2, <2>3, <2>4, <2>6, <2>7, SyncUntouched DEF PortInv, Single
<1>12. Port!NoLostWakeup'
  <2>1. ASSUME NEW u \in Task, pc'[u] = "waitport", queue'[User(u)] # <<>>
        PROVE  "user" \in sig'[u] \/ \E r \in Task : target'[r] = User(u)
    <3>1. CASE u = s
      BY <1>2, <3>1
    <3>2. CASE u # s
      <4>1. pc[u] = "waitport" /\ queue[User(u)] # <<>>
        BY <1>2, <1>6, <2>1, <3>2, PortsDiffer
      <4>2. "user" \in sig[u] \/ \E r \in Task : target[r] = User(u)
        BY <4>1 DEF PortInv, Port!NoLostWakeup, User
      <4>3. QED
        BY <1>1, <1>2, <1>4, <4>2, PortsDiffer
    <3>3. QED
      BY <3>1, <3>2
  <2>2. QED
    BY <2>1 DEF Port!NoLostWakeup, User
<1>13. QED
  BY <1>6, <1>7, <1>8, <1>11, <1>12 DEF PortInv

(* ... TSendMsg one that is to be answered at its sync port, ...           *)
LEMMA SendMsgInv ==
  ASSUME PortInv, NEW t \in Task, NEW s \in Task, NEW m \in Msg, Port!SendMsg(t, s, m)
  PROVE  PortInv'
<1>1. /\ pc[t] = "idle" /\ holder[m] = t /\ flags[m] # Port!SENT
      /\ Port!Enqueue(User(s), m, Port!SENT)
      /\ UNCHANGED <<sig, answer>>
  BY DEF Port!SendMsg, Port!MustAnswer, User
<1>2. /\ \A n \in Msg : rport'[n] = IF n = m THEN Sync(t) ELSE rport[n]
      /\ \A u \in Task : target'[u] = IF u = t THEN User(s) ELSE target[u]
      /\ \A u \in Task : cur'[u] = IF u = t THEN m ELSE cur[u]
      /\ \A u \in Task : pc'[u] = IF u = t THEN "notify" ELSE pc[u]
  BY DEF PortInv, PortTypeOK, Port!SendMsg, Port!Goto, User, Sync
<1>3. /\ rport' \in [Msg -> Port!Port \cup {None}]
      /\ target' \in [Task -> Port!Port \cup {None}]
      /\ cur' \in [Task -> Msg \cup {None}]
      /\ pc' \in [Task -> Where]
  <2>1. Port!SyncPort(t) \in Port!Port /\ Port!UserPort(s) \in Port!Port
    BY PortsDiffer DEF User, Sync
  <2>2. QED
    BY <2>1 DEF PortInv, PortTypeOK, Port!SendMsg, Port!Goto, Where
<1>4. t # None /\ m # None /\ cur[t] = None /\ target[t] = None
  BY <1>1, PortsDiffer DEF PortInv, OneCall
<1>5. \A q \in Port!Port : ~ Contains(queue[q], m)
  BY <1>1, <1>4 DEF PortInv, MessageInOnePlace
<1>6. /\ queue' \in [Port!Port -> Seq(Msg)]
      /\ flags' \in [Msg -> SUBSET {"SENT", "RETURNED", "MODIFIED", "QUEUED"}]
      /\ holder' \in [Msg -> Task \cup {None}]
      /\ \A q \in Port!Port :
           queue'[q] = IF q = User(s) THEN Append(queue[q], m) ELSE queue[q]
      /\ \A q \in Port!Port, n \in Msg :
           Contains(queue'[q], n) <=> Contains(queue[q], n) \/ (q = User(s) /\ n = m)
      /\ \A n \in Msg : n # m => flags'[n] = flags[n] /\ holder'[n] = holder[n]
      /\ flags'[m] \ {"QUEUED"} = Port!SENT
      /\ MessageInOnePlace'
  <2>1. User(s) \in Port!Port /\ Port!SENT \in Port!Verdict \cup {Port!SENT}
    BY PortsDiffer
  <2>2. QED
    BY <1>1, <1>5, <2>1, Enqueued DEF PortInv
<1>7. PortTypeOK'
  BY <1>1, <1>3, <1>6 DEF PortInv, PortTypeOK
<1>8. OneCall'
  BY <1>1, <1>2, <1>4, PortsDiffer DEF PortInv, OneCall
<1>9. \A u \in Task : cur[u] # m
  BY <1>1, <1>4, CurFacts DEF PortInv
<1>10. /\ \A n \in Msg : n # m => (Port!IsRequest(n)' <=> Port!IsRequest(n))
       /\ Port!IsRequest(m)'
  BY <1>6 DEF Port!IsRequest
<1>11. \A u \in Task : /\ queue'[Sync(u)] = queue[Sync(u)]
                       /\ NoReplyDue(u)' <=> NoReplyDue(u)
                       /\ Single(u)' <=> Single(u)
                       /\ pc'[u] = "syncget" <=> pc[u] = "syncget"
  <2>1. \A r, u \in Task : target'[r] = Sync(u) <=> target[r] = Sync(u)
    BY <1>2, <1>4, PortsDiffer
  <2>2. \A u \in Task : NoReplyDue(u)' <=> NoReplyDue(u)
    BY <2>1 DEF NoReplyDue, Sync, Port!SyncPort
  <2>3. \A u \in Task : queue'[Sync(u)] = queue[Sync(u)]
    BY <1>6, PortsDiffer
  <2>4. \A u \in Task : pc'[u] = "syncget" <=> pc[u] = "syncget"
    BY <1>1, <1>2
  <2>5. QED
    BY <1>1, <2>2, <2>3, <2>4 DEF Single
<1>12. SyncPortIsForCur'
  <2>1. ASSUME NEW u \in Task, NEW n \in Msg, rport'[n] = Sync(u), Port!IsRequest(n)'
        PROVE  cur'[u] = n
    <3>1. CASE n = m
      BY <1>2, <2>1, <3>1, PortsDiffer
    <3>2. CASE n # m
      <4>1. cur[u] = n
        BY <1>2, <1>10, <2>1, <3>2 DEF PortInv, SyncPortIsForCur
      <4>2. QED
        BY <1>2, <1>4, <4>1, PortsDiffer
    <3>3. QED
      BY <3>1, <3>2
  <2>2. ASSUME NEW u \in Task, cur'[u] # None PROVE rport'[cur'[u]] = Sync(u)
    BY <1>2, <1>3, <1>9, <2>2 DEF PortInv, SyncPortIsForCur
  <2>3. QED
    BY <2>1, <2>2 DEF SyncPortIsForCur, Sync, Port!SyncPort
<1>13. QuietBefore'
  <2>1. ASSUME NEW u \in Task, cur'[u] = None
        PROVE  /\ queue'[Sync(u)] = <<>> /\ NoReplyDue(u)'
               /\ Single(u)' => pc'[u] = "lockwait"
    BY <1>1, <1>2, <1>4, <1>11, <2>1 DEF PortInv, QuietBefore
  <2>2. ASSUME NEW u \in Task, cur'[u] # None, Port!IsRequest(cur[u])'
        PROVE  /\ queue'[Sync(u)] = <<>> /\ NoReplyDue(u)' /\ ~Single(u)' /\ pc'[u] # "syncget"
               /\ holder'[cur'[u]] # None \/ \E p \in Port!Port : Contains(queue'[p], cur'[u])
    <3>1. CASE u = t
      <4>1. Contains(queue'[User(s)], m) /\ User(s) \in Port!Port
        BY <1>6, PortsDiffer
      <4>2. QED
        BY <1>1, <1>2, <1>4, <1>11, <3>1, <4>1 DEF PortInv, QuietBefore
    <3>2. CASE u # t
      <4>1. cur[u] \in Msg /\ cur[u] # m /\ cur'[u] = cur[u] /\ cur[u] # None
        BY <1>2, <1>3, <1>9, <2>2, <3>2
      <4>2. Port!IsRequest(cur[u])
        BY <1>10, <2>2, <4>1
      <4>3. /\ queue[Sync(u)] = <<>> /\ NoReplyDue(u) /\ ~Single(u) /\ pc[u] # "syncget"
            /\ holder[cur[u]] # None \/ \E p \in Port!Port : Contains(queue[p], cur[u])
        BY <4>1, <4>2 DEF PortInv, QuietBefore
      <4>4. holder'[cur[u]] # None \/ \E p \in Port!Port : Contains(queue'[p], cur[u])
        BY <1>6, <4>1, <4>3
      <4>5. QED
        BY <1>11, <4>1, <4>3, <4>4
    <3>3. QED
      BY <3>1, <3>2
  <2>3. QED
    BY <2>1, <2>2 DEF QuietBefore, Sync, Port!SyncPort
<1>14. OneSignalForReply'
  <2>1. ASSUME NEW u \in Task, cur'[u] # None, ~ Port!IsRequest(cur[u])'
        PROVE  /\ queue'[Sync(u)] = <<cur'[u]>>
               /\ answer'[cur'[u]] = flags'[cur'[u]] \ {"QUEUED"}
               /\ \A r, q \in Task : target'[r] = Sync(u) /\ target'[q] = Sync(u) => r = q
               /\ Single(u)' => pc'[u] # "syncget" /\ NoReplyDue(u)'
               /\ ~Single(u)' => (pc'[u] = "syncget" <=> NoReplyDue(u)')
    <3>1. u # t
      BY <1>2, <1>10, <2>1
    <3>2. cur[u] \in Msg /\ cur[u] # m /\ cur'[u] = cur[u] /\ cur[u] # None
      BY <1>2, <1>3, <1>9, <2>1, <3>1
    <3>3. ~ Port!IsRequest(cur[u])
      BY <1>10, <2>1, <3>2
    <3>4. /\ queue[Sync(u)] = <<cur[u]>>
          /\ answer[cur[u]] = flags[cur[u]] \ {"QUEUED"}
          /\ \A r, q \in Task : target[r] = Sync(u) /\ target[q] = Sync(u) => r = q
          /\ Single(u) => pc[u] # "syncget" /\ NoReplyDue(u)
          /\ ~Single(u) => (pc[u] = "syncget" <=> NoReplyDue(u))
      BY <3>2, <3>3 DEF PortInv, OneSignalForReply
    <3>5. answer' = answer /\ flags'[cur[u]] = flags[cur[u]]
      BY <1>1, <1>6, <3>2
    <3>6. \A r, q \in Task : target'[r] = Sync(u) /\ target'[q] = Sync(u) => r = q
      BY <1>2, <3>4, PortsDiffer
    <3>7. QED
      BY <1>11, <3>2, <3>4, <3>5, <3>6
  <2>2. QED
    BY <2>1 DEF OneSignalForReply, Sync, Port!SyncPort
<1>15. Port!NoLostWakeup'
  <2>1. ASSUME NEW u \in Task, pc'[u] = "waitport", queue'[User(u)] # <<>>
        PROVE  "user" \in sig'[u] \/ \E r \in Task : target'[r] = User(u)
    <3>1. CASE u = s
      BY <1>2, <3>1
    <3>2. CASE u # s
      <4>1. pc[u] = "waitport" /\ queue[User(u)] # <<>>
        BY <1>2, <1>6, <2>1, <3>2, PortsDiffer
      <4>2. "user" \in sig[u] \/ \E r \in Task : target[r] = User(u)
        BY <4>1 DEF PortInv, Port!NoLostWakeup, User
      <4>3. QED
        BY <1>1, <1>2, <1>4, <4>2, PortsDiffer
    <3>3. QED
      BY <3>1, <3>2
  <2>2. QED
    BY <2>1 DEF Port!NoLostWakeup, User
<1>16. QED
  BY <1>6, <1>7, <1>8, <1>12, <1>13, <1>14, <1>15 DEF PortInv

(* ... the sender signals the port's task: that a message is there, or the *)
(* reply it waits for, ...                                                 *)
LEMMA NotifyInv ==
  ASSUME PortInv, NEW t \in Task, Port!Notify(t)
  PROVE  PortInv'
<1>1. pc[t] = "notify" /\ UNCHANGED <<queue, flags, rport, cur, holder, answer>>
  BY DEF Port!Notify
<1>p. PICK p \in Port!Port : target[t] = p
  BY <1>1, PortsDiffer DEF PortInv, PortTypeOK, OneCall
<1>2. /\ Port!SigTask(p) \in Task /\ Port!PortSignal(p) \in {"single", "user"}
      /\ p # None
  <2>1. PICK w \in Task : p = Sync(w) \/ p = User(w)
    BY PortsDiffer
  <2>2. QED
    BY <2>1, PortsDiffer
<1>3. /\ \A u \in Task :
           sig'[u] = IF u = Port!SigTask(p) THEN sig[u] \cup {Port!PortSignal(p)} ELSE sig[u]
      /\ \A u \in Task : target'[u] = IF u = t THEN None ELSE target[u]
      /\ \A u \in Task : pc'[u] = IF u = t
                                  THEN IF cur[t] = None THEN "idle" ELSE "syncwait"
                                  ELSE pc[u]
  BY <1>p, <1>2 DEF PortInv, PortTypeOK, Port!Notify, Port!Goto
<1>4. PortTypeOK'
  <2>1. /\ sig' \in [Task -> SUBSET {"single", "user"}]
        /\ target' \in [Task -> Port!Port \cup {None}]
        /\ pc' \in [Task -> Where]
    BY <1>p, <1>2 DEF PortInv, PortTypeOK, Port!Notify, Port!Goto, Where
  <2>2. QED
    BY <1>1, <2>1 DEF PortInv, PortTypeOK
<1>5. OneCall'
  BY <1>1, <1>3 DEF PortInv, OneCall
<1>6. MessageInOnePlace'
  BY <1>1 DEF PortInv, MessageInOnePlace
<1>7. /\ \A n \in Msg : Port!IsRequest(n)' <=> Port!IsRequest(n)
      /\ \A u \in Task : Port!IsRequest(cur[u])' <=> Port!IsRequest(cur[u])
      /\ \A u \in Task : pc'[u] = "syncget" <=> pc[u] = "syncget"
  BY <1>1, <1>3 DEF Port!IsRequest
<1>8. Port!NoLostWakeup'
  <2>1. ASSUME NEW u \in Task, pc'[u] = "waitport", queue'[User(u)] # <<>>
        PROVE  "user" \in sig'[u] \/ \E r \in Task : target'[r] = User(u)
    <3>1. pc[u] = "waitport" /\ queue[User(u)] # <<>>
      BY <1>1, <1>3, <2>1
    <3>2. "user" \in sig[u] \/ \E r \in Task : target[r] = User(u)
      BY <3>1 DEF PortInv, Port!NoLostWakeup, User
    <3>3. p = User(u) => "user" \in sig'[u]
      <4>1. Port!SigTask(User(u)) = u /\ Port!PortSignal(User(u)) = "user"
        BY PortsDiffer
      <4>2. QED
        BY <1>3, <4>1
    <3>4. "user" \in sig[u] => "user" \in sig'[u]
      BY <1>3
    <3>5. ASSUME NEW r \in Task, target[r] = User(u)
          PROVE  p = User(u) \/ target'[r] = User(u)
      BY <1>p, <1>3, <3>5
    <3>6. QED
      BY <3>2, <3>3, <3>4, <3>5
  <2>2. QED
    BY <2>1 DEF Port!NoLostWakeup, User
<1>9. SyncPortIsForCur' /\ QuietBefore' /\ OneSignalForReply'
  <2>1. CASE \E w \in Task : p = User(w)
    <3>1. PICK w \in Task : p = User(w)
      BY <2>1
    <3>2. \A u \in Task : Single(u)' <=> Single(u)
      <4>1. Port!PortSignal(p) = "user"
        BY <3>1, PortsDiffer
      <4>2. \A u \in Task : sig'[u] = IF u = Port!SigTask(p) THEN sig[u] \cup {"user"}
                                                           ELSE sig[u]
        BY <1>3, <4>1
      <4>3. ASSUME NEW u \in Task PROVE "single" \in sig'[u] <=> "single" \in sig[u]
        <5>1. sig'[u] = sig[u] \cup {"user"} \/ sig'[u] = sig[u]
          BY <4>2
        <5>2. QED
          BY <5>1
      <4>4. QED
        BY <4>3 DEF Single
    <3>3. \A r, u \in Task : target'[r] = Sync(u) <=> target[r] = Sync(u)
      BY <1>p, <1>3, <3>1, PortsDiffer
    <3>4. \A u \in Task : cur[u] = None => (Single(u)' => pc'[u] = "lockwait")
      BY <1>1, <1>3, <3>2 DEF PortInv, QuietBefore
    <3>5. \A u \in Task, n \in Msg : cur[u] = n =>
            holder[n] # None \/ \E q \in Port!Port : Contains(queue[q], n)
      BY CurFacts DEF PortInv
    <3>6. QED
      BY <1>1, <1>7, <3>2, <3>3, <3>4, <3>5, SyncUntouched DEF PortInv
  <2>2. CASE \E w \in Task : p = Sync(w)
    <3>1. PICK w \in Task : p = Sync(w)
      BY <2>2
    <3>2. /\ \A u \in Task : Single(u)' <=> (u = w \/ Single(u))
          /\ \A r, u \in Task : target'[r] = Sync(u) <=> r # t /\ target[r] = Sync(u)
      <4>1. Port!PortSignal(p) = "single" /\ Port!SigTask(p) = w
        BY <3>1, PortsDiffer
      <4>2. \A u \in Task : Single(u)' <=> (u = w \/ Single(u))
        BY <1>3, <4>1 DEF Single
      <4>3. QED
        BY <1>3, <4>2, PortsDiffer
    <3>3. /\ \A u \in Task : u # w => (NoReplyDue(u)' <=> NoReplyDue(u))
          /\ ~ NoReplyDue(w)
      <4>1. ~ NoReplyDue(w)
        BY <1>p, <3>1 DEF NoReplyDue
      <4>2. ASSUME NEW u \in Task, u # w PROVE NoReplyDue(u)' <=> NoReplyDue(u)
        <5>1. target[t] # Sync(u)
          BY <1>p, <3>1, <4>2, PortsDiffer
        <5>2. \A s \in Task : target'[s] = Sync(u) <=> target[s] = Sync(u)
          BY <3>2, <5>1
        <5>3. QED
          BY <5>2 DEF NoReplyDue, Sync, Port!SyncPort
      <4>3. QED
        BY <4>1, <4>2
    <3>4. /\ cur[w] # None /\ ~ Port!IsRequest(cur[w])
          /\ \A r, s \in Task : target[r] = Sync(w) /\ target[s] = Sync(w) => r = s
          /\ ~Single(w) /\ pc[w] # "syncget"
      BY <3>3 DEF PortInv, QuietBefore, OneSignalForReply
    <3>5. NoReplyDue(w)'
      <4>1. \A s \in Task : ~ (target'[s] = Sync(w))
        BY <1>p, <3>1, <3>2, <3>4
      <4>2. QED
        BY <4>1 DEF NoReplyDue, Sync, Port!SyncPort
    <3>6. SyncPortIsForCur'
      BY <1>1, <1>7 DEF PortInv, SyncPortIsForCur, Sync, Port!SyncPort
    <3>7. QuietBefore'
      <4>1. ASSUME NEW u \in Task, cur'[u] = None
            PROVE  /\ queue'[Sync(u)] = <<>> /\ NoReplyDue(u)'
                   /\ Single(u)' => pc'[u] = "lockwait"
        BY <1>1, <1>3, <3>2, <3>3, <3>4, <4>1 DEF PortInv, QuietBefore
      <4>2. ASSUME NEW u \in Task, cur'[u] # None, Port!IsRequest(cur[u])'
            PROVE  /\ queue'[Sync(u)] = <<>> /\ NoReplyDue(u)' /\ ~Single(u)'
                   /\ pc'[u] # "syncget"
                   /\ holder'[cur'[u]] # None
                        \/ \E q \in Port!Port : Contains(queue'[q], cur'[u])
        <5>1. cur[u] # None /\ Port!IsRequest(cur[u]) /\ u # w
          BY <1>1, <1>7, <3>4, <4>2
        <5>2. /\ queue[Sync(u)] = <<>> /\ NoReplyDue(u) /\ ~Single(u) /\ pc[u] # "syncget"
              /\ holder[cur[u]] # None \/ \E q \in Port!Port : Contains(queue[q], cur[u])
          BY <5>1 DEF PortInv, QuietBefore
        <5>3. QED
          BY <1>1, <1>7, <3>2, <3>3, <5>1, <5>2
      <4>3. QED
        BY <4>1, <4>2 DEF QuietBefore, Sync, Port!SyncPort
    <3>8. OneSignalForReply'
      <4>1. ASSUME NEW u \in Task, cur'[u] # None, ~ Port!IsRequest(cur[u])'
            PROVE  /\ queue'[Sync(u)] = <<cur'[u]>>
                   /\ answer'[cur'[u]] = flags'[cur'[u]] \ {"QUEUED"}
                   /\ \A r, s \in Task : target'[r] = Sync(u) /\ target'[s] = Sync(u) => r = s
                   /\ Single(u)' => pc'[u] # "syncget" /\ NoReplyDue(u)'
                   /\ ~Single(u)' => (pc'[u] = "syncget" <=> NoReplyDue(u)')
        <5>1. cur[u] # None /\ ~ Port!IsRequest(cur[u])
          BY <1>1, <1>7, <4>1
        <5>2. /\ queue[Sync(u)] = <<cur[u]>>
              /\ answer[cur[u]] = flags[cur[u]] \ {"QUEUED"}
              /\ \A r, s \in Task : target[r] = Sync(u) /\ target[s] = Sync(u) => r = s
              /\ Single(u) => pc[u] # "syncget" /\ NoReplyDue(u)
              /\ ~Single(u) => (pc[u] = "syncget" <=> NoReplyDue(u))
          BY <5>1 DEF PortInv, OneSignalForReply
        <5>3. CASE u = w
          BY <1>1, <1>7, <3>2, <3>4, <3>5, <5>2, <5>3
        <5>4. CASE u # w
          BY <1>1, <1>7, <3>2, <3>3, <5>2, <5>4
        <5>5. QED
          BY <5>3, <5>4
      <4>2. QED
        BY <4>1 DEF OneSignalForReply, Sync, Port!SyncPort
    <3>9. QED
      BY <3>6, <3>7, <3>8
  <2>3. QED
    BY <1>2, <2>1, <2>2, PortsDiffer
<1>10. QED
  BY <1>4, <1>5, <1>6, <1>8, <1>9 DEF PortInv

(* ... which it takes the signal of, ...                                   *)
LEMMA SyncWaitInv ==
  ASSUME PortInv, NEW t \in Task, Port!SyncWait(t)
  PROVE  PortInv'
<1>1. /\ pc[t] = "syncwait" /\ Single(t)
      /\ UNCHANGED <<queue, flags, rport, target, cur, holder, answer>>
  BY DEF Port!SyncWait, Single
<1>2. /\ \A u \in Task : sig'[u] = IF u = t THEN sig[u] \ {"single"} ELSE sig[u]
      /\ \A u \in Task : pc'[u] = IF u = t THEN "syncget" ELSE pc[u]
      /\ sig' \in [Task -> SUBSET {"single", "user"}]
      /\ pc' \in [Task -> Where]
  BY DEF PortInv, PortTypeOK, Port!SyncWait, Port!Goto, Where
<1>3. PortTypeOK'
  BY <1>1, <1>2 DEF PortInv, PortTypeOK
<1>4. OneCall'
  BY <1>1, <1>2 DEF PortInv, OneCall
<1>5. MessageInOnePlace'
  BY <1>1 DEF PortInv, MessageInOnePlace
<1>6. /\ \A n \in Msg : Port!IsRequest(n)' <=> Port!IsRequest(n)
      /\ \A u \in Task : Port!IsRequest(cur[u])' <=> Port!IsRequest(cur[u])
      /\ \A u \in Task : NoReplyDue(u)' <=> NoReplyDue(u)
      /\ \A u \in Task : Single(u)' <=> u # t /\ Single(u)
  BY <1>1, <1>2 DEF Port!IsRequest, NoReplyDue, Single
<1>7. cur[t] # None /\ ~ Port!IsRequest(cur[t]) /\ NoReplyDue(t)
  BY <1>1 DEF PortInv, OneCall, QuietBefore, OneSignalForReply
<1>8. SyncPortIsForCur'
  BY <1>1, <1>6 DEF PortInv, SyncPortIsForCur, Sync, Port!SyncPort
<1>9. QuietBefore'
  <2>1. ASSUME NEW u \in Task, cur'[u] = None
        PROVE  /\ queue'[Sync(u)] = <<>> /\ NoReplyDue(u)'
               /\ Single(u)' => pc'[u] = "lockwait"
    BY <1>1, <1>2, <1>6, <1>7, <2>1 DEF PortInv, QuietBefore
  <2>2. ASSUME NEW u \in Task, cur'[u] # None, Port!IsRequest(cur[u])'
        PROVE  /\ queue'[Sync(u)] = <<>> /\ NoReplyDue(u)' /\ ~Single(u)' /\ pc'[u] # "syncget"
               /\ holder'[cur'[u]] # None \/ \E q \in Port!Port : Contains(queue'[q], cur'[u])
    <3>1. cur[u] # None /\ Port!IsRequest(cur[u]) /\ u # t
      BY <1>1, <1>6, <1>7, <2>2
    <3>2. /\ queue[Sync(u)] = <<>> /\ NoReplyDue(u) /\ ~Single(u) /\ pc[u] # "syncget"
          /\ holder[cur[u]] # None \/ \E q \in Port!Port : Contains(queue[q], cur[u])
      BY <3>1 DEF PortInv, QuietBefore
    <3>3. QED
      BY <1>1, <1>2, <1>6, <3>1, <3>2
  <2>3. QED
    BY <2>1, <2>2 DEF QuietBefore, Sync, Port!SyncPort
<1>10. OneSignalForReply'
  <2>1. ASSUME NEW u \in Task, cur'[u] # None, ~ Port!IsRequest(cur[u])'
        PROVE  /\ queue'[Sync(u)] = <<cur'[u]>>
               /\ answer'[cur'[u]] = flags'[cur'[u]] \ {"QUEUED"}
               /\ \A r, s \in Task : target'[r] = Sync(u) /\ target'[s] = Sync(u) => r = s
               /\ Single(u)' => pc'[u] # "syncget" /\ NoReplyDue(u)'
               /\ ~Single(u)' => (pc'[u] = "syncget" <=> NoReplyDue(u)')
    <3>1. cur[u] # None /\ ~ Port!IsRequest(cur[u])
      BY <1>1, <1>6, <2>1
    <3>2. /\ queue[Sync(u)] = <<cur[u]>>
          /\ answer[cur[u]] = flags[cur[u]] \ {"QUEUED"}
          /\ \A r, s \in Task : target[r] = Sync(u) /\ target[s] = Sync(u) => r = s
          /\ Single(u) => pc[u] # "syncget" /\ NoReplyDue(u)
          /\ ~Single(u) => (pc[u] = "syncget" <=> NoReplyDue(u))
      BY <3>1 DEF PortInv, OneSignalForReply
    <3>3. QED
      BY <1>1, <1>2, <1>6, <1>7, <3>2
  <2>2. QED
    BY <2>1 DEF OneSignalForReply, Sync, Port!SyncPort
<1>11. Port!NoLostWakeup'
  BY <1>1, <1>2 DEF PortInv, Port!NoLostWakeup, Port!UserPort
<1>12. QED
  BY <1>3, <1>4, <1>5, <1>8, <1>9, <1>10, <1>11 DEF PortInv

(* ... and takes itself, alone: nothing is left of the call, ...           *)
LEMMA SyncGetReply ==
  ASSUME PortInv, NEW t \in Task, pc[t] = "syncget"
  PROVE  /\ cur[t] \in Msg /\ cur[t] # None /\ ~ Port!IsRequest(cur[t])
         /\ queue[Sync(t)] = <<cur[t]>>
         /\ answer[cur[t]] = flags[cur[t]] \ {"QUEUED"}
         /\ ~Single(t) /\ NoReplyDue(t)
  BY DEF PortInv, PortTypeOK, OneCall, QuietBefore, OneSignalForReply

(* ... the end of TSendMsg, which takes the answer, ...                    *)
LEMMA SyncGetInv ==
  ASSUME PortInv, NEW t \in Task, Port!SyncGet(t)
  PROVE  PortInv'
<1>m. PICK m \in Msg : cur[t] = m
  BY SyncGetReply DEF Port!SyncGet
<1>1. /\ pc[t] = "syncget" /\ m # None /\ ~ Port!IsRequest(m)
      /\ queue[Sync(t)] = <<m>> /\ ~Single(t) /\ NoReplyDue(t)
  BY <1>m, SyncGetReply DEF Port!SyncGet
<1>2. /\ queue[Sync(t)] # <<>> /\ m = Head(queue[Sync(t)])
      /\ queue' = [queue EXCEPT ![Sync(t)] = Tail(@)]
      /\ flags' = [flags EXCEPT ![m] = @ \ {"QUEUED"}, ![m] = {}]
      /\ holder' = [holder EXCEPT ![m] = t]
      /\ UNCHANGED <<rport, sig, target>>
  BY <1>m, <1>1 DEF Port!SyncGet, Sync
<1>3. /\ \A u \in Task : cur'[u] = IF u = t THEN None ELSE cur[u]
      /\ \A u \in Task : pc'[u] = IF u = t THEN "idle" ELSE pc[u]
      /\ cur' \in [Task -> Msg \cup {None}] /\ pc' \in [Task -> Where]
      /\ answer' = [answer EXCEPT ![m] = None]
  <2>1. /\ cur' = [cur EXCEPT ![t] = None] /\ pc' = [pc EXCEPT ![t] = "idle"]
        /\ answer' = [answer EXCEPT ![m] = None]
    BY <1>m, <1>1 DEF Port!SyncGet, Port!Goto, Sync
  <2>2. cur \in [Task -> Msg \cup {None}] /\ pc \in [Task -> Where] /\ "idle" \in Where
    BY DEF PortInv, PortTypeOK, Where
  <2>3. QED
    BY <2>1, <2>2
<1>4. flags' = [flags EXCEPT ![m] = {}]
  BY <1>1, <1>2 DEF PortInv, PortTypeOK
<1>5. /\ queue' \in [Port!Port -> Seq(Msg)]
      /\ flags' \in [Msg -> SUBSET {"SENT", "RETURNED", "MODIFIED", "QUEUED"}]
      /\ holder' \in [Msg -> Task \cup {None}]
      /\ \A q \in Port!Port : queue'[q] = IF q = Sync(t) THEN Tail(queue[q]) ELSE queue[q]
      /\ \A q \in Port!Port, n \in Msg :
           Contains(queue'[q], n) <=> Contains(queue[q], n) /\ n # m
      /\ \A n \in Msg : n # m => flags'[n] = flags[n] /\ holder'[n] = holder[n]
      /\ flags'[m] = {}
      /\ MessageInOnePlace'
  <2>1. PortTypeOK /\ MessageInOnePlace
    BY DEF PortInv
  <2>2. flags' \in [Msg -> SUBSET {"SENT", "RETURNED", "MODIFIED", "QUEUED"}]
    BY <1>4, <2>1 DEF PortTypeOK
  <2>3. (\A n \in Msg : n # m => flags'[n] = flags[n]) /\ flags'[m] = {}
    BY <1>4, <2>1 DEF PortTypeOK
  <2>4. Dequeue(Sync(t), t, m) /\ Sync(t) \in Port!Port
    BY <1>2, <2>3, PortsDiffer DEF Dequeue
  <2>5. QED
    BY <2>1, <2>2, <2>3, <2>4, Dequeued
<1>6. queue'[Sync(t)] = <<>>
  <2>1. queue'[Sync(t)] = Tail(<<m>>)
    BY <1>1, <1>5, PortsDiffer
  <2>2. QED
    BY <2>1
<1>7. PortTypeOK'
  <2>1. answer' \in [Msg -> Port!Verdict \cup {None}]
    BY <1>3 DEF PortInv, PortTypeOK
  <2>2. QED
    BY <1>2, <1>3, <1>5, <2>1 DEF PortInv, PortTypeOK
<1>8. OneCall'
  BY <1>1, <1>2, <1>3 DEF PortInv, OneCall
<1>9. \A u \in Task : u # t => cur[u] # m
  <2>1. ASSUME NEW u \in Task, cur[u] = m PROVE u = t
    <3>1. rport[m] = Sync(u) /\ rport[m] = Sync(t)
      BY <1>m, <1>1, <2>1 DEF PortInv, SyncPortIsForCur
    <3>2. QED
      BY <3>1, PortsDiffer
  <2>2. QED
    BY <2>1
<1>10. /\ \A n \in Msg : Port!IsRequest(n)' <=> n # m /\ Port!IsRequest(n)
       /\ \A u \in Task : NoReplyDue(u)' <=> NoReplyDue(u)
       /\ \A u \in Task : Single(u)' <=> Single(u)
  <2>1. \A n \in Msg : Port!IsRequest(n)' <=> n # m /\ Port!IsRequest(n)
    BY <1>5 DEF Port!IsRequest, Port!SENT
  <2>2. target' = target /\ sig' = sig
    BY <1>2
  <2>3. QED
    BY <2>1, <2>2 DEF NoReplyDue, Single
<1>11. SyncPortIsForCur'
  <2>1. ASSUME NEW u \in Task, NEW n \in Msg, rport'[n] = Sync(u), Port!IsRequest(n)'
        PROVE  cur'[u] = n
    <3>1. n # m /\ cur[u] = n
      BY <1>2, <1>10, <2>1 DEF PortInv, SyncPortIsForCur
    <3>2. QED
      BY <1>m, <1>3, <3>1
  <2>2. ASSUME NEW u \in Task, cur'[u] # None PROVE rport'[cur'[u]] = Sync(u)
    BY <1>2, <1>3, <2>2 DEF PortInv, SyncPortIsForCur
  <2>3. QED
    BY <2>1, <2>2 DEF SyncPortIsForCur, Sync, Port!SyncPort
<1>12. ASSUME NEW u \in Task, cur'[u] # None
       PROVE  /\ u # t /\ cur'[u] = cur[u] /\ cur[u] \in Msg /\ cur[u] # None /\ cur[u] # m
              /\ Port!IsRequest(cur[u])' <=> Port!IsRequest(cur[u])
              /\ queue'[Sync(u)] = queue[Sync(u)] /\ pc'[u] = pc[u]
  <2>1. u # t /\ cur'[u] = cur[u] /\ cur[u] \in Msg /\ cur[u] # None /\ cur[u] # m
    BY <1>3, <1>9, <1>12
  <2>2. Port!IsRequest(cur[u])' <=> Port!IsRequest(cur[u])
    BY <1>10, <2>1
  <2>3. QED
    BY <1>3, <1>5, <2>1, <2>2, PortsDiffer
<1>13. QuietBefore'
  <2>1. ASSUME NEW u \in Task, cur'[u] = None
        PROVE  /\ queue'[Sync(u)] = <<>> /\ NoReplyDue(u)'
               /\ Single(u)' => pc'[u] = "lockwait"
    <3>1. CASE u = t
      BY <1>1, <1>6, <1>10, <3>1
    <3>2. CASE u # t
      BY <1>3, <1>5, <1>10, <2>1, <3>2, PortsDiffer, ZenonT(30) DEF PortInv, QuietBefore
    <3>3. QED
      BY <3>1, <3>2
  <2>2. ASSUME NEW u \in Task, cur'[u] # None, Port!IsRequest(cur[u])'
        PROVE  /\ queue'[Sync(u)] = <<>> /\ NoReplyDue(u)' /\ ~Single(u)' /\ pc'[u] # "syncget"
               /\ holder'[cur'[u]] # None \/ \E q \in Port!Port : Contains(queue'[q], cur'[u])
    <3>1. /\ queue[Sync(u)] = <<>> /\ NoReplyDue(u) /\ ~Single(u) /\ pc[u] # "syncget"
          /\ holder[cur[u]] # None \/ \E q \in Port!Port : Contains(queue[q], cur[u])
      BY <1>12, <2>2 DEF PortInv, QuietBefore
    <3>2. holder'[cur[u]] # None \/ \E q \in Port!Port : Contains(queue'[q], cur[u])
      BY <1>5, <1>12, <2>2, <3>1
    <3>3. QED
      BY <1>10, <1>12, <2>2, <3>1, <3>2
  <2>3. QED
    BY <2>1, <2>2 DEF QuietBefore, Sync, Port!SyncPort
<1>14. OneSignalForReply'
  <2>1. ASSUME NEW u \in Task, cur'[u] # None, ~ Port!IsRequest(cur[u])'
        PROVE  /\ queue'[Sync(u)] = <<cur'[u]>>
               /\ answer'[cur'[u]] = flags'[cur'[u]] \ {"QUEUED"}
               /\ \A r, s \in Task : target'[r] = Sync(u) /\ target'[s] = Sync(u) => r = s
               /\ Single(u)' => pc'[u] # "syncget" /\ NoReplyDue(u)'
               /\ ~Single(u)' => (pc'[u] = "syncget" <=> NoReplyDue(u)')
    <3>1. /\ queue[Sync(u)] = <<cur[u]>>
          /\ answer[cur[u]] = flags[cur[u]] \ {"QUEUED"}
          /\ \A r, s \in Task : target[r] = Sync(u) /\ target[s] = Sync(u) => r = s
          /\ Single(u) => pc[u] # "syncget" /\ NoReplyDue(u)
          /\ ~Single(u) => (pc[u] = "syncget" <=> NoReplyDue(u))
      BY <1>12, <2>1 DEF PortInv, OneSignalForReply
    <3>2. answer'[cur[u]] = answer[cur[u]] /\ flags'[cur[u]] = flags[cur[u]]
      BY <1>3, <1>5, <1>12, <2>1
    <3>3. QED
      BY <1>2, <1>10, <1>12, <2>1, <3>1, <3>2
  <2>2. QED
    BY <2>1 DEF OneSignalForReply, Sync, Port!SyncPort
<1>15. Port!NoLostWakeup'
  <2>1. \A u \in Task : pc'[u] = "waitport" => pc[u] = "waitport"
    BY <1>3
  <2>2. \A u \in Task : queue'[User(u)] = queue[User(u)]
    BY <1>5, PortsDiffer
  <2>3. QED
    BY <1>2, <2>1, <2>2 DEF PortInv, Port!NoLostWakeup, User, Port!UserPort
<1>16. QED
  BY <1>5, <1>7, <1>8, <1>11, <1>13, <1>14, <1>15 DEF PortInv

(* ... TWaitPort does not sleep while there is a message, ...              *)
LEMMA WaitPortInv ==
  ASSUME PortInv, NEW t \in Task,
         Port!WaitPort(t) \/ Port!TestPort(t) \/ Port!WakePort(t)
  PROVE  PortInv'
<1>1. /\ pc[t] \in {"idle", "testport", "waitport"}
      /\ UNCHANGED <<queue, flags, rport, target, cur, holder, answer>>
  BY DEF Port!WaitPort, Port!TestPort, Port!WakePort
<1>2. PICK l \in {"idle", "testport", "waitport"} : pc' = [pc EXCEPT ![t] = l]
  BY DEF Port!WaitPort, Port!TestPort, Port!WakePort, Port!Goto
<1>3. \A u \in Task : pc'[u] = IF u = t THEN l ELSE pc[u]
  BY <1>2 DEF PortInv, PortTypeOK
<1>4. l = "waitport" => queue[User(t)] = <<>>
  <2>1. pc \in [Task -> Where]
    BY DEF PortInv, PortTypeOK
  <2>2. CASE pc' = [pc EXCEPT ![t] = "testport"]
    BY <1>3, <2>1, <2>2
  <2>3. CASE Port!TestPort(t) /\ queue[User(t)] # <<>>
    <3>1. pc' = [pc EXCEPT ![t] = "idle"]
      BY <2>3 DEF Port!TestPort, Port!Goto, User
    <3>2. QED
      BY <1>3, <2>1, <3>1
  <2>4. QED
    BY <2>2, <2>3 DEF Port!WaitPort, Port!TestPort, Port!WakePort, Port!Goto
<1>5. sig' = [sig EXCEPT ![t] = @ \ {"user"}] \/ sig' = sig
  BY DEF Port!WaitPort, Port!TestPort, Port!WakePort
<1>6. /\ \A u \in Task : u # t => sig'[u] = sig[u]
      /\ \A u \in Task : Single(u)' <=> Single(u)
      /\ sig' \in [Task -> SUBSET {"single", "user"}]
  <2>1. sig \in [Task -> SUBSET {"single", "user"}]
    BY DEF PortInv, PortTypeOK
  <2>2. CASE sig' = sig
    BY <2>1, <2>2 DEF Single
  <2>3. CASE sig' = [sig EXCEPT ![t] = @ \ {"user"}]
    <3>1. \A u \in Task : sig'[u] = IF u = t THEN sig[u] \ {"user"} ELSE sig[u]
      BY <2>1, <2>3
    <3>2. sig' \in [Task -> SUBSET {"single", "user"}]
      BY <2>1, <2>3
    <3>3. QED
      BY <3>1, <3>2 DEF Single
  <2>4. QED
    BY <1>5, <2>2, <2>3
<1>7. PortTypeOK'
  <2>1. pc' \in [Task -> Where]
    BY <1>2 DEF PortInv, PortTypeOK, Where
  <2>2. QED
    BY <1>1, <1>6, <2>1 DEF PortInv, PortTypeOK
<1>8. OneCall'
  BY <1>1, <1>3 DEF PortInv, OneCall
<1>9. MessageInOnePlace'
  BY <1>1 DEF PortInv, MessageInOnePlace
<1>10. SyncPortIsForCur' /\ QuietBefore' /\ OneSignalForReply'
  <2>1. \A u \in Task : cur[u] = None => (Single(u)' => pc'[u] = "lockwait")
    BY <1>1, <1>3, <1>6 DEF PortInv, QuietBefore
  <2>2. \A u \in Task, n \in Msg : cur[u] = n =>
          holder[n] # None \/ \E q \in Port!Port : Contains(queue[q], n)
    BY CurFacts DEF PortInv
  <2>3. \A n \in Msg : Port!IsRequest(n)' <=> Port!IsRequest(n)
    BY <1>1 DEF Port!IsRequest
  <2>4. \A u \in Task : pc'[u] = "syncget" <=> pc[u] = "syncget"
    BY <1>1, <1>3
  <2>5. QED
    BY <1>1, <1>6, <2>1, <2>2, <2>3, <2>4, SyncUntouched DEF PortInv
<1>11. Port!NoLostWakeup'
  <2>1. ASSUME NEW u \in Task, pc'[u] = "waitport", queue'[User(u)] # <<>>
        PROVE  "user" \in sig'[u] \/ \E r \in Task : target'[r] = User(u)
    <3>1. u # t /\ pc[u] = "waitport" /\ queue[User(u)] # <<>>
      BY <1>1, <1>3, <1>4, <2>1
    <3>2. "user" \in sig[u] \/ \E r \in Task : target[r] = User(u)
      BY <3>1 DEF PortInv, Port!NoLostWakeup, User
    <3>3. QED
      BY <1>1, <1>6, <3>1, <3>2
  <2>2. QED
    BY <2>1 DEF Port!NoLostWakeup, User
<1>12. QED
  BY <1>7, <1>8, <1>9, <1>10, <1>11 DEF PortInv

(* ... TGetMsg takes the first one, ...                                    *)
LEMMA GetMsgInv ==
  ASSUME PortInv, NEW t \in Task, Port!GetMsg(t)
  PROVE  PortInv'
<1>1. /\ pc[t] = "idle" /\ queue[User(t)] # <<>>
      /\ UNCHANGED <<rport, sig, pc, target, cur>>
  BY DEF Port!GetMsg, User
<1>2. User(t) \in Port!Port /\ queue[User(t)] \in Seq(Msg)
  BY PortsDiffer DEF PortInv, PortTypeOK
<1>m. PICK m \in Msg : m = Head(queue[User(t)])
  BY <1>1, <1>2, EmptySeq
<1>3. /\ queue' = [queue EXCEPT ![User(t)] = Tail(@)]
      /\ flags' = [flags EXCEPT ![m] = @ \ {"QUEUED"}]
      /\ holder' = [holder EXCEPT ![m] = t]
      /\ answer' = [answer EXCEPT ![m] = None]
  BY <1>m DEF Port!GetMsg, User
<1>4. /\ \A n \in Msg : flags'[n] = IF n = m THEN flags[n] \ {"QUEUED"} ELSE flags[n]
      /\ flags' \in [Msg -> SUBSET {"SENT", "RETURNED", "MODIFIED", "QUEUED"}]
  BY <1>3 DEF PortInv, PortTypeOK
<1>5. /\ queue' \in [Port!Port -> Seq(Msg)]
      /\ holder' \in [Msg -> Task \cup {None}]
      /\ Contains(queue[User(t)], m)
      /\ \A q \in Port!Port : queue'[q] = IF q = User(t) THEN Tail(queue[q]) ELSE queue[q]
      /\ \A q \in Port!Port, n \in Msg :
           Contains(queue'[q], n) <=> Contains(queue[q], n) /\ n # m
      /\ \A n \in Msg : n # m => holder'[n] = holder[n]
      /\ holder'[m] = t
      /\ MessageInOnePlace'
  <2>1. PortTypeOK /\ MessageInOnePlace
    BY DEF PortInv
  <2>2. "QUEUED" \notin flags'[m] /\ \A n \in Msg : n # m => flags'[n] = flags[n]
    BY <1>4
  <2>3. Dequeue(User(t), t, m)
    BY <1>1, <1>m, <1>3, <2>2 DEF Dequeue
  <2>4. QED
    BY <1>2, <2>1, <2>3, Dequeued
<1>6. PortTypeOK'
  <2>1. answer' \in [Msg -> Port!Verdict \cup {None}]
    BY <1>3 DEF PortInv, PortTypeOK
  <2>2. QED
    BY <1>1, <1>4, <1>5, <2>1 DEF PortInv, PortTypeOK
<1>7. OneCall'
  BY <1>1 DEF PortInv, OneCall
<1>8. \A n \in Msg : Port!IsRequest(n)' <=> Port!IsRequest(n)
  <2>1. ASSUME NEW n \in Msg PROVE flags'[n] \ {"QUEUED"} = flags[n] \ {"QUEUED"}
    BY <1>4
  <2>2. QED
    BY <2>1 DEF Port!IsRequest
<1>9. ASSUME NEW u \in Task, NEW n \in Msg, cur[u] = n
      PROVE  /\ rport'[n] = rport[n] /\ (Port!IsRequest(n)' <=> Port!IsRequest(n))
             /\ ~ Port!IsRequest(n) => flags'[n] = flags[n] /\ answer'[n] = answer[n]
             /\ holder'[n] # None \/ \E p \in Port!Port : Contains(queue'[p], n)
  <2>1. n = m => Port!IsRequest(n)
    BY <1>5, <1>9, CurFacts DEF PortInv
  <2>2. n # m => answer'[n] = answer[n] /\ flags'[n] = flags[n]
    BY <1>3, <1>4
  <2>3. holder'[n] # None \/ \E p \in Port!Port : Contains(queue'[p], n)
    <3>1. CASE n = m
      BY <1>5, <3>1, PortsDiffer
    <3>2. CASE n # m
      BY <1>5, <1>9, <3>2, CurFacts DEF PortInv
    <3>3. QED
      BY <3>1, <3>2
  <2>4. QED
    BY <1>1, <1>8, <2>1, <2>2, <2>3
<1>10. SyncPortIsForCur' /\ QuietBefore' /\ OneSignalForReply'
  <2>1. \A u \in Task : cur[u] = None => (Single(u)' => pc'[u] = "lockwait")
    BY <1>1 DEF PortInv, QuietBefore, Single
  <2>2. \A u \in Task : queue'[Sync(u)] = queue[Sync(u)]
    BY <1>5, PortsDiffer
  <2>3. \A u \in Task : Single(u)' <=> Single(u)
    BY <1>1 DEF Single
  <2>4. QED
    BY <1>1, <1>8, <1>9, <2>1, <2>2, <2>3, SyncUntouched DEF PortInv
<1>11. Port!NoLostWakeup'
  <2>1. ASSUME NEW u \in Task, pc'[u] = "waitport", queue'[User(u)] # <<>>
        PROVE  "user" \in sig'[u] \/ \E r \in Task : target'[r] = User(u)
    <3>1. u # t /\ pc[u] = "waitport"
      BY <1>1, <2>1
    <3>2. queue[User(u)] # <<>>
      BY <1>5, <2>1, <3>1, PortsDiffer
    <3>3. QED
      BY <1>1, <3>1, <3>2 DEF PortInv, Port!NoLostWakeup, User
  <2>2. QED
    BY <2>1 DEF Port!NoLostWakeup, User
<1>12. QED
  BY <1>5, <1>6, <1>7, <1>10, <1>11 DEF PortInv

(* ... TInsertMsg puts a request back into its own port, ...               *)
LEMMA InsertMsgInv ==
  ASSUME PortInv, NEW t \in Task, NEW m \in Msg, Port!InsertMsg(t, m)
  PROVE  PortInv'
<1>1. /\ pc[t] = "idle" /\ holder[m] = t /\ flags[m] = Port!SENT
      /\ UNCHANGED <<flags, rport, sig, target, cur, answer>>
  BY DEF Port!InsertMsg, Port!MustAnswer
<1>2. /\ User(t) \in Port!Port /\ queue[User(t)] \in Seq(Msg)
      /\ queue \in [Port!Port -> Seq(Msg)] /\ holder \in [Msg -> Task \cup {None}]
      /\ t # None
  BY PortsDiffer DEF PortInv, PortTypeOK
<1>3. \A q \in Port!Port : ~ Contains(queue[q], m)
  BY <1>1, <1>2 DEF PortInv, MessageInOnePlace
<1>4. PICK k \in 1..(Len(queue[User(t)]) + 1) :
        queue' = [queue EXCEPT ![User(t)] = Port!InsertAt(queue[User(t)], k, m)]
  <2>1. PICK i \in (1..Len(queue[User(t)])) \cup {Len(queue[User(t)])} :
          queue' = [queue EXCEPT ![User(t)] = Port!InsertAt(queue[User(t)], i + 1, m)]
    BY DEF Port!InsertMsg, User
  <2>2. i + 1 \in 1..(Len(queue[User(t)]) + 1)
    BY <1>2
  <2>3. QED
    BY <2>1, <2>2
<1> DEFINE r == Port!InsertAt(queue[User(t)], k, m)
<1>5. /\ r \in Seq(Msg) /\ IsInjective(r)
      /\ \A n : Contains(r, n) <=> Contains(queue[User(t)], n) \/ n = m
  <2>1. IsInjective(queue[User(t)])
    BY <1>2 DEF PortInv, MessageInOnePlace
  <2>2. QED
    BY <1>2, <1>3, <2>1, InsertOne
<1> HIDE DEF r
<1>6. /\ queue' \in [Port!Port -> Seq(Msg)]
      /\ \A q \in Port!Port : queue'[q] = IF q = User(t) THEN r ELSE queue[q]
  BY <1>2, <1>4, <1>5 DEF r
<1>7. \A q \in Port!Port, n \in Msg :
        Contains(queue'[q], n) <=> Contains(queue[q], n) \/ (q = User(t) /\ n = m)
  BY <1>5, <1>6
<1>8. /\ \A u \in Task : pc'[u] = IF u = t THEN "setflags" ELSE pc[u]
      /\ pc' \in [Task -> Where]
      /\ \A n \in Msg : holder'[n] = IF n = m THEN None ELSE holder[n]
      /\ holder' \in [Msg -> Task \cup {None}]
  BY DEF PortInv, PortTypeOK, Port!InsertMsg, Port!Goto, Where
<1>9. PortTypeOK'
  BY <1>1, <1>6, <1>8 DEF PortInv, PortTypeOK
<1>10. OneCall'
  BY <1>1, <1>8 DEF PortInv, OneCall
<1>11. MessageInOnePlace'
  <2>1. \A q \in Port!Port : IsInjective(queue'[q])
    BY <1>5, <1>6 DEF PortInv, MessageInOnePlace
  <2>2. \A p, q \in Port!Port, n \in Msg :
          Contains(queue'[p], n) /\ Contains(queue'[q], n) => p = q
    BY <1>3, <1>7 DEF PortInv, MessageInOnePlace
  <2>3. \A p \in Port!Port, n \in Msg :
          Contains(queue'[p], n) =>
            holder'[n] = None /\ ("QUEUED" \in flags'[n] \/ flags'[n] = Port!SENT)
    BY <1>1, <1>7, <1>8 DEF PortInv, MessageInOnePlace
  <2>4. \A n \in Msg : holder'[n] # None => "QUEUED" \notin flags'[n]
    BY <1>1, <1>8 DEF PortInv, MessageInOnePlace
  <2>5. QED
    BY <2>1, <2>2, <2>3, <2>4 DEF MessageInOnePlace
<1>12. SyncPortIsForCur' /\ QuietBefore' /\ OneSignalForReply'
  <2>1. \A u \in Task : cur[u] = None => (Single(u)' => pc'[u] = "lockwait")
    BY <1>1, <1>8 DEF PortInv, QuietBefore, Single
  <2>2. \A u \in Task : queue'[Sync(u)] = queue[Sync(u)]
    BY <1>6, PortsDiffer
  <2>3. \A u \in Task : Single(u)' <=> Single(u)
    BY <1>1 DEF Single
  <2>4. \A n \in Msg : Port!IsRequest(n)' <=> Port!IsRequest(n)
    BY <1>1 DEF Port!IsRequest
  <2>5. \A u \in Task, n \in Msg : cur[u] = n =>
          holder'[n] # None \/ \E p \in Port!Port : Contains(queue'[p], n)
    <3>1. ASSUME NEW u \in Task, NEW n \in Msg, cur[u] = n, n # m
          PROVE  holder'[n] # None \/ \E p \in Port!Port : Contains(queue'[p], n)
      <4>1. holder[n] # None \/ \E p \in Port!Port : Contains(queue[p], n)
        BY <3>1, CurFacts DEF PortInv
      <4>2. QED
        BY <1>7, <1>8, <3>1, <4>1
    <3>2. Contains(queue'[User(t)], m)
      BY <1>2, <1>7
    <3>3. QED
      BY <1>2, <3>1, <3>2
  <2>6. \A u \in Task : pc'[u] = "syncget" <=> pc[u] = "syncget"
    BY <1>1, <1>8
  <2>7. QED
    BY <1>1, <2>1, <2>2, <2>3, <2>4, <2>5, <2>6, SyncUntouched DEF PortInv
<1>13. Port!NoLostWakeup'
  <2>1. ASSUME NEW u \in Task, pc'[u] = "waitport", queue'[User(u)] # <<>>
        PROVE  "user" \in sig'[u] \/ \E s \in Task : target'[s] = User(u)
    <3>1. u # t /\ pc[u] = "waitport"
      BY <1>1, <1>8, <2>1
    <3>2. queue[User(u)] # <<>>
      BY <1>6, <2>1, <3>1, PortsDiffer
    <3>3. QED
      BY <1>1, <3>1, <3>2 DEF PortInv, Port!NoLostWakeup, User
  <2>2. QED
    BY <2>1 DEF Port!NoLostWakeup, User
<1>14. QED
  BY <1>9, <1>10, <1>11, <1>12, <1>13 DEF PortInv

(* ... and sets its status when it is queued again, ...                    *)
LEMMA SetFlagsInv ==
  ASSUME PortInv, NEW t \in Task, Port!SetFlags(t)
  PROVE  PortInv'
<1>1. pc[t] = "setflags" /\ UNCHANGED <<queue, rport, sig, target, cur, holder, answer>>
  BY DEF Port!SetFlags
<1>2. PICK m \in Port!ToSet(queue[User(t)]) :
        "QUEUED" \notin flags[m] /\ flags' = [flags EXCEPT ![m] = Port!SENT \cup {"QUEUED"}]
  BY DEF Port!SetFlags, User
<1>3. /\ User(t) \in Port!Port /\ queue[User(t)] \in Seq(Msg)
      /\ m \in Msg /\ Contains(queue[User(t)], m)
  <2>1. User(t) \in Port!Port /\ queue[User(t)] \in Seq(Msg)
    BY PortsDiffer DEF PortInv, PortTypeOK
  <2>2. PICK i \in DOMAIN queue[User(t)] : queue[User(t)][i] = m
    BY DEF Port!ToSet
  <2>3. queue[User(t)][i] \in Msg
    BY <2>1
  <2>4. QED
    BY <2>1, <2>2, <2>3 DEF Contains
<1>4. flags[m] = Port!SENT
  BY <1>2, <1>3 DEF PortInv, MessageInOnePlace
<1>5. /\ \A n \in Msg : flags'[n] = IF n = m THEN {"SENT", "QUEUED"} ELSE flags[n]
      /\ flags' \in [Msg -> SUBSET {"SENT", "RETURNED", "MODIFIED", "QUEUED"}]
      /\ \A u \in Task : pc'[u] = IF u = t THEN "idle" ELSE pc[u]
      /\ pc' \in [Task -> Where]
  BY <1>2, <1>3 DEF PortInv, PortTypeOK, Port!SetFlags, Port!Goto, Where, Port!SENT
<1>6. PortTypeOK'
  BY <1>1, <1>5 DEF PortInv, PortTypeOK
<1>7. OneCall'
  BY <1>1, <1>5 DEF PortInv, OneCall
<1>8. MessageInOnePlace'
  <2>1. holder[m] = None
    BY <1>3 DEF PortInv, MessageInOnePlace
  <2>2. QED
    BY <1>1, <1>5, <2>1 DEF PortInv, MessageInOnePlace
<1>9. \A n \in Msg : Port!IsRequest(n)' <=> Port!IsRequest(n)
  <2>1. ASSUME NEW n \in Msg PROVE flags'[n] \ {"QUEUED"} = flags[n] \ {"QUEUED"}
    BY <1>4, <1>5 DEF Port!SENT
  <2>2. QED
    BY <2>1 DEF Port!IsRequest
<1>10. ASSUME NEW u \in Task, NEW n \in Msg, cur[u] = n
       PROVE  /\ ~ Port!IsRequest(n) => flags'[n] = flags[n]
              /\ holder'[n] # None \/ \E p \in Port!Port : Contains(queue'[p], n)
  <2>1. n = m => Port!IsRequest(n)
    BY <1>3, <1>10, CurFacts DEF PortInv
  <2>2. QED
    BY <1>1, <1>5, <1>10, <2>1, CurFacts DEF PortInv
<1>11. SyncPortIsForCur' /\ QuietBefore' /\ OneSignalForReply'
  <2>1. \A u \in Task : cur[u] = None => (Single(u)' => pc'[u] = "lockwait")
    BY <1>1, <1>5 DEF PortInv, QuietBefore, Single
  <2>2. \A u \in Task : Single(u)' <=> Single(u)
    BY <1>1 DEF Single
  <2>3. \A u \in Task : pc'[u] = "syncget" <=> pc[u] = "syncget"
    BY <1>1, <1>5
  <2>4. QED
    BY <1>1, <1>9, <1>10, <2>1, <2>2, <2>3, SyncUntouched DEF PortInv
<1>12. Port!NoLostWakeup'
  BY <1>1, <1>5 DEF PortInv, Port!NoLostWakeup, Port!UserPort
<1>13. QED
  BY <1>6, <1>7, <1>8, <1>11, <1>12 DEF PortInv

(* ... and TAckMsg, TReplyMsg or TDropMsg frees it or sends it back: to a  *)
(* sync port just if its task waits there for it.                          *)
LEMMA ReturnMsgInv ==
  ASSUME PortInv, NEW t \in Task, NEW m \in Msg, NEW v \in Port!Verdict,
         Port!ReturnMsg(t, m, v)
  PROVE  PortInv'
<1>1. /\ pc[t] = "idle" /\ holder[m] = t /\ flags[m] = Port!SENT
      /\ UNCHANGED <<rport, sig, cur>>
  BY DEF Port!ReturnMsg, Port!MustAnswer
<1>2. Port!IsRequest(m)
  BY <1>1 DEF Port!IsRequest, Port!SENT
<1>3. t # None /\ m # None /\ cur[t] = None /\ target[t] = None
  BY <1>1, PortsDiffer DEF PortInv, OneCall
<1>4. \A u \in Task : cur[u] = m => rport[m] = Sync(u)
  BY <1>3 DEF PortInv, SyncPortIsForCur
<1>5. rport[m] \in Port!Port \cup {None}
  BY DEF PortInv, PortTypeOK
<1>6. CASE rport[m] = None
  <2>1. UNCHANGED <<queue, flags, target, answer, pc>>
    BY <1>5, <1>6, PortsDiffer DEF Port!ReturnMsg
  <2>2. /\ \A n \in Msg : holder'[n] = IF n = m THEN None ELSE holder[n]
        /\ holder' \in [Msg -> Task \cup {None}]
    BY <1>6 DEF PortInv, PortTypeOK, Port!ReturnMsg
  <2>3. PortTypeOK'
    BY <1>1, <2>1, <2>2 DEF PortInv, PortTypeOK
  <2>4. OneCall'
    BY <1>1, <2>1 DEF PortInv, OneCall
  <2>5. MessageInOnePlace'
    BY <2>1, <2>2 DEF PortInv, MessageInOnePlace
  <2>6. \A u \in Task : cur[u] # m
    BY <1>4, <1>6, PortsDiffer
  <2>7. SyncPortIsForCur' /\ QuietBefore' /\ OneSignalForReply'
    <3>1. \A u \in Task : cur[u] = None => (Single(u)' => pc'[u] = "lockwait")
      BY <1>1, <2>1 DEF PortInv, QuietBefore, Single
    <3>2. \A u \in Task : Single(u)' <=> Single(u)
      BY <1>1 DEF Single
    <3>3. \A n \in Msg : Port!IsRequest(n)' <=> Port!IsRequest(n)
      BY <2>1 DEF Port!IsRequest
    <3>4. \A u \in Task, n \in Msg : cur[u] = n =>
            holder'[n] # None \/ \E p \in Port!Port : Contains(queue'[p], n)
      BY <2>1, <2>2, <2>6, CurFacts DEF PortInv
    <3>5. QED
      BY <1>1, <2>1, <3>1, <3>2, <3>3, <3>4, SyncUntouched DEF PortInv
  <2>8. Port!NoLostWakeup'
    BY <1>1, <2>1 DEF PortInv, Port!NoLostWakeup, Port!UserPort
  <2>9. QED
    BY <2>3, <2>4, <2>5, <2>7, <2>8 DEF PortInv
<1>7. ASSUME NEW p \in Port!Port, rport[m] = p PROVE PortInv'
  <2>1. Port!Enqueue(p, m, v)
    BY <1>7, PortsDiffer DEF Port!ReturnMsg
  <2>2. \A q \in Port!Port : ~ Contains(queue[q], m)
    BY <1>1, <1>3 DEF PortInv, MessageInOnePlace
  <2>3. /\ queue' \in [Port!Port -> Seq(Msg)]
        /\ flags' \in [Msg -> SUBSET {"SENT", "RETURNED", "MODIFIED", "QUEUED"}]
        /\ holder' \in [Msg -> Task \cup {None}]
        /\ \A q \in Port!Port : queue'[q] = IF q = p THEN Append(queue[q], m) ELSE queue[q]
        /\ \A q \in Port!Port, n \in Msg :
             Contains(queue'[q], n) <=> Contains(queue[q], n) \/ (q = p /\ n = m)
        /\ \A n \in Msg : n # m => flags'[n] = flags[n] /\ holder'[n] = holder[n]
        /\ flags'[m] \ {"QUEUED"} = v
        /\ MessageInOnePlace'
    BY <2>1, <2>2, Enqueued DEF PortInv
  <2>4. /\ answer' = [answer EXCEPT ![m] = v]
        /\ target' = [target EXCEPT ![t] = p]
        /\ pc' = [pc EXCEPT ![t] = "notify"]
    BY <1>7, PortsDiffer DEF Port!ReturnMsg, Port!Goto
  <2>5. /\ \A u \in Task : target'[u] = IF u = t THEN p ELSE target[u]
        /\ \A u \in Task : pc'[u] = IF u = t THEN "notify" ELSE pc[u]
        /\ target' \in [Task -> Port!Port \cup {None}] /\ pc' \in [Task -> Where]
    <3>1. /\ target \in [Task -> Port!Port \cup {None}]
          /\ pc \in [Task -> Where] /\ "notify" \in Where
      BY DEF PortInv, PortTypeOK, Where
    <3>2. QED
      BY <2>4, <3>1
  <2>6. PortTypeOK'
    <3>1. answer' \in [Msg -> Port!Verdict \cup {None}]
      BY <2>4 DEF PortInv, PortTypeOK
    <3>2. QED
      BY <1>1, <2>3, <2>5, <3>1 DEF PortInv, PortTypeOK
  <2>7. OneCall'
    BY <1>1, <1>3, <2>5, PortsDiffer DEF PortInv, OneCall
  <2>8. \A n \in Msg : Port!IsRequest(n)' <=> n # m /\ Port!IsRequest(n)
    <3>1. v # Port!SENT
      BY DEF Port!Verdict, Port!FAILED, Port!ACKD, Port!REPLIED, Port!SENT
    <3>2. QED
      BY <2>3, <3>1 DEF Port!IsRequest
  <2>9. \A u \in Task : /\ Single(u)' <=> Single(u)
                        /\ pc'[u] = "syncget" <=> pc[u] = "syncget"
                        /\ cur[u] = None => (Single(u)' => pc'[u] = "lockwait")
    <3>1. sig' = sig
      BY <1>1
    <3>2. QED
      BY <1>1, <2>5, <3>1 DEF PortInv, QuietBefore, Single
  <2>10. ASSUME NEW u \in Task, NEW n \in Msg, cur[u] = n, n # m
         PROVE  /\ Port!IsRequest(n)' <=> Port!IsRequest(n)
                /\ flags'[n] = flags[n] /\ answer'[n] = answer[n]
                /\ holder'[n] # None \/ \E q \in Port!Port : Contains(queue'[q], n)
    <3>1. holder[n] # None \/ \E q \in Port!Port : Contains(queue[q], n)
      BY <2>10, CurFacts DEF PortInv
    <3>2. QED
      BY <2>3, <2>4, <2>8, <2>10, <3>1
  <2>11. SyncPortIsForCur' /\ QuietBefore' /\ OneSignalForReply'
    <3>1. CASE \E w \in Task : p = User(w)
      <4>1. PICK w \in Task : p = User(w)
        BY <3>1
      <4>2. \A u \in Task : cur[u] # m
        <5>1. ASSUME NEW u \in Task, cur[u] = m PROVE FALSE
          <6>1. User(w) = Sync(u)
            BY <1>4, <1>7, <4>1, <5>1
          <6>2. QED
            BY <6>1, PortsDiffer
        <5>2. QED
          BY <5>1
      <4>3. \A u \in Task : queue'[Sync(u)] = queue[Sync(u)]
        BY <2>3, <4>1, PortsDiffer
      <4>4. \A r, u \in Task : target'[r] = Sync(u) <=> target[r] = Sync(u)
        BY <1>3, <2>5, <4>1, PortsDiffer
      <4>5. QED
        BY <1>1, <2>8, <2>9, <2>10, <4>2, <4>3, <4>4, SyncUntouched DEF PortInv
    <3>2. CASE \E w \in Task : p = Sync(w)
      <4>1. PICK w \in Task : p = Sync(w)
        BY <3>2
      <4>2. cur[w] = m
        BY <1>2, <1>7, <4>1 DEF PortInv, SyncPortIsForCur
      <4>3. \A u \in Task : u # w => cur[u] # m
        BY <1>4, <1>7, <4>1, PortsDiffer
      <4>4. queue[Sync(w)] = <<>> /\ NoReplyDue(w) /\ ~Single(w) /\ pc[w] # "syncget"
        BY <1>2, <1>3, <4>2 DEF PortInv, QuietBefore
      <4>5. queue'[Sync(w)] = <<m>> /\ \A u \in Task : u # w => queue'[Sync(u)] = queue[Sync(u)]
        <5>1. queue'[Sync(w)] = Append(<<>>, m)
          BY <2>3, <4>1, <4>4
        <5>2. QED
          BY <2>3, <4>1, <5>1, PortsDiffer
      <4>6. \A r, u \in Task : target'[r] = Sync(u) <=> (r = t /\ u = w) \/ target[r] = Sync(u)
        BY <1>3, <2>5, <4>1, PortsDiffer
      <4>7. \A r \in Task : target'[r] = Sync(w) => r = t
        BY <4>4, <4>6 DEF NoReplyDue
      <4>8. ASSUME NEW u \in Task, u # w PROVE NoReplyDue(u)' <=> NoReplyDue(u)
        <5>1. \A r \in Task : target'[r] = Sync(u) <=> target[r] = Sync(u)
          BY <4>6, <4>8
        <5>2. QED
          BY <5>1 DEF NoReplyDue, Sync, Port!SyncPort
      <4>9. ~ NoReplyDue(w)'
        <5>1. target'[t] = Sync(w)
          BY <4>6
        <5>2. QED
          BY <5>1 DEF NoReplyDue, Sync, Port!SyncPort
      <4>10. SyncPortIsForCur'
        <5>1. ASSUME NEW u \in Task, NEW n \in Msg, rport'[n] = Sync(u), Port!IsRequest(n)'
              PROVE  cur'[u] = n
          BY <1>1, <2>8, <5>1 DEF PortInv, SyncPortIsForCur
        <5>2. ASSUME NEW u \in Task, cur'[u] # None PROVE rport'[cur'[u]] = Sync(u)
          BY <1>1, <5>2 DEF PortInv, SyncPortIsForCur
        <5>3. QED
          BY <5>1, <5>2 DEF SyncPortIsForCur, Sync, Port!SyncPort
      <4>11. ASSUME NEW u \in Task, cur'[u] # None, u # w
             PROVE  /\ cur'[u] = cur[u] /\ cur[u] \in Msg /\ cur[u] # m /\ cur[u] # None
                    /\ Port!IsRequest(cur[u])' <=> Port!IsRequest(cur[u])
                    /\ queue'[Sync(u)] = queue[Sync(u)]
                    /\ NoReplyDue(u)' <=> NoReplyDue(u)
        <5>1. cur'[u] = cur[u] /\ cur[u] \in Msg /\ cur[u] # m /\ cur[u] # None
          BY <1>1, <4>3, <4>11 DEF PortInv, PortTypeOK
        <5>2. Port!IsRequest(cur[u])' <=> Port!IsRequest(cur[u])
          BY <2>8, <5>1
        <5>3. QED
          BY <4>5, <4>8, <4>11, <5>1, <5>2
      <4>12. QuietBefore'
        <5>1. ASSUME NEW u \in Task, cur'[u] = None
              PROVE  /\ queue'[Sync(u)] = <<>> /\ NoReplyDue(u)'
                     /\ Single(u)' => pc'[u] = "lockwait"
          <6>1. u # w /\ cur[u] = None
            BY <1>1, <1>3, <4>2, <5>1
          <6>2. QED
            BY <2>9, <4>5, <4>8, <6>1 DEF PortInv, QuietBefore
        <5>2. ASSUME NEW u \in Task, cur'[u] # None, Port!IsRequest(cur[u])'
              PROVE  /\ queue'[Sync(u)] = <<>> /\ NoReplyDue(u)' /\ ~Single(u)'
                     /\ pc'[u] # "syncget"
                     /\ holder'[cur'[u]] # None
                          \/ \E q \in Port!Port : Contains(queue'[q], cur'[u])
          <6>1. u # w
            <7>1. cur'[w] = m
              BY <1>1, <4>2
            <7>2. ~ Port!IsRequest(m)'
              BY <2>8
            <7>3. cur'[u] # m
              BY <5>2, <7>2 DEF Port!IsRequest
            <7>4. QED
              BY <7>1, <7>3
          <6>2. /\ queue[Sync(u)] = <<>> /\ NoReplyDue(u) /\ ~Single(u) /\ pc[u] # "syncget"
            BY <4>11, <5>2, <6>1 DEF PortInv, QuietBefore
          <6>3. holder'[cur[u]] # None \/ \E q \in Port!Port : Contains(queue'[q], cur[u])
            BY <2>10, <4>11, <5>2, <6>1
          <6>4. QED
            BY <2>9, <4>11, <5>2, <6>1, <6>2, <6>3
        <5>3. QED
          BY <5>1, <5>2 DEF QuietBefore, Sync, Port!SyncPort
      <4>13. OneSignalForReply'
        <5>1. ASSUME NEW u \in Task, cur'[u] # None, ~ Port!IsRequest(cur[u])'
              PROVE  /\ queue'[Sync(u)] = <<cur'[u]>>
                     /\ answer'[cur'[u]] = flags'[cur'[u]] \ {"QUEUED"}
                     /\ \A r, s \in Task : target'[r] = Sync(u) /\ target'[s] = Sync(u) => r = s
                     /\ Single(u)' => pc'[u] # "syncget" /\ NoReplyDue(u)'
                     /\ ~Single(u)' => (pc'[u] = "syncget" <=> NoReplyDue(u)')
          <6>1. CASE u = w
            <7>1. cur'[w] = m /\ answer'[m] = v
              <8>1. answer \in [Msg -> Port!Verdict \cup {None}]
                BY DEF PortInv, PortTypeOK
              <8>2. QED
                BY <1>1, <2>4, <4>2, <8>1
            <7>2. QED
              BY <2>3, <2>9, <4>4, <4>5, <4>7, <4>9, <6>1, <7>1
          <6>2. CASE u # w
            <7>1. /\ queue[Sync(u)] = <<cur[u]>>
                  /\ answer[cur[u]] = flags[cur[u]] \ {"QUEUED"}
                  /\ \A r, s \in Task : target[r] = Sync(u) /\ target[s] = Sync(u) => r = s
                  /\ Single(u) => pc[u] # "syncget" /\ NoReplyDue(u)
                  /\ ~Single(u) => (pc[u] = "syncget" <=> NoReplyDue(u))
              BY <4>11, <5>1, <6>2 DEF PortInv, OneSignalForReply
            <7>2. answer'[cur[u]] = answer[cur[u]] /\ flags'[cur[u]] = flags[cur[u]]
              BY <2>10, <4>11, <5>1, <6>2
            <7>3. \A r, s \in Task : target'[r] = Sync(u) /\ target'[s] = Sync(u) => r = s
              BY <4>6, <6>2, <7>1
            <7>4. QED
              BY <2>9, <4>11, <5>1, <6>2, <7>1, <7>2, <7>3
          <6>3. QED
            BY <6>1, <6>2
        <5>2. QED
          BY <5>1 DEF OneSignalForReply, Sync, Port!SyncPort
      <4>14. QED
        BY <4>10, <4>12, <4>13
    <3>3. QED
      BY <3>1, <3>2, PortsDiffer
  <2>12. Port!NoLostWakeup'
    <3>1. ASSUME NEW u \in Task, pc'[u] = "waitport", queue'[User(u)] # <<>>
          PROVE  "user" \in sig'[u] \/ \E r \in Task : target'[r] = User(u)
      <4>1. CASE User(u) = p
        BY <2>5, <4>1
      <4>2. CASE User(u) # p
        <5>1. pc[u] = "waitport" /\ queue[User(u)] # <<>>
          BY <2>3, <2>5, <3>1, <4>2, PortsDiffer
        <5>2. "user" \in sig[u] \/ \E r \in Task : target[r] = User(u)
          BY <5>1 DEF PortInv, Port!NoLostWakeup, User
        <5>3. QED
          BY <1>1, <1>3, <2>5, <5>2, PortsDiffer
      <4>3. QED
        BY <4>1, <4>2
    <3>2. QED
      BY <3>1 DEF Port!NoLostWakeup, User
  <2>13. QED
    BY <2>3, <2>6, <2>7, <2>11, <2>12 DEF PortInv
<1>8. QED
  BY <1>5, <1>6, <1>7

(* PortInv holds initially, and every step of the ports preserves it.      *)
LEMMA InitPortInv == Port!Init => PortInv
<1> SUFFICES ASSUME Port!Init PROVE PortInv
  OBVIOUS
<1>1. /\ \A p \in Port!Port : queue[p] = <<>>
      /\ \A m \in Msg : flags[m] = {} /\ rport[m] = None /\ holder[m] = None
      /\ \A t \in Task : sig[t] = {} /\ pc[t] = "idle" /\ target[t] = None /\ cur[t] = None
  BY DEF Port!Init
<1>2. PortTypeOK
  BY DEF Port!Init, PortTypeOK, Where
<1>3. OneCall
  BY <1>1 DEF OneCall
<1>4. \A p \in Port!Port : IsInjective(queue[p]) /\ \A m \in Msg : ~ Contains(queue[p], m)
  BY <1>1 DEF IsInjective, Contains
<1>5. MessageInOnePlace
  BY <1>1, <1>4 DEF MessageInOnePlace
<1>6. SyncPortIsForCur
  BY <1>1, PortsDiffer DEF SyncPortIsForCur
<1>7. QuietBefore
  <2>1. ASSUME NEW t \in Task PROVE queue[Sync(t)] = <<>> /\ NoReplyDue(t) /\ ~ Single(t)
    <3>1. Sync(t) \in Port!Port /\ Sync(t) # None
      BY PortsDiffer
    <3>2. QED
      BY <1>1, <3>1 DEF NoReplyDue, Single
  <2>2. QED
    BY <1>1, <2>1 DEF QuietBefore
<1>8. OneSignalForReply
  BY <1>1 DEF OneSignalForReply
<1>9. Port!NoLostWakeup
  BY <1>1 DEF Port!NoLostWakeup
<1>10. QED
  BY <1>2, <1>3, <1>5, <1>6, <1>7, <1>8, <1>9 DEF PortInv

(* ... and thus every step of ports.                                       *)
LEMMA NextPortInv == PortInv /\ Port!Next => PortInv'
<1> SUFFICES ASSUME PortInv, Port!Next PROVE PortInv'
  OBVIOUS
<1>1. ASSUME NEW t \in Client, Port!ClientNext(t) PROVE PortInv'
  <2>1. t \in Task /\ \A s \in Server : s \in Task
    BY MemberAssumption
  <2>2. ASSUME NEW m \in Msg, Port!AllocMsg(t, m) PROVE PortInv'
    BY <2>1, <2>2, AllocMsgInv
  <2>3. ASSUME NEW m \in Msg, NEW s \in Server, Port!SendMsg(t, s, m) PROVE PortInv'
    BY <2>1, <2>3, SendMsgInv
  <2>4. ASSUME NEW m \in Msg, NEW s \in Server, NEW rp \in {None, Port!UserPort(t)},
               Port!PutMsg(t, s, rp, m)
        PROVE  PortInv'
    BY <2>1, <2>4, PutMsgInv
  <2>5. CASE Port!SyncWait(t)
    BY <2>1, <2>5, SyncWaitInv
  <2>6. CASE Port!SyncGet(t)
    BY <2>1, <2>6, SyncGetInv
  <2>7. QED
    BY <1>1, <2>2, <2>3, <2>4, <2>5, <2>6 DEF Port!ClientNext
<1>2. ASSUME NEW t \in Task, Port!AnyNext(t) PROVE PortInv'
  <2>1. CASE Port!WaitPort(t) \/ Port!TestPort(t) \/ Port!WakePort(t)
    BY <2>1, WaitPortInv
  <2>2. CASE Port!GetMsg(t)
    BY <2>2, GetMsgInv
  <2>3. CASE Port!Notify(t)
    BY <2>3, NotifyInv
  <2>4. CASE Port!SetFlags(t)
    BY <2>4, SetFlagsInv
  <2>5. ASSUME NEW m \in Msg, Port!InsertMsg(t, m) PROVE PortInv'
    BY <2>5, InsertMsgInv
  <2>6. ASSUME NEW m \in Msg, NEW v \in Port!Verdict, Port!ReturnMsg(t, m, v) PROVE PortInv'
    BY <2>6, ReturnMsgInv
  <2>7. QED
    BY <1>2, <2>1, <2>2, <2>3, <2>4, <2>5, <2>6 DEF Port!AnyNext
<1>3. QED
  BY <1>1, <1>2 DEF Port!Next

(* It depends on the ports' variables only.                                *)
LEMMA StutterPortInv == PortInv /\ UNCHANGED Port!vars => PortInv'
<1> SUFFICES ASSUME PortInv, UNCHANGED Port!vars PROVE PortInv'
  OBVIOUS
<1>1. UNCHANGED <<queue, flags, rport, sig, pc, target, cur, holder, answer>>
  BY DEF Port!vars
<1>2. PortTypeOK' /\ OneCall' /\ MessageInOnePlace' /\ SyncPortIsForCur'
  BY <1>1 DEF PortInv, PortTypeOK, OneCall, MessageInOnePlace, SyncPortIsForCur,
     Port!IsRequest, Sync, Port!SyncPort
<1>3. QuietBefore'
  BY <1>1 DEF PortInv, QuietBefore, NoReplyDue, Single, Port!IsRequest, Sync, Port!SyncPort
<1>4. OneSignalForReply'
  BY <1>1 DEF PortInv, OneSignalForReply, NoReplyDue, Single, Port!IsRequest, Sync,
     Port!SyncPort
<1>5. Port!NoLostWakeup'
  BY <1>1 DEF PortInv, Port!NoLostWakeup, Port!UserPort
<1>6. QED
  BY <1>2, <1>3, <1>4, <1>5 DEF PortInv

(* Queues, flags, reply ports and signals always fit together: the         *)
(* inductive invariant the theorems about ports rest on.                   *)
THEOREM PortInvariant == Port!Spec => []PortInv
<1>1. PortInv /\ [Port!Next]_Port!vars => PortInv'
  BY NextPortInv, StutterPortInv
<1>2. QED
  BY InitPortInv, <1>1, PTL DEF Port!Spec

(* A task sleeps in TWaitPort only while its port is empty, or it has been *)
(* or is about to be signalled: no message is slept over, although the     *)
(* signal is sent after the message was queued and the lock released.      *)
THEOREM PortNoLostWakeup == Port!Spec => []Port!NoLostWakeup
<1>1. PortInv => Port!NoLostWakeup
  BY DEF PortInv
<1>2. QED
  BY PortInvariant, <1>1, PTL

(* TSendMsg returns the answer that was given to its message: the sync     *)
(* port never holds an older one, however many calls it has served.        *)
THEOREM SendReturnsAnswerHolds == Port!Spec => Port!SendReturnsAnswer
<1>1. PortInv => \A t \in Task : pc[t] = "syncget" =>
                   flags[cur[t]] \ {"QUEUED"} = answer[cur[t]]
  BY SyncGetReply
<1>2. PortInv /\ [Port!Next]_Port!vars =>
        [\A t \in Task : pc[t] = "syncget" /\ pc'[t] = "idle" =>
           flags[cur[t]] \ {"QUEUED"} = answer[cur[t]]]_Port!vars
  BY <1>1
<1>3. QED
  BY PortInvariant, <1>2, PTL DEF Port!Spec, Port!SendReturnsAnswer
-----------------------------------------------------------------------------
(* What Messaging sees of ports: a request is in the inbox, has a sender,  *)
(* and a verdict once it is answered.                                      *)
Requests == {m \in Msg : Port!IsRequest(m)}
Inbox(t) == Port!Select(queue[User(t)], Requests)
Due(m) == Port!Stage(m) \in {"posted", "taken", "answered"}
FromOf(m) == IF Due(m) THEN Port!Sender(rport[m]) ELSE None
VerdictOf(m) == IF Port!Stage(m) = "answered" THEN flags[m] \ {"QUEUED"} ELSE None

(* Nothing of it changes. *)
SameInboxes == \A u \in Task : Inbox(u)' = Inbox(u)

(* The actions of Messaging in these terms, each at one message.           *)
LEMMA IsAlloc ==
  ASSUME NEW t \in Task, NEW m \in Msg, Port!Stage(m) = "free", SameInboxes,
         \A n \in Msg : /\ Port!Stage(n)' = IF n = m THEN "held" ELSE Port!Stage(n)
                        /\ FromOf(n)' = FromOf(n) /\ VerdictOf(n)' = VerdictOf(n),
         holder' = [holder EXCEPT ![m] = t]
  PROVE  Port!Abstract!Alloc(t, m)
  BY DEF Port!Abstract!Alloc, SameInboxes, Inbox, Requests, User, FromOf, Due, VerdictOf

(* ... at a message and an inbox, ...                                      *)
LEMMA IsPost ==
  ASSUME NEW t \in Task, NEW s \in Task, NEW m \in Msg, NEW x \in {t, None},
         Port!Stage(m) = "held", holder[m] = t,
         \A n \in Msg : /\ Port!Stage(n)' = IF n = m THEN "posted" ELSE Port!Stage(n)
                        /\ FromOf(n)' = IF n = m THEN x ELSE FromOf(n)
                        /\ VerdictOf(n)' = VerdictOf(n),
         holder' = [holder EXCEPT ![m] = None],
         \A u \in Task : Inbox(u)' = IF u = s THEN Append(Inbox(u), m) ELSE Inbox(u)
  PROVE  Port!Abstract!Post(t, s, m, x)
  BY DEF Port!Abstract!Post, Inbox, Requests, User, FromOf, Due, VerdictOf

(* ... at the first message of an inbox, ...                               *)
LEMMA IsTake ==
  ASSUME NEW s \in Task, NEW m \in Msg, Inbox(s) # <<>>, m = Head(Inbox(s)),
         \A n \in Msg : /\ Port!Stage(n)' = IF n = m THEN "taken" ELSE Port!Stage(n)
                        /\ FromOf(n)' = FromOf(n) /\ VerdictOf(n)' = VerdictOf(n),
         holder' = [holder EXCEPT ![m] = s],
         \A u \in Task : Inbox(u)' = IF u = s THEN Tail(Inbox(u)) ELSE Inbox(u)
  PROVE  Port!Abstract!Take(s)
  BY DEF Port!Abstract!Take, Inbox, Requests, User, FromOf, Due, VerdictOf

(* ... back into the inbox it was in, ...                                  *)
LEMMA IsPutBack ==
  ASSUME NEW s \in Task, NEW m \in Msg, Port!Stage(m) = "taken", holder[m] = s,
         \A n \in Msg : /\ Port!Stage(n)' = IF n = m THEN "posted" ELSE Port!Stage(n)
                        /\ FromOf(n)' = FromOf(n) /\ VerdictOf(n)' = VerdictOf(n),
         holder' = [holder EXCEPT ![m] = None],
         NEW i \in 0..Len(Inbox(s)),
         \A u \in Task : Inbox(u)' = IF u = s THEN Port!Abstract!InsertAt(Inbox(u), i + 1, m)
                                     ELSE Inbox(u)
  PROVE  Port!Abstract!PutBack(s, m)
<1>1. [n \in Msg |-> Port!Stage(n)]' = [[n \in Msg |-> Port!Stage(n)] EXCEPT ![m] = "posted"]
  OBVIOUS
<1>2. [t \in Task |-> Inbox(t)]' =
        [[t \in Task |-> Inbox(t)] EXCEPT ![s] = Port!Abstract!InsertAt(@, i + 1, m)]
  OBVIOUS
<1>3. /\ [n \in Msg |-> FromOf(n)]' = [n \in Msg |-> FromOf(n)]
      /\ [n \in Msg |-> VerdictOf(n)]' = [n \in Msg |-> VerdictOf(n)]
  OBVIOUS
<1>4. i \in 0..Len([t \in Task |-> Inbox(t)][s]) /\ [n \in Msg |-> Port!Stage(n)][m] = "taken"
  OBVIOUS
<1>5. QED
  BY <1>1, <1>2, <1>3, <1>4
  DEF Port!Abstract!PutBack, Inbox, Requests, User, FromOf, Due, VerdictOf

(* ... freed, or answered if somebody is to collect the answer, ...        *)
LEMMA IsAnswer ==
  ASSUME NEW s \in Task, NEW m \in Msg, NEW v, Port!Stage(m) = "taken", holder[m] = s,
         SameInboxes,
         \A n \in Msg :
           /\ Port!Stage(n)' = IF n # m THEN Port!Stage(n)
                               ELSE IF FromOf(m) = None THEN "free" ELSE "answered"
           /\ FromOf(n)' = FromOf(n)
           /\ VerdictOf(n)' = IF n = m /\ FromOf(m) # None THEN v ELSE VerdictOf(n),
         holder' = [holder EXCEPT ![m] = None]
  PROVE  Port!Abstract!Answer(s, m, v)
  BY DEF Port!Abstract!Answer, SameInboxes, Inbox, Requests, User, FromOf, Due, VerdictOf

(* ... the end of it, ...                                                  *)
LEMMA IsCollect ==
  ASSUME NEW t \in Task, NEW m \in Msg, Port!Stage(m) = "answered", FromOf(m) = t,
         SameInboxes,
         \A n \in Msg : /\ Port!Stage(n)' = IF n = m THEN "held" ELSE Port!Stage(n)
                        /\ FromOf(n)' = IF n = m THEN None ELSE FromOf(n)
                        /\ VerdictOf(n)' = IF n = m THEN None ELSE VerdictOf(n),
         holder' = [holder EXCEPT ![m] = t]
  PROVE  Port!Abstract!Collect(t, m)
  BY DEF Port!Abstract!Collect, SameInboxes, Inbox, Requests, User, FromOf, Due, VerdictOf

(* ... and none of them.                                                   *)
LEMMA IsNothing ==
  ASSUME SameInboxes, holder' = holder,
         \A n \in Msg : /\ Port!Stage(n)' = Port!Stage(n)
                        /\ FromOf(n)' = FromOf(n) /\ VerdictOf(n)' = VerdictOf(n)
  PROVE  UNCHANGED Port!Abstract!vars
  BY DEF Port!Abstract!vars, SameInboxes, Inbox, Requests, User, FromOf, Due, VerdictOf

(* The models of the two modules select alike.                             *)
LEMMA SameSelect == \A q, R : Port!Select(q, R) = Select(q, R)
  BY DEF Port!Select, Select

(* An inbox stays as it is if the queue does and its requests do.          *)
LEMMA InboxKept ==
  ASSUME queue \in [Port!Port -> Seq(Msg)], NEW u \in Task, queue'[User(u)] = queue[User(u)],
         \A n \in Msg : Contains(queue[User(u)], n) =>
                          (Port!IsRequest(n)' <=> Port!IsRequest(n))
  PROVE  Inbox(u)' = Inbox(u)
<1>1. Inbox(u) = Select(queue[User(u)], Requests)
  BY SameSelect DEF Inbox
<1>2. Inbox(u)' = Select(queue[User(u)], Requests')
  BY SameSelect DEF Inbox, User, Port!UserPort
<1>3. queue[User(u)] \in Seq(Msg)
  BY PortsDiffer
<1>4. \A n \in Msg : Contains(queue[User(u)], n) => (n \in Requests' <=> n \in Requests)
  BY DEF Requests
<1>5. QED
  BY <1>1, <1>2, <1>3, <1>4, SelectSame

(* m is in some queue. *)
InQueue(m) == \E p \in Port!Port : Contains(queue[p], m)

(* Where a message is says what Messaging sees of it, ...                  *)
StageIsPlace ==
  \A m \in Msg :
    /\ InQueue(m) => /\ Port!IsRequest(m) => Port!Stage(m) = "posted"
                     /\ ~ Port!IsRequest(m) => Port!Stage(m) = "answered"
    /\ ~ InQueue(m) /\ holder[m] = None => Port!Stage(m) = "free"
    /\ holder[m] # None => /\ ~ InQueue(m)
                           /\ flags[m] = Port!SENT => Port!Stage(m) = "taken"
                           /\ flags[m] # Port!SENT => Port!Stage(m) = "held"

(* This follows from where PortInv says that it is.                        *)
LEMMA StageIs == PortTypeOK /\ MessageInOnePlace => StageIsPlace
<1> SUFFICES ASSUME PortTypeOK, MessageInOnePlace, NEW m \in Msg
             PROVE  /\ InQueue(m) => /\ Port!IsRequest(m) => Port!Stage(m) = "posted"
                                     /\ ~ Port!IsRequest(m) => Port!Stage(m) = "answered"
                    /\ ~ InQueue(m) /\ holder[m] = None => Port!Stage(m) = "free"
                    /\ holder[m] # None =>
                         /\ ~ InQueue(m)
                         /\ flags[m] = Port!SENT => Port!Stage(m) = "taken"
                         /\ flags[m] # Port!SENT => Port!Stage(m) = "held"
  BY DEF StageIsPlace
<1>1. queue \in [Port!Port -> Seq(Msg)]
  BY DEF PortTypeOK
<1>2. ASSUME NEW p \in Port!Port
      PROVE  m \in Port!ToSet(queue[p]) <=> Contains(queue[p], m)
  <2>1. DOMAIN queue[p] = 1..Len(queue[p])
    BY <1>1
  <2>2. QED
    BY <2>1 DEF Port!ToSet, Contains
<1>3. Port!Queued(m) <=> InQueue(m)
  BY <1>2 DEF Port!Queued, InQueue
<1>4. holder[m] # None => ~ InQueue(m)
  BY DEF MessageInOnePlace, InQueue
<1>5. InQueue(m) => /\ Port!IsRequest(m) => Port!Stage(m) = "posted"
                    /\ ~ Port!IsRequest(m) => Port!Stage(m) = "answered"
  BY ONLY <1>3 DEF Port!Stage
<1>6. ~ InQueue(m) /\ holder[m] = None => Port!Stage(m) = "free"
  BY ONLY <1>3 DEF Port!Stage
<1>7. holder[m] # None => /\ flags[m] = Port!SENT => Port!Stage(m) = "taken"
                          /\ flags[m] # Port!SENT => Port!Stage(m) = "held"
  BY ONLY <1>3, <1>4 DEF Port!Stage
<1>8. QED
  BY <1>4, <1>5, <1>6, <1>7

(* ... which therefore stays the same while the message does.              *)
LEMMA StageKept ==
  ASSUME PortTypeOK, MessageInOnePlace, PortTypeOK', MessageInOnePlace', NEW n \in Msg,
         InQueue(n)' <=> InQueue(n), holder'[n] = holder[n], rport'[n] = rport[n],
         flags'[n] = flags[n]
  PROVE  /\ Port!Stage(n)' = Port!Stage(n)
         /\ FromOf(n)' = FromOf(n) /\ VerdictOf(n)' = VerdictOf(n)
         /\ Port!IsRequest(n)' <=> Port!IsRequest(n)
<1>1. Port!IsRequest(n)' <=> Port!IsRequest(n)
  BY DEF Port!IsRequest
<1>2. Port!Stage(n)' = Port!Stage(n)
  <2>1. StageIsPlace /\ StageIsPlace'
    BY StageIs, PTL
  <2>2. QED
    BY <1>1, <2>1 DEF StageIsPlace
<1>3. QED
  BY <1>1, <1>2 DEF FromOf, Due, VerdictOf, Port!Sender

(* A request is in a user port; everything else that is queued has been    *)
(* answered, and is in the port it was to be returned to.                  *)
AnswersAreInPlace ==
  \A p \in Port!Port, m \in Msg : Contains(queue[p], m) =>
    /\ Port!IsRequest(m) => \E u \in Task : p = User(u)
    /\ ~ Port!IsRequest(m) => rport[m] = p

(* The two invariants the refinement rests on.                             *)
RefInv == PortInv /\ AnswersAreInPlace

(* What a step does to one message m only is nothing to the others.        *)
LEMMA OthersKept ==
  ASSUME RefInv, PortInv', NEW m \in Msg,
         \A n \in Msg : n # m => /\ flags'[n] = flags[n] /\ holder'[n] = holder[n]
                                 /\ rport'[n] = rport[n],
         \A q \in Port!Port, n \in Msg : n # m =>
           (Contains(queue'[q], n) <=> Contains(queue[q], n))
  PROVE  /\ \A n \in Msg : n # m =>
              /\ Port!Stage(n)' = Port!Stage(n)
              /\ FromOf(n)' = FromOf(n) /\ VerdictOf(n)' = VerdictOf(n)
              /\ Port!IsRequest(n)' <=> Port!IsRequest(n)
         /\ (\A p \in Port!Port : Contains(queue'[p], m) =>
               /\ Port!IsRequest(m)' => \E u \in Task : p = User(u)
               /\ ~ Port!IsRequest(m)' => rport'[m] = p) => AnswersAreInPlace'
<1>1. ASSUME NEW n \in Msg, n # m
      PROVE  /\ Port!Stage(n)' = Port!Stage(n)
             /\ FromOf(n)' = FromOf(n) /\ VerdictOf(n)' = VerdictOf(n)
             /\ Port!IsRequest(n)' <=> Port!IsRequest(n)
  <2>1. InQueue(n)' <=> InQueue(n)
    BY <1>1 DEF InQueue
  <2>2. PortTypeOK /\ MessageInOnePlace /\ PortTypeOK' /\ MessageInOnePlace'
    BY DEF RefInv, PortInv
  <2>3. QED
    BY <1>1, <2>1, <2>2, StageKept
<1>2. ASSUME \A p \in Port!Port : Contains(queue'[p], m) =>
               /\ Port!IsRequest(m)' => \E u \in Task : p = User(u)
               /\ ~ Port!IsRequest(m)' => rport'[m] = p
      PROVE  AnswersAreInPlace'
  <2>1. ASSUME NEW p \in Port!Port, NEW n \in Msg, Contains(queue'[p], n)
        PROVE  /\ Port!IsRequest(n)' => \E u \in Task : p = User(u)
               /\ ~ Port!IsRequest(n)' => rport'[n] = p
    <3>1. CASE n = m
      BY <1>2, <2>1, <3>1
    <3>2. CASE n # m
      BY <1>1, <2>1, <3>2 DEF RefInv, AnswersAreInPlace
    <3>3. QED
      BY <3>1, <3>2
  <2>2. QED
    BY <2>1 DEF AnswersAreInPlace, User, Port!UserPort
<1>3. QED
  BY <1>1, <1>2

(* The first state of ports is that of Messaging.                          *)
LEMMA InitMaps == Port!Init => Port!Abstract!Init /\ AnswersAreInPlace
<1> SUFFICES ASSUME Port!Init PROVE Port!Abstract!Init /\ AnswersAreInPlace
  OBVIOUS
<1>1. /\ \A p \in Port!Port : queue[p] = <<>>
      /\ \A n \in Msg : holder[n] = None
  BY DEF Port!Init
<1>2. \A p \in Port!Port : \A n : ~ Contains(queue[p], n)
  BY <1>1 DEF Contains
<1>3. PortTypeOK /\ MessageInOnePlace
  BY InitPortInv DEF PortInv
<1>4. \A n \in Msg : Port!Stage(n) = "free"
  BY <1>1, <1>2, <1>3, StageIs DEF StageIsPlace, InQueue
<1>5. \A n \in Msg : FromOf(n) = None /\ VerdictOf(n) = None
  BY <1>4 DEF FromOf, VerdictOf, Due
<1>6. \A u \in Task : Inbox(u) = <<>>
  BY <1>1, PortsDiffer, SameSelect, SelectEmpty DEF Inbox
<1>7. holder = [n \in Msg |-> None]
  BY DEF Port!Init
<1>8. Port!Abstract!Init
  BY <1>4, <1>5, <1>6, <1>7 DEF Port!Abstract!Init, FromOf, VerdictOf, Due, Inbox,
     Requests, User
<1>9. AnswersAreInPlace
  BY <1>2 DEF AnswersAreInPlace
<1>10. QED
  BY <1>8, <1>9

(* TAllocMsg is Alloc, ...                                                 *)
LEMMA AllocMsgMaps ==
  ASSUME RefInv, PortInv', NEW t \in Task, NEW m \in Msg, Port!AllocMsg(t, m)
  PROVE  AnswersAreInPlace' /\ Port!Abstract!Alloc(t, m)
<1>1. /\ holder[m] = None /\ ~ Port!Queued(m)
      /\ holder' = [holder EXCEPT ![m] = t] /\ flags' = [flags EXCEPT ![m] = {}]
      /\ UNCHANGED <<queue, rport>>
  BY DEF Port!AllocMsg
<1>2. /\ PortTypeOK /\ MessageInOnePlace /\ PortTypeOK' /\ MessageInOnePlace'
      /\ queue \in [Port!Port -> Seq(Msg)]
      /\ flags \in [Msg -> SUBSET {"SENT", "RETURNED", "MODIFIED", "QUEUED"}]
      /\ holder \in [Msg -> Task \cup {None}]
  BY DEF RefInv, PortInv, PortTypeOK
<1>3. /\ \A n \in Msg : n # m => flags'[n] = flags[n] /\ holder'[n] = holder[n]
      /\ flags'[m] = {} /\ holder'[m] = t /\ t # None
  BY <1>1, <1>2, PortsDiffer
<1>4. StageIsPlace /\ StageIsPlace'
  BY <1>2, StageIs, PTL
<1>5. Port!Stage(m) = "free" /\ \A p \in Port!Port : ~ Contains(queue[p], m)
  <2>1. ASSUME NEW p \in Port!Port, Contains(queue[p], m) PROVE FALSE
    <3>1. DOMAIN queue[p] = 1..Len(queue[p])
      BY <1>2
    <3>2. m \in Port!ToSet(queue[p])
      BY <2>1, <3>1 DEF Contains, Port!ToSet
    <3>3. QED
      BY <1>1, <3>2 DEF Port!Queued
  <2>2. QED
    BY <1>1, <1>4, <2>1 DEF StageIsPlace, InQueue
<1>6. Port!Stage(m)' = "held"
  BY <1>3, <1>4 DEF StageIsPlace, Port!SENT
<1>7. /\ FromOf(m) = None /\ FromOf(m)' = None /\ VerdictOf(m) = None /\ VerdictOf(m)' = None
  BY <1>5, <1>6 DEF FromOf, VerdictOf, Due
<1>8. /\ \A n \in Msg : n # m => /\ Port!Stage(n)' = Port!Stage(n)
                                 /\ FromOf(n)' = FromOf(n) /\ VerdictOf(n)' = VerdictOf(n)
                                 /\ Port!IsRequest(n)' <=> Port!IsRequest(n)
      /\ AnswersAreInPlace'
  BY <1>1, <1>3, <1>5, OthersKept
<1>9. SameInboxes
  BY <1>1, <1>2, <1>5, <1>8, InboxKept, PortsDiffer DEF SameInboxes
<1>10. QED
  BY <1>1, <1>5, <1>6, <1>7, <1>8, <1>9, IsAlloc

(* ... TPutMsg and TSendMsg, which add a request to a user port, are Post, *)
LEMMA RequestMaps ==
  ASSUME RefInv, PortInv', NEW t \in Task, NEW s \in Task, NEW m \in Msg,
         NEW rp \in Port!Port \cup {None}, Port!Sender(rp) \in {t, None},
         holder[m] = t, ~ Port!MustAnswer(t, m),
         rport' = [rport EXCEPT ![m] = rp], Port!Enqueue(User(s), m, Port!SENT)
  PROVE  AnswersAreInPlace' /\ Port!Abstract!Post(t, s, m, Port!Sender(rp))
<1>1. /\ PortTypeOK /\ MessageInOnePlace /\ PortTypeOK' /\ MessageInOnePlace'
      /\ queue \in [Port!Port -> Seq(Msg)] /\ rport \in [Msg -> Port!Port \cup {None}]
      /\ User(s) \in Port!Port
  BY PortsDiffer DEF RefInv, PortInv, PortTypeOK
<1>2. holder[m] # None /\ flags[m] # Port!SENT
  BY PortsDiffer DEF Port!MustAnswer
<1>3. StageIsPlace /\ StageIsPlace'
  BY <1>1, StageIs, PTL
<1>4. Port!Stage(m) = "held" /\ \A p \in Port!Port : ~ Contains(queue[p], m)
  BY <1>2, <1>3 DEF StageIsPlace, InQueue
<1>5. /\ \A q \in Port!Port :
           queue'[q] = IF q = User(s) THEN Append(queue[q], m) ELSE queue[q]
      /\ \A q \in Port!Port, n \in Msg :
           Contains(queue'[q], n) <=> Contains(queue[q], n) \/ (q = User(s) /\ n = m)
      /\ \A n \in Msg : n # m => flags'[n] = flags[n] /\ holder'[n] = holder[n]
      /\ flags'[m] \ {"QUEUED"} = Port!SENT
  BY <1>1, <1>4, Enqueued
<1>6. Port!IsRequest(m)' /\ rport'[m] = rp
  BY <1>1, <1>5 DEF Port!IsRequest
<1>7. Port!Stage(m)' = "posted"
  <2>1. InQueue(m)'
    BY <1>1, <1>5 DEF InQueue
  <2>2. QED
    BY <1>3, <1>6, <2>1 DEF StageIsPlace
<1>8. FromOf(m)' = Port!Sender(rp) /\ VerdictOf(m) = None /\ VerdictOf(m)' = None
  <2>1. Port!Sender(rport[m])' = Port!Sender(rp)
    BY <1>6 DEF Port!Sender
  <2>2. QED
    BY <1>4, <1>7, <2>1 DEF FromOf, VerdictOf, Due
<1>9. \A p \in Port!Port : Contains(queue'[p], m) => p = User(s)
  BY <1>4, <1>5
<1>10. /\ \A n \in Msg : n # m => /\ Port!Stage(n)' = Port!Stage(n)
                                  /\ FromOf(n)' = FromOf(n) /\ VerdictOf(n)' = VerdictOf(n)
                                  /\ Port!IsRequest(n)' <=> Port!IsRequest(n)
       /\ AnswersAreInPlace'
  <2>1. \A n \in Msg : n # m => rport'[n] = rport[n]
    BY <1>1
  <2>2. \A q \in Port!Port, n \in Msg : n # m =>
          (Contains(queue'[q], n) <=> Contains(queue[q], n))
    BY <1>5
  <2>3. QED
    BY <1>5, <1>6, <1>9, <2>1, <2>2, OthersKept
<1>11. \A u \in Task : Inbox(u)' = IF u = s THEN Append(Inbox(u), m) ELSE Inbox(u)
  <2>1. ASSUME NEW u \in Task, u # s PROVE Inbox(u)' = Inbox(u)
    <3>1. queue'[User(u)] = queue[User(u)] /\ User(u) \in Port!Port
      BY <1>5, <2>1, PortsDiffer
    <3>2. \A n \in Msg : Contains(queue[User(u)], n) =>
                           (Port!IsRequest(n)' <=> Port!IsRequest(n))
      BY <1>4, <1>10, <3>1
    <3>3. QED
      BY <1>1, <3>1, <3>2, InboxKept
  <2>2. Inbox(s)' = Append(Inbox(s), m)
    <3>1. PICK q, R, S : q = queue[User(s)] /\ R = Requests /\ S = Requests'
      OBVIOUS
    <3>2. q \in Seq(Msg) /\ m \in S /\ queue'[User(s)] = Append(q, m)
      BY <1>1, <1>5, <1>6, <3>1 DEF Requests
    <3>3. \A n \in Msg : Contains(q, n) => (n \in S <=> n \in R)
      BY <1>1, <1>4, <1>10, <3>1 DEF Requests
    <3>4. Select(Append(q, m), S) = Append(Select(q, R), m)
      <4>1. Select(q, S) = Select(q, R)
        BY <3>2, <3>3, SelectSame
      <4>2. Select(Append(q, m), S) = Append(Select(q, S), m)
        BY <3>2, SelectAppend
      <4>3. QED
        BY <4>1, <4>2
    <3>5. Inbox(s) = Select(q, R)
      BY <3>1, SameSelect DEF Inbox
    <3>6. Inbox(s)' = Select(Append(q, m), S)
      BY <3>1, <3>2, SameSelect DEF Inbox, User, Port!UserPort
    <3>7. QED
      BY <3>4, <3>5, <3>6
  <2>3. QED
    BY <2>1, <2>2
<1>12. holder' = [holder EXCEPT ![m] = None]
  BY DEF Port!Enqueue
<1>13. Port!Abstract!Post(t, s, m, Port!Sender(rp))
  <2>1. PICK x \in {t, None} : x = Port!Sender(rp)
    OBVIOUS
  <2>2. \A n \in Msg : /\ Port!Stage(n)' = IF n = m THEN "posted" ELSE Port!Stage(n)
                       /\ FromOf(n)' = IF n = m THEN x ELSE FromOf(n)
                       /\ VerdictOf(n)' = VerdictOf(n)
    BY <1>7, <1>8, <1>10, <2>1
  <2>3. Port!Abstract!Post(t, s, m, x)
    BY <1>4, <1>11, <1>12, <2>2, IsPost
  <2>4. QED
    BY <2>1, <2>3
<1>14. QED
  BY <1>10, <1>13

(* ... TPutMsg with any reply port of the sender, or none, ...             *)
LEMMA PutMsgMaps ==
  ASSUME RefInv, PortInv', NEW t \in Task, NEW s \in Task, NEW m \in Msg,
         NEW rp \in {None, Port!UserPort(t)}, Port!PutMsg(t, s, rp, m)
  PROVE  AnswersAreInPlace' /\ \E x \in {t, None} : Port!Abstract!Post(t, s, m, x)
<1>1. rp \in Port!Port \cup {None} /\ Port!Sender(rp) \in {t, None}
  BY PortsDiffer DEF User, Port!Sender
<1>2. /\ holder[m] = t /\ ~ Port!MustAnswer(t, m)
      /\ rport' = [rport EXCEPT ![m] = rp] /\ Port!Enqueue(User(s), m, Port!SENT)
  BY DEF Port!PutMsg, User
<1>3. QED
  BY <1>1, <1>2, RequestMaps

(* ... TSendMsg with its sync port, ...                                    *)
LEMMA SendMsgMaps ==
  ASSUME RefInv, PortInv', NEW t \in Task, NEW s \in Task, NEW m \in Msg,
         Port!SendMsg(t, s, m)
  PROVE  AnswersAreInPlace' /\ \E x \in {t, None} : Port!Abstract!Post(t, s, m, x)
<1>1. Sync(t) \in Port!Port \cup {None} /\ Port!Sender(Sync(t)) \in {t, None}
  BY PortsDiffer DEF Port!Sender
<1>2. /\ holder[m] = t /\ ~ Port!MustAnswer(t, m)
      /\ rport' = [rport EXCEPT ![m] = Sync(t)] /\ Port!Enqueue(User(s), m, Port!SENT)
  BY DEF Port!SendMsg, User, Sync
<1>3. QED
  BY <1>1, <1>2, RequestMaps

(* ... TGetMsg is Take if it takes a request, ...                          *)
LEMMA TakeMaps ==
  ASSUME RefInv, PortInv', NEW t \in Task, NEW m \in Msg, Dequeue(User(t), t, m),
         flags'[m] = flags[m] \ {"QUEUED"}, rport' = rport, Port!IsRequest(m)
  PROVE  AnswersAreInPlace' /\ Port!Abstract!Take(t)
<1>1. /\ PortTypeOK /\ MessageInOnePlace /\ PortTypeOK' /\ MessageInOnePlace'
      /\ queue \in [Port!Port -> Seq(Msg)] /\ User(t) \in Port!Port
  BY PortsDiffer DEF RefInv, PortInv, PortTypeOK
<1>2. /\ Contains(queue[User(t)], m)
      /\ \A q \in Port!Port : queue'[q] = IF q = User(t) THEN Tail(queue[q]) ELSE queue[q]
      /\ \A q \in Port!Port, n \in Msg :
           Contains(queue'[q], n) <=> Contains(queue[q], n) /\ n # m
      /\ \A n \in Msg : n # m => holder'[n] = holder[n]
      /\ holder'[m] = t
  BY <1>1, Dequeued
<1>3. /\ \A n \in Msg : n # m => flags'[n] = flags[n]
      /\ queue[User(t)] # <<>> /\ m = Head(queue[User(t)])
      /\ holder' = [holder EXCEPT ![m] = t]
  BY DEF Dequeue
<1>4. StageIsPlace /\ StageIsPlace'
  BY <1>1, StageIs, PTL
<1>5. flags'[m] = Port!SENT /\ Port!IsRequest(m)'
  BY DEF Port!IsRequest, Port!SENT
<1>6. Port!Stage(m) = "posted" /\ Port!Stage(m)' = "taken"
  BY <1>1, <1>2, <1>4, <1>5, PortsDiffer DEF StageIsPlace, InQueue
<1>7. FromOf(m)' = FromOf(m) /\ VerdictOf(m)' = VerdictOf(m)
  BY <1>6 DEF FromOf, VerdictOf, Due, Port!Sender
<1>8. /\ \A n \in Msg : n # m => /\ Port!Stage(n)' = Port!Stage(n)
                                 /\ FromOf(n)' = FromOf(n) /\ VerdictOf(n)' = VerdictOf(n)
                                 /\ Port!IsRequest(n)' <=> Port!IsRequest(n)
      /\ AnswersAreInPlace'
  BY <1>2, <1>3, OthersKept
<1>9. Requests' = Requests
  BY <1>5, <1>8 DEF Requests
<1>10. /\ Inbox(t) # <<>> /\ m = Head(Inbox(t))
       /\ \A u \in Task : Inbox(u)' = IF u = t THEN Tail(Inbox(u)) ELSE Inbox(u)
  <2>1. PICK q, R : q = queue[User(t)] /\ R = Requests
    OBVIOUS
  <2>2. q \in Seq(Msg) /\ q # <<>> /\ Head(q) = m /\ m \in R /\ queue'[User(t)] = Tail(q)
    BY <1>1, <1>2, <1>3, <2>1 DEF Requests
  <2>3. /\ Select(q, R) # <<>> /\ Head(Select(q, R)) = Head(q)
        /\ Tail(Select(q, R)) = Select(Tail(q), R)
    BY <2>2, SelectTail
  <2>4. Inbox(t) = Select(q, R)
    BY <2>1, SameSelect DEF Inbox
  <2>5. Inbox(t)' = Select(Tail(q), R)
    BY <1>9, <2>1, <2>2, SameSelect DEF Inbox, User, Port!UserPort
  <2>6. ASSUME NEW u \in Task, u # t PROVE Inbox(u)' = Inbox(u)
    <3>1. queue'[User(u)] = queue[User(u)] /\ User(u) \in Port!Port
      BY <1>2, <2>6, PortsDiffer
    <3>2. QED
      BY <1>1, <1>5, <1>8, <3>1, InboxKept
  <2>7. QED
    BY <2>2, <2>3, <2>4, <2>5, <2>6
<1>11. QED
  BY <1>3, <1>6, <1>7, <1>8, <1>10, IsTake

(* ... and Collect otherwise, as is the end of TSendMsg, ...               *)
LEMMA CollectMaps ==
  ASSUME RefInv, PortInv', NEW t \in Task, NEW m \in Msg, NEW p \in {User(t), Sync(t)},
         Dequeue(p, t, m), flags'[m] # Port!SENT, rport' = rport, ~ Port!IsRequest(m)
  PROVE  AnswersAreInPlace' /\ Port!Abstract!Collect(t, m)
<1>1. /\ PortTypeOK /\ MessageInOnePlace /\ PortTypeOK' /\ MessageInOnePlace'
      /\ queue \in [Port!Port -> Seq(Msg)] /\ p \in Port!Port /\ Port!SigTask(p) = t
      /\ t # None /\ p # None
  BY PortsDiffer DEF RefInv, PortInv, PortTypeOK
<1>2. /\ Contains(queue[p], m)
      /\ \A q \in Port!Port : queue'[q] = IF q = p THEN Tail(queue[q]) ELSE queue[q]
      /\ \A q \in Port!Port, n \in Msg :
           Contains(queue'[q], n) <=> Contains(queue[q], n) /\ n # m
      /\ \A n \in Msg : n # m => holder'[n] = holder[n]
      /\ holder'[m] = t
  BY <1>1, Dequeued
<1>3. /\ \A n \in Msg : n # m => flags'[n] = flags[n]
      /\ queue[p] # <<>> /\ m = Head(queue[p])
      /\ holder' = [holder EXCEPT ![m] = t]
  BY DEF Dequeue
<1>4. StageIsPlace /\ StageIsPlace'
  BY <1>1, StageIs, PTL
<1>5. rport[m] = p
  BY <1>1, <1>2 DEF RefInv, AnswersAreInPlace
<1>6. Port!Stage(m) = "answered" /\ Port!Stage(m)' = "held"
  BY <1>1, <1>2, <1>4 DEF StageIsPlace, InQueue
<1>7. FromOf(m) = t /\ FromOf(m)' = None /\ VerdictOf(m)' = None
  BY <1>1, <1>5, <1>6 DEF FromOf, VerdictOf, Due, Port!Sender
<1>8. /\ \A n \in Msg : n # m => /\ Port!Stage(n)' = Port!Stage(n)
                                 /\ FromOf(n)' = FromOf(n) /\ VerdictOf(n)' = VerdictOf(n)
                                 /\ Port!IsRequest(n)' <=> Port!IsRequest(n)
      /\ AnswersAreInPlace'
  BY <1>2, <1>3, OthersKept
<1>9. SameInboxes
  <2>1. ASSUME NEW u \in Task, User(u) # p PROVE Inbox(u)' = Inbox(u)
    <3>1. queue'[User(u)] = queue[User(u)] /\ User(u) \in Port!Port
      BY <1>2, <2>1, PortsDiffer
    <3>2. ~ Contains(queue[User(u)], m)
      BY <1>1, <1>2, <2>1, <3>1 DEF MessageInOnePlace
    <3>3. \A n \in Msg : Contains(queue[User(u)], n) =>
                           (Port!IsRequest(n)' <=> Port!IsRequest(n))
      BY <1>8, <3>2
    <3>4. QED
      BY <1>1, <3>1, <3>3, InboxKept
  <2>2. ASSUME NEW u \in Task, User(u) = p PROVE Inbox(u)' = Inbox(u)
    <3>1. PICK q, r, R, S : q = queue[User(u)] /\ r = Tail(q) /\ R = Requests /\ S = Requests'
      OBVIOUS
    <3>2. /\ q \in Seq(Msg) /\ q # <<>> /\ Head(q) = m /\ m \notin R
          /\ queue'[User(u)] = r
      BY <1>1, <1>2, <1>3, <2>2, <3>1 DEF Requests
    <3>3. Select(r, R) = Select(q, R)
      BY <3>1, <3>2, SelectTail
    <3>4. \A n \in Msg : Contains(r, n) => (n \in S <=> n \in R)
      BY <1>1, <1>2, <1>8, <2>2, <3>1, <3>2 DEF Requests
    <3>5. r \in Seq(Msg)
      BY <3>1, <3>2
    <3>6. Select(r, S) = Select(r, R)
      BY <3>4, <3>5, SelectSame
    <3>7. Inbox(u) = Select(q, R)
      BY <3>1, SameSelect DEF Inbox
    <3>8. Inbox(u)' = Select(r, S)
      BY <3>1, <3>2, SameSelect DEF Inbox, User, Port!UserPort
    <3>9. QED
      BY <3>3, <3>6, <3>7, <3>8
  <2>3. QED
    BY <2>1, <2>2 DEF SameInboxes
<1>10. QED
  BY <1>3, <1>6, <1>7, <1>8, <1>9, IsCollect

(* ... as TGetMsg on a user port finds it, ...                             *)
LEMMA GetMsgMaps ==
  ASSUME RefInv, PortInv', NEW t \in Task, Port!GetMsg(t)
  PROVE  /\ AnswersAreInPlace'
         /\ Port!Abstract!Take(t) \/ \E m \in Msg : Port!Abstract!Collect(t, m)
<1>1. /\ queue \in [Port!Port -> Seq(Msg)] /\ User(t) \in Port!Port
      /\ flags \in [Msg -> SUBSET {"SENT", "RETURNED", "MODIFIED", "QUEUED"}]
  BY PortsDiffer DEF RefInv, PortInv, PortTypeOK
<1>2. queue[User(t)] # <<>> /\ rport' = rport
  BY DEF Port!GetMsg, User
<1>3. PICK m \in Msg : m = Head(queue[User(t)])
  BY <1>1, <1>2
<1>4. /\ flags' = [flags EXCEPT ![m] = @ \ {"QUEUED"}]
      /\ holder' = [holder EXCEPT ![m] = t]
      /\ queue' = [queue EXCEPT ![User(t)] = Tail(@)]
  BY <1>3 DEF Port!GetMsg, User
<1>5. flags'[m] = flags[m] \ {"QUEUED"} /\ \A n \in Msg : n # m => flags'[n] = flags[n]
  BY <1>1, <1>4
<1>6. Dequeue(User(t), t, m)
  BY <1>2, <1>3, <1>4, <1>5 DEF Dequeue
<1>7. CASE Port!IsRequest(m)
  BY <1>2, <1>5, <1>6, <1>7, TakeMaps
<1>8. CASE ~ Port!IsRequest(m)
  <2>1. flags'[m] # Port!SENT
    BY <1>5, <1>8 DEF Port!IsRequest
  <2>2. QED
    BY <1>2, <1>6, <1>8, <2>1, CollectMaps
<1>9. QED
  BY <1>7, <1>8

(* ... and TSendMsg at its sync port, which is never empty then, ...       *)
LEMMA SyncGetMaps ==
  ASSUME RefInv, PortInv', NEW t \in Task, Port!SyncGet(t)
  PROVE  AnswersAreInPlace' /\ \E m \in Msg : Port!Abstract!Collect(t, m)
<1>1. PICK m \in Msg : /\ cur[t] = m /\ m # None /\ ~ Port!IsRequest(m)
                       /\ queue[Sync(t)] = <<m>>
  BY SyncGetReply DEF RefInv, Port!SyncGet
<1>2. /\ queue[Sync(t)] # <<>> /\ m = Head(queue[Sync(t)])
      /\ queue' = [queue EXCEPT ![Sync(t)] = Tail(@)]
      /\ flags' = [flags EXCEPT ![m] = @ \ {"QUEUED"}, ![m] = {}]
      /\ holder' = [holder EXCEPT ![m] = t]
      /\ rport' = rport
  BY <1>1 DEF Port!SyncGet, Sync
<1>3. flags \in [Msg -> SUBSET {"SENT", "RETURNED", "MODIFIED", "QUEUED"}]
  BY DEF RefInv, PortInv, PortTypeOK
<1>4. flags'[m] = {} /\ \A n \in Msg : n # m => flags'[n] = flags[n]
  BY <1>2, <1>3
<1>5. Dequeue(Sync(t), t, m)
  BY <1>2, <1>4 DEF Dequeue
<1>6. flags'[m] # Port!SENT
  BY <1>4 DEF Port!SENT
<1>7. QED
  BY <1>1, <1>2, <1>5, <1>6, CollectMaps

(* ... TInsertMsg is PutBack, ...                                          *)
LEMMA InsertMsgMaps ==
  ASSUME RefInv, PortInv', NEW t \in Task, NEW m \in Msg, Port!InsertMsg(t, m)
  PROVE  AnswersAreInPlace' /\ Port!Abstract!PutBack(t, m)
<1>1. /\ holder[m] = t /\ flags[m] = Port!SENT /\ holder' = [holder EXCEPT ![m] = None]
      /\ UNCHANGED <<flags, rport>>
  BY DEF Port!InsertMsg, Port!MustAnswer
<1>2. /\ PortTypeOK /\ MessageInOnePlace /\ PortTypeOK' /\ MessageInOnePlace'
      /\ queue \in [Port!Port -> Seq(Msg)] /\ User(t) \in Port!Port /\ t # None
      /\ holder \in [Msg -> Task \cup {None}]
  BY PortsDiffer DEF RefInv, PortInv, PortTypeOK
<1>3. StageIsPlace /\ StageIsPlace'
  BY <1>2, StageIs, PTL
<1>4. Port!Stage(m) = "taken" /\ \A p \in Port!Port : ~ Contains(queue[p], m)
  BY <1>1, <1>2, <1>3 DEF StageIsPlace, InQueue
<1>5. PICK q, R : q = queue[User(t)] /\ R = Requests
  OBVIOUS
<1>6. q \in Seq(Msg) /\ IsInjective(q) /\ ~ Contains(q, m)
  BY <1>2, <1>4, <1>5 DEF MessageInOnePlace
<1>7. PICK k \in 1..(Len(q) + 1) : queue' = [queue EXCEPT ![User(t)] = Port!InsertAt(q, k, m)]
  <2>1. PICK i \in (1..Len(q)) \cup {Len(q)} :
          queue' = [queue EXCEPT ![User(t)] = Port!InsertAt(q, i + 1, m)]
    BY <1>5 DEF Port!InsertMsg, User
  <2>2. i + 1 \in 1..(Len(q) + 1)
    BY <1>6
  <2>3. QED
    BY <2>1, <2>2
<1>8. PICK r : r = Port!InsertAt(q, k, m)
  OBVIOUS
<1>9. \A n : Contains(r, n) <=> Contains(q, n) \/ n = m
  BY <1>6, <1>8, InsertOne
<1>10. /\ queue'[User(t)] = r
       /\ \A p \in Port!Port : p # User(t) => queue'[p] = queue[p]
  BY <1>2, <1>7, <1>8
<1>11. \A p \in Port!Port, n \in Msg :
         Contains(queue'[p], n) <=> Contains(queue[p], n) \/ (p = User(t) /\ n = m)
  BY <1>5, <1>9, <1>10
<1>12. Port!IsRequest(m) /\ Port!IsRequest(m)'
  BY <1>1 DEF Port!IsRequest, Port!SENT
<1>13. Port!Stage(m)' = "posted"
  <2>1. InQueue(m)'
    BY <1>2, <1>11 DEF InQueue
  <2>2. QED
    BY <1>3, <1>12, <2>1 DEF StageIsPlace
<1>14. FromOf(m)' = FromOf(m) /\ VerdictOf(m)' = VerdictOf(m)
  BY <1>1, <1>4, <1>13 DEF FromOf, VerdictOf, Due, Port!Sender
<1>15. /\ \A n \in Msg : n # m => /\ Port!Stage(n)' = Port!Stage(n)
                                  /\ FromOf(n)' = FromOf(n) /\ VerdictOf(n)' = VerdictOf(n)
                                  /\ Port!IsRequest(n)' <=> Port!IsRequest(n)
       /\ AnswersAreInPlace'
  <2>1. \A n \in Msg : n # m =>
          flags'[n] = flags[n] /\ holder'[n] = holder[n] /\ rport'[n] = rport[n]
    BY <1>1, <1>2
  <2>2. \A p \in Port!Port, n \in Msg : n # m =>
          (Contains(queue'[p], n) <=> Contains(queue[p], n))
    BY <1>11
  <2>3. \A p \in Port!Port : Contains(queue'[p], m) => p = User(t)
    BY <1>4, <1>11
  <2>4. QED
    BY <1>12, <2>1, <2>2, <2>3, OthersKept
<1>16. Requests' = Requests /\ m \in R
  BY <1>5, <1>12, <1>15 DEF Requests
<1>17. PICK i \in 0..Len(Inbox(t)) : Inbox(t)' = InsertAt(Inbox(t), i + 1, m)
  <2>1. \A s, j, e : /\ Port!InsertAt(s, j, e) = InsertAt(s, j, e)
                     /\ Port!Abstract!InsertAt(s, j, e) = InsertAt(s, j, e)
    BY DEF Port!InsertAt, Port!Abstract!InsertAt, InsertAt
  <2>2. PICK i \in 0..Len(Select(q, R)) :
          Select(InsertAt(q, k, m), R) = InsertAt(Select(q, R), i + 1, m)
    BY <1>6, <1>16, SelectInsert
  <2>3. Inbox(t) = Select(q, R)
    BY <1>5, SameSelect DEF Inbox
  <2>4. Inbox(t)' = Select(InsertAt(q, k, m), R)
    BY <1>5, <1>8, <1>10, <1>16, <2>1, SameSelect DEF Inbox, User, Port!UserPort
  <2>5. QED
    BY <2>2, <2>3, <2>4
<1>18. \A u \in Task : Inbox(u)' = IF u = t THEN Port!Abstract!InsertAt(Inbox(u), i + 1, m)
                                   ELSE Inbox(u)
  <2>1. ASSUME NEW u \in Task, u # t PROVE Inbox(u)' = Inbox(u)
    <3>1. queue'[User(u)] = queue[User(u)] /\ User(u) \in Port!Port
      BY <1>10, <2>1, PortsDiffer
    <3>2. \A n \in Msg : Port!IsRequest(n)' <=> Port!IsRequest(n)
      BY <1>12, <1>15
    <3>3. QED
      BY <1>2, <3>1, <3>2, InboxKept
  <2>2. Port!Abstract!InsertAt(Inbox(t), i + 1, m) = InsertAt(Inbox(t), i + 1, m)
    BY DEF Port!Abstract!InsertAt, InsertAt
  <2>3. QED
    BY <1>17, <2>1, <2>2
<1>19. QED
  BY <1>1, <1>4, <1>13, <1>14, <1>15, <1>18, IsPutBack

(* ... TAckMsg, TReplyMsg and TDropMsg are Answer, ...                     *)
LEMMA ReturnMsgMaps ==
  ASSUME RefInv, PortInv', NEW t \in Task, NEW m \in Msg, NEW v \in Port!Verdict,
         Port!ReturnMsg(t, m, v)
  PROVE  AnswersAreInPlace' /\ Port!Abstract!Answer(t, m, v)
<1>1. holder[m] = t /\ flags[m] = Port!SENT /\ rport' = rport
  BY DEF Port!ReturnMsg, Port!MustAnswer
<1>2. /\ PortTypeOK /\ MessageInOnePlace /\ PortTypeOK' /\ MessageInOnePlace'
      /\ queue \in [Port!Port -> Seq(Msg)] /\ rport \in [Msg -> Port!Port \cup {None}]
      /\ holder \in [Msg -> Task \cup {None}] /\ t # None
  BY PortsDiffer DEF RefInv, PortInv, PortTypeOK
<1>3. StageIsPlace /\ StageIsPlace'
  BY <1>2, StageIs, PTL
<1>4. Port!Stage(m) = "taken" /\ \A p \in Port!Port : ~ Contains(queue[p], m)
  BY <1>1, <1>2, <1>3 DEF StageIsPlace, InQueue
<1>5. FromOf(m) = Port!Sender(rport[m]) /\ VerdictOf(m) = None
  BY <1>4 DEF FromOf, VerdictOf, Due
<1>6. CASE rport[m] # None
  <2>1. PICK p \in Port!Port : p = rport[m]
    BY <1>2, <1>6
  <2>2. Port!Enqueue(p, m, v)
    BY <1>6, <2>1 DEF Port!ReturnMsg
  <2>3. /\ \A q \in Port!Port :
             queue'[q] = IF q = p THEN Append(queue[q], m) ELSE queue[q]
        /\ \A q \in Port!Port, n \in Msg :
             Contains(queue'[q], n) <=> Contains(queue[q], n) \/ (q = p /\ n = m)
        /\ \A n \in Msg : n # m => flags'[n] = flags[n] /\ holder'[n] = holder[n]
        /\ flags'[m] \ {"QUEUED"} = v
    BY <1>2, <1>4, <2>2, Enqueued
  <2>4. ~ Port!IsRequest(m)'
    BY <2>3 DEF Port!IsRequest, Port!Verdict, Port!SENT, Port!FAILED, Port!ACKD, Port!REPLIED
  <2>5. Port!Stage(m)' = "answered"
    <3>1. InQueue(m)'
      BY <2>3 DEF InQueue
    <3>2. QED
      BY <1>3, <2>4, <3>1 DEF StageIsPlace
  <2>6. FromOf(m)' = FromOf(m) /\ FromOf(m) # None /\ VerdictOf(m)' = v
    <3>1. Port!SigTask(p) # None
      BY PortsDiffer
    <3>2. QED
      BY <1>1, <1>5, <1>6, <2>1, <2>3, <2>5, <3>1 DEF FromOf, VerdictOf, Due, Port!Sender
  <2>7. /\ \A n \in Msg : n # m => /\ Port!Stage(n)' = Port!Stage(n)
                                   /\ FromOf(n)' = FromOf(n) /\ VerdictOf(n)' = VerdictOf(n)
                                   /\ Port!IsRequest(n)' <=> Port!IsRequest(n)
        /\ AnswersAreInPlace'
    <3>1. \A q \in Port!Port, n \in Msg : n # m =>
            (Contains(queue'[q], n) <=> Contains(queue[q], n))
      BY <2>3
    <3>2. \A q \in Port!Port : Contains(queue'[q], m) => rport'[m] = q
      BY <1>1, <1>4, <2>1, <2>3
    <3>3. QED
      BY <1>1, <2>3, <2>4, <3>1, <3>2, OthersKept
  <2>8. SameInboxes
    <3>1. ASSUME NEW u \in Task, User(u) # p PROVE Inbox(u)' = Inbox(u)
      <4>1. queue'[User(u)] = queue[User(u)] /\ User(u) \in Port!Port
        BY <2>3, <3>1, PortsDiffer
      <4>2. \A n \in Msg : Contains(queue[User(u)], n) =>
                             (Port!IsRequest(n)' <=> Port!IsRequest(n))
        BY <1>4, <2>7, <4>1
      <4>3. QED
        BY <1>2, <4>1, <4>2, InboxKept
    <3>2. ASSUME NEW u \in Task, User(u) = p PROVE Inbox(u)' = Inbox(u)
      <4>1. PICK q, R, S : q = queue[User(u)] /\ R = Requests /\ S = Requests'
        OBVIOUS
      <4>2. q \in Seq(Msg) /\ m \notin S /\ queue'[User(u)] = Append(q, m)
        BY <1>2, <2>3, <2>4, <3>2, <4>1 DEF Requests
      <4>3. \A n \in Msg : Contains(q, n) => (n \in S <=> n \in R)
        BY <1>4, <2>7, <3>2, <4>1 DEF Requests
      <4>4. Select(q, S) = Select(q, R)
        BY <4>2, <4>3, SelectSame
      <4>5. Select(Append(q, m), S) = Select(q, S)
        BY <4>2, SelectAppend
      <4>6. Inbox(u) = Select(q, R)
        BY <4>1, SameSelect DEF Inbox
      <4>7. Inbox(u)' = Select(Append(q, m), S)
        BY <4>1, <4>2, SameSelect DEF Inbox, User, Port!UserPort
      <4>8. QED
        BY <4>4, <4>5, <4>6, <4>7
    <3>3. QED
      BY <3>1, <3>2 DEF SameInboxes
  <2>9. holder' = [holder EXCEPT ![m] = None]
    BY <2>2 DEF Port!Enqueue
  <2>10. QED
    BY <1>1, <1>4, <1>5, <2>5, <2>6, <2>7, <2>8, <2>9, IsAnswer
<1>7. CASE rport[m] = None
  <2>1. holder' = [holder EXCEPT ![m] = None] /\ UNCHANGED <<queue, flags>>
    BY <1>7 DEF Port!ReturnMsg
  <2>2. holder'[m] = None /\ \A n \in Msg : n # m => holder'[n] = holder[n]
    BY <1>2, <2>1
  <2>3. Port!Stage(m)' = "free"
    BY <1>3, <1>4, <2>1, <2>2 DEF StageIsPlace, InQueue
  <2>4. FromOf(m) = None /\ FromOf(m)' = None /\ VerdictOf(m)' = None
    BY <1>5, <1>7, <2>3 DEF FromOf, VerdictOf, Due, Port!Sender
  <2>5. /\ \A n \in Msg : n # m => /\ Port!Stage(n)' = Port!Stage(n)
                                   /\ FromOf(n)' = FromOf(n) /\ VerdictOf(n)' = VerdictOf(n)
        /\ AnswersAreInPlace'
    BY <1>1, <1>4, <2>1, <2>2, OthersKept
  <2>6. SameInboxes
    <3>1. \A n \in Msg : Port!IsRequest(n)' <=> Port!IsRequest(n)
      BY <2>1 DEF Port!IsRequest
    <3>2. QED
      BY <1>2, <2>1, <3>1, InboxKept DEF SameInboxes
  <2>7. QED
    BY <1>1, <1>4, <1>5, <2>1, <2>3, <2>4, <2>5, <2>6, IsAnswer
<1>8. QED
  BY <1>6, <1>7

(* ... and the rest is nothing: signals, waiting, looking into a port, ... *)
LEMMA UntouchedMaps ==
  ASSUME RefInv, UNCHANGED <<queue, flags, rport, holder>>
  PROVE  AnswersAreInPlace' /\ UNCHANGED Port!Abstract!vars
<1>1. \A n \in Msg : Port!IsRequest(n)' <=> Port!IsRequest(n)
  BY DEF Port!IsRequest
<1>2. \A n \in Msg : Port!Stage(n)' = Port!Stage(n)
  BY DEF Port!Stage, Port!Queued, Port!IsRequest
<1>3. \A n \in Msg : FromOf(n)' = FromOf(n) /\ VerdictOf(n)' = VerdictOf(n)
  BY <1>2 DEF FromOf, VerdictOf, Due, Port!Sender
<1>4. queue \in [Port!Port -> Seq(Msg)]
  BY DEF RefInv, PortInv, PortTypeOK
<1>5. SameInboxes
  BY <1>1, <1>4, InboxKept DEF SameInboxes
<1>6. AnswersAreInPlace'
  BY <1>1 DEF RefInv, AnswersAreInPlace, User, Port!UserPort
<1>7. QED
  BY <1>2, <1>3, <1>5, <1>6, IsNothing

(* ... and the status that TInsertMsg sets when it has released the lock.  *)
LEMMA SetFlagsMaps ==
  ASSUME RefInv, PortInv', NEW t \in Task, Port!SetFlags(t)
  PROVE  AnswersAreInPlace' /\ UNCHANGED Port!Abstract!vars
<1>1. /\ PortTypeOK /\ MessageInOnePlace /\ PortTypeOK' /\ MessageInOnePlace'
      /\ queue \in [Port!Port -> Seq(Msg)] /\ User(t) \in Port!Port
      /\ flags \in [Msg -> SUBSET {"SENT", "RETURNED", "MODIFIED", "QUEUED"}]
  BY PortsDiffer DEF RefInv, PortInv, PortTypeOK
<1>2. UNCHANGED <<queue, rport, holder>>
  BY DEF Port!SetFlags
<1>3. PICK m \in Msg : /\ Contains(queue[User(t)], m) /\ "QUEUED" \notin flags[m]
                       /\ flags' = [flags EXCEPT ![m] = Port!SENT \cup {"QUEUED"}]
  <2>1. PICK m \in Port!ToSet(queue[User(t)]) :
               /\ "QUEUED" \notin flags[m]
               /\ flags' = [flags EXCEPT ![m] = Port!SENT \cup {"QUEUED"}]
    BY DEF Port!SetFlags, User
  <2>2. /\ queue[User(t)] \in Seq(Msg)
        /\ DOMAIN queue[User(t)] = 1..Len(queue[User(t)])
    BY <1>1
  <2>3. PICK i \in 1..Len(queue[User(t)]) : queue[User(t)][i] = m
    BY <2>1, <2>2 DEF Port!ToSet
  <2>4. m \in Msg /\ Contains(queue[User(t)], m)
    BY <2>2, <2>3 DEF Contains
  <2>5. QED
    BY <2>1, <2>4
<1>4. flags[m] = Port!SENT
  BY <1>1, <1>3 DEF MessageInOnePlace
<1>5. /\ flags'[m] = Port!SENT \cup {"QUEUED"}
      /\ \A n \in Msg : n # m => flags'[n] = flags[n]
  BY <1>1, <1>3
<1>6. Port!IsRequest(m) /\ Port!IsRequest(m)'
  BY <1>4, <1>5 DEF Port!IsRequest, Port!SENT
<1>7. StageIsPlace /\ StageIsPlace'
  BY <1>1, StageIs, PTL
<1>8. Port!Stage(m) = "posted" /\ Port!Stage(m)' = "posted"
  BY <1>1, <1>2, <1>3, <1>6, <1>7 DEF StageIsPlace, InQueue
<1>9. FromOf(m)' = FromOf(m) /\ VerdictOf(m)' = VerdictOf(m)
  BY <1>2, <1>8 DEF FromOf, VerdictOf, Due, Port!Sender
<1>10. /\ \A n \in Msg : n # m => /\ Port!Stage(n)' = Port!Stage(n)
                                  /\ FromOf(n)' = FromOf(n) /\ VerdictOf(n)' = VerdictOf(n)
                                  /\ Port!IsRequest(n)' <=> Port!IsRequest(n)
       /\ AnswersAreInPlace'
  <2>1. \A p \in Port!Port : Contains(queue'[p], m) => p = User(t)
    BY <1>1, <1>2, <1>3 DEF MessageInOnePlace
  <2>2. QED
    BY <1>2, <1>5, <1>6, <2>1, OthersKept
<1>11. \A n \in Msg : Port!IsRequest(n)' <=> Port!IsRequest(n)
  BY <1>6, <1>10
<1>12. SameInboxes
  BY <1>1, <1>2, <1>11, InboxKept DEF SameInboxes
<1>13. QED
  BY <1>2, <1>8, <1>9, <1>10, <1>12, IsNothing

(* Thus every step of ports is a step of Messaging, or none.               *)
LEMMA NextMaps ==
  ASSUME RefInv, PortInv', Port!Next
  PROVE  AnswersAreInPlace' /\ [Port!Abstract!Next]_(Port!Abstract!vars)
<1>1. ASSUME NEW t \in Client, Port!ClientNext(t)
      PROVE  AnswersAreInPlace' /\ [Port!Abstract!Next]_(Port!Abstract!vars)
  <2>1. t \in Task /\ Server \subseteq Task
    BY MemberAssumption
  <2>2. ASSUME NEW m \in Msg, Port!AllocMsg(t, m)
        PROVE  AnswersAreInPlace' /\ Port!Abstract!Next
    BY <2>1, <2>2, AllocMsgMaps DEF Port!Abstract!Next
  <2>3. ASSUME NEW m \in Msg, NEW s \in Server, Port!SendMsg(t, s, m)
        PROVE  AnswersAreInPlace' /\ Port!Abstract!Next
    BY <2>1, <2>3, SendMsgMaps DEF Port!Abstract!Next
  <2>4. ASSUME NEW m \in Msg, NEW s \in Server, NEW rp \in {None, Port!UserPort(t)},
               Port!PutMsg(t, s, rp, m)
        PROVE  AnswersAreInPlace' /\ Port!Abstract!Next
    BY <2>1, <2>4, PutMsgMaps DEF Port!Abstract!Next
  <2>5. CASE Port!SyncWait(t)
    BY <2>5, UntouchedMaps DEF Port!SyncWait
  <2>6. ASSUME Port!SyncGet(t)
        PROVE  AnswersAreInPlace' /\ Port!Abstract!Next
    BY <2>1, <2>6, SyncGetMaps DEF Port!Abstract!Next
  <2>7. QED
    BY <1>1, <2>2, <2>3, <2>4, <2>5, <2>6 DEF Port!ClientNext
<1>2. ASSUME NEW t \in Task, Port!AnyNext(t)
      PROVE  AnswersAreInPlace' /\ [Port!Abstract!Next]_(Port!Abstract!vars)
  <2>1. CASE Port!WaitPort(t) \/ Port!TestPort(t) \/ Port!WakePort(t) \/ Port!Notify(t)
    BY <2>1, UntouchedMaps DEF Port!WaitPort, Port!TestPort, Port!WakePort, Port!Notify
  <2>2. CASE Port!SetFlags(t)
    BY <2>2, SetFlagsMaps
  <2>3. ASSUME Port!GetMsg(t) PROVE AnswersAreInPlace' /\ Port!Abstract!Next
    BY <2>3, GetMsgMaps DEF Port!Abstract!Next
  <2>4. ASSUME NEW m \in Msg, Port!InsertMsg(t, m)
        PROVE  AnswersAreInPlace' /\ Port!Abstract!Next
    BY <2>4, InsertMsgMaps DEF Port!Abstract!Next
  <2>5. ASSUME NEW m \in Msg, NEW v \in Port!Verdict, Port!ReturnMsg(t, m, v)
        PROVE  AnswersAreInPlace' /\ Port!Abstract!Next
    BY <2>5, ReturnMsgMaps DEF Port!Abstract!Next
  <2>6. QED
    BY <1>2, <2>1, <2>2, <2>3, <2>4, <2>5 DEF Port!AnyNext
<1>3. QED
  BY <1>1, <1>2 DEF Port!Next

(* Requests are in user ports, and answers where they were to be returned  *)
(* to: with PortInv, the invariant the refinement rests on.                *)
THEOREM AnswersAreInPlaceHolds == Port!Spec => []AnswersAreInPlace
<1>1. RefInv /\ [Port!Next]_Port!vars => RefInv'
  <2>1. ASSUME RefInv, Port!Next PROVE RefInv'
    BY <2>1, NextPortInv, NextMaps DEF RefInv
  <2>2. ASSUME RefInv, UNCHANGED Port!vars PROVE RefInv'
    BY <2>2, StutterPortInv, UntouchedMaps DEF RefInv, Port!vars
  <2>3. QED
    BY <2>1, <2>2
<1>2. Port!Init => RefInv
  BY InitPortInv, InitMaps DEF RefInv
<1>3. RefInv => AnswersAreInPlace
  BY DEF RefInv
<1>4. QED
  BY <1>1, <1>2, <1>3, PTL DEF Port!Spec

(* Ports implement Messaging: a message is in one inbox at a time, taken   *)
(* in order by its task only, answered once by who took it, and the answer *)
(* is collected by who asked, however many tasks call at once.             *)
THEOREM PortsImplementMessaging == Port!Spec => Port!ImplementsMessaging
<1>1. Port!Init => Port!Abstract!Init
  BY InitMaps
<1>2. PortInv /\ AnswersAreInPlace /\ PortInv' /\ [Port!Next]_Port!vars =>
        [Port!Abstract!Next]_(Port!Abstract!vars)
  BY NextMaps, UntouchedMaps DEF RefInv, Port!vars
<1>3. QED
  BY <1>1, <1>2, PortInvariant, AnswersAreInPlaceHolds, PTL
  DEF Port!Spec, Port!ImplementsMessaging, Port!Abstract!Spec
-----------------------------------------------------------------------------
(* Locks and ports together.                                               *)
SyncInv == LockInv /\ PortInv

(* A task that can call TLock has no signal left of an earlier TSendMsg.   *)
LEMMA PortsAreQuiet == PortInv => IdleIsQuiet
  BY DEF PortInv, OneCall, QuietBefore, IdleIsQuiet

(* A step of the lock is nothing to the ports: the signal it sends goes to *)
(* a task that is sending no message.                                      *)
LEMMA LockStepPortInv ==
  ASSUME SyncInv, LockInv', Next, UNCHANGED portvars
  PROVE  PortInv'
<1>1. UNCHANGED <<queue, flags, rport, target, cur, holder, answer>>
  BY DEF portvars
<1>2. PICK t \in Task : LockAtOnce(t) \/ LockQueue(t) \/ LockWoken(t) \/ Unlock(t)
  BY DEF Next
<1>3. /\ sig \in [Task -> SUBSET {"single", "user"}] /\ pc \in [Task -> Where]
      /\ waiters \in Seq(Task)
  BY DEF SyncInv, LockInv, LockTypeOK
<1>4. \A u \in Task : \/ pc'[u] = pc[u]
                      \/ pc[u] \in {"idle", "lockwait"} /\ pc'[u] \in {"idle", "lockwait"}
  BY <1>2, <1>3 DEF LockAtOnce, LockQueue, LockWoken, Unlock
<1>5. waitcount > 0 => Head(waiters) \in Task /\ pc[Head(waiters)] = "lockwait"
  <2>1. waitcount = Len(waiters)
    BY DEF SyncInv, LockInv, QueueIsConsistent
  <2>2. waitcount > 0 => Head(waiters) = waiters[1] /\ 1 \in 1..Len(waiters)
    BY <1>3, <2>1
  <2>3. QED
    BY <1>3, <2>2 DEF SyncInv, LockInv, QueueIsConsistent
<1>6. \A u \in Task : /\ "user" \in sig'[u] <=> "user" \in sig[u]
                      /\ pc[u] # "lockwait" => (Single(u)' <=> Single(u))
                      /\ Single(u)' => Single(u) \/ (pc[u] = "lockwait" /\ pc'[u] = "lockwait")
                      /\ Single(u)' /\ pc[u] = "lockwait" => pc'[u] = "lockwait"
  <2>1. CASE LockAtOnce(t) \/ LockQueue(t)
    <3>1. sig' = sig /\ pc[t] = "idle"
      BY <2>1 DEF LockAtOnce, LockQueue
    <3>2. \A u \in Task : pc[u] = "lockwait" => pc'[u] = "lockwait"
      BY <1>3, <2>1 DEF LockAtOnce, LockQueue
    <3>3. QED
      BY <3>1, <3>2 DEF Single
  <2>2. CASE LockWoken(t)
    <3>1. /\ \A u \in Task : sig'[u] = IF u = t THEN sig[u] \ {"single"} ELSE sig[u]
          /\ \A u \in Task : pc'[u] = IF u = t THEN "idle" ELSE pc[u]
          /\ pc[t] = "lockwait"
      BY <1>3, <2>2 DEF LockWoken
    <3>2. QED
      BY <3>1 DEF Single
  <2>3. CASE Unlock(t) /\ ~ UnlockHandOver(t)
    BY <2>3 DEF Unlock, UnlockNested, UnlockFree, Single
  <2>4. CASE Unlock(t) /\ UnlockHandOver(t)
    <3>1. /\ pc' = pc
          /\ \A u \in Task : sig'[u] = IF u = Head(waiters) THEN sig[u] \cup {"single"}
                                                            ELSE sig[u]
      BY <1>3, <1>5, <2>4 DEF Unlock, UnlockHandOver
    <3>2. pc[Head(waiters)] = "lockwait"
      BY <1>5, <2>4 DEF UnlockHandOver
    <3>3. ASSUME NEW u \in Task
          PROVE  /\ "user" \in sig'[u] <=> "user" \in sig[u]
                 /\ u # Head(waiters) => (Single(u)' <=> Single(u))
      <4>1. sig'[u] = IF u = Head(waiters) THEN sig[u] \cup {"single"} ELSE sig[u]
        BY <3>1
      <4>2. QED
        BY <4>1 DEF Single
    <3>4. QED
      BY <3>1, <3>2, <3>3
  <2>5. QED
    BY <1>2, <2>1, <2>2, <2>3, <2>4
<1>7. PortTypeOK'
  <2>1. sig' \in [Task -> SUBSET {"single", "user"}] /\ pc' \in [Task -> Where]
    BY DEF LockInv, LockTypeOK
  <2>2. QED
    BY <1>1, <2>1 DEF SyncInv, PortInv, PortTypeOK
<1>8. OneCall'
  BY <1>1, <1>4 DEF SyncInv, PortInv, OneCall
<1>9. MessageInOnePlace'
  BY <1>1 DEF SyncInv, PortInv, MessageInOnePlace
<1>10. SyncPortIsForCur' /\ QuietBefore' /\ OneSignalForReply'
  <2>1. \A u \in Task : pc'[u] = "syncget" <=> pc[u] = "syncget"
    BY <1>4
  <2>2. \A u \in Task : cur[u] # None => (Single(u)' <=> Single(u))
    BY <1>6 DEF SyncInv, PortInv, OneCall
  <2>3. \A u \in Task : cur[u] = None => (Single(u)' => pc'[u] = "lockwait")
    BY <1>6 DEF SyncInv, PortInv, QuietBefore
  <2>4. \A u \in Task, n \in Msg : cur[u] = n =>
          holder[n] # None \/ \E q \in Port!Port : Contains(queue[q], n)
    BY CurFacts DEF SyncInv, PortInv
  <2>5. \A n \in Msg : Port!IsRequest(n)' <=> Port!IsRequest(n)
    BY <1>1 DEF Port!IsRequest
  <2>6. QED
    BY <1>1, <2>1, <2>2, <2>3, <2>4, <2>5, SyncUntouched DEF SyncInv, PortInv
<1>11. Port!NoLostWakeup'
  <2>1. \A u \in Task : pc'[u] = "waitport" => pc[u] = "waitport"
    BY <1>4
  <2>2. QED
    BY <1>1, <1>6, <2>1 DEF SyncInv, PortInv, Port!NoLostWakeup, Port!UserPort
<1>12. QED
  BY <1>7, <1>8, <1>9, <1>10, <1>11 DEF PortInv

(* A step of the ports is nothing to a task that waits for the lock: no    *)
(* other signal comes to it that it could take for the lock's.             *)
LEMMA PortStepLeavesWaiters ==
  ASSUME PortInv, Port!Next, NEW u \in Task
  PROVE  /\ pc'[u] = "lockwait" <=> pc[u] = "lockwait"
         /\ pc[u] = "lockwait" => (Single(u)' <=> Single(u))
<1>1. sig \in [Task -> SUBSET {"single", "user"}] /\ pc \in [Task -> Where]
  BY DEF PortInv, PortTypeOK
<1>2. ASSUME NEW t \in Task, NEW l, pc' = pc \/ pc' = [pc EXCEPT ![t] = l],
             pc[t] # "lockwait", l # "lockwait",
             sig' = sig \/ \E x \in {"user", "single"} : sig' = [sig EXCEPT ![t] = @ \ {x}]
      PROVE  /\ pc'[u] = "lockwait" <=> pc[u] = "lockwait"
             /\ pc[u] = "lockwait" => (Single(u)' <=> Single(u))
  <2>1. pc[u] = "lockwait" => sig'[u] = sig[u]
    BY <1>1, <1>2
  <2>2. pc'[u] = "lockwait" <=> pc[u] = "lockwait"
    BY <1>1, <1>2
  <2>3. QED
    BY <2>1, <2>2 DEF Single
<1>3. ASSUME NEW t \in Task, Port!Notify(t)
      PROVE  /\ pc'[u] = "lockwait" <=> pc[u] = "lockwait"
             /\ pc[u] = "lockwait" => (Single(u)' <=> Single(u))
  <2>1. pc[t] = "notify" /\ target[t] \in Port!Port
    BY <1>3, PortsDiffer DEF PortInv, PortTypeOK, OneCall, Port!Notify
  <2>2. pc'[u] = "lockwait" <=> pc[u] = "lockwait"
    BY <1>1, <1>3, <2>1 DEF Port!Notify, Port!Goto
  <2>3. PICK w \in Task : target[t] = Sync(w) \/ target[t] = User(w)
    BY <2>1, PortsDiffer
  <2>4. Port!SigTask(target[t]) = w
    BY <2>3, PortsDiffer
  <2>5. \A q \in Task : sig'[q] = IF q = w THEN sig[q] \cup {Port!PortSignal(target[t])}
                                           ELSE sig[q]
    BY <1>1, <1>3, <2>4 DEF Port!Notify
  <2>6. CASE target[t] = Sync(w)
    <3>1. cur[w] # None
      BY <2>6 DEF PortInv, QuietBefore, NoReplyDue
    <3>2. pc[w] # "lockwait"
      BY <3>1 DEF PortInv, OneCall
    <3>3. QED
      BY <2>2, <2>5, <3>2 DEF Single
  <2>7. CASE target[t] = User(w)
    <3>1. Port!PortSignal(target[t]) = "user"
      BY <2>7, PortsDiffer
    <3>2. sig'[u] = sig[u] \cup {"user"} \/ sig'[u] = sig[u]
      BY <2>5, <3>1
    <3>3. "single" \in sig'[u] <=> "single" \in sig[u]
      BY <3>2
    <3>4. QED
      BY <2>2, <3>3 DEF Single
  <2>8. QED
    BY <2>3, <2>6, <2>7
<1>4. ASSUME NEW t \in Client, Port!ClientNext(t)
      PROVE  /\ pc'[u] = "lockwait" <=> pc[u] = "lockwait"
             /\ pc[u] = "lockwait" => (Single(u)' <=> Single(u))
  <2>1. t \in Task
    BY MemberAssumption
  <2>2. \E l : /\ pc' = pc \/ pc' = [pc EXCEPT ![t] = l]
               /\ l # "lockwait" /\ pc[t] # "lockwait"
               /\ sig' = sig
                    \/ \E x \in {"user", "single"} : sig' = [sig EXCEPT ![t] = @ \ {x}]
    <3>1. CASE Port!SyncWait(t)
      BY <3>1 DEF Port!SyncWait, Port!Goto
    <3>2. CASE Port!SyncGet(t)
      BY <3>2 DEF Port!SyncGet, Port!Goto
    <3>3. ASSUME NEW m \in Msg, Port!AllocMsg(t, m) PROVE UNCHANGED <<pc, sig>> /\ pc[t] = "idle"
      BY <3>3 DEF Port!AllocMsg
    <3>4. ASSUME NEW m \in Msg, NEW s \in Server,
                 Port!SendMsg(t, s, m) \/ \E rp \in {None, Port!UserPort(t)} :
                                            Port!PutMsg(t, s, rp, m)
          PROVE  pc' = [pc EXCEPT ![t] = "notify"] /\ sig' = sig /\ pc[t] = "idle"
      BY <3>4 DEF Port!SendMsg, Port!PutMsg, Port!Goto
    <3>5. QED
      BY <1>4, <3>1, <3>2, <3>3, <3>4 DEF Port!ClientNext
  <2>3. QED
    BY <1>2, <2>1, <2>2
<1>5. ASSUME NEW t \in Task, Port!AnyNext(t), ~ Port!Notify(t)
      PROVE  /\ pc'[u] = "lockwait" <=> pc[u] = "lockwait"
             /\ pc[u] = "lockwait" => (Single(u)' <=> Single(u))
  <2>1. \E l : /\ pc' = pc \/ pc' = [pc EXCEPT ![t] = l]
               /\ l # "lockwait" /\ pc[t] # "lockwait"
               /\ sig' = sig
                    \/ \E x \in {"user", "single"} : sig' = [sig EXCEPT ![t] = @ \ {x}]
    <3>1. CASE Port!WaitPort(t) \/ Port!WakePort(t)
      BY <3>1 DEF Port!WaitPort, Port!WakePort, Port!Goto
    <3>2. CASE Port!TestPort(t)
      BY <3>2 DEF Port!TestPort, Port!Goto
    <3>3. CASE Port!GetMsg(t)
      BY <3>3 DEF Port!GetMsg
    <3>4. CASE Port!SetFlags(t)
      BY <3>4 DEF Port!SetFlags, Port!Goto
    <3>5. ASSUME NEW m \in Msg, Port!InsertMsg(t, m)
          PROVE  pc' = [pc EXCEPT ![t] = "setflags"] /\ sig' = sig /\ pc[t] = "idle"
      BY <3>5 DEF Port!InsertMsg, Port!Goto
    <3>6. ASSUME NEW m \in Msg, NEW v \in Port!Verdict, Port!ReturnMsg(t, m, v)
          PROVE  /\ pc' = pc \/ pc' = [pc EXCEPT ![t] = "notify"]
                 /\ sig' = sig /\ pc[t] = "idle"
      BY <3>6 DEF Port!ReturnMsg, Port!Goto
    <3>7. QED
      BY <1>5, <3>1, <3>2, <3>3, <3>4, <3>5, <3>6 DEF Port!AnyNext
  <2>2. QED
    BY <1>2, <2>1
<1>6. QED
  BY <1>3, <1>4, <1>5 DEF Port!Next

(* Both invariants hold initially and in every step of either.             *)
LEMMA SyncInductive ==
  /\ SyncInit => SyncInv
  /\ SyncInv /\ [SyncNext]_syncvars => SyncInv'
<1>1. SyncInit => SyncInv
  BY InitLockInv, InitPortInv DEF SyncInit, SyncInv
<1>2. ASSUME SyncInv, LockNext PROVE SyncInv'
  <2>1. LockInv'
    BY <1>2, PortsAreQuiet, NextLockInv DEF SyncInv, LockNext
  <2>2. QED
    BY <1>2, <2>1, LockStepPortInv DEF SyncInv, LockNext
<1>3. ASSUME SyncInv, PortNext PROVE SyncInv'
  <2>1. PortInv'
    BY <1>3, NextPortInv DEF SyncInv, PortNext
  <2>2. LockTypeOK'
    <3>1. UNCHANGED <<owner, nest, waiters, waitcount, depth>>
      BY <1>3 DEF PortNext, lockvars
    <3>2. QED
      BY <1>3, <2>1, <3>1 DEF SyncInv, LockInv, LockTypeOK, PortInv, PortTypeOK
  <2>3. LockInv'
    BY <1>3, <2>2, PortStepLeavesWaiters, OtherLockInv DEF SyncInv, PortNext
  <2>4. QED
    BY <2>1, <2>3 DEF SyncInv
<1>4. ASSUME SyncInv, UNCHANGED syncvars PROVE SyncInv'
  <2>1. /\ UNCHANGED <<owner, nest, waiters, waitcount, depth, sig, pc>> /\ UNCHANGED lockvars
        /\ UNCHANGED Port!vars
    BY <1>4 DEF syncvars, vars, lockvars, portvars, Port!vars
  <2>2. PortInv'
    BY <1>4, <2>1, StutterPortInv DEF SyncInv
  <2>3. LockTypeOK'
    BY <1>4, <2>1 DEF SyncInv, LockInv, LockTypeOK
  <2>4. LockInv'
    BY <1>4, <2>1, <2>3, OtherLockInv DEF SyncInv, Single
  <2>5. QED
    BY <2>2, <2>4 DEF SyncInv
<1>5. QED
  BY <1>1, <1>2, <1>3, <1>4 DEF SyncNext

(* What holds of locks and of ports alone holds of the two together.       *)
THEOREM SyncInvariant == SyncSpec => []SyncInv
  BY SyncInductive, PTL DEF SyncSpec

(* TLock and TSendMsg share one signal.  It is pending, or about to be     *)
(* sent, only to a task that is in TSendMsg, or in TLock and owns the lock *)
(* now: TLock may take it for the lock without looking.                    *)
THEOREM SingleIsQuietHolds == SyncSpec => []SingleIsQuiet
<1>1. SyncInv => SingleIsQuiet
  <2> SUFFICES ASSUME SyncInv, NEW t \in Task, cur[t] = None
               PROVE  /\ Single(t) => pc[t] = "lockwait" /\ owner = t
                      /\ \A s \in Task : target[s] # Port!SyncPort(t)
    BY DEF SingleIsQuiet
  <2>1. (Single(t) => pc[t] = "lockwait") /\ NoReplyDue(t)
    BY DEF SyncInv, PortInv, QuietBefore
  <2>2. Single(t) => owner = t
    BY <2>1 DEF SyncInv, LockInv, WokenIsFirst, Woken
  <2>3. QED
    BY <2>1, <2>2 DEF NoReplyDue, Sync
<1>2. QED
  BY SyncInvariant, <1>1, PTL

(* Thus the lock does what it does alone, whatever messages its users send *)
(* each other: who is inside owns it, ...                                  *)
THEOREM SyncInsideOwns == SyncSpec => []InsideOwns
<1>1. SyncInv => InsideOwns
  BY DEF SyncInv, LockInv
<1>2. QED
  BY SyncInvariant, <1>1, PTL

(* ... nobody is forgotten, ...                                            *)
THEOREM SyncWaiterIsServed == SyncSpec => []WaiterIsServed
<1>1. SyncInv => WaiterIsServed
  BY DEF SyncInv, LockInv
<1>2. QED
  BY SyncInvariant, <1>1, PTL

(* ... it is handed over in order, ...                                     *)
THEOREM SyncHandOverInOrder == SyncSpec => HandOverInOrder
<1>1. SyncInv /\ [SyncNext]_syncvars =>
        [owner' # owner /\ waiters # <<>> => owner' = Head(waiters)]_vars
  <2>1. ASSUME SyncInv, PortNext PROVE owner' = owner
    BY <2>1 DEF PortNext, lockvars
  <2>2. UNCHANGED syncvars => owner' = owner
    BY DEF syncvars, vars, lockvars
  <2>3. QED
    BY <2>1, <2>2, NextInOrder DEF SyncNext, LockNext, SyncInv
<1>2. QED
  BY SyncInvariant, <1>1, PTL DEF SyncSpec, HandOverInOrder

(* ... and it is a recursive mutex.                                        *)
THEOREM SyncImplementsMutex == SyncSpec => ImplementsMutex
<1>1. SyncInit => Mutex!Init
  BY DEF SyncInit, Init, Mutex!Init
<1>2. SyncInv /\ [SyncNext]_syncvars => [Mutex!Next]_depth
  <2>1. ASSUME SyncInv, PortNext PROVE depth' = depth
    BY <2>1 DEF PortNext, lockvars
  <2>2. UNCHANGED syncvars => depth' = depth
    BY DEF syncvars, vars, lockvars
  <2>3. QED
    BY <2>1, <2>2, NextIsMutex DEF SyncNext, LockNext, SyncInv
<1>3. QED
  BY SyncInvariant, <1>1, <1>2, PTL DEF SyncSpec, ImplementsMutex, Mutex!Spec

(* And no message is slept over.                                           *)
THEOREM SyncNoLostWakeup == SyncSpec => []Port!NoLostWakeup
<1>1. SyncInv => Port!NoLostWakeup
  BY DEF SyncInv, PortInv
<1>2. QED
  BY SyncInvariant, <1>1, PTL

(* And ports do what Messaging promises, whatever locks their tasks use.   *)
THEOREM SyncImplementsMessaging == SyncSpec => Port!ImplementsMessaging
<1>1. SyncInit => RefInv /\ Port!Abstract!Init
  BY InitPortInv, InitMaps DEF SyncInit, RefInv
<1>2. SyncInv' /\ RefInv /\ [SyncNext]_syncvars =>
        RefInv' /\ [Port!Abstract!Next]_(Port!Abstract!vars)
  <2>1. ASSUME SyncInv', RefInv, LockNext
        PROVE  RefInv' /\ [Port!Abstract!Next]_(Port!Abstract!vars)
    BY <2>1, UntouchedMaps DEF LockNext, portvars, RefInv, SyncInv
  <2>2. ASSUME SyncInv', RefInv, PortNext
        PROVE  RefInv' /\ [Port!Abstract!Next]_(Port!Abstract!vars)
    BY <2>2, NextMaps DEF PortNext, RefInv, SyncInv
  <2>3. ASSUME SyncInv', RefInv, UNCHANGED syncvars
        PROVE  RefInv' /\ [Port!Abstract!Next]_(Port!Abstract!vars)
    BY <2>3, UntouchedMaps DEF syncvars, portvars, RefInv, SyncInv
  <2>4. QED
    BY <2>1, <2>2, <2>3 DEF SyncNext
<1>3. QED
  BY <1>1, <1>2, SyncInvariant, PTL
  DEF SyncSpec, Port!ImplementsMessaging, Port!Abstract!Spec
=============================================================================
