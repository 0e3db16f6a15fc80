------------------------------ MODULE HalProofs ------------------------------
(***************************************************************************)
(* Proofs about the two parts of the HAL.                                  *)
(*                                                                         *)
(* TimeDevice, for any number of tasks and any times: expiry and abort     *)
(* never both reply, nothing of a wait is left behind, who gets no signal  *)
(* has waited his time, and the device task is there and awake.            *)
(*                                                                         *)
(* HalSignal, for any threads and signals: on neither host a wakeup is     *)
(* lost, and both take the steps of TaskSignals and no others.             *)
(***************************************************************************)
EXTENDS TimeDevice, HalSignal, ListProofs, FiniteSetTheorems, WellFoundedInduction

(* hsp_RefCount is the number of those that have the device open.          *)
UsersAreCounted == IsFiniteSet(Users) /\ refcount = Cardinality(Users)

(* The device lock is held by the device task during its pass, or by the   *)
(* last task to close the device, after which there is no user.            *)
LockHasHolder ==
  /\ devlock = "dev" <=> devpc \in {"drain", "scan", "signal"}
  /\ \A t \in Task : pc[t] = "join" => devlock = t
  /\ devlock \in Task => pc[devlock] = "join" /\ Users = {}

(* The device task is told to end only by the last one.                    *)
DeviceIsThere ==
  /\ devpc \in {"off", "ended"} => Users = {} /\ "abort" \notin devsig
  /\ devpc = "ended" \/ "abort" \in devsig => devlock \in Task

(* The signal "single" follows the reply, which one of the two sends.      *)
ReplyComesOnce ==
  /\ replying # None <=> devpc = "signal"
  /\ \A t \in Task :
       /\ replying = t => /\ flags[t] = "replied" /\ ~aborted[t]
                          /\ pc[t] \in {"notify", "wait", "abort"}
       /\ "single" \in sig[t] => flags[t] = "replied"
       /\ aborted[t] => pc[t] = "waitio"
       /\ pc[t] = "waitio" => flags[t] = "replied"
       /\ pc[t] \in {"abort", "waitio"} /\ got[t] = {} =>
            flags[t] = "replied" /\ ~aborted[t]

(* A request that is not answered yet has waited its time only when its    *)
(* deadline is reached, or less than a pass before that.                   *)
TimeIsKept ==
  \A t \in Task :
    /\ flags[t] = "queued" => left[t] <= time[t]
    /\ flags[t] = "taken" => left[t] <= time[t] + MaxLag
    /\ flags[t] = "replied" /\ ~aborted[t] => left[t] <= MaxLag

(* The device task has set its alarm, and it is awake, or about to be      *)
(* woken, for a request in its port.                                       *)
DeviceIsWoken ==
  /\ devpc = "wait" => \A t \in reqs : waittime <= time[t] \/ waittime <= 0
  /\ \A t \in Task : flags[t] = "queued" =>
       pc[t] = "notify" \/ "user" \in devsig \/ devpc \in {"lock", "drain"}

(* The inductive invariant. *)
IInv ==
  /\ TypeOK
  /\ UsersAreCounted
  /\ LockHasHolder
  /\ DeviceIsThere
  /\ RequestInOnePlace
  /\ ReplyComesOnce
  /\ TimeIsKept
  /\ DeviceIsWoken
-----------------------------------------------------------------------------
(* The larger of two numbers.                                              *)
LEMMA MaxOfTwo ==
  ASSUME NEW a \in Int, NEW b \in Int
  PROVE  Max({a, b}) = IF a >= b THEN a ELSE b
<1> DEFINE m == IF a >= b THEN a ELSE b
<1>1. m \in {a, b} /\ \A y \in {a, b} : m >= y
  OBVIOUS
<1>2. \A x \in {a, b} : (\A y \in {a, b} : x >= y) => x = m
  OBVIOUS
<1> HIDE DEF m
<1>3. QED
  BY <1>1, <1>2 DEF Max

(* The smallest of some natural numbers.                                   *)
LEMMA MinOfNat ==
  ASSUME NEW S \in SUBSET Nat, S # {}
  PROVE  Min(S) \in S /\ \A y \in S : Min(S) <= y
<1>1. PICK n \in S : \A k \in S : ~ (<<k, n>> \in OpToRel(<, Nat))
  BY NatLessThanWellFounded, WFMin
<1>2. ASSUME NEW k \in S PROVE n <= k
  <2>1. k \in Nat /\ n \in Nat
    OBVIOUS
  <2>2. ~ (k < n)
    BY <1>1, <2>1 DEF OpToRel
  <2>3. QED
    BY <2>1, <2>2
<1>3. QED
  BY <1>2 DEF Min
-----------------------------------------------------------------------------
(* A step by which nobody opens, closes or joins, and which does not touch *)
(* the device's lock, nor tell it to end.                                  *)
LEMMA UsersStay ==
  ASSUME UsersAreCounted, LockHasHolder, DeviceIsThere,
         UNCHANGED <<refcount, devlock, devpc>>,
         devsig' \subseteq devsig \cup {"user"},
         \A u \in Task : /\ pc'[u] = "join" <=> pc[u] = "join"
                         /\ pc'[u] = "closed" <=> pc[u] = "closed"
  PROVE  UsersAreCounted' /\ LockHasHolder' /\ DeviceIsThere'
<1>1. Users' = Users
  BY DEF Users
<1>2. UsersAreCounted'
  BY <1>1 DEF UsersAreCounted
<1>3. LockHasHolder'
  BY <1>1 DEF LockHasHolder
<1>4. DeviceIsThere'
  BY <1>1 DEF DeviceIsThere
<1>5. QED
  BY <1>2, <1>3, <1>4

(* The invariant holds initially.                                          *)
LEMMA InitIInv == Init => IInv
<1> SUFFICES ASSUME Init PROVE IInv
  OBVIOUS
<1> USE BoundsAssumption, NoneAssumption DEF Init
<1>1. TypeOK
  BY DEF TypeOK, Infinity
<1>2. Users = {}
  BY DEF Users
<1>3. UsersAreCounted /\ LockHasHolder /\ DeviceIsThere
  BY <1>2, FS_EmptySet DEF UsersAreCounted, LockHasHolder, DeviceIsThere
<1>4. RequestInOnePlace
  BY DEF RequestInOnePlace, SingleIsQuiet, IsInjective, Contains, Outstanding
<1>5. ReplyComesOnce /\ TimeIsKept /\ DeviceIsWoken
  BY DEF ReplyComesOnce, TimeIsKept, DeviceIsWoken
<1>6. QED
  BY <1>1, <1>3, <1>4, <1>5 DEF IInv

(* hal_open.                                                               *)
LEMMA OpenIInv == ASSUME IInv, NEW t \in Task, Open(t) PROVE IInv'
<1> USE BoundsAssumption, NoneAssumption DEF IInv, Open, Goto, DeviceLockFree
<1>1. /\ refcount' = refcount + 1 /\ UNCHANGED lag
      /\ devpc = "off" => devpc' = "wait" /\ devsig' = {} /\ waittime' = Infinity
      /\ devpc # "off" => UNCHANGED <<devpc, devsig, waittime>>
  BY DEF devvars
<1>2. /\ pc \in [Task -> {"closed", "run", "notify", "wait", "abort", "waitio", "join"}]
      /\ pc[t] = "closed" /\ pc' = [pc EXCEPT ![t] = "run"] /\ devlock = None
      /\ UNCHANGED <<devlock, port, reqs, flags, time, aborted, left, sig, got, replying>>
  BY DEF TypeOK, devvars, reqvars
<1>a. TypeOK'
  <2>1. pc' \in [Task -> {"closed", "run", "notify", "wait", "abort", "waitio", "join"}]
    BY <1>2
  <2>2. waittime \in 0..Infinity /\ Infinity \in Nat /\ waittime' \in {waittime, Infinity}
    BY <1>1 DEF TypeOK, Infinity
  <2>3. waittime' \in 0..Infinity
    BY ONLY <2>2
  <2>4. devsig' \subseteq {"user", "abort"}
        /\ devpc' \in {"off", "wait", "lock", "drain", "scan", "signal", "ended"}
    BY <1>1 DEF TypeOK
  <2>5. QED
    BY <1>1, <1>2, <2>1, <2>3, <2>4 DEF TypeOK
<1>3. /\ Users' = Users \cup {t} /\ t \notin Users
      /\ \A u \in Task : pc[u] # "join"
  BY <1>2 DEF Users, LockHasHolder
<1>4. UsersAreCounted'
  BY <1>3, FS_AddElement DEF UsersAreCounted
<1>5. LockHasHolder' /\ DeviceIsThere'
  BY <1>2, <1>3 DEF LockHasHolder, DeviceIsThere, devvars
<1>6. RequestInOnePlace' /\ ReplyComesOnce' /\ TimeIsKept'
  BY <1>2 DEF RequestInOnePlace, SingleIsQuiet, Outstanding, ReplyComesOnce, TimeIsKept, devvars
<1>7. devpc = "off" => \A u \in Task : flags[u] = "none"
  BY <1>2 DEF DeviceIsThere, Users, RequestInOnePlace, Outstanding
<1>8. DeviceIsWoken'
  BY <1>2, <1>7 DEF DeviceIsWoken, RequestInOnePlace, devvars, TypeOK
<1>9. QED
  BY <1>a, <1>4, <1>5, <1>6, <1>8

(* TPutIO in TWaitTime.                                                    *)
LEMMA WaitTimeIInv ==
  ASSUME IInv, NEW t \in Task, NEW dt \in 0..MaxDt, WaitTime(t, dt)
  PROVE  IInv'
<1> USE BoundsAssumption, NoneAssumption DEF IInv, WaitTime, Goto
<1>1. /\ port \in Seq(Task) /\ port' = Append(port, t)
      /\ pc \in [Task -> {"closed", "run", "notify", "wait", "abort", "waitio", "join"}]
      /\ pc[t] = "run" /\ pc' = [pc EXCEPT ![t] = "notify"]
      /\ UNCHANGED <<refcount, devlock, reqs, aborted, sig, got, devsig, devpc,
                     replying, waittime, lag>>
      /\ \A u \in Task : /\ flags'[u] = IF u = t THEN "queued" ELSE flags[u]
                         /\ time'[u] = IF u = t THEN dt ELSE time[u]
                         /\ left'[u] = IF u = t THEN dt ELSE left[u]
  BY DEF TypeOK, devvars
<1>2. TypeOK'
  BY <1>1, AppendProperties DEF TypeOK
<1>3. UsersAreCounted' /\ LockHasHolder' /\ DeviceIsThere'
  BY <1>1, UsersStay
<1>4. flags[t] = "none" /\ ~ Contains(port, t) /\ t \notin reqs /\ replying # t
      /\ "single" \notin sig[t] /\ ~aborted[t]
  BY <1>1 DEF RequestInOnePlace, SingleIsQuiet, Outstanding, ReplyComesOnce
<1>5. IsInjective(port') /\ \A u : Contains(port', u) <=> Contains(port, u) \/ u = t
  BY <1>1, <1>4, AppendProperties DEF RequestInOnePlace, IsInjective, Contains
<1>6. RequestInOnePlace'
  BY <1>1, <1>4, <1>5 DEF RequestInOnePlace, SingleIsQuiet, Outstanding
<1>7. ReplyComesOnce' /\ TimeIsKept'
  BY <1>1, <1>4 DEF ReplyComesOnce, TimeIsKept
<1>8. DeviceIsWoken'
  BY <1>1, <1>4 DEF DeviceIsWoken, TypeOK
<1>9. QED
  BY <1>2, <1>3, <1>6, <1>7, <1>8

(* The device task is signalled.                                           *)
LEMMA NotifyIInv == ASSUME IInv, NEW t \in Task, Notify(t) PROVE IInv'
<1> USE BoundsAssumption, NoneAssumption DEF IInv, Notify, Goto
<1>1. /\ pc \in [Task -> {"closed", "run", "notify", "wait", "abort", "waitio", "join"}]
      /\ pc[t] = "notify" /\ pc' = [pc EXCEPT ![t] = "wait"]
      /\ devsig' = devsig \cup {"user"}
      /\ UNCHANGED <<refcount, devlock, port, reqs, flags, time, aborted, left,
                     sig, got, devpc, replying, waittime, lag>>
  BY DEF TypeOK, reqvars
<1>2. TypeOK'
  BY <1>1 DEF TypeOK
<1>3. UsersAreCounted' /\ LockHasHolder' /\ DeviceIsThere'
  BY <1>1, UsersStay
<1>4. RequestInOnePlace'
  BY <1>1 DEF RequestInOnePlace, SingleIsQuiet, Outstanding
<1>5. ReplyComesOnce' /\ TimeIsKept' /\ DeviceIsWoken'
  BY <1>1 DEF ReplyComesOnce, TimeIsKept, DeviceIsWoken
<1>6. QED
  BY <1>2, <1>3, <1>4, <1>5

(* TWait returns to TWaitTime.                                             *)
LEMMA WaitReturnIInv == ASSUME IInv, NEW t \in Task, WaitReturn(t) PROVE IInv'
<1> USE BoundsAssumption, NoneAssumption DEF IInv, WaitReturn, Goto
<1>1. /\ pc \in [Task -> {"closed", "run", "notify", "wait", "abort", "waitio", "join"}]
      /\ pc[t] = "wait" /\ pc' = [pc EXCEPT ![t] = "abort"]
      /\ UNCHANGED <<refcount, devlock, port, reqs, flags, time, aborted, left,
                     devsig, devpc, replying, waittime, lag>>
      /\ \A u \in Task : /\ sig'[u] = IF u = t THEN {} ELSE sig[u]
                         /\ got'[u] = IF u = t THEN sig[t] \ {"single"} ELSE got[u]
      /\ sig[t] # {}
  BY DEF TypeOK, reqvars, devvars
<1>2. TypeOK'
  BY <1>1 DEF TypeOK
<1>3. UsersAreCounted' /\ LockHasHolder' /\ DeviceIsThere'
  BY <1>1, UsersStay
<1>4. RequestInOnePlace'
  BY <1>1 DEF RequestInOnePlace, SingleIsQuiet, Outstanding
<1>5. sig[t] \ {"single"} = {} => "single" \in sig[t]
  BY <1>1
<1>6. ReplyComesOnce' /\ TimeIsKept' /\ DeviceIsWoken'
  BY <1>1, <1>5 DEF ReplyComesOnce, TimeIsKept, DeviceIsWoken
<1>7. QED
  BY <1>2, <1>3, <1>4, <1>6

(* The first two cases of hal_abortio: the task takes its request back and *)
(* replies to it itself.                                                   *)
LEMMA AbortReplies ==
  ASSUME IInv, NEW t \in Task, pc[t] = "abort", DeviceLockFree,
         flags[t] \in {"queued", "taken"},
         port' \in Seq(Task), IsInjective(port'),
         \A u : Contains(port', u) <=> Contains(port, u) /\ u # t,
         reqs' = reqs \ {t},
         devsig' \subseteq devsig \cup {"user"}, devsig \subseteq devsig',
         Reply(t, TRUE), Raise(t, "single"), Goto(t, "waitio"),
         UNCHANGED <<refcount, devlock, time, left, got, devpc, replying, waittime, lag>>
  PROVE  IInv'
<1> USE BoundsAssumption, NoneAssumption DEF IInv
<1>1. /\ pc \in [Task -> {"closed", "run", "notify", "wait", "abort", "waitio", "join"}]
      /\ pc' = [pc EXCEPT ![t] = "waitio"]
      /\ \A u \in Task : /\ flags'[u] = IF u = t THEN "replied" ELSE flags[u]
                         /\ aborted'[u] = IF u = t THEN TRUE ELSE aborted[u]
                         /\ sig'[u] = IF u = t THEN sig[t] \cup {"single"} ELSE sig[u]
  BY DEF TypeOK, Reply, Raise, Goto
<1>2. TypeOK'
  BY DEF TypeOK, Reply, Raise, Goto
<1>3. UsersAreCounted' /\ LockHasHolder' /\ DeviceIsThere'
  BY <1>1, UsersStay
<1>4. replying = None /\ got[t] # {}
  BY DEF DeviceLockFree, LockHasHolder, ReplyComesOnce
<1>5. RequestInOnePlace'
  BY <1>1, <1>4 DEF RequestInOnePlace, SingleIsQuiet, Outstanding
<1>6. ReplyComesOnce' /\ TimeIsKept' /\ DeviceIsWoken'
  BY <1>1, <1>4 DEF ReplyComesOnce, TimeIsKept, DeviceIsWoken
<1>7. QED
  BY <1>2, <1>3, <1>5, <1>6

(* hal_abortio.                                                            *)
LEMMA AbortIOIInv == ASSUME IInv, NEW t \in Task, AbortIO(t) PROVE IInv'
<1>1. CASE flags[t] = "queued"
  <2>1. PICK i \in DOMAIN port : port[i] = t /\ port' = RemoveAt(port, i)
    BY <1>1 DEF AbortIO
  <2>2. port \in Seq(Task) /\ IsInjective(port) /\ t \notin reqs /\ reqs \subseteq Task
    BY <1>1 DEF IInv, TypeOK, RequestInOnePlace
  <2>3. /\ port' \in Seq(Task) /\ IsInjective(port')
        /\ \A u : Contains(port', u) <=> Contains(port, u) /\ u # t
    BY <2>1, <2>2, RemoveOne
  <2>4. QED
    BY <1>1, <2>2, <2>3, AbortReplies DEF AbortIO
<1>2. CASE flags[t] = "taken"
  <2>1. port \in Seq(Task) /\ IsInjective(port) /\ ~ Contains(port, t)
    BY <1>2 DEF IInv, TypeOK, RequestInOnePlace
  <2>2. port' = port
    BY <1>2 DEF AbortIO
  <2>3. \A u : Contains(port', u) <=> Contains(port, u) /\ u # t
    BY <2>1, <2>2
  <2>4. QED
    BY <1>2, <2>1, <2>2, <2>3, AbortReplies DEF AbortIO
<1>3. CASE flags[t] = "replied"
  <2> USE BoundsAssumption, NoneAssumption DEF IInv
  <2>1. /\ pc \in [Task -> {"closed", "run", "notify", "wait", "abort", "waitio", "join"}]
        /\ pc[t] = "abort" /\ pc' = [pc EXCEPT ![t] = "waitio"] /\ devlock = None
        /\ UNCHANGED <<refcount, devlock, port, reqs, flags, aborted, sig, devsig, time,
                       left, got, devpc, replying, waittime, lag>>
    BY <1>3 DEF AbortIO, TypeOK, DeviceLockFree, Goto
  <2>2. TypeOK'
    BY <2>1 DEF TypeOK
  <2>3. UsersAreCounted' /\ LockHasHolder' /\ DeviceIsThere'
    BY <2>1, UsersStay
  <2>4. replying = None
    BY <2>1 DEF LockHasHolder, ReplyComesOnce
  <2>5. RequestInOnePlace'
    BY <2>1, <2>4 DEF RequestInOnePlace, SingleIsQuiet, Outstanding
  <2>6. ReplyComesOnce' /\ TimeIsKept' /\ DeviceIsWoken'
    BY <1>3, <2>1, <2>4 DEF ReplyComesOnce, TimeIsKept, DeviceIsWoken
  <2>7. QED
    BY <2>2, <2>3, <2>5, <2>6
<1>4. QED
  BY <1>1, <1>2, <1>3 DEF AbortIO

(* The end of TWaitTime.                                                   *)
LEMMA WaitIOIInv == ASSUME IInv, NEW t \in Task, WaitIO(t) PROVE IInv'
<1> USE BoundsAssumption, NoneAssumption DEF IInv
<1>1. /\ pc \in [Task -> {"closed", "run", "notify", "wait", "abort", "waitio", "join"}]
      /\ pc[t] = "waitio" /\ pc' = [pc EXCEPT ![t] = "run"] /\ flags[t] = "replied"
      /\ UNCHANGED <<refcount, devlock, port, reqs, devsig, devpc, replying, waittime, lag>>
      /\ \A u \in Task : /\ flags'[u] = IF u = t THEN "none" ELSE flags[u]
                         /\ time'[u] = IF u = t THEN 0 ELSE time[u]
                         /\ left'[u] = IF u = t THEN 0 ELSE left[u]
                         /\ aborted'[u] = IF u = t THEN FALSE ELSE aborted[u]
                         /\ sig'[u] = IF u = t THEN sig[t] \ {"single"} ELSE sig[u]
                         /\ got'[u] = IF u = t THEN {} ELSE got[u]
  BY DEF TypeOK, WaitIO, Goto, devvars
<1>2. TypeOK'
  BY <1>1 DEF TypeOK, WaitIO
<1>3. UsersAreCounted' /\ LockHasHolder' /\ DeviceIsThere'
  BY <1>1, UsersStay
<1>4. replying # t /\ t \notin reqs
  BY <1>1 DEF ReplyComesOnce, RequestInOnePlace
<1>5. RequestInOnePlace'
  BY <1>1, <1>4, ZenonT(30) DEF RequestInOnePlace, SingleIsQuiet, Outstanding
<1>6. ReplyComesOnce'
  BY <1>1, <1>4 DEF ReplyComesOnce
<1>7. TimeIsKept'
  BY <1>1 DEF TimeIsKept
<1>8. DeviceIsWoken'
  BY <1>1, <1>4 DEF DeviceIsWoken, TypeOK
<1>9. QED
  BY <1>2, <1>3, <1>5, <1>6, <1>7, <1>8

(* hal_close.                                                              *)
LEMMA CloseIInv == ASSUME IInv, NEW t \in Task, Close(t) PROVE IInv'
<1> USE BoundsAssumption, NoneAssumption DEF IInv, DeviceLockFree
<1>1. /\ pc \in [Task -> {"closed", "run", "notify", "wait", "abort", "waitio", "join"}]
      /\ pc[t] = "run" /\ devlock = None /\ refcount' = refcount - 1
      /\ pc' = [pc EXCEPT ![t] = IF refcount = 1 THEN "join" ELSE "closed"]
      /\ refcount = 1 => devlock' = t /\ devsig' = devsig \cup {"abort"}
      /\ refcount # 1 => UNCHANGED <<devlock, devsig>>
      /\ UNCHANGED <<port, reqs, flags, time, aborted, left, sig, got, devpc, replying,
                     waittime, lag>>
  BY DEF TypeOK, Close, reqvars, Goto
<1>2. t \in Users /\ Users' = Users \ {t} /\ t \notin Users'
  BY <1>1 DEF Users
<1>3. /\ refcount \in Nat \ {0} /\ UsersAreCounted'
      /\ refcount = 1 => Users' = {}
  <2>1. IsFiniteSet(Users) /\ refcount = Cardinality(Users)
    BY DEF UsersAreCounted
  <2>2. /\ IsFiniteSet(Users \ {t})
        /\ Cardinality(Users \ {t}) = Cardinality(Users) - 1
    BY <1>2, <2>1, FS_RemoveElement
  <2>3. Cardinality(Users) \in Nat /\ Cardinality(Users \ {t}) \in Nat
    BY <2>1, <2>2, FS_CardinalityType
  <2>4. Cardinality(Users \ {t}) = 0 => Users \ {t} = {}
    BY <2>2, FS_EmptySet
  <2>5. QED
    BY <1>1, <1>2, <2>1, <2>2, <2>3, <2>4 DEF UsersAreCounted
<1>4. TypeOK'
  <2>1. pc' \in [Task -> {"closed", "run", "notify", "wait", "abort", "waitio", "join"}]
    BY <1>1
  <2>2. devlock' \in Task \cup {None, "dev"} /\ devsig' \subseteq {"user", "abort"}
    BY <1>1 DEF TypeOK
  <2>3. refcount' \in Nat
    BY <1>1, <1>3
  <2>4. QED
    BY <1>1, <2>1, <2>2, <2>3 DEF TypeOK
<1>5. devpc \notin {"off", "ended"}
  BY <1>2 DEF DeviceIsThere
<1>6. LockHasHolder' /\ DeviceIsThere'
  BY <1>1, <1>2, <1>3, <1>5 DEF LockHasHolder, DeviceIsThere
<1>7. RequestInOnePlace'
  BY <1>1 DEF RequestInOnePlace, SingleIsQuiet, Outstanding
<1>8. ReplyComesOnce' /\ TimeIsKept' /\ DeviceIsWoken'
  BY <1>1 DEF ReplyComesOnce, TimeIsKept, DeviceIsWoken
<1>9. QED
  BY <1>3, <1>4, <1>6, <1>7, <1>8

(* The device task is joined.                                              *)
LEMMA JoinIInv == ASSUME IInv, NEW t \in Task, Join(t) PROVE IInv'
<1> USE BoundsAssumption, NoneAssumption DEF IInv
<1>1. /\ pc \in [Task -> {"closed", "run", "notify", "wait", "abort", "waitio", "join"}]
      /\ pc[t] = "join" /\ pc' = [pc EXCEPT ![t] = "closed"] /\ devpc = "ended"
      /\ devlock' = None /\ devpc' = "off"
      /\ UNCHANGED <<refcount, port, reqs, flags, time, aborted, left, sig, got, devsig,
                     replying, waittime, lag>>
  BY DEF TypeOK, Join, reqvars, Goto
<1>2. TypeOK'
  BY <1>1 DEF TypeOK
<1>3. Users' = Users /\ Users = {} /\ devlock = t
  BY <1>1 DEF Users, LockHasHolder, DeviceIsThere
<1>4. UsersAreCounted' /\ LockHasHolder' /\ DeviceIsThere'
  BY <1>1, <1>3 DEF UsersAreCounted, LockHasHolder, DeviceIsThere
<1>5. RequestInOnePlace'
  BY <1>1 DEF RequestInOnePlace, SingleIsQuiet, Outstanding
<1>6. ReplyComesOnce' /\ TimeIsKept' /\ DeviceIsWoken'
  BY <1>1 DEF ReplyComesOnce, TimeIsKept, DeviceIsWoken
<1>7. QED
  BY <1>2, <1>4, <1>5, <1>6

(* Another signal ends the wait.                                           *)
LEMMA OtherIInv == ASSUME IInv, NEW t \in Task, Other(t) PROVE IInv'
<1> USE BoundsAssumption, NoneAssumption DEF IInv
<1>1. /\ pc[t] \in {"notify", "wait"}
      /\ \A u \in Task : sig'[u] = IF u = t THEN sig[t] \cup {"other"} ELSE sig[u]
      /\ UNCHANGED <<refcount, devlock, port, reqs, flags, time, aborted, left, pc, got,
                     devsig, devpc, replying, waittime, lag>>
  BY DEF TypeOK, Other, Raise, reqvars, devvars
<1>2. TypeOK'
  BY <1>1 DEF TypeOK, Other, Raise
<1>3. UsersAreCounted' /\ LockHasHolder' /\ DeviceIsThere'
  BY <1>1, UsersStay
<1>4. RequestInOnePlace'
  BY <1>1 DEF RequestInOnePlace, SingleIsQuiet, Outstanding
<1>5. ReplyComesOnce' /\ TimeIsKept' /\ DeviceIsWoken'
  BY <1>1 DEF ReplyComesOnce, TimeIsKept, DeviceIsWoken
<1>6. QED
  BY <1>2, <1>3, <1>4, <1>5
-----------------------------------------------------------------------------
(* hal_devfunc wakes up, or ends.                                          *)
LEMMA DevWakeIInv == ASSUME IInv, DevWake PROVE IInv'
<1> USE BoundsAssumption, NoneAssumption DEF IInv
<1>1. /\ devpc = "wait" /\ devsig' = {}
      /\ devpc' = IF "abort" \in devsig THEN "ended" ELSE "lock"
      /\ UNCHANGED <<refcount, devlock, port, reqs, flags, time, aborted, left, sig, pc,
                     got, replying, waittime, lag>>
  BY DEF DevWake, reqvars, taskvars
<1>2. TypeOK'
  BY <1>1 DEF TypeOK
<1>3. Users' = Users
  BY <1>1 DEF Users
<1>4. UsersAreCounted' /\ LockHasHolder' /\ DeviceIsThere'
  BY <1>1, <1>3 DEF UsersAreCounted, LockHasHolder, DeviceIsThere
<1>5. RequestInOnePlace'
  BY <1>1 DEF RequestInOnePlace, SingleIsQuiet, Outstanding
<1>6. "abort" \in devsig => \A u \in Task : flags[u] = "none"
  BY DEF DeviceIsThere, LockHasHolder, Users, RequestInOnePlace, Outstanding
<1>7. ReplyComesOnce' /\ TimeIsKept' /\ DeviceIsWoken'
  BY <1>1, <1>6 DEF ReplyComesOnce, TimeIsKept, DeviceIsWoken
<1>8. QED
  BY <1>2, <1>4, <1>5, <1>7

(* Its pass begins.                                                        *)
LEMMA DevLockIInv == ASSUME IInv, DevLock PROVE IInv'
<1> USE BoundsAssumption, NoneAssumption DEF IInv
<1>1. /\ devpc = "lock" /\ devpc' = "drain" /\ devlock = None /\ devlock' = "dev"
      /\ waittime' = Infinity
      /\ UNCHANGED <<refcount, port, reqs, flags, time, aborted, left, sig, pc,
                     got, devsig, replying, lag>>
  BY DEF DevLock, DeviceLockFree, reqvars, taskvars
<1>2. TypeOK'
  BY <1>1 DEF TypeOK, Infinity
<1>3. Users' = Users
  BY <1>1 DEF Users
<1>4. UsersAreCounted' /\ LockHasHolder' /\ DeviceIsThere'
  BY <1>1, <1>3 DEF UsersAreCounted, LockHasHolder, DeviceIsThere
<1>5. RequestInOnePlace'
  BY <1>1 DEF RequestInOnePlace, SingleIsQuiet, Outstanding
<1>6. ReplyComesOnce' /\ TimeIsKept' /\ DeviceIsWoken'
  BY <1>1 DEF ReplyComesOnce, TimeIsKept, DeviceIsWoken
<1>7. QED
  BY <1>2, <1>4, <1>5, <1>6

(* It takes a request from its port ...                                    *)
LEMMA DevGetIInv == ASSUME IInv, DevGet PROVE IInv'
<1> USE BoundsAssumption, NoneAssumption DEF IInv
<1> DEFINE t == Head(port)
<1>1. /\ devpc = "drain" /\ port # <<>> /\ port \in Seq(Task) /\ port' = Tail(port)
      /\ reqs' = reqs \cup {t}
      /\ UNCHANGED <<refcount, devlock, aborted, left, sig, pc, got, devsig, devpc,
                     replying, waittime, lag>>
  BY DEF DevGet, TypeOK, taskvars, devvars
<1>2. /\ t \in Task /\ port' \in Seq(Task) /\ IsInjective(port')
      /\ \A u : Contains(port', u) <=> Contains(port, u) /\ u # t
  <2>1. /\ Len(port') = Len(port) - 1 /\ port' \in Seq(Task)
        /\ \A k \in 1..Len(port') : port'[k] = port[k + 1]
        /\ Len(port) \in Nat /\ Len(port) > 0 /\ t = port[1] /\ t \in Task
    BY <1>1, HeadTailProperties
  <2>2. DOMAIN port = 1..Len(port) /\ DOMAIN port' = 1..Len(port')
    BY <1>1, <2>1
  <2>3. \A j, k \in 1..Len(port) : port[j] = port[k] => j = k
    BY <2>2 DEF RequestInOnePlace, IsInjective
  <2> HIDE DEF t
  <2>4. IsInjective(port')
    <3>1. ASSUME NEW j \in 1..Len(port'), NEW k \in 1..Len(port'), port'[j] = port'[k]
          PROVE  j = k
      <4>1. j + 1 \in 1..Len(port) /\ k + 1 \in 1..Len(port) /\ port[j + 1] = port[k + 1]
        BY <2>1, <3>1
      <4>2. j + 1 = k + 1
        BY <2>3, <4>1
      <4>3. QED
        BY <4>2
    <3>2. QED
      BY <2>2, <3>1 DEF IsInjective
  <2>5. ASSUME NEW u PROVE Contains(port', u) <=> Contains(port, u) /\ u # t
    <3>1. ASSUME NEW k \in 1..Len(port'), port'[k] = u
          PROVE  k + 1 \in 1..Len(port) /\ port[k + 1] = u /\ u # t
      <4>1. k + 1 \in 1..Len(port) /\ port[k + 1] = u /\ 1 \in 1..Len(port) /\ k + 1 # 1
        BY <2>1, <3>1
      <4>2. QED
        BY <2>1, <2>3, <4>1
    <3>2. ASSUME NEW j \in 1..Len(port), port[j] = u, u # t
          PROVE  j - 1 \in 1..Len(port') /\ port'[j - 1] = u
      <4>1. j # 1
        BY <2>1, <3>2
      <4>2. j - 1 \in 1..Len(port') /\ (j - 1) + 1 = j
        BY <2>1, <4>1
      <4>3. QED
        BY <2>1, <3>2, <4>2
    <3>3. QED
      BY <3>1, <3>2 DEF Contains
  <2>6. QED
    BY <2>1, <2>4, <2>5
<1>3. /\ \A u \in Task : /\ flags'[u] = IF u = t THEN "taken" ELSE flags[u]
                         /\ time'[u] = IF u = t THEN time[t] - lag ELSE time[u]
      /\ flags' = [flags EXCEPT ![t] = "taken"]
      /\ time' = [time EXCEPT ![t] = time[t] - lag]
  BY <1>2 DEF DevGet, TypeOK
<1> HIDE DEF t
<1>4. /\ flags[t] = "queued" /\ t \notin reqs
      /\ left[t] \in Nat /\ left[t] <= time[t] /\ lag \in 0..MaxLag /\ MaxLag \in Nat
      /\ time[t] \in (-MaxLag)..MaxDt
  <2>1. Contains(port, t)
    <3>1. 1 \in 1..Len(port) /\ t = port[1]
      BY <1>1 DEF t
    <3>2. QED
      BY <3>1 DEF Contains
  <2>2. QED
    BY <1>2, <2>1 DEF RequestInOnePlace, TimeIsKept, TypeOK
<1>5. /\ time[t] - lag \in (-MaxLag)..MaxDt
      /\ left[t] <= time[t] - lag + MaxLag
  BY <1>4
<1>6. TypeOK'
  BY <1>1, <1>2, <1>3, <1>5 DEF TypeOK
<1>7. UsersAreCounted' /\ LockHasHolder' /\ DeviceIsThere'
  BY <1>1, UsersStay
<1>8. RequestInOnePlace'
  BY <1>1, <1>2, <1>3, <1>4 DEF RequestInOnePlace, SingleIsQuiet, Outstanding
<1>9. ReplyComesOnce'
  BY <1>1, <1>3, <1>4 DEF ReplyComesOnce
<1>10. TimeIsKept'
  BY <1>1, <1>3, <1>5 DEF TimeIsKept
<1>11. DeviceIsWoken'
  BY <1>1, <1>3 DEF DeviceIsWoken
<1>12. QED
  BY <1>6, <1>7, <1>8, <1>9, <1>10, <1>11

(* ... until there are no more.                                            *)
LEMMA DevScanIInv == ASSUME IInv, DevScan PROVE IInv'
<1> USE BoundsAssumption, NoneAssumption DEF IInv
<1>1. /\ devpc = "drain" /\ devpc' = "scan" /\ port = <<>>
      /\ UNCHANGED <<refcount, devlock, port, reqs, flags, time, aborted, left, sig, pc,
                     got, devsig, replying, waittime, lag>>
  BY DEF DevScan, reqvars, taskvars
<1>2. TypeOK'
  BY <1>1 DEF TypeOK
<1>3. Users' = Users
  BY <1>1 DEF Users
<1>4. UsersAreCounted' /\ LockHasHolder' /\ DeviceIsThere'
  BY <1>1, <1>3 DEF UsersAreCounted, LockHasHolder, DeviceIsThere
<1>5. RequestInOnePlace'
  BY <1>1 DEF RequestInOnePlace, SingleIsQuiet, Outstanding
<1>6. \A u \in Task : flags[u] # "queued"
  BY <1>1 DEF RequestInOnePlace, Contains
<1>7. ReplyComesOnce' /\ TimeIsKept' /\ DeviceIsWoken'
  BY <1>1, <1>6 DEF ReplyComesOnce, TimeIsKept, DeviceIsWoken
<1>8. QED
  BY <1>2, <1>4, <1>5, <1>7

(* It replies to an expired request ...                                    *)
LEMMA DevReplyIInv == ASSUME IInv, NEW t \in Task, DevReply(t) PROVE IInv'
<1> USE BoundsAssumption, NoneAssumption DEF IInv
<1>1. /\ devpc = "scan" /\ devpc' = "signal" /\ t \in reqs /\ reqs' = reqs \ {t}
      /\ time[t] + lag <= 0 /\ replying' = t
      /\ UNCHANGED <<refcount, devlock, port, time, left, sig, pc, got, devsig,
                     waittime, lag>>
      /\ \A u \in Task : /\ flags'[u] = IF u = t THEN "replied" ELSE flags[u]
                         /\ aborted'[u] = IF u = t THEN FALSE ELSE aborted[u]
  BY DEF DevReply, Expired, Reply, TypeOK, taskvars
<1>2. /\ flags[t] = "taken" /\ Outstanding(t) /\ pc[t] # "waitio" /\ replying = None
      /\ left[t] <= time[t] + MaxLag
      /\ ~ (pc[t] \in {"abort", "waitio"} /\ got[t] = {})
  BY <1>1 DEF RequestInOnePlace, ReplyComesOnce, TimeIsKept
<1>3. left[t] <= MaxLag
  <2>1. left[t] \in Int /\ time[t] \in Int /\ lag \in Nat /\ MaxLag \in Nat
    BY DEF TypeOK
  <2>2. QED
    BY <1>1, <1>2, <2>1
<1>4. TypeOK'
  BY <1>1 DEF TypeOK, DevReply, Reply
<1>5. Users' = Users
  BY <1>1 DEF Users
<1>6. UsersAreCounted' /\ LockHasHolder' /\ DeviceIsThere'
  BY <1>1, <1>5 DEF UsersAreCounted, LockHasHolder, DeviceIsThere
<1>7. RequestInOnePlace'
  BY <1>1, <1>2 DEF RequestInOnePlace, SingleIsQuiet, Outstanding
<1>8. ReplyComesOnce'
  <2>1. \A u \in Task : u # t => flags'[u] = flags[u] /\ aborted'[u] = aborted[u]
    BY <1>1
  <2>2. flags'[t] = "replied" /\ ~ aborted'[t] /\ t # None
    BY <1>1
  <2>3. pc[t] \in {"notify", "wait", "abort"}
    BY <1>2 DEF Outstanding
  <2>4. QED
    BY <1>1, <1>2, <2>1, <2>2, <2>3 DEF ReplyComesOnce
<1>9. TimeIsKept'
  BY <1>1, <1>3 DEF TimeIsKept
<1>10. DeviceIsWoken'
  BY <1>1 DEF DeviceIsWoken
<1>11. QED
  BY <1>4, <1>6, <1>7, <1>8, <1>9, <1>10

(* ... and signals its task.                                               *)
LEMMA DevSignalIInv == ASSUME IInv, DevSignal PROVE IInv'
<1> USE BoundsAssumption, NoneAssumption DEF IInv
<1>1. /\ devpc = "signal" /\ devpc' = "scan" /\ replying' = None /\ replying \in Task
      /\ UNCHANGED <<refcount, devlock, port, reqs, flags, time, aborted, left, pc, got,
                     devsig, waittime, lag>>
      /\ \A u \in Task : sig'[u] = IF u = replying THEN sig[u] \cup {"single"} ELSE sig[u]
  BY DEF DevSignal, Raise, TypeOK, ReplyComesOnce, reqvars
<1>2. TypeOK'
  BY <1>1 DEF TypeOK, DevSignal, Raise
<1>3. Users' = Users
  BY <1>1 DEF Users
<1>4. UsersAreCounted' /\ LockHasHolder' /\ DeviceIsThere'
  BY <1>1, <1>3 DEF UsersAreCounted, LockHasHolder, DeviceIsThere
<1>5. RequestInOnePlace'
  BY <1>1 DEF RequestInOnePlace, SingleIsQuiet, Outstanding, ReplyComesOnce
<1>6. ReplyComesOnce' /\ TimeIsKept' /\ DeviceIsWoken'
  BY <1>1 DEF ReplyComesOnce, TimeIsKept, DeviceIsWoken
<1>7. QED
  BY <1>2, <1>4, <1>5, <1>6

(* Its pass ends.                                                          *)
LEMMA DevUnlockIInv == ASSUME IInv, DevUnlock PROVE IInv'
<1> USE BoundsAssumption, NoneAssumption DEF IInv
<1> DEFINE ends == {Max({time[t], 0}) : t \in reqs} \cup {Infinity}
<1>1. /\ devpc = "scan" /\ devpc' = "wait" /\ devlock' = None /\ lag' = 0
      /\ waittime' = Min(ends)
      /\ UNCHANGED <<refcount, port, reqs, flags, time, aborted, left, sig, pc, got,
                     devsig, replying>>
  BY DEF DevUnlock, reqvars, taskvars
<1>2. \A t \in reqs : /\ time[t] \in Int
                      /\ Max({time[t], 0}) = IF time[t] >= 0 THEN time[t] ELSE 0
  <2>1. ASSUME NEW t \in reqs PROVE time[t] \in Int
    BY DEF TypeOK
  <2>2. QED
    BY <2>1, MaxOfTwo
<1>3. Infinity \in Nat
  BY DEF Infinity
<1>4. ends \in SUBSET Nat /\ Infinity \in ends
  <2>1. \A t \in reqs : Max({time[t], 0}) \in Nat
    BY <1>2
  <2>2. QED
    BY <1>3, <2>1
<1>5. waittime' \in ends /\ \A y \in ends : waittime' <= y
  <2> HIDE DEF ends
  <2>1. QED
    BY <1>1, <1>4, MinOfNat
<1>6. waittime' \in 0..Infinity
  <2> HIDE DEF ends
  <2>1. waittime' \in Nat /\ waittime' <= Infinity
    BY <1>4, <1>5
  <2>2. QED
    BY <1>3, <2>1
<1>7. \A t \in reqs : waittime' <= time[t] \/ waittime' <= 0
  <2>1. ASSUME NEW t \in reqs PROVE waittime' <= time[t] \/ waittime' <= 0
    <3>1. waittime' <= Max({time[t], 0})
      BY <1>5
    <3>2. QED
      BY <1>2, <3>1
  <2>2. QED
    BY <2>1
<1> HIDE DEF ends
<1>8. TypeOK'
  BY <1>1, <1>6 DEF TypeOK
<1>9. Users' = Users
  BY <1>1 DEF Users
<1>10. UsersAreCounted' /\ LockHasHolder' /\ DeviceIsThere'
  BY <1>1, <1>9 DEF UsersAreCounted, LockHasHolder, DeviceIsThere
<1>11. RequestInOnePlace'
  BY <1>1 DEF RequestInOnePlace, SingleIsQuiet, Outstanding
<1>12. ReplyComesOnce' /\ TimeIsKept'
  BY <1>1 DEF ReplyComesOnce, TimeIsKept
<1>13. DeviceIsWoken'
  BY <1>1, <1>7 DEF DeviceIsWoken
<1>14. QED
  BY <1>8, <1>10, <1>11, <1>12, <1>13

(* Time passes.                                                            *)
LEMMA TickIInv == ASSUME IInv, Tick PROVE IInv'
<1> USE BoundsAssumption, NoneAssumption DEF IInv
<1>1. UNCHANGED <<refcount, devlock, port, reqs, flags, aborted, sig, pc, got, devsig,
                  devpc, replying>>
  BY DEF Tick, taskvars
<1>2. /\ MaxLag \in Nat /\ MaxDt \in Nat /\ Infinity = MaxDt + 1
      /\ lag \in 0..MaxLag /\ waittime \in 0..Infinity
      /\ \A u \in Task : time[u] \in (-MaxLag)..MaxDt /\ left[u] \in 0..MaxDt
  BY DEF TypeOK, Infinity
<1>3. \A u \in Task :
        /\ time'[u] = IF u \in reqs THEN IF time[u] - 1 >= -MaxLag THEN time[u] - 1
                                         ELSE -MaxLag
                      ELSE time[u]
        /\ left'[u] = IF flags[u] \in {"queued", "taken"} /\ left[u] > 0 THEN left[u] - 1
                      ELSE left[u]
  <2>1. ASSUME NEW u \in Task
        PROVE  Max({time[u] - 1, -MaxLag}) =
                 IF time[u] - 1 >= -MaxLag THEN time[u] - 1 ELSE -MaxLag
    BY <1>2, MaxOfTwo
  <2>2. QED
    BY <2>1 DEF Tick
<1>4. \A u \in Task : time'[u] \in (-MaxLag)..MaxDt /\ left'[u] \in 0..MaxDt
  <2>1. ASSUME NEW u \in Task
        PROVE  time'[u] \in (-MaxLag)..MaxDt /\ left'[u] \in 0..MaxDt
    <3>1. time[u] - 1 \in Int /\ left[u] - 1 \in Int
      BY <1>2
    <3>2. QED
      BY <1>2, <1>3, <3>1
  <2>2. QED
    BY <2>1
<1>5. /\ lag' \in 0..MaxLag
      /\ waittime' = IF waittime \in {0, Infinity} THEN waittime ELSE waittime - 1
  BY <1>2 DEF Tick, LockHasHolder
<1>6. TypeOK'
  <2>1. time' \in [Task -> (-MaxLag)..MaxDt] /\ left' \in [Task -> 0..MaxDt]
    BY <1>4 DEF Tick
  <2>2. waittime' \in 0..Infinity
    BY <1>2, <1>5
  <2>3. QED
    BY <1>1, <1>5, <2>1, <2>2 DEF TypeOK
<1>7. UsersAreCounted' /\ LockHasHolder' /\ DeviceIsThere'
  BY <1>1, UsersStay
<1>8. RequestInOnePlace' /\ ReplyComesOnce'
  BY <1>1 DEF RequestInOnePlace, SingleIsQuiet, Outstanding, ReplyComesOnce
<1>9. TimeIsKept'
  <2>1. ASSUME NEW u \in Task
        PROVE  /\ flags[u] = "queued" => left'[u] <= time'[u]
               /\ flags[u] = "taken" => left'[u] <= time'[u] + MaxLag
               /\ flags[u] = "replied" /\ ~aborted[u] => left'[u] <= MaxLag
    <3>1. /\ flags[u] = "queued" => left[u] <= time[u] /\ u \notin reqs
          /\ flags[u] = "taken" => left[u] <= time[u] + MaxLag /\ u \in reqs
          /\ flags[u] = "replied" /\ ~aborted[u] => left[u] <= MaxLag
      BY DEF TimeIsKept, RequestInOnePlace
    <3>2. time[u] \in Int /\ left[u] \in Nat /\ time[u] >= -MaxLag /\ MaxLag \in Nat
      BY <1>2
    <3>3. CASE flags[u] = "queued"
      BY <1>3, <3>1, <3>2, <3>3
    <3>4. CASE flags[u] = "taken"
      BY <1>3, <3>1, <3>2, <3>4
    <3>5. CASE flags[u] \notin {"queued", "taken"}
      BY <1>3, <3>1, <3>5
    <3>6. QED
      BY <3>3, <3>4, <3>5
  <2>2. QED
    BY <1>1, <2>1 DEF TimeIsKept
<1>10. DeviceIsWoken'
  <2>1. ASSUME NEW u \in reqs, waittime <= time[u] \/ waittime <= 0
        PROVE  waittime' <= time'[u] \/ waittime' <= 0
    <3>1. u \in Task
      BY DEF TypeOK
    <3>2. /\ waittime \in 0..(MaxDt + 1) /\ MaxDt \in Nat /\ MaxLag \in Nat
          /\ time[u] \in (-MaxLag)..MaxDt
          /\ time'[u] >= time[u] - 1
          /\ time'[u] \in Int
          /\ waittime' = IF waittime \in {0, MaxDt + 1} THEN waittime ELSE waittime - 1
      BY <1>2, <1>3, <1>5, <3>1
    <3>3. waittime = 0 \/ (waittime # 0 /\ waittime <= time[u] /\ waittime # MaxDt + 1)
      BY <2>1, <3>2
    <3>4. QED
      BY <3>2, <3>3
  <2>2. QED
    BY <1>1, <2>1 DEF DeviceIsWoken
<1>11. QED
  BY <1>6, <1>7, <1>8, <1>9, <1>10
-----------------------------------------------------------------------------
(* No step disturbs the inductive invariant.                               *)
LEMMA NextIInv == IInv /\ [Next]_vars => IInv'
<1> SUFFICES ASSUME IInv, [Next]_vars PROVE IInv'
  OBVIOUS
<1>1. CASE Tick
  BY <1>1, TickIInv
<1>2. CASE DevNext
  BY <1>2, DevWakeIInv, DevLockIInv, DevGetIInv, DevScanIInv, DevReplyIInv, DevSignalIInv,
     DevUnlockIInv DEF DevNext
<1>3. ASSUME NEW t \in Task, TaskNext(t) PROVE IInv'
  BY <1>3, OpenIInv, CloseIInv, JoinIInv, OtherIInv, WaitTimeIInv, NotifyIInv,
     WaitReturnIInv, AbortIOIInv, WaitIOIInv DEF TaskNext
<1>4. CASE UNCHANGED vars
  <2>1. Users' = Users
    BY <1>4 DEF vars, Users
  <2>2. QED
    BY <1>4, <2>1 DEF vars, IInv, TypeOK, UsersAreCounted, LockHasHolder, DeviceIsThere,
       RequestInOnePlace, SingleIsQuiet, Outstanding, ReplyComesOnce, TimeIsKept,
       DeviceIsWoken
<1>5. QED
  BY <1>1, <1>2, <1>3, <1>4 DEF Next

(* The inductive invariant holds.                                          *)
THEOREM DeviceInvariant == Spec => []IInv
BY InitIInv, NextIInv, PTL DEF Spec

(* Expiry and abort: a request is where its flags say, is answered once,   *)
(* and nothing of a wait is left behind when TWaitTime returns.            *)
THEOREM RequestInOnePlaceHolds == Spec => []RequestInOnePlace
<1>1. IInv => RequestInOnePlace
  BY DEF IInv
<1>2. QED
  BY <1>1, DeviceInvariant, PTL

(* TWaitTime without a signal means that the time is over.                 *)
THEOREM NoSignalMeansExpiredHolds == Spec => []NoSignalMeansExpired
<1>1. IInv => NoSignalMeansExpired
  BY DEF IInv, ReplyComesOnce, TimeIsKept, NoSignalMeansExpired
<1>2. QED
  BY <1>1, DeviceInvariant, PTL

(* The device task is there for its users, and does not oversleep.         *)
THEOREM DeviceIsAlertHolds == Spec => []DeviceIsAlert
<1>1. IInv => DeviceIsAlert
  <2> SUFFICES ASSUME IInv PROVE DeviceIsAlert
    OBVIOUS
  <2>1. Users # {} => devpc \notin {"off", "ended"} /\ "abort" \notin devsig
    BY DEF IInv, DeviceIsThere, LockHasHolder
  <2>2. ASSUME devpc = "wait", NEW t \in reqs PROVE waittime <= Max({time[t], 0})
    <3>1. /\ time[t] \in Int /\ waittime \in Int
          /\ waittime <= time[t] \/ waittime <= 0
      BY <2>2, BoundsAssumption DEF IInv, TypeOK, Infinity, DeviceIsWoken
    <3>2. Max({time[t], 0}) = IF time[t] >= 0 THEN time[t] ELSE 0
      BY <3>1, MaxOfTwo
    <3>3. QED
      BY <3>1, <3>2
  <2>3. QED
    BY <2>1, <2>2 DEF IInv, DeviceIsWoken, DeviceIsAlert
<1>2. QED
  BY <1>1, DeviceInvariant, PTL
-----------------------------------------------------------------------------
(* On POSIX the property and the types are inductive as they are.          *)
PosixInv == Posix!TypeOK /\ Posix!NoLostWakeup

(* On Win32 a timed wait looks at the clock before it sleeps: it must not  *)
(* have missed the event by then either, ...                               *)
SleeperIsCalled ==
  \A t \in Thread :
    at[t] \in {"timeleft", "asleep"} /\ sigstate[t] \cap mask[t] # {} =>
      event[t] \/ \E s \in Thread : t \in raising[s]

(* ... and no other wait does.                                             *)
ClockIsForTimed == \A t \in Thread : at[t] = "timeleft" => timed[t]

(* On Win32 they need both.                                                *)
Win32Inv == Win32!TypeOK /\ SleeperIsCalled /\ ClockIsForTimed

(* The inductive invariant. *)
HalIInv ==
  /\ host \in {"posix", "win32"}
  /\ host = "posix" => PosixInv
  /\ host = "win32" => Win32Inv

(* Both hosts begin without signals and waits.                             *)
LEMMA InitHal == HalInit => HalIInv
BY DEF HalInit, HalIInv, PosixInv, Win32Inv, Win32!Init, Posix!TypeOK, Win32!TypeOK,
       Posix!NoLostWakeup, SleeperIsCalled, ClockIsForTimed
-----------------------------------------------------------------------------
(* On POSIX a signal with a new bit wakes the sleeper, and a sleeper has   *)
(* taken all that it waits for.                                            *)
LEMMA PosixIInv == PosixInv /\ Posix!Next => PosixInv'
<1> SUFFICES ASSUME PosixInv, NEW t \in Thread,
      \/ \E S \in SUBSET Signal : Posix!HalSignal(t, S)
      \/ \E S, m \in SUBSET Signal : Posix!HalSetSignal(t, S, m)
      \/ \E m \in SUBSET Signal, timeout \in BOOLEAN : Posix!HalWait(t, m, timeout)
      \/ Posix!TestSigState(t) \/ Posix!SpuriousWakeup(t) \/ Posix!TimedOut(t)
    PROVE PosixInv'
  BY DEF Posix!Next
<1> USE DEF PosixInv, Posix!TypeOK, Posix!NoLostWakeup
<1>1. CASE \E S \in SUBSET Signal : Posix!HalSignal(t, S)
  BY <1>1 DEF Posix!HalSignal, Posix!Publish, Posix!CondSignal
<1>2. CASE \E S, m \in SUBSET Signal : Posix!HalSetSignal(t, S, m)
  BY <1>2 DEF Posix!HalSetSignal, Posix!Publish, Posix!CondSignal
<1>3. CASE \E m \in SUBSET Signal, timeout \in BOOLEAN : Posix!HalWait(t, m, timeout)
  BY <1>3 DEF Posix!HalWait
<1>4. CASE Posix!TestSigState(t)
  BY <1>4 DEF Posix!TestSigState, Posix!Return
<1>5. CASE Posix!SpuriousWakeup(t)
  BY <1>5 DEF Posix!SpuriousWakeup
<1>6. CASE Posix!TimedOut(t)
  BY <1>6 DEF Posix!TimedOut, Posix!Return
<1>7. QED
  BY <1>1, <1>2, <1>3, <1>4, <1>5, <1>6

(* On Win32 whoever adds a bit has the event still to set, and only the    *)
(* sleeper itself, which then tests again, resets it.                      *)
LEMMA Win32IInv == Win32Inv /\ Win32!Next => Win32Inv'
<1> SUFFICES ASSUME Win32Inv, Win32!Next PROVE Win32Inv'
  OBVIOUS
<1> USE DEF Win32Inv, Win32!TypeOK, SleeperIsCalled, ClockIsForTimed
<1> PICK t \in Thread :
      \/ \E s \in Thread, S \in SUBSET Signal : Win32!HalSignal(s, t, S)
      \/ Win32!SetEvent(t)
      \/ \E S, m \in SUBSET Signal : Win32!HalSetSignal(t, S, m)
      \/ Win32!PublishSignal(t)
      \/ \E m \in SUBSET Signal, timeout \in BOOLEAN : Win32!HalWait(t, m, timeout)
      \/ Win32!TestSigState(t) \/ Win32!TimeLeft(t) \/ Win32!TimedOut(t)
      \/ Win32!WakeUp(t) \/ Win32!SleepTimedOut(t)
  BY DEF Win32!Next
<1>1. CASE \E s \in Thread, S \in SUBSET Signal : Win32!HalSignal(s, t, S)
  BY <1>1 DEF Win32!HalSignal, Win32!Running
<1>2. CASE Win32!SetEvent(t)
  BY <1>2 DEF Win32!SetEvent
<1>3. CASE \E S, m \in SUBSET Signal : Win32!HalSetSignal(t, S, m)
  BY <1>3 DEF Win32!HalSetSignal, Win32!Running
<1>4. CASE Win32!PublishSignal(t)
  BY <1>4 DEF Win32!PublishSignal
<1>5. CASE \E m \in SUBSET Signal, timeout \in BOOLEAN : Win32!HalWait(t, m, timeout)
  BY <1>5 DEF Win32!HalWait, Win32!Running
<1>6. CASE Win32!TestSigState(t)
  BY <1>6 DEF Win32!TestSigState, Win32!Return
<1>7. CASE Win32!TimeLeft(t)
  BY <1>7 DEF Win32!TimeLeft
<1>8. CASE Win32!TimedOut(t)
  BY <1>8 DEF Win32!TimedOut, Win32!Return
<1>9. CASE Win32!WakeUp(t)
  BY <1>9 DEF Win32!WakeUp
<1>10. CASE Win32!SleepTimedOut(t)
  BY <1>10 DEF Win32!SleepTimedOut
<1>11. QED
  BY <1>1, <1>2, <1>3, <1>4, <1>5, <1>6, <1>7, <1>8, <1>9, <1>10

(* Every step of either host preserves the invariant, ... *)
LEMMA NextHal == HalIInv /\ [HalNext]_halvars => HalIInv'
<1> SUFFICES ASSUME HalIInv, [HalNext]_halvars PROVE HalIInv'
  OBVIOUS
<1>1. CASE OnPosix(Posix!Next)
  BY <1>1, PosixIInv DEF HalIInv, OnPosix
<1>2. CASE OnWin32(Win32!Next)
  BY <1>2, Win32IInv DEF HalIInv, OnWin32
<1>3. CASE UNCHANGED halvars
  BY <1>3 DEF halvars, HalIInv, PosixInv, Win32Inv, Posix!TypeOK, Posix!NoLostWakeup,
              Win32!TypeOK, SleeperIsCalled, ClockIsForTimed
<1>4. QED
  BY <1>1, <1>2, <1>3 DEF HalNext

(* ... so it always holds. *)
THEOREM SignalInvariant == HalSpec => []HalIInv
  BY InitHal, NextHal, PTL DEF HalSpec

(* On either host, a thread that sleeps over an awaited signal is called.  *)
THEOREM NoLostWakeupHolds == HalSpec => []NoLostWakeup
<1>1. HalIInv => NoLostWakeup
  BY DEF HalIInv, PosixInv, Win32Inv, NoLostWakeup, Win32!NoLostWakeup, SleeperIsCalled
<1>2. QED
  BY SignalInvariant, <1>1, PTL
-----------------------------------------------------------------------------
(* A step of the POSIX HAL is one of TaskSignals, or invisible there.      *)
LEMMA PosixStep == PosixInv /\ Posix!Next => [Abstract!Next]_(Abstract!vars)
<1> SUFFICES ASSUME PosixInv, NEW t \in Thread,
      \/ \E S \in SUBSET Signal : Posix!HalSignal(t, S)
      \/ \E S, m \in SUBSET Signal : Posix!HalSetSignal(t, S, m)
      \/ \E m \in SUBSET Signal, timeout \in BOOLEAN : Posix!HalWait(t, m, timeout)
      \/ Posix!TestSigState(t) \/ Posix!SpuriousWakeup(t) \/ Posix!TimedOut(t)
    PROVE [Abstract!Next]_(Abstract!vars)
  BY DEF Posix!Next
<1> USE DEF PosixInv, Posix!TypeOK
<1>1. ASSUME NEW S \in SUBSET Signal, Posix!HalSignal(t, S)
      PROVE  Abstract!Raise(t, S)
  BY <1>1 DEF Posix!HalSignal, Posix!Publish, Abstract!Raise
<1>2. ASSUME NEW S \in SUBSET Signal, NEW m \in SUBSET Signal,
             Posix!HalSetSignal(t, S, m)
      PROVE  Abstract!Replace(t, S \cap m, m)
  <2>1. m \ S = m \ (S \cap m)
    OBVIOUS
  <2>2. QED
    BY <1>2, <2>1 DEF Posix!HalSetSignal, Posix!Publish, Abstract!Replace
<1>3. ASSUME NEW m \in SUBSET Signal, NEW timeout \in BOOLEAN,
             Posix!HalWait(t, m, timeout)
      PROVE  Abstract!BeginWait(t, m, timeout)
  BY <1>3 DEF Posix!HalWait, Abstract!BeginWait
<1>4. ASSUME Posix!TestSigState(t)
      PROVE  Abstract!EndWait(t) \/ UNCHANGED Abstract!vars
  <2>1. CASE sigstate[t] \cap mask[t] # {}
    BY <1>4, <2>1 DEF Posix!TestSigState, Posix!Return, Abstract!EndWait
  <2>2. CASE sigstate[t] \cap mask[t] = {}
    <3>1. sigstate[t] \ mask[t] = sigstate[t]
      BY <2>2
    <3>2. QED
      BY <1>4, <2>2, <3>1 DEF Posix!TestSigState, Abstract!vars
  <2>3. QED
    BY <2>1, <2>2
<1>5. ASSUME Posix!SpuriousWakeup(t)
      PROVE  UNCHANGED Abstract!vars
  BY <1>5 DEF Posix!SpuriousWakeup, Abstract!vars
<1>6. ASSUME Posix!TimedOut(t)
      PROVE  Abstract!Timeout(t)
  BY <1>6 DEF Posix!TimedOut, Posix!Return, Abstract!Timeout
<1>7. CASE \E S, m \in SUBSET Signal : Posix!HalSetSignal(t, S, m)
  <2>1. PICK S \in SUBSET Signal, m \in SUBSET Signal : Abstract!Replace(t, S \cap m, m)
    BY <1>2, <1>7
  <2>2. S \cap m \in SUBSET Signal
    OBVIOUS
  <2>3. QED
    BY <2>1, <2>2 DEF Abstract!Next
<1>8. QED
  BY <1>1, <1>3, <1>4, <1>5, <1>6, <1>7 DEF Abstract!Next

(* So is one of the Win32 HAL: hal_setsignal there first only takes, and   *)
(* adds its signals later, as anybody could.                               *)
LEMMA Win32Step == Win32Inv /\ Win32!Next => [Abstract!Next]_(Abstract!vars)
<1> SUFFICES ASSUME Win32Inv, Win32!Next PROVE [Abstract!Next]_(Abstract!vars)
  OBVIOUS
<1> USE DEF Win32Inv, Win32!TypeOK, ClockIsForTimed
<1> PICK t \in Thread :
      \/ \E s \in Thread, S \in SUBSET Signal : Win32!HalSignal(s, t, S)
      \/ Win32!SetEvent(t)
      \/ \E S, m \in SUBSET Signal : Win32!HalSetSignal(t, S, m)
      \/ Win32!PublishSignal(t)
      \/ \E m \in SUBSET Signal, timeout \in BOOLEAN : Win32!HalWait(t, m, timeout)
      \/ Win32!TestSigState(t) \/ Win32!TimeLeft(t) \/ Win32!TimedOut(t)
      \/ Win32!WakeUp(t) \/ Win32!SleepTimedOut(t)
  BY DEF Win32!Next
<1>1. ASSUME NEW s \in Thread, NEW S \in SUBSET Signal, Win32!HalSignal(s, t, S)
      PROVE  Abstract!Raise(t, S)
  BY <1>1 DEF Win32!HalSignal, Abstract!Raise
<1>2. ASSUME NEW S \in SUBSET Signal, NEW m \in SUBSET Signal,
             Win32!HalSetSignal(t, S, m)
      PROVE  Abstract!Replace(t, S \cap sigstate[t], m)
  <2>1. (sigstate[t] \ m) \cup (S \cap sigstate[t]) = sigstate[t] \ (m \ S)
    BY <1>2 DEF Win32!HalSetSignal
  <2>2. sigstate[t] \cap (m \ (S \cap sigstate[t])) = sigstate[t] \cap (m \ S)
    OBVIOUS
  <2>3. QED
    BY <1>2, <2>1, <2>2 DEF Win32!HalSetSignal, Win32!Running, Abstract!Replace
<1>3. ASSUME Win32!PublishSignal(t)
      PROVE  Abstract!Raise(t, newsig[t])
  BY <1>3 DEF Win32!PublishSignal, Abstract!Raise
<1>4. ASSUME NEW m \in SUBSET Signal, NEW timeout \in BOOLEAN,
             Win32!HalWait(t, m, timeout)
      PROVE  Abstract!BeginWait(t, m, timeout)
  BY <1>4 DEF Win32!HalWait, Win32!Running, Abstract!BeginWait
<1>5. ASSUME Win32!TestSigState(t)
      PROVE  Abstract!EndWait(t) \/ UNCHANGED Abstract!vars
  <2>1. CASE sigstate[t] \cap mask[t] # {}
    BY <1>5, <2>1 DEF Win32!TestSigState, Win32!Return, Abstract!EndWait
  <2>2. CASE sigstate[t] \cap mask[t] = {}
    <3>1. sigstate[t] \ mask[t] = sigstate[t]
      BY <2>2
    <3>2. QED
      BY <1>5, <2>2, <3>1 DEF Win32!TestSigState, Abstract!vars
  <2>3. QED
    BY <2>1, <2>2
<1>6. ASSUME Win32!TimedOut(t)
      PROVE  Abstract!Timeout(t)
  BY <1>6 DEF Win32!TimedOut, Win32!Return, Abstract!Timeout
<1>7. ASSUME \/ Win32!SetEvent(t) \/ Win32!TimeLeft(t)
             \/ Win32!WakeUp(t) \/ Win32!SleepTimedOut(t)
      PROVE  UNCHANGED Abstract!vars
  BY <1>7 DEF Win32!SetEvent, Win32!TimeLeft, Win32!WakeUp, Win32!SleepTimedOut,
              Abstract!vars
<1>8. /\ \A S \in SUBSET Signal : S \cap sigstate[t] \in SUBSET Signal
      /\ newsig[t] \in SUBSET Signal
  OBVIOUS
<1>9. QED
  BY <1>1, <1>2, <1>3, <1>4, <1>5, <1>6, <1>7, <1>8, ZenonT(30) DEF Abstract!Next

(* The mutex and the condition variable of one host, the interlocked       *)
(* operations and the event of the other, implement the atomic signal set  *)
(* of TaskSignals; that every wait ends that can is left to TLC.           *)
THEOREM ImplementsTaskSignalsSafety == HalSpec => Abstract!Spec
<1>1. HalInit => Abstract!Init
  BY DEF HalInit, Win32!Init, Abstract!Init
<1>2. HalIInv /\ [HalNext]_halvars => [Abstract!Next]_(Abstract!vars)
  <2> SUFFICES ASSUME HalIInv, [HalNext]_halvars PROVE [Abstract!Next]_(Abstract!vars)
    OBVIOUS
  <2>1. CASE OnPosix(Posix!Next)
    BY <2>1, PosixStep DEF HalIInv, OnPosix
  <2>2. CASE OnWin32(Win32!Next)
    BY <2>2, Win32Step DEF HalIInv, OnWin32
  <2>3. CASE UNCHANGED halvars
    BY <2>3 DEF halvars, Abstract!vars
  <2>4. QED
    BY <2>1, <2>2, <2>3 DEF HalNext
<1>3. QED
  BY SignalInvariant, <1>1, <1>2, PTL DEF HalSpec, Abstract!Spec
=============================================================================
