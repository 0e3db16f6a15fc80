------------------------- MODULE ExecServicesProofs -------------------------
(***************************************************************************)
(* Proofs about atoms (ExecAtom) for any tasks and any nesting, the race   *)
(* for the request of a new owner included: an atom's count is the number  *)
(* of its locks, whoever waits for it is queued behind a holder, and it is *)
(* held by one task, or shared by readers, unless that request has been    *)
(* overwritten before it was read.                                         *)
(*                                                                         *)
(* Then of the ports that tasks create: every signal in use has one user,  *)
(* and a port outlives the signal that is sent to it.                      *)
(*                                                                         *)
(* This, and what is proved of the other ports (ExecSyncProofs), holds in  *)
(* ExecServices, where a behaviour is one of one of them.                  *)
(***************************************************************************)
EXTENDS ExecServices, FiniteSetTheorems, SequenceTheorems, WellFoundedInduction, TLAPS

(* A waiter holds the atom itself only if it has created it.               *)
Waiting ==
  /\ \A t \in Task : pc[t] = "wait" <=> Contains(waiters, t)
  /\ IsInjective(waiters)
  /\ \A t \in Task : pc[t] = "wait" /\ holds[t] > 0 => state = "exclusive"
  /\ \A t \in Task : mode[t] = "none" <=> holds[t] = 0 /\ pc[t] # "wait"

(* Nobody holds a free atom, nor waits for it.                             *)
FreeIsFree ==
  state \in {"absent", "free"} => Holders = {} /\ waiters = <<>> /\ owner = None

(* All locks of an exclusive atom are one task's, and nobody else is       *)
(* recorded as its owner, ...                                              *)
OneHolder ==
  \E h \in Task : /\ Holders = {h} /\ holds[h] = nest
                  /\ owner \in {None, h} /\ handing \in {None, h}

(* ... if its request has not been overwritten too early; otherwise the    *)
(* atom is still held.                                                     *)
ExclusiveHasHolder ==
  state = "exclusive" => Holders # {} /\ (~overwritten => OneHolder)

(* A shared atom is shared by readers. *)
SharedHasReaders ==
  state = "shared" =>
    /\ Holders # {} /\ owner = None
    /\ \A t \in Holders : mode[t] = "shared"

(* While the owner is still to be recorded the atom has none; its request  *)
(* is as it was, unless it has been overwritten.                           *)
OwnerIsNext ==
  /\ handing = None => traTask = None
  /\ handing # None => state = "exclusive" /\ owner = None
  /\ handing # None /\ ~overwritten => traTask = handing

(* The inductive invariant. *)
IInv ==
  /\ TypeOK
  /\ Waiting
  /\ FreeIsFree
  /\ ExclusiveHasHolder
  /\ SharedHasReaders
  /\ OwnerIsNext
  /\ IsFiniteSet(LocksHeld) /\ NestIsHolds
-----------------------------------------------------------------------------
(* Numbers of a finite set are counted in order: two of them never have    *)
(* the same rank, ...                                                      *)
LEMMA RankIsInjective ==
  ASSUME NEW keep \in SUBSET Nat, IsFiniteSet(keep), NEW i \in keep, NEW j \in keep,
         Cardinality({l \in keep : l <= i}) = Cardinality({l \in keep : l <= j})
  PROVE  i = j
<1>1. ASSUME NEW a \in keep, NEW b \in keep, a < b,
             Cardinality({l \in keep : l <= a}) = Cardinality({l \in keep : l <= b})
      PROVE  FALSE
  <2> DEFINE A == {l \in keep : l <= a}
             B == {l \in keep : l <= b}
  <2>1. IsFiniteSet(B)
    BY FS_Subset
  <2>2. A \in SUBSET B /\ b \in B /\ b \notin A
    <3>1. a \in Nat /\ b \in Nat /\ a < b
      BY <1>1
    <3>2. \A l \in keep : l \in Nat /\ (l <= a => l <= b)
      BY <3>1
    <3>3. ~ b <= a /\ b <= b
      BY <3>1
    <3>4. QED
      BY <3>2, <3>3
  <2>3. Cardinality(B) = Cardinality(A)
    BY <1>1
  <2> HIDE DEF A, B
  <2>4. Cardinality(B) = Cardinality(A) => B = A
    BY ONLY <2>1, <2>2, FS_Subset
  <2>5. QED
    BY <2>2, <2>3, <2>4
<1>2. i \in Nat /\ j \in Nat
  OBVIOUS
<1>3. QED
  BY <1>1, <1>2

(* ... so every rank is somebody's.                                        *)
LEMMA RankIsSurjective ==
  ASSUME NEW keep \in SUBSET Nat, IsFiniteSet(keep), NEW k \in 1..Cardinality(keep)
  PROVE  \E i \in keep : Cardinality({l \in keep : l <= i}) = k
<1> DEFINE n == Cardinality(keep)
           f == [i \in keep |-> Cardinality({l \in keep : l <= i})]
<1>1. n \in Nat
  BY FS_CardinalityType
<1>2. ASSUME NEW i \in keep PROVE Cardinality({l \in keep : l <= i}) \in 1..n
  <2> DEFINE S == {l \in keep : l <= i}
  <2>1. S \in SUBSET keep /\ i \in S
    OBVIOUS
  <2>2. IsFiniteSet(S) /\ Cardinality(S) <= n /\ Cardinality(S) \in Nat
    BY <2>1, FS_Subset, FS_CardinalityType
  <2>3. Cardinality(S) # 0
    BY <2>1, <2>2, FS_EmptySet
  <2>4. QED
    BY <1>1, <2>2, <2>3
<1>3. f \in Injection(keep, 1..n)
  BY <1>2, RankIsInjective DEF Injection, IsInjective
<1>4. IsFiniteSet(1..n) /\ Cardinality(1..n) = n
  BY <1>1, FS_Interval
<1>5. f \in Surjection(keep, 1..n)
  BY <1>3, <1>4, FS_Injection
<1>6. QED
  BY <1>5 DEF Surjection

(* A sequence has one length. *)
LEMMA SameInterval == ASSUME NEW m \in Nat, NEW n \in Nat, 1..m = 1..n PROVE m = n
<1>1. ASSUME NEW a \in Nat, NEW b \in Nat, a < b, 1..a = 1..b PROVE FALSE
  <2>1. b \in 1..b /\ b \notin 1..a
    BY <1>1
  <2>2. QED
    BY <1>1, <2>1
<1>2. QED
  BY <1>1

(* Removing some waiters leaves the others, once each.                     *)
LEMMA WithoutProperties ==
  ASSUME NEW T, NEW s \in Seq(T), IsInjective(s), NEW S
  PROVE  /\ Without(s, S) \in Seq(T)
         /\ IsInjective(Without(s, S))
         /\ \A u : Contains(Without(s, S), u) <=> Contains(s, u) /\ u \notin S
<1> DEFINE keep == {i \in DOMAIN s : s[i] \notin S}
           n == Cardinality(keep)
           Rank(i) == Cardinality({j \in keep : j <= i})
           at == [k \in 1..n |-> CHOOSE i \in keep : Rank(i) = k]
           r == Without(s, S)
<1>1. /\ Len(s) \in Nat /\ DOMAIN s = 1..Len(s)
      /\ keep \in SUBSET (1..Len(s)) /\ keep \in SUBSET Nat
  BY LenProperties
<1>2. IsFiniteSet(keep) /\ n \in Nat
  <2>1. IsFiniteSet(1..Len(s))
    BY <1>1, FS_Interval
  <2>2. QED
    BY <1>1, <2>1, FS_Subset, FS_CardinalityType
<1>3. r = [k \in 1..n |-> s[CHOOSE i \in keep : Rank(i) = k]]
  BY DEF Without
<1>4. \A k \in 1..n : at[k] \in keep /\ Rank(at[k]) = k
  <2> SUFFICES ASSUME NEW k \in 1..n PROVE at[k] \in keep /\ Rank(at[k]) = k
    OBVIOUS
  <2>1. \E i \in keep : Rank(i) = k
    BY <1>1, <1>2, RankIsSurjective
  <2>2. at[k] = CHOOSE i \in keep : Rank(i) = k
    OBVIOUS
  <2>3. QED
    BY <2>1, <2>2
<1>5. \A k \in 1..n : r[k] = s[at[k]]
  BY <1>3
<1>6. \A i \in keep : \E k \in 1..n : at[k] = i
  <2> SUFFICES ASSUME NEW i \in keep PROVE \E k \in 1..n : at[k] = i
    OBVIOUS
  <2>1. Rank(i) \in 1..n
    <3>1. {j \in keep : j <= i} \in SUBSET keep /\ i \in {j \in keep : j <= i}
      BY <1>1
    <3>2. IsFiniteSet({j \in keep : j <= i}) /\ Rank(i) <= n /\ Rank(i) \in Nat
      BY <1>2, <3>1, FS_Subset, FS_CardinalityType
    <3>3. Rank(i) # 0
      BY <3>1, <3>2, FS_EmptySet
    <3>4. QED
      BY <1>2, <3>2, <3>3
  <2>2. at[Rank(i)] \in keep /\ Rank(at[Rank(i)]) = Rank(i)
    BY <1>4, <2>1
  <2>3. at[Rank(i)] = i
    BY <1>1, <1>2, <2>2, RankIsInjective
  <2>4. QED
    BY <2>1, <2>3
<1> HIDE DEF at, r, keep, n, Rank
<1>7. r \in [1..n -> T]
  <2>1. \A k \in 1..n : s[at[k]] \in T
    BY <1>1, <1>4, ElementOfSeq
  <2>2. QED
    BY <1>3, <1>5, <2>1
<1>8. r \in Seq(T) /\ DOMAIN r = 1..n /\ Len(r) = n
  <2>1. r \in Seq(T)
    BY <1>2, <1>7, SeqDef
  <2>2. DOMAIN r = 1..n /\ DOMAIN r = 1..Len(r) /\ Len(r) \in Nat
    BY <1>7, <2>1, LenProperties
  <2>3. Len(r) = n
    BY <1>2, <2>2, SameInterval
  <2>4. QED
    BY <2>1, <2>2, <2>3
<1>9. IsInjective(r)
  BY <1>1, <1>4, <1>5, <1>8 DEF IsInjective, keep
<1>10. ASSUME NEW u PROVE Contains(r, u) <=> Contains(s, u) /\ u \notin S
  <2>1. Contains(s, u) /\ u \notin S <=> \E i \in keep : s[i] = u
    BY <1>1 DEF Contains, keep
  <2>2. Contains(r, u) <=> \E k \in 1..n : s[at[k]] = u
    BY <1>5, <1>8 DEF Contains
  <2>3. QED
    BY <1>4, <1>6, <2>1, <2>2
<1>11. QED
  BY <1>8, <1>9, <1>10 DEF r
-----------------------------------------------------------------------------
(* The locks held, one by one. *)
LEMMA LocksHeldIs ==
  \A t, k : <<t, k>> \in LocksHeld <=> t \in Task /\ k \in 1..holds[t]
BY DEF LocksHeld

(* A lock obtained is one more, ...                                        *)
LEMMA LocksAdd ==
  ASSUME holds \in [Task -> Nat], IsFiniteSet(LocksHeld), NestIsHolds, NEW t \in Task,
         holds' = [holds EXCEPT ![t] = @ + 1], nest' = nest + 1
  PROVE  IsFiniteSet(LocksHeld)' /\ NestIsHolds'
<1> DEFINE new == <<t, holds[t] + 1>>
<1>1. LocksHeld' = LocksHeld \cup {new}
  <2>1. \A u \in Task : 1..holds'[u] = (1..holds[u]) \cup (IF u = t THEN {holds[t] + 1} ELSE {})
    OBVIOUS
  <2>2. QED
    BY <2>1 DEF LocksHeld
<1>2. new \notin LocksHeld
  BY LocksHeldIs
<1> HIDE DEF new
<1>3. /\ IsFiniteSet(LocksHeld \cup {new})
      /\ Cardinality(LocksHeld \cup {new}) = Cardinality(LocksHeld) + 1
  BY <1>2, FS_AddElement
<1>4. QED
  BY <1>1, <1>3 DEF NestIsHolds

(* ... and a lock given back one less.                                     *)
LEMMA LocksRemove ==
  ASSUME holds \in [Task -> Nat], IsFiniteSet(LocksHeld), NestIsHolds, NEW t \in Task,
         holds[t] > 0, holds' = [holds EXCEPT ![t] = @ - 1], nest' = nest - 1
  PROVE  IsFiniteSet(LocksHeld)' /\ NestIsHolds'
<1> DEFINE old == <<t, holds[t]>>
<1>1. LocksHeld' = LocksHeld \ {old}
  <2>1. \A u \in Task : 1..holds'[u] = (1..holds[u]) \ (IF u = t THEN {holds[t]} ELSE {})
    OBVIOUS
  <2>2. QED
    BY <2>1 DEF LocksHeld
<1>2. old \in LocksHeld
  BY LocksHeldIs
<1> HIDE DEF old
<1>3. /\ IsFiniteSet(LocksHeld \ {old})
      /\ Cardinality(LocksHeld \ {old}) = Cardinality(LocksHeld) - 1
  BY <1>2, FS_RemoveElement
<1>4. QED
  BY <1>1, <1>3 DEF NestIsHolds

(* Whoever gives the last lock back is the only holder.                    *)
LEMMA LastLock ==
  ASSUME holds \in [Task -> Nat], IsFiniteSet(LocksHeld), NestIsHolds, NEW t \in Task,
         holds[t] > 0, nest - 1 = 0
  PROVE  holds[t] = 1 /\ \A u \in Task \ {t} : holds[u] = 0
<1>1. Cardinality(LocksHeld) = 1
  BY FS_CardinalityType DEF NestIsHolds
<1>2. PICK x : LocksHeld = {x}
  BY <1>1, FS_Singleton
<1>3. <<t, 1>> \in LocksHeld /\ <<t, holds[t]>> \in LocksHeld
  BY LocksHeldIs
<1>4. holds[t] = 1
  BY <1>2, <1>3
<1>5. ASSUME NEW u \in Task \ {t} PROVE holds[u] = 0
  <2>1. <<u, 1>> \notin LocksHeld
    BY <1>2, <1>3
  <2>2. QED
    BY <2>1, LocksHeldIs
<1>6. QED
  BY <1>4, <1>5

(* If nobody holds more than one lock, there are as many as holders.       *)
LEMMA LocksOfHolders ==
  ASSUME NEW S \in SUBSET Task, IsFiniteSet(S),
         holds' = [u \in Task |-> IF u \in S THEN 1 ELSE 0], nest' = Cardinality(S)
  PROVE  IsFiniteSet(LocksHeld)' /\ NestIsHolds'
<1> DEFINE f == [u \in S |-> <<u, 1>>]
<1>1. LocksHeld' = {<<u, 1>> : u \in S}
  <2>1. 1..1 = {1} /\ 1..0 = {}
    OBVIOUS
  <2>2. QED
    BY <2>1 DEF LocksHeld
<1>2. f \in Bijection(S, LocksHeld')
  BY <1>1 DEF Bijection, Injection, Surjection, IsInjective
<1>3. ExistsBijection(S, LocksHeld')
  BY <1>2 DEF ExistsBijection
<1>4. IsFiniteSet(LocksHeld') /\ Cardinality(LocksHeld') = Cardinality(S)
  BY <1>3, FS_Bijection
<1>5. QED
  BY <1>4 DEF NestIsHolds
-----------------------------------------------------------------------------
(* Nobody has or wants an atom that is not there. *)
LEMMA InitIInv == Init => IInv
<1> SUFFICES ASSUME Init PROVE IInv
  OBVIOUS
<1>1. TypeOK
  <2>1. /\ mode \in [Task -> {"none", "shared", "exclusive"}]
        /\ pc \in [Task -> {"run", "wait", "else"}] /\ holds \in [Task -> Nat]
    BY DEF Init
  <2>2. /\ state = "absent" /\ owner = None /\ nest = 0 /\ waiters = <<>>
        /\ handing = None /\ traTask = None /\ overwritten = FALSE
    BY DEF Init
  <2>3. waiters \in Seq(Task)
    BY <2>2
  <2>4. QED
    BY <2>1, <2>2, <2>3 DEF TypeOK
<1>2. Waiting
  BY DEF Init, Waiting, Contains, IsInjective
<1>3. LocksHeld = {} /\ Holders = {}
  BY DEF Init, LocksHeld, Holders
<1>4. IsFiniteSet(LocksHeld) /\ NestIsHolds
  BY <1>3, FS_EmptySet DEF Init, NestIsHolds
<1>5. FreeIsFree /\ ExclusiveHasHolder /\ SharedHasReaders /\ OwnerIsNext
  BY <1>3 DEF Init, FreeIsFree, ExclusiveHasHolder, SharedHasReaders, OwnerIsNext
<1>6. QED
  BY <1>1, <1>2, <1>4, <1>5 DEF IInv

(* t's request for mode m is granted, and t holds the atom once more. *)
LEMMA ObtainIInv ==
  ASSUME IInv, NEW t \in Task, NEW m \in {"shared", "exclusive"},
         MayAsk(t), holds[t] > 0 => m = mode[t],
         mode' = [mode EXCEPT ![t] = m], UNCHANGED <<handing, traTask, overwritten>>,
         LockCreate(t) \/ LockFree(t, m) \/ LockNest(t, m)
  PROVE  IInv'
<1> USE DEF IInv
<1>1. /\ holds \in [Task -> Nat] /\ mode \in [Task -> {"none", "shared", "exclusive"}]
      /\ nest \in Nat /\ handing = None /\ traTask = None /\ pc[t] = "run"
      /\ t # None /\ Holders = {u \in Task : holds[u] > 0}
  BY TaskAssumption DEF TypeOK, MayAsk, OwnerIsNext, Holders
<1>2. /\ holds' = [holds EXCEPT ![t] = @ + 1]
      /\ UNCHANGED <<waiters, pc, handing, traTask>>
  BY DEF LockCreate, LockFree, LockNest, Obtained
<1>3. /\ \A u \in Task : holds'[u] = IF u = t THEN holds[t] + 1 ELSE holds[u]
      /\ \A u \in Task : mode'[u] = IF u = t THEN m ELSE mode[u]
      /\ Holders' = Holders \cup {t}
  BY <1>1, <1>2 DEF Holders
<1>4. state \in {"absent", "free"} => nest = 0
  <2>1. Holders = {} => LocksHeld = {}
    BY <1>1 DEF LocksHeld
  <2>2. QED
    BY <2>1, FS_EmptySet DEF FreeIsFree, NestIsHolds
<1>5. nest' = nest + 1
  BY <1>1, <1>4 DEF LockCreate, LockFree, LockNest
<1>6. TypeOK'
  BY <1>1, <1>2, <1>5 DEF TypeOK, LockCreate, LockFree, LockNest
<1>7. IsFiniteSet(LocksHeld)' /\ NestIsHolds'
  BY <1>1, <1>2, <1>5, LocksAdd
<1>8. CASE LockCreate(t) \/ LockFree(t, m)
  <2>1. /\ state \in {"absent", "free"} /\ Holders = {} /\ waiters = <<>>
        /\ holds[t] = 0 /\ nest' = 1
    BY <1>1, <1>8 DEF FreeIsFree, LockCreate, LockFree
  <2>2. /\ state' \in {"shared", "exclusive"} /\ owner' \in {None, t}
        /\ state' = "shared" => m = "shared" /\ owner' = None
    BY <1>8 DEF FreeIsFree, LockCreate, LockFree
  <2>3. Holders' = {t} /\ holds'[t] = nest'
    BY <1>3, <2>1
  <2>4. \A u \in Task : pc[u] # "wait"
    BY <2>1 DEF Waiting, Contains
  <2>5. Waiting'
    BY <1>1, <1>2, <1>3, <2>1, <2>4 DEF Waiting
  <2>6. FreeIsFree' /\ ExclusiveHasHolder' /\ SharedHasReaders' /\ OwnerIsNext'
    BY <1>1, <1>2, <1>3, <2>2, <2>3
       DEF FreeIsFree, ExclusiveHasHolder, OneHolder, SharedHasReaders, OwnerIsNext
  <2>7. QED
    BY <1>6, <1>7, <2>5, <2>6
<1>9. CASE LockNest(t, m)
  <2>1. /\ UNCHANGED <<state, owner>>
        /\ \/ state = "shared" /\ m = "shared"
           \/ state = "exclusive" /\ owner = t
    BY <1>9 DEF LockNest, Nests
  <2>2. Waiting'
    BY <1>1, <1>2, <1>3, <2>1 DEF Waiting
  <2>3. FreeIsFree' /\ OwnerIsNext'
    BY <1>1, <1>2, <2>1 DEF FreeIsFree, OwnerIsNext
  <2>4. ExclusiveHasHolder'
    BY <1>1, <1>2, <1>3, <1>5, <2>1 DEF ExclusiveHasHolder, OneHolder
  <2>5. SharedHasReaders'
    BY <1>1, <1>3, <2>1 DEF SharedHasReaders
  <2>6. QED
    BY <1>6, <1>7, <2>2, <2>3, <2>4, <2>5
<1>10. QED
  BY <1>8, <1>9

(* t is queued, behind somebody else or, if it has created the atom,       *)
(* behind itself.                                                          *)
LEMMA LockWaitIInv ==
  ASSUME IInv, NEW t \in Task, NEW m \in {"shared", "exclusive"},
         MayAsk(t), holds[t] > 0 => m = mode[t],
         mode' = [mode EXCEPT ![t] = m], UNCHANGED <<handing, traTask, overwritten>>,
         LockWait(t, m)
  PROVE  IInv'
<1> USE DEF IInv, LockWait
<1>1. /\ holds \in [Task -> Nat] /\ mode \in [Task -> {"none", "shared", "exclusive"}]
      /\ pc \in [Task -> {"run", "wait", "else"}] /\ waiters \in Seq(Task)
      /\ handing = None /\ pc[t] = "run" /\ Holders' = Holders
  BY DEF TypeOK, MayAsk, Holders
<1>2. ~ Contains(waiters, t)
  BY <1>1 DEF Waiting
<1>3. /\ waiters' \in Seq(Task) /\ Len(waiters') = Len(waiters) + 1
      /\ \A i \in 1..Len(waiters) : waiters'[i] = waiters[i]
      /\ waiters'[Len(waiters) + 1] = t
  BY <1>1, AppendProperties
<1>4. /\ Len(waiters) \in Nat /\ DOMAIN waiters = 1..Len(waiters)
      /\ DOMAIN waiters' = 1..(Len(waiters) + 1)
  BY <1>1, <1>3, LenProperties
<1>5. /\ \A u : Contains(waiters, u)' <=> Contains(waiters, u) \/ u = t
      /\ IsInjective(waiters)'
  <2>1. \A u : Contains(waiters, u)' <=> Contains(waiters, u) \/ u = t
    BY <1>3, <1>4 DEF Contains
  <2>2. IsInjective(waiters')
    BY <1>2, <1>3, <1>4 DEF Waiting, Contains, IsInjective
  <2>3. QED
    BY <2>1, <2>2
<1>6. /\ \A u \in Task : pc'[u] = IF u = t THEN "wait" ELSE pc[u]
      /\ \A u \in Task : mode'[u] = IF u = t THEN m ELSE mode[u]
  BY <1>1
<1>7. TypeOK'
  BY <1>1, <1>3 DEF TypeOK
<1>8. holds[t] > 0 => state = "exclusive"
  BY <1>1 DEF SharedHasReaders, Holders, Nests
<1>9. Waiting'
  BY <1>1, <1>5, <1>6, <1>8 DEF Waiting
<1>10. FreeIsFree' /\ ExclusiveHasHolder' /\ OwnerIsNext'
  BY <1>1 DEF FreeIsFree, ExclusiveHasHolder, OneHolder, OwnerIsNext
<1>11. SharedHasReaders'
  BY <1>1, <1>6, <1>8 DEF SharedHasReaders, Holders
<1>12. IsFiniteSet(LocksHeld)' /\ NestIsHolds'
  BY DEF LocksHeld, NestIsHolds
<1>13. QED
  BY <1>7, <1>9, <1>10, <1>11, <1>12
-----------------------------------------------------------------------------
(* What every unlock finds: t holds the atom, and does not wait for it.    *)
LEMMA UnlockFinds ==
  ASSUME IInv, NEW t \in Task, MayAsk(t), holds[t] > 0
  PROVE  /\ holds \in [Task -> Nat] /\ nest \in Nat /\ waiters \in Seq(Task)
         /\ mode \in [Task -> {"none", "shared", "exclusive"}]
         /\ pc \in [Task -> {"run", "wait", "else"}]
         /\ handing = None /\ traTask = None /\ pc[t] = "run" /\ t # None
         /\ ~ Contains(waiters, t)
         /\ state \in {"shared", "exclusive"}
         /\ Holders = {u \in Task : holds[u] > 0} /\ t \in Holders
         /\ IsFiniteSet(LocksHeld) /\ NestIsHolds
BY TaskAssumption
   DEF IInv, TypeOK, MayAsk, OwnerIsNext, Holders, FreeIsFree, Waiting

(* One lock of several is given back: somebody still holds the atom.       *)
LEMMA UnlockNestedIInv ==
  ASSUME IInv, NEW t \in Task, MayAsk(t), holds[t] > 0, UnlockNested(t),
         mode' = [u \in Task |-> IF holds'[u] = 0 /\ pc'[u] # "wait" THEN "none"
                                ELSE mode[u]]
  PROVE  IInv'
<1> USE UnlockFinds
<1>1. /\ nest - 1 # 0 /\ nest' = nest - 1
      /\ holds' = [holds EXCEPT ![t] = @ - 1]
      /\ UNCHANGED <<state, owner, waiters, handing, traTask, pc, overwritten>>
  BY DEF UnlockNested
<1>2. /\ \A u \in Task : holds'[u] = IF u = t THEN holds[t] - 1 ELSE holds[u]
      /\ \A u \in Task : mode'[u] = IF holds'[u] = 0 /\ pc[u] # "wait" THEN "none"
                                    ELSE mode[u]
      /\ Holders' = {u \in Task : holds'[u] > 0}
  BY <1>1 DEF Holders
<1>3. IsFiniteSet(LocksHeld)' /\ NestIsHolds'
  BY <1>1, LocksRemove
<1>4. nest \in Nat \ {0, 1}
  <2>1. <<t, holds[t]>> \in LocksHeld
    BY LocksHeldIs
  <2>2. nest # 0
    BY <2>1, FS_EmptySet DEF NestIsHolds
  <2>3. QED
    BY <1>1, <2>2
<1>5. TypeOK'
  <2>1. /\ holds' \in [Task -> Nat] /\ nest' \in Nat
        /\ mode' \in [Task -> {"none", "shared", "exclusive"}]
    BY <1>1, <1>2, <1>4
  <2>2. QED
    BY <1>1, <2>1 DEF IInv, TypeOK
<1>6. Waiting'
  BY <1>1, <1>2 DEF IInv, Waiting
<1>7. FreeIsFree' /\ OwnerIsNext'
  BY <1>1 DEF FreeIsFree, IInv, OwnerIsNext
<1>8. Holders' # {}
  <2>1. LocksHeld' # {}
    BY <1>1, <1>3, FS_EmptySet DEF NestIsHolds
  <2>2. Holders' = {} => \A u \in Task : 1..holds'[u] = {}
    BY <1>2
  <2>3. QED
    BY <2>1, <2>2 DEF LocksHeld
<1>9. ExclusiveHasHolder'
  <2> SUFFICES ASSUME state = "exclusive", ~overwritten PROVE OneHolder'
    BY <1>1, <1>8 DEF ExclusiveHasHolder
  <2>1. PICK h \in Task : /\ Holders = {h} /\ holds[h] = nest
                          /\ owner \in {None, h} /\ handing \in {None, h}
    BY DEF IInv, ExclusiveHasHolder, OneHolder
  <2>2. h = t
    BY <2>1 DEF Holders
  <2>3. holds'[t] = nest' /\ holds'[t] > 0
    BY <1>1, <1>2, <1>4, <2>1, <2>2
  <2>4. \A u \in Task \ {t} : holds'[u] = holds[u] /\ u \notin Holders
    BY <1>2, <2>1, <2>2
  <2>5. Holders' = {t}
    BY <1>2, <2>3, <2>4 DEF Holders
  <2>6. QED
    BY <1>1, <2>1, <2>2, <2>3, <2>5 DEF OneHolder
<1>10. SharedHasReaders'
  <2>1. \A u \in Holders' : u \in Holders /\ mode'[u] = mode[u]
    BY <1>1, <1>2
  <2>2. QED
    BY <1>1, <1>8, <2>1 DEF IInv, SharedHasReaders
<1>11. QED
  BY <1>3, <1>5, <1>6, <1>7, <1>9, <1>10 DEF IInv

(* The last lock is given back, and the atom destroyed, or free: nobody    *)
(* holds it and nobody waits.                                              *)
LEMMA UnlockLastIInv ==
  ASSUME IInv, NEW t \in Task, MayAsk(t), holds[t] > 0,
         UnlockDestroy(t) \/ UnlockFree(t),
         mode' = [u \in Task |-> IF holds'[u] = 0 /\ pc'[u] # "wait" THEN "none"
                                ELSE mode[u]]
  PROVE  IInv'
<1> USE UnlockFinds
<1>1. /\ nest - 1 = 0 /\ nest' = 0 /\ owner' = None /\ waiters' = <<>>
      /\ state' \in {"absent", "free"} /\ UNCHANGED <<handing, traTask>>
      /\ overwritten' = FALSE
      /\ holds' = [holds EXCEPT ![t] = @ - 1]
  BY DEF UnlockDestroy, UnlockFree
<1>2. \A u \in Task : holds'[u] = 0
  BY <1>1, LastLock
<1>3. holds' = [u \in Task |-> IF u \in {} THEN 1 ELSE 0]
  BY <1>1, <1>2
<1>4. pc' \in [Task -> {"run", "wait", "else"}] /\ \A u \in Task : pc'[u] # "wait"
  <2>1. CASE UnlockDestroy(t)
    BY <2>1 DEF UnlockDestroy, IInv, Waiting
  <2>2. CASE UnlockFree(t)
    BY <2>2 DEF UnlockFree, IInv, Waiting, Contains
  <2>3. QED
    BY <2>1, <2>2
<1>5. IsFiniteSet(LocksHeld)' /\ NestIsHolds'
  BY <1>1, <1>3, FS_EmptySet, LocksOfHolders
<1>6. mode' = [u \in Task |-> "none"] /\ Holders' = {}
  BY <1>2, <1>4 DEF Holders
<1>7. TypeOK'
  <2>1. holds' \in [Task -> Nat] /\ mode' \in [Task -> {"none", "shared", "exclusive"}]
    BY <1>3, <1>6
  <2>2. nest' \in Nat /\ waiters' \in Seq(Task)
    BY <1>1
  <2>3. QED
    BY <1>1, <1>4, <2>1, <2>2 DEF IInv, TypeOK
<1>8. Waiting'
  BY <1>1, <1>2, <1>4, <1>6 DEF Waiting, Contains, IsInjective
<1>9. FreeIsFree' /\ ExclusiveHasHolder' /\ SharedHasReaders' /\ OwnerIsNext'
  BY <1>1, <1>6 DEF FreeIsFree, ExclusiveHasHolder, SharedHasReaders, OwnerIsNext
<1>10. QED
  BY <1>5, <1>7, <1>8, <1>9 DEF IInv

(* All readers that wait get the atom, and nobody else.                    *)
LEMMA UnlockToSharedIInv ==
  ASSUME IInv, NEW t \in Task, MayAsk(t), holds[t] > 0, UnlockToShared(t),
         mode' = [u \in Task |-> IF holds'[u] = 0 /\ pc'[u] # "wait" THEN "none"
                                ELSE mode[u]]
  PROVE  IInv'
<1> USE UnlockFinds
<1>1. /\ nest - 1 = 0 /\ state' = "shared" /\ owner' = None
      /\ nest' = Cardinality(Readers) /\ waiters' = Without(waiters, Readers)
      /\ pc' = [u \in Task |-> IF u \in Readers THEN "run" ELSE pc[u]]
      /\ UNCHANGED <<handing, traTask>> /\ overwritten' = FALSE
  BY DEF UnlockToShared
<1>2. Len(waiters) \in Nat /\ DOMAIN waiters = 1..Len(waiters)
  BY LenProperties
<1>3. \A u : u \in Readers <=> u \in Task /\ Contains(waiters, u) /\ mode[u] = "shared"
  <2>1. \A i \in 1..Len(waiters) : waiters[i] \in Task
    BY ElementOfSeq
  <2>2. ToSet(waiters) \subseteq Task
    BY <1>2, <2>1 DEF ToSet
  <2>3. \A u : Contains(waiters, u) <=> u \in ToSet(waiters)
    BY <1>2 DEF ToSet, Contains
  <2>4. QED
    BY <2>2, <2>3 DEF Readers, IsShared
<1>4. t \notin Readers /\ Readers \in SUBSET Task
  BY <1>3
<1>5. IsFiniteSet(Readers)
  <2>1. waiters \in Surjection(1..Len(waiters), ToSet(waiters))
    BY <1>2 DEF Surjection, ToSet
  <2>2. IsFiniteSet(ToSet(waiters))
    BY <1>2, <2>1, FS_Interval, FS_Surjection
  <2>3. Readers \in SUBSET ToSet(waiters)
    BY DEF Readers
  <2>4. QED
    BY <2>2, <2>3, FS_Subset
<1>6. Readers # {}
  <2>1. Len(waiters) # 0
    BY EmptySeq DEF UnlockToShared
  <2>2. Head(waiters) = waiters[1]
    BY <2>1
  <2>3. Head(waiters) \in ToSet(waiters)
    <3>1. 1 \in DOMAIN waiters
      BY <1>2, <2>1
    <3>2. QED
      BY <2>2, <3>1 DEF ToSet
  <2>4. QED
    BY <2>3 DEF Readers, UnlockToShared
<1>7. holds' = [u \in Task |-> IF u \in Readers THEN 1 ELSE 0]
  <2>1. holds[t] = 1 /\ \A u \in Task \ {t} : holds[u] = 0
    BY <1>1, LastLock
  <2>2. holds' = [u \in Task |-> IF u = t THEN holds[t] - 1
                                ELSE IF u \in Readers THEN holds[u] + 1
                                ELSE holds[u]]
    BY DEF UnlockToShared
  <2>3. QED
    BY <1>4, <2>1, <2>2
<1>8. IsFiniteSet(LocksHeld)' /\ NestIsHolds'
  BY <1>1, <1>4, <1>5, <1>7, LocksOfHolders
<1>9. /\ waiters' \in Seq(Task) /\ IsInjective(waiters')
      /\ \A u : Contains(waiters', u) <=> Contains(waiters, u) /\ u \notin Readers
  <2>1. IsInjective(waiters)
    BY DEF IInv, Waiting
  <2>2. QED
    BY <1>1, <2>1, WithoutProperties
<1>10. /\ \A u \in Task : pc'[u] = IF u \in Readers THEN "run" ELSE pc[u]
       /\ \A u \in Task : holds'[u] = IF u \in Readers THEN 1 ELSE 0
       /\ \A u \in Task : mode'[u] = IF holds'[u] = 0 /\ pc'[u] # "wait" THEN "none"
                                     ELSE mode[u]
       /\ Holders' = Readers
  BY <1>1, <1>4, <1>7 DEF Holders
<1>11. TypeOK'
  <2>1. nest' \in Nat /\ holds' \in [Task -> Nat]
    BY <1>1, <1>5, <1>7, FS_CardinalityType
  <2>2. /\ pc' \in [Task -> {"run", "wait", "else"}]
        /\ mode' \in [Task -> {"none", "shared", "exclusive"}]
    BY <1>1, <1>10
  <2>3. QED
    BY <1>1, <1>9, <2>1, <2>2 DEF IInv, TypeOK
<1>12. Waiting'
  <2>1. \A u \in Task : pc'[u] = "wait" <=> Contains(waiters', u)
    BY <1>9, <1>10 DEF IInv, Waiting
  <2>2. \A u \in Task : holds'[u] > 0 => u \in Readers /\ pc'[u] = "run"
    BY <1>10
  <2>3. \A u \in Task : mode'[u] = "none" <=> holds'[u] = 0 /\ pc'[u] # "wait"
    BY <1>3, <1>10 DEF IInv, Waiting
  <2>4. QED
    BY <1>9, <2>1, <2>2, <2>3 DEF Waiting
<1>13. FreeIsFree' /\ ExclusiveHasHolder' /\ OwnerIsNext'
  BY <1>1 DEF FreeIsFree, ExclusiveHasHolder, OwnerIsNext
<1>14. SharedHasReaders'
  BY <1>1, <1>3, <1>6, <1>10 DEF SharedHasReaders
<1>15. QED
  BY <1>8, <1>11, <1>12, <1>13, <1>14 DEF IInv

(* The first waiter gets the atom; it is recorded as the owner later.      *)
LEMMA UnlockToExclusiveIInv ==
  ASSUME IInv, NEW t \in Task, MayAsk(t), holds[t] > 0, UnlockToExclusive(t),
         mode' = [u \in Task |-> IF holds'[u] = 0 /\ pc'[u] # "wait" THEN "none"
                                ELSE mode[u]]
  PROVE  IInv'
<1> USE UnlockFinds
<1> DEFINE w == Head(waiters)
<1>1. /\ nest - 1 = 0 /\ waiters # <<>> /\ state' = "exclusive" /\ owner' = None
      /\ nest' = 1 /\ waiters' = Tail(waiters) /\ pc' = [pc EXCEPT ![w] = "run"]
      /\ handing' = w /\ traTask' = w /\ overwritten' = FALSE
      /\ holds' = [holds EXCEPT ![t] = @ - 1, ![w] = @ + 1]
  BY DEF UnlockToExclusive
<1>2. /\ Len(waiters) \in Nat \ {0} /\ DOMAIN waiters = 1..Len(waiters)
      /\ w = waiters[1] /\ w \in Task
      /\ Tail(waiters) \in Seq(Task) /\ Len(Tail(waiters)) = Len(waiters) - 1
      /\ \A i \in 1..(Len(waiters) - 1) : Tail(waiters)[i] = waiters[i + 1]
  BY <1>1, LenProperties, EmptySeq, HeadTailProperties
<1>3. DOMAIN Tail(waiters) = 1..(Len(waiters) - 1)
  BY <1>2, LenProperties
<1>4. Contains(waiters, w) /\ w # t /\ None # w
  BY <1>2, TaskAssumption DEF Contains
<1>5. IsInjective(waiters)
  BY DEF IInv, Waiting
<1> HIDE DEF w
<1>6. /\ IsInjective(waiters')
      /\ \A u : Contains(waiters', u) <=> Contains(waiters, u) /\ u # w
  <2>1. IsInjective(waiters')
    BY <1>1, <1>2, <1>3, <1>5, SMTT(20) DEF IsInjective
  <2>2. ASSUME NEW u, Contains(waiters', u) PROVE Contains(waiters, u) /\ u # w
    <3>1. PICK i \in 1..(Len(waiters) - 1) : waiters[i + 1] = u
      BY <1>1, <1>2, <2>2 DEF Contains
    <3>2. i + 1 \in 1..Len(waiters) /\ i + 1 # 1 /\ 1 \in 1..Len(waiters)
      BY <1>2
    <3>3. waiters[i + 1] # waiters[1]
      BY <1>2, <1>5, <3>2 DEF IsInjective
    <3>4. QED
      BY <1>2, <3>1, <3>2, <3>3 DEF Contains
  <2>3. ASSUME NEW u, Contains(waiters, u), u # w PROVE Contains(waiters', u)
    <3>1. PICK i \in 1..Len(waiters) : waiters[i] = u
      BY <2>3 DEF Contains
    <3>2. i - 1 \in 1..(Len(waiters) - 1) /\ waiters[(i - 1) + 1] = u
      BY <1>2, <2>3, <3>1
    <3>3. QED
      BY <1>1, <1>2, <3>2 DEF Contains
  <2>4. QED
    BY <2>1, <2>2, <2>3
<1>7. holds' = [u \in Task |-> IF u \in {w} THEN 1 ELSE 0]
  <2>1. holds[t] = 1 /\ \A u \in Task \ {t} : holds[u] = 0
    BY <1>1, LastLock
  <2>2. holds \in [Task -> Nat]
    OBVIOUS
  <2>3. \A u \in Task : holds'[u] = IF u = w THEN holds[w] + 1
                                   ELSE IF u = t THEN holds[t] - 1 ELSE holds[u]
    BY ONLY <1>1, <1>2, <1>4, <2>2, t \in Task
  <2>4. holds' = [u \in Task |-> holds'[u]]
    BY ONLY <1>1, <2>2
  <2>5. \A u \in Task : holds'[u] = IF u \in {w} THEN 1 ELSE 0
    BY ONLY <1>2, <1>4, <2>1, <2>3, t \in Task
  <2>6. QED
    BY ONLY <2>4, <2>5
<1>8. IsFiniteSet(LocksHeld)' /\ NestIsHolds'
  <2>1. IsFiniteSet({w}) /\ Cardinality({w}) = 1 /\ {w} \in SUBSET Task
    BY <1>2, FS_Singleton
  <2>2. QED
    BY <1>1, <1>7, <2>1, LocksOfHolders
<1>9. /\ \A u \in Task : pc'[u] = IF u = w THEN "run" ELSE pc[u]
      /\ \A u \in Task : holds'[u] = IF u = w THEN 1 ELSE 0
      /\ \A u \in Task : mode'[u] = IF holds'[u] = 0 /\ pc'[u] # "wait" THEN "none"
                                    ELSE mode[u]
      /\ Holders' = {w}
  <2>1. \A u \in Task : pc'[u] = IF u = w THEN "run" ELSE pc[u]
    BY <1>1
  <2>2. \A u \in Task : holds'[u] = IF u = w THEN 1 ELSE 0
    BY ONLY <1>7
  <2>3. Holders' = {w}
    BY ONLY <1>2, <2>2 DEF Holders
  <2>4. QED
    BY <2>1, <2>2, <2>3
<1>10. TypeOK'
  <2>1. holds' \in [Task -> Nat] /\ nest' \in Nat
    <3>1. \A u \in Task : (IF u \in {w} THEN 1 ELSE 0) \in Nat
      OBVIOUS
    <3>2. QED
      BY ONLY <1>1, <1>7, <3>1
  <2>2. /\ pc' \in [Task -> {"run", "wait", "else"}]
        /\ mode' \in [Task -> {"none", "shared", "exclusive"}]
    BY <1>1, <1>9
  <2>3. QED
    BY <1>1, <1>2, <2>1, <2>2 DEF IInv, TypeOK
<1>11. Waiting'
  <2>1. \A u \in Task : pc'[u] = "wait" <=> Contains(waiters', u)
    BY <1>6, <1>9 DEF IInv, Waiting
  <2>2. mode[w] # "none"
    BY <1>2, <1>4 DEF IInv, Waiting
  <2>3. \A u \in Task : mode'[u] = "none" <=> holds'[u] = 0 /\ pc'[u] # "wait"
    BY <1>9, <2>2 DEF IInv, Waiting
  <2>4. QED
    BY <1>1, <1>6, <2>1, <2>3 DEF Waiting
<1>12. FreeIsFree' /\ SharedHasReaders'
  BY <1>1 DEF FreeIsFree, SharedHasReaders
<1>13. ExclusiveHasHolder'
  BY <1>1, <1>2, <1>9 DEF ExclusiveHasHolder, OneHolder
<1>14. OwnerIsNext'
  BY <1>1, <1>2, <1>4, <1>9 DEF OwnerIsNext
<1>15. QED
  BY <1>8, <1>10, <1>11, <1>12, <1>13, <1>14 DEF IInv
-----------------------------------------------------------------------------
(* The owner is the new holder if its request is as it was replied to.     *)
LEMMA SetOwnerIInv == IInv /\ SetOwner => IInv'
<1> SUFFICES ASSUME IInv, SetOwner PROVE IInv'
  OBVIOUS
<1> USE DEF IInv, SetOwner
<1>1. TypeOK' /\ Waiting'
  BY DEF TypeOK, Waiting, Contains, IsInjective
<1>2. /\ state = "exclusive" /\ handing # None /\ Holders' = Holders
      /\ ~overwritten => owner' = handing
  BY DEF OwnerIsNext, Holders
<1>3. FreeIsFree' /\ SharedHasReaders' /\ OwnerIsNext'
  BY <1>2 DEF FreeIsFree, SharedHasReaders, OwnerIsNext
<1>4. ExclusiveHasHolder'
  BY <1>2 DEF ExclusiveHasHolder, OneHolder
<1>5. IsFiniteSet(LocksHeld)' /\ NestIsHolds'
  BY DEF LocksHeld, NestIsHolds
<1>6. QED
  BY <1>1, <1>3, <1>4, <1>5

(* Another request does not change the atom.  If it is made by the task    *)
(* whose request the exec task is still to read, it is overwritten.        *)
LEMMA OtherIInv ==
  ASSUME IInv, NEW t \in Task, NEW x \in Task \cup {Garbage},
         OtherRequest(t, x) \/ OtherReply(t)
  PROVE  IInv'
<1> USE DEF IInv
<1>1. /\ pc \in [Task -> {"run", "wait", "else"}] /\ t # None
      /\ pc[t] # "wait" /\ pc' \in {[pc EXCEPT ![t] = "else"], [pc EXCEPT ![t] = "run"]}
      /\ handing # t => traTask' = traTask
      /\ traTask' \in {traTask, x}
      /\ UNCHANGED <<state, owner, nest, waiters, mode, handing, holds>>
  BY TaskAssumption DEF OtherRequest, OtherReply, TypeOK
<1>2. /\ overwritten \in BOOLEAN /\ overwritten' \in BOOLEAN
      /\ ~overwritten' => ~overwritten
      /\ ~overwritten' => traTask' = traTask
  <2>1. CASE OtherRequest(t, x)
    BY <1>1, <2>1 DEF OtherRequest, TypeOK
  <2>2. CASE OtherReply(t)
    BY <2>2 DEF OtherReply, TypeOK
  <2>3. QED
    BY <2>1, <2>2
<1>3. /\ \A u \in Task : pc'[u] = "wait" <=> pc[u] = "wait"
      /\ \A u \in Task \ {t} : pc'[u] = pc[u]
      /\ pc' \in [Task -> {"run", "wait", "else"}]
  BY <1>1
<1>4. TypeOK' /\ Waiting'
  BY <1>1, <1>2, <1>3 DEF TypeOK, Waiting, Contains, IsInjective
<1>5. FreeIsFree' /\ SharedHasReaders'
  BY <1>1 DEF FreeIsFree, SharedHasReaders, Holders
<1>6. ExclusiveHasHolder'
  BY <1>1, <1>2 DEF ExclusiveHasHolder, OneHolder, Holders
<1>7. OwnerIsNext'
  BY <1>1, <1>2 DEF OwnerIsNext
<1>8. IsFiniteSet(LocksHeld)' /\ NestIsHolds'
  BY <1>1 DEF LocksHeld, NestIsHolds
<1>9. QED
  BY <1>4, <1>5, <1>6, <1>7, <1>8

(* Every step preserves the invariant, ...                                 *)
LEMMA NextIInv == IInv /\ [Next]_vars => IInv'
<1> SUFFICES ASSUME IInv, [Next]_vars PROVE IInv'
  OBVIOUS
<1>1. CASE UNCHANGED vars
  <2>1. TypeOK' /\ OwnerIsNext'
    BY <1>1 DEF vars, IInv, TypeOK, OwnerIsNext
  <2>2. Waiting'
    BY <1>1 DEF vars, IInv, Waiting, Contains, IsInjective
  <2>3. FreeIsFree' /\ ExclusiveHasHolder' /\ SharedHasReaders'
    BY <1>1 DEF vars, IInv, FreeIsFree, ExclusiveHasHolder, OneHolder, SharedHasReaders,
       Holders
  <2>4. IsFiniteSet(LocksHeld)' /\ NestIsHolds'
    BY <1>1 DEF vars, IInv, LocksHeld, NestIsHolds
  <2>5. QED
    BY <2>1, <2>2, <2>3, <2>4 DEF IInv
<1>2. ASSUME NEW t \in Task, NEW m \in {"shared", "exclusive"}, LockAtom(t, m)
      PROVE  IInv'
  BY <1>2, ObtainIInv, LockWaitIInv DEF LockAtom
<1>3. ASSUME NEW t \in Task, NEW destroy \in BOOLEAN, UnlockAtom(t, destroy)
      PROVE  IInv'
  BY <1>3, UnlockNestedIInv, UnlockLastIInv, UnlockToSharedIInv,
     UnlockToExclusiveIInv DEF UnlockAtom
<1>4. ASSUME NEW t \in Task, NEW x \in Task \cup {Garbage}, OtherRequest(t, x)
      PROVE  IInv'
  BY <1>4, OtherIInv
<1>5. ASSUME NEW t \in Task, OtherReply(t) PROVE IInv'
  BY <1>5, OtherIInv
<1>6. QED
  BY <1>1, <1>2, <1>3, <1>4, <1>5, SetOwnerIInv DEF Next, TaskNext

(* ... so it always holds. *)
THEOREM AtomInvariant == Spec => []IInv
  BY InitIInv, NextIInv, PTL DEF Spec

(* Tasks hold an atom together only as readers, until a waiter it has been *)
(* handed to overwrites its request before the exec task has read it.      *)
THEOREM ExclusionInTimeHolds == Spec => []ExclusionInTime
<1>1. IInv => ExclusionInTime
  <2> SUFFICES ASSUME IInv, ~overwritten, NEW t \in Holders, NEW u \in Holders, t # u
               PROVE  mode[t] = "shared" /\ mode[u] = "shared"
    BY DEF ExclusionInTime, MutualExclusion
  <2>1. state = "shared"
    BY DEF IInv, TypeOK, FreeIsFree, ExclusiveHasHolder, OneHolder
  <2>2. QED
    BY <2>1 DEF IInv, SharedHasReaders
<1>2. QED
  BY AtomInvariant, <1>1, PTL

(* The count of an atom is the number of its locks, so it is never         *)
(* released under a holder; whoever waits is queued once, and behind one:  *)
(* even if the wrong task has been made the owner.                         *)
THEOREM AtomIsConsistentHolds == Spec => []AtomIsConsistent
<1>1. IInv => AtomIsConsistent
  <2> SUFFICES ASSUME IInv PROVE WaiterIsServed
    BY DEF IInv, AtomIsConsistent
  <2>1. waiters # <<>> => Holders # {}
    BY DEF IInv, TypeOK, FreeIsFree, ExclusiveHasHolder, SharedHasReaders
  <2>2. QED
    BY <2>1 DEF IInv, Waiting, WaiterIsServed
<1>2. QED
  BY AtomInvariant, <1>1, PTL
-----------------------------------------------------------------------------
(* Ports that tasks create, for any number of tasks, signals, ports and    *)
(* messages: every signal in use has one user, and a port outlives the     *)
(* signal that is sent to it.                                              *)

(* A port has at most one message out, and is there while it has.          *)
OneMessageOut ==
  /\ \A m, n \in Msg : urport[m] = urport[n] /\ urport[m] # None => m = n
  /\ \A m \in Msg : urport[m] # None => sigtask[urport[m]] # None

(* That message is with its server, or alone in the port's queue.          *)
MessageIsSomewhere ==
  /\ \A m \in Msg :
       \/ urport[m] = None /\ has[m] \in Owner
       \/ urport[m] # None /\ has[m] \in Returner /\ uqueue[urport[m]] = <<>>
       \/ urport[m] # None /\ has[m] = None /\ uqueue[urport[m]] = <<m>>
  /\ \A p \in PortMem : uqueue[p] # <<>> => UserPorts!Out(p) # {}

(* Only one server is about to signal a port, whose signal is not pending. *)
SignalledOnce ==
  \A s \in Returner : utarget[s] # None =>
    /\ signal[utarget[s]] \notin usig[sigtask[utarget[s]]]
    /\ \A r \in Returner : utarget[r] = utarget[s] => r = s

(* A client waits at a port of its own with a message out; once it is      *)
(* woken the message is there, and nobody will signal the port again.      *)
WaitsForMessage ==
  \A t \in Owner :
    LET p == userpc[t].port IN
    /\ userpc[t].at # "run" => p \in PortMem /\ sigtask[p] = t /\ UserPorts!Out(p) # {}
    /\ userpc[t].at = "get" =>
         /\ uqueue[p] # <<>>
         /\ signal[p] \notin usig[t]
         /\ \A s \in Returner : utarget[s] # p

(* The inductive invariant. *)
UserIInv ==
  /\ UserPorts!TypeOK
  /\ UserPorts!SignalsAreOwned
  /\ OneMessageOut
  /\ MessageIsSomewhere
  /\ SignalledOnce
  /\ WaitsForMessage
  /\ UserPorts!PortOutlivesSignal

(* exec_allocsignal finds a free signal if there is one.                   *)
LEMMA LowestIsFree ==
  ASSUME UserPorts!ConstantsOK, NEW t \in Owner, used[t] \in SUBSET SigNum, used[t] # SigNum
  PROVE  UserPorts!LowestFree(t) \in SigNum \ used[t]
<1> DEFINE free == SigNum \ used[t]
<1>1. free \subseteq Nat /\ free # {}
  BY DEF UserPorts!ConstantsOK
<1>2. PICK n \in free : \A k \in free : ~ (<<k, n>> \in OpToRel(<, Nat))
  <2> HIDE DEF free
  <2>1. QED
    BY <1>1, NatLessThanWellFounded, WFMin
<1>3. ASSUME NEW k \in free PROVE n <= k
  <2>1. OpToRel(<, Nat) = {ss \in Nat \X Nat : ss[1] < ss[2]}
    BY DEF OpToRel
  <2>2. <<k, n>> \notin {ss \in Nat \X Nat : ss[1] < ss[2]}
    BY <1>2, <2>1
  <2>3. k \in Nat /\ n \in Nat /\ ~ k < n
    BY <1>1, <2>2
  <2>4. QED
    BY <2>3
<1>4. QED
  BY <1>1, <1>3 DEF UserPorts!LowestFree, UserPorts!Min

(* At first nothing is allocated, sent or waited for.                      *)
LEMMA UserInitIInv == UserPorts!ConstantsOK /\ UserPorts!Init => UserIInv
BY DEF UserPorts!ConstantsOK, UserPorts!Init, UserIInv, UserPorts!TypeOK,
   UserPorts!SignalsAreOwned, UserPorts!PortSignals, OneMessageOut,
   MessageIsSomewhere, UserPorts!Out, SignalledOnce, WaitsForMessage,
   UserPorts!PortOutlivesSignal

(* What the clients do to the signals that they allocate themselves.       *)
LEMMA UserSignalIInv ==
  ASSUME UserPorts!ConstantsOK, UserIInv, NEW t \in Owner, NEW S \in (SUBSET SigNum) \ {{}},
         UserPorts!AllocSignal(t, S) \/ UserPorts!FreeSignal(t, S)
  PROVE  UserIInv'
<1> USE DEF UserPorts!ConstantsOK, UserIInv, UserPorts!AllocSignal, UserPorts!FreeSignal
<1>1. UserPorts!TypeOK'
  <2>1. used \in [Owner -> SUBSET SigNum] /\ mine \in [Owner -> SUBSET SigNum]
    BY DEF UserPorts!TypeOK
  <2>2. used' \in [Owner -> SUBSET SigNum] /\ mine' \in [Owner -> SUBSET SigNum]
    BY ONLY <2>1, UserPorts!AllocSignal(t, S) \/ UserPorts!FreeSignal(t, S), S
       \subseteq SigNum
       DEF UserPorts!Take, UserPorts!Give, UserPorts!AllocSignal, UserPorts!FreeSignal
  <2>3. QED
    BY <2>2 DEF UserPorts!TypeOK
<1>2. UserPorts!SignalsAreOwned'
  <2> SUFFICES ASSUME NEW u \in Owner
               PROVE  /\ used'[u] = UserPorts!PortSignals(u) \cup mine'[u] \cup lost[u]
                      /\ UserPorts!PortSignals(u) \cap (mine'[u] \cup lost[u]) = {}
                      /\ mine'[u] \cap lost[u] = {}
    BY DEF UserPorts!SignalsAreOwned, UserPorts!PortSignals
  <2>1. CASE u # t
    BY <2>1 DEF UserPorts!TypeOK, UserPorts!SignalsAreOwned, UserPorts!Take,
       UserPorts!Give
  <2>2. CASE u = t /\ UserPorts!AllocSignal(t, S)
    BY <2>2 DEF UserPorts!TypeOK, UserPorts!SignalsAreOwned, UserPorts!Take
  <2>3. CASE u = t /\ UserPorts!FreeSignal(t, S)
    BY <2>3 DEF UserPorts!TypeOK, UserPorts!SignalsAreOwned, UserPorts!Give
  <2>4. QED
    BY <2>1, <2>2, <2>3
<1>3. OneMessageOut' /\ MessageIsSomewhere'
  BY DEF OneMessageOut, MessageIsSomewhere, UserPorts!Out
<1>4. SignalledOnce' /\ WaitsForMessage'
  BY DEF SignalledOnce, WaitsForMessage, UserPorts!Out
<1>5. UserPorts!PortOutlivesSignal'
  BY DEF UserPorts!PortOutlivesSignal
<1>6. QED
  BY <1>1, <1>2, <1>3, <1>4, <1>5

(* A new port is given a signal that nobody uses and nobody will send.     *)
LEMMA UserCreatePortIInv ==
  ASSUME UserPorts!ConstantsOK, UserIInv, NEW t \in Owner, NEW p \in PortMem, UserPorts!CreatePort(t, p)
  PROVE  UserIInv'
<1> USE DEF UserPorts!ConstantsOK, UserIInv
<1> DEFINE n == UserPorts!LowestFree(t)
<1>1. n \in SigNum \ used[t]
  BY LowestIsFree DEF UserPorts!CreatePort, UserPorts!TypeOK
<1> HIDE DEF n
<1>2. /\ UserPorts!Runs(t) /\ sigtask[p] = None
      /\ used' = [used EXCEPT ![t] = @ \cup {n}]
      /\ \/ /\ sigtask' = [sigtask EXCEPT ![p] = t]
            /\ signal' = [signal EXCEPT ![p] = n]
            /\ uqueue' = [uqueue EXCEPT ![p] = <<>>]
            /\ lost' = lost
         \/ /\ lost' = [lost EXCEPT ![t] = @ \cup {n}]
            /\ UNCHANGED <<sigtask, signal, uqueue>>
      /\ UNCHANGED <<usig, urport, utarget, userpc, has, mine>>
  BY DEF UserPorts!CreatePort, UserPorts!Take, n
<1>3. UserPorts!TypeOK'
  <2>1. used \in [Owner -> SUBSET SigNum] /\ lost \in [Owner -> SUBSET SigNum]
    BY DEF UserPorts!TypeOK
  <2>2. used' \in [Owner -> SUBSET SigNum] /\ lost' \in [Owner -> SUBSET SigNum]
    BY ONLY <1>1, <1>2, <2>1
  <2>3. /\ sigtask \in [PortMem -> Owner \cup {None}]
        /\ signal \in [PortMem -> SigNum \cup {None}]
        /\ uqueue \in [PortMem -> Seq(Msg)] /\ <<>> \in Seq(Msg)
    BY DEF UserPorts!TypeOK
  <2>4. /\ sigtask' \in [PortMem -> Owner \cup {None}]
        /\ signal' \in [PortMem -> SigNum \cup {None}]
        /\ uqueue' \in [PortMem -> Seq(Msg)]
    BY ONLY <1>1, <1>2, <2>3, t \in Owner, p \in PortMem, ZenonT(30)
  <2>5. QED
    BY <1>2, <2>2, <2>4 DEF UserPorts!TypeOK
<1>4. UserPorts!SignalsAreOwned'
  <2>1. CASE /\ sigtask' = [sigtask EXCEPT ![p] = t]
             /\ signal' = [signal EXCEPT ![p] = n] /\ lost' = lost
    <3>1. /\ sigtask \in [PortMem -> Owner \cup {None}] /\ sigtask[p] = None
          /\ signal \in [PortMem -> SigNum \cup {None}] /\ None \notin Owner
      BY <1>1, <1>2, <2>1 DEF UserPorts!TypeOK
    <3>2. /\ UserPorts!PortSignals(t)' = UserPorts!PortSignals(t) \cup {n}
          /\ \A u \in Owner \ {t} : UserPorts!PortSignals(u)' = UserPorts!PortSignals(u)
      <4>1. \A u \in Owner : {q \in PortMem : sigtask'[q] = u} =
              {q \in PortMem : sigtask[q] = u} \cup (IF u = t THEN {p} ELSE {})
        BY <2>1, <3>1
      <4>2. \A q \in PortMem : signal'[q] = IF q = p THEN n ELSE signal[q]
        BY <2>1, <3>1
      <4>3. \A u \in Owner : p \notin {q \in PortMem : sigtask[q] = u}
        BY <3>1
      <4>4. \A u \in Owner : UserPorts!PortSignals(u)' =
              UserPorts!PortSignals(u) \cup (IF u = t THEN {n} ELSE {})
        BY ONLY <4>1, <4>2, <4>3, p \in PortMem DEF UserPorts!PortSignals
      <4>5. QED
        BY <4>4
    <3>3. \A q \in PortMem : sigtask[q] = t => signal[q] \in used[t]
      BY DEF UserPorts!SignalsAreOwned, UserPorts!PortSignals
    <3>4. QED
      BY <1>1, <1>2, <2>1, <3>2, <3>3 DEF UserPorts!TypeOK,
         UserPorts!SignalsAreOwned
  <2>2. CASE lost' = [lost EXCEPT ![t] = @ \cup {n}] /\ UNCHANGED <<sigtask, signal>>
    <3>1. \A u \in Owner : UserPorts!PortSignals(u)' = UserPorts!PortSignals(u)
      BY <2>2 DEF UserPorts!PortSignals
    <3>2. QED
      BY <1>1, <1>2, <2>2, <3>1 DEF UserPorts!TypeOK, UserPorts!SignalsAreOwned
  <2>3. QED
    BY <1>2, <2>1, <2>2
<1>5. OneMessageOut'
  BY <1>1, <1>2 DEF UserPorts!TypeOK, OneMessageOut
<1>6. MessageIsSomewhere'
  BY <1>1, <1>2 DEF UserPorts!TypeOK, OneMessageOut, MessageIsSomewhere,
     UserPorts!Out
<1>7. SignalledOnce'
  <2>1. \A s \in Returner : utarget[s] # None => utarget[s] \in PortMem \ {p}
    BY <1>2 DEF UserPorts!TypeOK, UserPorts!PortOutlivesSignal
  <2>2. \A q \in PortMem \ {p} : sigtask'[q] = sigtask[q] /\ signal'[q] = signal[q]
    BY <1>2 DEF UserPorts!TypeOK
  <2>3. QED
    BY <1>2, <2>1, <2>2 DEF SignalledOnce
<1>8. WaitsForMessage'
  BY <1>1, <1>2 DEF UserPorts!TypeOK, WaitsForMessage, UserPorts!Out
<1>9. UserPorts!PortOutlivesSignal'
  <2>1. \A q \in PortMem \ {p} :
          sigtask'[q] = sigtask[q] /\ signal'[q] = signal[q] /\ uqueue'[q] = uqueue[q]
    BY <1>2 DEF UserPorts!TypeOK
  <2>2. \A s \in Returner : utarget[s] # None => utarget[s] \in PortMem \ {p}
    BY <1>2 DEF UserPorts!TypeOK, UserPorts!PortOutlivesSignal
  <2>3. \A u \in Owner : sigtask[p] # u
    BY <1>2
  <2>4. QED
    BY <1>2, <2>1, <2>2, <2>3 DEF UserPorts!PortOutlivesSignal
<1>10. QED
  BY <1>3, <1>4, <1>5, <1>6, <1>7, <1>8, <1>9

(* A port without a message out is neither signalled nor waited for.       *)
LEMMA UserDestroyPortIInv ==
  ASSUME UserPorts!ConstantsOK, UserIInv, NEW t \in Owner, NEW p \in PortMem, UserPorts!DestroyPort(t, p)
  PROVE  UserIInv'
<1> USE DEF UserPorts!ConstantsOK, UserIInv, UserPorts!DestroyPort
<1>1. UserPorts!TypeOK'
  BY DEF UserPorts!TypeOK, UserPorts!Give
<1>2. UserPorts!SignalsAreOwned'
  BY DEF UserPorts!TypeOK, UserPorts!SignalsAreOwned, UserPorts!PortSignals,
     UserPorts!Give
<1>3. uqueue[p] = <<>>
  BY DEF MessageIsSomewhere
<1>4. OneMessageOut' /\ MessageIsSomewhere'
  BY DEF UserPorts!TypeOK, OneMessageOut, MessageIsSomewhere, UserPorts!Out
<1>5. SignalledOnce'
  BY <1>3 DEF UserPorts!TypeOK, SignalledOnce, UserPorts!PortOutlivesSignal
<1>6. WaitsForMessage'
  BY DEF UserPorts!TypeOK, WaitsForMessage, UserPorts!Out
<1>7. UserPorts!PortOutlivesSignal'
  BY <1>3 DEF UserPorts!TypeOK, UserPorts!PortOutlivesSignal
<1>8. QED
  BY <1>1, <1>2, <1>4, <1>5, <1>6, <1>7
-----------------------------------------------------------------------------
(* A client sends a message it has, and never a second one to the port.    *)
LEMMA UserPutMsgIInv ==
  ASSUME UserPorts!ConstantsOK, UserIInv, NEW t \in Owner, NEW s \in Returner, NEW p \in PortMem,
         NEW m \in Msg, UserPorts!PutMsg(t, s, p, m)
  PROVE  UserIInv'
<1> USE DEF UserPorts!ConstantsOK, UserIInv, UserPorts!PutMsg
<1>1. /\ urport[m] = None /\ uqueue[p] = <<>> /\ sigtask[p] # None
      /\ \A n \in Msg : urport[n] # p
  BY DEF MessageIsSomewhere, UserPorts!Out
<1>2. /\ urport \in [Msg -> PortMem \cup {None}] /\ urport' = [urport EXCEPT ![m] = p]
      /\ has \in [Msg -> Owner \cup Returner \cup {None}] /\ has' = [has EXCEPT ![m] = s]
  BY DEF UserPorts!TypeOK
<1>3. UserPorts!TypeOK'
  <2>1. /\ urport' \in [Msg -> PortMem \cup {None}]
        /\ has' \in [Msg -> Owner \cup Returner \cup {None}]
    BY ONLY <1>2, p \in PortMem, s \in Returner
  <2>2. QED
    BY <2>1 DEF UserPorts!TypeOK
<1>4. UserPorts!SignalsAreOwned' /\ SignalledOnce' /\ UserPorts!PortOutlivesSignal'
  BY DEF UserPorts!SignalsAreOwned, UserPorts!PortSignals, SignalledOnce,
     UserPorts!PortOutlivesSignal
<1>5. OneMessageOut'
  BY <1>1, <1>2 DEF OneMessageOut
<1>6. MessageIsSomewhere'
  BY <1>1, <1>2 DEF MessageIsSomewhere, UserPorts!Out
<1>7. WaitsForMessage'
  BY <1>1, <1>2 DEF WaitsForMessage, UserPorts!Out
<1>8. QED
  BY <1>3, <1>4, <1>5, <1>6, <1>7

(* The port a message is returned to is there, and has nothing else.       *)
LEMMA UserReturnMsgIInv ==
  ASSUME UserPorts!ConstantsOK, UserIInv, NEW s \in Returner, NEW m \in Msg, UserPorts!ReturnMsg(s, m)
  PROVE  UserIInv'
<1> USE DEF UserPorts!ConstantsOK, UserIInv, UserPorts!ReturnMsg
<1> DEFINE p == urport[m]
<1>1. p \in PortMem /\ uqueue[p] = <<>> /\ sigtask[p] # None /\ None # s /\ s \notin Owner
  BY DEF UserPorts!TypeOK, MessageIsSomewhere, OneMessageOut
<1>2. /\ \A r \in Returner : utarget[r] # p
      /\ signal[p] \notin usig[sigtask[p]]
  <2>1. sigtask[p] \in Owner
    BY <1>1 DEF UserPorts!TypeOK
  <2>2. \A q \in PortMem : sigtask[q] = sigtask[p] /\ signal[q] = signal[p] => q = p
    BY <1>1, <2>1 DEF UserPorts!SignalsAreOwned
  <2>3. QED
    BY <1>1, <2>1, <2>2 DEF UserPorts!PortOutlivesSignal
<1>3. /\ uqueue \in [PortMem -> Seq(Msg)] /\ uqueue' = [uqueue EXCEPT ![p] = <<m>>]
      /\ utarget \in [Returner -> PortMem \cup {None}] /\ utarget' = [utarget EXCEPT ![s] = p]
      /\ has \in [Msg -> Owner \cup Returner \cup {None}] /\ has' = [has EXCEPT ![m] = None]
      /\ <<m>> \in Seq(Msg) /\ <<m>> # <<>>
      /\ UNCHANGED <<used, usig, sigtask, signal, urport, userpc, mine, lost>>
  BY <1>1 DEF UserPorts!TypeOK
<1> HIDE DEF p, UserPorts!ReturnMsg
<1>4. UserPorts!TypeOK'
  <2>1. /\ uqueue' \in [PortMem -> Seq(Msg)]
        /\ utarget' \in [Returner -> PortMem \cup {None}]
        /\ has' \in [Msg -> Owner \cup Returner \cup {None}]
    BY ONLY <1>1, <1>3
  <2>2. QED
    BY <1>3, <2>1 DEF UserPorts!TypeOK
<1>5. UserPorts!SignalsAreOwned' /\ OneMessageOut'
  BY <1>3 DEF UserPorts!SignalsAreOwned, UserPorts!PortSignals, OneMessageOut
<1>6. MessageIsSomewhere'
  <2>1. /\ \A n \in Msg : n # m => urport[n] # p
        /\ \A n \in Msg : has'[n] = IF n = m THEN None ELSE has[n]
        /\ \A q \in PortMem : uqueue'[q] = IF q = p THEN <<m>> ELSE uqueue[q]
    BY <1>1, <1>3 DEF OneMessageOut, p
  <2>2. /\ \A q \in PortMem : UserPorts!Out(q)' = UserPorts!Out(q)
        /\ m \in UserPorts!Out(p)
    BY <1>3 DEF UserPorts!Out, p
  <2>3. \A n \in Msg : urport[n] = None \/ urport[n] \in PortMem
    BY DEF UserPorts!TypeOK
  <2>4. \A q \in PortMem : uqueue'[q] # <<>> => UserPorts!Out(q)' # {}
    BY <2>1, <2>2 DEF MessageIsSomewhere
  <2>5. QED
    BY <1>1, <1>3, <2>1, <2>3, <2>4 DEF MessageIsSomewhere, p
<1>7. SignalledOnce'
  BY <1>1, <1>2, <1>3 DEF SignalledOnce
<1>8. WaitsForMessage'
  BY <1>1, <1>3 DEF WaitsForMessage, UserPorts!Out
<1>9. UserPorts!PortOutlivesSignal'
  BY <1>1, <1>3 DEF UserPorts!PortOutlivesSignal
<1>10. QED
  BY <1>4, <1>5, <1>6, <1>7, <1>8, <1>9

(* The signal is sent to a port that is there, for the message in it.      *)
LEMMA UserNotifyIInv ==
  ASSUME UserPorts!ConstantsOK, UserIInv, NEW s \in Returner, UserPorts!Notify(s)
  PROVE  UserIInv'
<1> USE DEF UserPorts!ConstantsOK, UserIInv, UserPorts!Notify
<1> DEFINE p == utarget[s]
           u == sigtask[p]
<1>1. p \in PortMem /\ u \in Owner /\ uqueue[p] # <<>> /\ signal[p] \in SigNum
  BY DEF UserPorts!TypeOK, UserPorts!PortOutlivesSignal,
     UserPorts!SignalsAreOwned, UserPorts!PortSignals
<1>2. /\ usig \in [Owner -> SUBSET SigNum] /\ usig' = [usig EXCEPT ![u] = @ \cup {signal[p]}]
      /\ utarget \in [Returner -> PortMem \cup {None}] /\ utarget' = [utarget EXCEPT ![s] = None]
      /\ UNCHANGED <<used, sigtask, signal, uqueue, urport, userpc, has, mine, lost>>
  BY DEF UserPorts!TypeOK
<1>3. \A r \in Returner : utarget[r] = p => r = s
  BY <1>1 DEF SignalledOnce
<1>4. \A q \in PortMem : sigtask[q] = u /\ signal[q] = signal[p] => q = p
  BY <1>1 DEF UserPorts!SignalsAreOwned
<1>5. \A t \in Owner : userpc[t].at = "get" => userpc[t].port # p
  BY DEF WaitsForMessage
<1> HIDE DEF UserPorts!Notify
<1>6. UserPorts!TypeOK'
  <2>1. /\ usig' \in [Owner -> SUBSET SigNum]
        /\ utarget' \in [Returner -> PortMem \cup {None}]
    BY ONLY <1>1, <1>2
  <2>2. QED
    BY <1>2, <2>1 DEF UserPorts!TypeOK
<1>7. UserPorts!SignalsAreOwned' /\ OneMessageOut'
  BY <1>2 DEF UserPorts!SignalsAreOwned, UserPorts!PortSignals, OneMessageOut
<1>8. MessageIsSomewhere'
  BY <1>2 DEF MessageIsSomewhere, UserPorts!Out
<1>9. SignalledOnce'
  BY <1>1, <1>2, <1>3, <1>4 DEF SignalledOnce
<1>10. WaitsForMessage'
  BY <1>1, <1>2, <1>4, <1>5 DEF WaitsForMessage, UserPorts!Out
<1>11. UserPorts!PortOutlivesSignal'
  BY <1>1, <1>2 DEF UserPorts!PortOutlivesSignal
<1>12. QED
  BY <1>6, <1>7, <1>8, <1>9, <1>10, <1>11

(* A client waits at a port with a message out, ...                        *)
LEMMA UserWaitIInv ==
  ASSUME UserPorts!ConstantsOK, UserIInv, NEW t \in Owner, NEW p \in PortMem, UserPorts!Wait(t, p)
  PROVE  UserIInv'
<1> USE DEF UserPorts!ConstantsOK, UserIInv, UserPorts!Wait, UserPorts!Goto
<1>1. userpc' = [userpc EXCEPT ![t] = [at |-> "wait", port |-> p]]
  OBVIOUS
<1>2. UserPorts!TypeOK'
  <2>1. userpc' \in [Owner -> [at : {"run", "wait", "get"}, port : PortMem \cup {None}]]
    BY DEF UserPorts!TypeOK
  <2>2. QED
    BY <2>1 DEF UserPorts!TypeOK
<1>3. UserPorts!SignalsAreOwned' /\ OneMessageOut' /\ MessageIsSomewhere'
  <2>1. UserPorts!SignalsAreOwned'
    BY DEF UserPorts!SignalsAreOwned, UserPorts!PortSignals
  <2>2. OneMessageOut'
    BY DEF OneMessageOut
  <2>3. MessageIsSomewhere'
    BY DEF MessageIsSomewhere, UserPorts!Out
  <2>4. QED
    BY <2>1, <2>2, <2>3
<1>4. SignalledOnce' /\ UserPorts!PortOutlivesSignal'
  BY DEF SignalledOnce, UserPorts!PortOutlivesSignal
<1>5. WaitsForMessage'
  <2>1. \A u \in Owner : userpc'[u] = IF u = t THEN [at |-> "wait", port |-> p] ELSE userpc[u]
    BY <1>1 DEF UserPorts!TypeOK
  <2>2. QED
    BY <2>1 DEF WaitsForMessage, UserPorts!Out
<1>6. QED
  BY <1>2, <1>3, <1>4, <1>5

(* ... and its signal is the only one for the message that is there.       *)
LEMMA UserWokenIInv ==
  ASSUME UserPorts!ConstantsOK, UserIInv, NEW t \in Owner, UserPorts!Woken(t)
  PROVE  UserIInv'
<1> USE DEF UserPorts!ConstantsOK, UserIInv
<1> DEFINE p == userpc[t].port
<1>1. /\ p \in PortMem /\ sigtask[p] = t /\ UserPorts!Out(p) # {}
      /\ signal[p] \in usig[t]
      /\ usig' = [usig EXCEPT ![t] = @ \ {signal[p]}]
      /\ userpc' = [userpc EXCEPT ![t] = [at |-> "get", port |-> p]]
      /\ UNCHANGED <<used, sigtask, signal, uqueue, urport, utarget, has, mine, lost>>
  BY DEF UserPorts!Woken, WaitsForMessage, UserPorts!Goto
<1>2. /\ \A q \in PortMem : sigtask[q] = t /\ signal[q] = signal[p] => q = p
      /\ uqueue[p] # <<>>
  BY <1>1 DEF UserPorts!SignalsAreOwned, UserPorts!PortOutlivesSignal
<1>3. \A s \in Returner : utarget[s] # p
  BY <1>1 DEF SignalledOnce
<1>4. /\ \A u \in Owner : userpc'[u] = IF u = t THEN [at |-> "get", port |-> p] ELSE userpc[u]
      /\ \A u \in Owner : usig'[u] = IF u = t THEN usig[t] \ {signal[p]} ELSE usig[u]
  BY <1>1 DEF UserPorts!TypeOK
<1> HIDE DEF p
<1>5. UserPorts!TypeOK'
  <2>1. userpc \in [Owner -> [at : {"run", "wait", "get"}, port : PortMem \cup {None}]]
    BY DEF UserPorts!TypeOK
  <2>2. userpc' \in [Owner -> [at : {"run", "wait", "get"}, port : PortMem \cup {None}]]
    BY ONLY <1>1, <2>1
  <2>3. usig' \in [Owner -> SUBSET SigNum]
    BY <1>1 DEF UserPorts!TypeOK
  <2>4. QED
    BY <1>1, <2>2, <2>3 DEF UserPorts!TypeOK
<1>6. UserPorts!SignalsAreOwned' /\ OneMessageOut' /\ MessageIsSomewhere'
  <2>1. UserPorts!SignalsAreOwned'
    BY <1>1 DEF UserPorts!SignalsAreOwned, UserPorts!PortSignals
  <2>2. OneMessageOut'
    BY <1>1 DEF OneMessageOut
  <2>3. MessageIsSomewhere'
    BY <1>1 DEF MessageIsSomewhere, UserPorts!Out
  <2>4. QED
    BY <2>1, <2>2, <2>3
<1>7. SignalledOnce'
  BY <1>1, <1>4 DEF UserPorts!TypeOK, SignalledOnce, UserPorts!PortOutlivesSignal
<1>8. WaitsForMessage'
  <2>1. \A q \in PortMem : UserPorts!Out(q)' = UserPorts!Out(q)
    BY <1>1 DEF UserPorts!Out
  <2>2. QED
    BY <1>1, <1>2, <1>3, <1>4, <2>1 DEF WaitsForMessage
<1>9. UserPorts!PortOutlivesSignal'
  BY <1>1, <1>4 DEF UserPorts!PortOutlivesSignal
<1>10. QED
  BY <1>5, <1>6, <1>7, <1>8, <1>9

(* The message is taken, and nobody is about to signal it any more.        *)
LEMMA UserGetMsgIInv ==
  ASSUME UserPorts!ConstantsOK, UserIInv, NEW t \in Owner, UserPorts!GetMsg(t)
  PROVE  UserIInv'
<1> USE DEF UserPorts!ConstantsOK, UserIInv
<1> DEFINE p == userpc[t].port
           m == Head(uqueue[p])
<1>1. /\ p \in PortMem /\ sigtask[p] = t /\ uqueue[p] # <<>>
      /\ signal[p] \notin usig[t]
      /\ \A s \in Returner : utarget[s] # p
  BY DEF UserPorts!GetMsg, WaitsForMessage
<1>2. m \in Msg /\ urport[m] = p /\ uqueue[p] = <<m>>
  <2>1. PICK n \in Msg : urport[n] = p
    BY <1>1 DEF MessageIsSomewhere, UserPorts!Out
  <2>2. uqueue[p] = <<n>>
    BY <1>1, <2>1 DEF MessageIsSomewhere
  <2>3. m = n
    BY <2>2
  <2>4. QED
    BY <2>1, <2>2, <2>3
<1>3. /\ uqueue' = [uqueue EXCEPT ![p] = <<>>]
      /\ urport' = [urport EXCEPT ![m] = None]
      /\ has' = [has EXCEPT ![m] = t]
      /\ userpc' = [userpc EXCEPT ![t] = [at |-> "run", port |-> None]]
      /\ UNCHANGED <<used, usig, sigtask, signal, utarget, mine, lost>>
  <2>1. Tail(<<m>>) = <<>>
    OBVIOUS
  <2>2. QED
    BY <1>1, <1>2, <2>1 DEF UserPorts!GetMsg, UserPorts!Goto
<1> HIDE DEF p, m
<1>4. UserPorts!TypeOK'
  <2>1. /\ userpc \in [Owner -> [at : {"run", "wait", "get"}, port : PortMem \cup {None}]]
        /\ uqueue \in [PortMem -> Seq(Msg)] /\ <<>> \in Seq(Msg)
        /\ urport \in [Msg -> PortMem \cup {None}]
        /\ has \in [Msg -> Owner \cup Returner \cup {None}]
    BY DEF UserPorts!TypeOK
  <2>2. /\ userpc' \in [Owner -> [at : {"run", "wait", "get"}, port : PortMem \cup {None}]]
        /\ uqueue' \in [PortMem -> Seq(Msg)]
        /\ urport' \in [Msg -> PortMem \cup {None}]
        /\ has' \in [Msg -> Owner \cup Returner \cup {None}]
    BY ONLY <1>1, <1>2, <1>3, <2>1
  <2>3. QED
    BY <1>3, <2>2 DEF UserPorts!TypeOK
<1>5. /\ \A u \in Owner : userpc'[u] = IF u = t THEN [at |-> "run", port |-> None] ELSE userpc[u]
      /\ \A q \in PortMem : uqueue'[q] = IF q = p THEN <<>> ELSE uqueue[q]
      /\ \A n \in Msg : urport'[n] = IF n = m THEN None ELSE urport[n]
      /\ \A n \in Msg : has'[n] = IF n = m THEN t ELSE has[n]
      /\ \A n \in Msg : n # m => urport[n] # p
  BY <1>1, <1>2, <1>3 DEF UserPorts!TypeOK, OneMessageOut
<1>6. \A q \in PortMem \ {p} : UserPorts!Out(q)' = UserPorts!Out(q)
  BY <1>2, <1>5 DEF UserPorts!Out
<1>7. UserPorts!SignalsAreOwned' /\ OneMessageOut'
  BY <1>3, <1>5 DEF UserPorts!SignalsAreOwned, UserPorts!PortSignals, OneMessageOut
<1>8. MessageIsSomewhere'
  <2>1. \A n \in Msg : urport[n] = None \/ urport[n] \in PortMem
    BY DEF UserPorts!TypeOK
  <2>2. QED
    BY <1>1, <1>5, <1>6, <2>1, SMTT(30) DEF MessageIsSomewhere
<1>9. SignalledOnce'
  BY <1>3 DEF SignalledOnce
<1>10. WaitsForMessage'
  <2> SUFFICES ASSUME NEW u \in Owner \ {t}, NEW q, q = userpc[u].port, userpc[u].at # "run"
               PROVE  /\ q \in PortMem /\ sigtask[q] = u /\ UserPorts!Out(q)' # {}
                      /\ userpc[u].at = "get" =>
                           /\ uqueue'[q] # <<>>
                           /\ signal[q] \notin usig[u]
                           /\ \A s \in Returner : utarget[s] # q
    BY <1>3, <1>5 DEF WaitsForMessage
  <2>1. q \in PortMem \ {p} /\ sigtask[q] = u /\ UserPorts!Out(q) # {}
    BY <1>1 DEF WaitsForMessage
  <2>2. QED
    BY <1>5, <1>6, <2>1 DEF WaitsForMessage
<1>11. UserPorts!PortOutlivesSignal'
  BY <1>1, <1>3, <1>5 DEF UserPorts!TypeOK, UserPorts!PortOutlivesSignal
<1>12. QED
  BY <1>4, <1>7, <1>8, <1>9, <1>10, <1>11
-----------------------------------------------------------------------------
(* Every step preserves the invariant, ...                                 *)
LEMMA UserNextIInv == UserPorts!ConstantsOK /\ UserIInv /\ [UserPorts!Next]_(UserPorts!vars) => UserIInv'
<1> SUFFICES ASSUME UserPorts!ConstantsOK, UserIInv, [UserPorts!Next]_(UserPorts!vars) PROVE UserIInv'
  OBVIOUS
<1>1. CASE UNCHANGED UserPorts!vars
  BY <1>1 DEF UserPorts!vars, UserIInv, UserPorts!TypeOK,
     UserPorts!SignalsAreOwned, UserPorts!PortSignals, OneMessageOut,
     MessageIsSomewhere, UserPorts!Out, SignalledOnce, WaitsForMessage,
     UserPorts!PortOutlivesSignal
<1>2. CASE \E t \in Owner : UserPorts!ClientNext(t)
  BY <1>2, UserSignalIInv, UserCreatePortIInv, UserDestroyPortIInv, UserPutMsgIInv, UserWaitIInv,
     UserWokenIInv, UserGetMsgIInv DEF UserPorts!ClientNext
<1>3. CASE \E s \in Returner : UserPorts!Notify(s) \/ \E m \in Msg : UserPorts!ReturnMsg(s, m)
  BY <1>3, UserNotifyIInv, UserReturnMsgIInv
<1>4. QED
  BY <1>1, <1>2, <1>3 DEF UserPorts!Next

(* ... so it always holds. *)
THEOREM UserPortInvariant == ASSUME UserPorts!ConstantsOK PROVE UserPorts!Spec => []UserIInv
  BY UserInitIInv, UserNextIInv, PTL DEF UserPorts!Spec
-----------------------------------------------------------------------------
(* The theorems about ports, for tasks that use no lock.                   *)
PortProofs == INSTANCE ExecSyncProofs WITH
  Task <- PortTask, pc <- portpc, MaxNest <- 0, owner <- None, nest <- 0, waiters <- <<>>,
  waitcount <- 0, depth <- [t \in PortTask |-> 0]
-----------------------------------------------------------------------------
(* Those theorems are about the same behaviours as ExecServices.           *)
LEMMA SamePorts ==
  /\ Ports!Init => PortProofs!Port!Init
  /\ Ports!Next => PortProofs!Port!Next
  /\ Ports!vars = PortProofs!Port!vars
<1>1. Ports!Init => PortProofs!Port!Init
  BY DEF Ports!Init, PortProofs!Port!Init, Ports!Port, PortProofs!Port!Port
<1>2. Ports!Next => PortProofs!Port!Next
  BY DEF Ports!Next, PortProofs!Port!Next, Ports!ClientNext, PortProofs!Port!ClientNext,
     Ports!AnyNext, PortProofs!Port!AnyNext,
     Ports!AllocMsg, PortProofs!Port!AllocMsg, Ports!PutMsg, PortProofs!Port!PutMsg,
     Ports!SendMsg, PortProofs!Port!SendMsg, Ports!Notify, PortProofs!Port!Notify,
     Ports!SyncWait, PortProofs!Port!SyncWait, Ports!SyncGet, PortProofs!Port!SyncGet,
     Ports!WaitPort, PortProofs!Port!WaitPort, Ports!TestPort, PortProofs!Port!TestPort,
     Ports!WakePort, PortProofs!Port!WakePort, Ports!GetMsg, PortProofs!Port!GetMsg,
     Ports!InsertMsg, PortProofs!Port!InsertMsg, Ports!SetFlags, PortProofs!Port!SetFlags,
     Ports!ReturnMsg, PortProofs!Port!ReturnMsg, Ports!Enqueue, PortProofs!Port!Enqueue,
     Ports!Goto, PortProofs!Port!Goto, Ports!MustAnswer, PortProofs!Port!MustAnswer,
     Ports!Queued, PortProofs!Port!Queued, Ports!Port, PortProofs!Port!Port,
     Ports!SyncPort, PortProofs!Port!SyncPort, Ports!UserPort, PortProofs!Port!UserPort,
     Ports!SigTask, PortProofs!Port!SigTask, Ports!PortSignal, PortProofs!Port!PortSignal,
     Ports!ToSet, PortProofs!Port!ToSet, Ports!InsertAt, PortProofs!Port!InsertAt,
     Ports!SENT, PortProofs!Port!SENT, Ports!Verdict, PortProofs!Port!Verdict,
     Ports!FAILED, PortProofs!Port!FAILED, Ports!ACKD, PortProofs!Port!ACKD,
     Ports!REPLIED, PortProofs!Port!REPLIED
<1>3. Ports!vars = PortProofs!Port!vars
  BY DEF Ports!vars, PortProofs!Port!vars
<1>4. QED
  BY <1>1, <1>2, <1>3

(* What Messaging sees of ports is the same, too.                          *)
LEMMA SameMessaging ==
  /\ PortProofs!Port!Abstract!Init => Ports!Abstract!Init
  /\ PortProofs!Port!Abstract!Next => Ports!Abstract!Next
  /\ UNCHANGED PortProofs!Port!Abstract!vars => UNCHANGED Ports!Abstract!vars
<1>1. PortProofs!Port!Abstract!Init => Ports!Abstract!Init
  BY DEF Ports!Abstract!Init, PortProofs!Port!Abstract!Init, Ports!Select,
     PortProofs!Port!Select, Ports!UserPort, PortProofs!Port!UserPort, Ports!SigTask,
     PortProofs!Port!SigTask, Ports!Sender, PortProofs!Port!Sender, Ports!IsRequest,
     PortProofs!Port!IsRequest, Ports!SENT, PortProofs!Port!SENT, Ports!Stage,
     PortProofs!Port!Stage, Ports!Queued, PortProofs!Port!Queued, Ports!ToSet,
     PortProofs!Port!ToSet, Ports!Port, PortProofs!Port!Port, Ports!Verdict,
     PortProofs!Port!Verdict, Ports!FAILED, PortProofs!Port!FAILED, Ports!ACKD,
     PortProofs!Port!ACKD, Ports!REPLIED, PortProofs!Port!REPLIED
<1>2. PortProofs!Port!Abstract!Next => Ports!Abstract!Next
  BY DEF Ports!Abstract!Next, PortProofs!Port!Abstract!Next, Ports!Abstract!Alloc,
     PortProofs!Port!Abstract!Alloc, Ports!Abstract!Post, PortProofs!Port!Abstract!Post,
     Ports!Abstract!Take, PortProofs!Port!Abstract!Take, Ports!Abstract!PutBack,
     PortProofs!Port!Abstract!PutBack, Ports!Abstract!Answer,
     PortProofs!Port!Abstract!Answer, Ports!Abstract!Collect,
     PortProofs!Port!Abstract!Collect, Ports!Abstract!InsertAt,
     PortProofs!Port!Abstract!InsertAt, Ports!Select, PortProofs!Port!Select,
     Ports!UserPort, PortProofs!Port!UserPort, Ports!SigTask, PortProofs!Port!SigTask,
     Ports!Sender, PortProofs!Port!Sender, Ports!IsRequest, PortProofs!Port!IsRequest,
     Ports!SENT, PortProofs!Port!SENT, Ports!Stage, PortProofs!Port!Stage, Ports!Queued,
     PortProofs!Port!Queued, Ports!ToSet, PortProofs!Port!ToSet, Ports!Port,
     PortProofs!Port!Port, Ports!Verdict, PortProofs!Port!Verdict, Ports!FAILED,
     PortProofs!Port!FAILED, Ports!ACKD, PortProofs!Port!ACKD, Ports!REPLIED,
     PortProofs!Port!REPLIED
<1>3. UNCHANGED PortProofs!Port!Abstract!vars => UNCHANGED Ports!Abstract!vars
  BY DEF Ports!Abstract!vars, PortProofs!Port!Abstract!vars, Ports!Select,
     PortProofs!Port!Select, Ports!UserPort, PortProofs!Port!UserPort, Ports!SigTask,
     PortProofs!Port!SigTask, Ports!Sender, PortProofs!Port!Sender, Ports!IsRequest,
     PortProofs!Port!IsRequest, Ports!SENT, PortProofs!Port!SENT, Ports!Stage,
     PortProofs!Port!Stage, Ports!Queued, PortProofs!Port!Queued, Ports!ToSet,
     PortProofs!Port!ToSet, Ports!Port, PortProofs!Port!Port, Ports!Verdict,
     PortProofs!Port!Verdict, Ports!FAILED, PortProofs!Port!FAILED, Ports!ACKD,
     PortProofs!Port!ACKD, Ports!REPLIED, PortProofs!Port!REPLIED
<1>4. QED
  BY <1>1, <1>2, <1>3

(* A behaviour of ExecServices is one of each part, which takes steps or   *)
(* none.                                                                   *)
LEMMA PartsOfServices ==
  AllSpec => /\ Spec
             /\ PortProofs!Port!Spec
             /\ UserPorts!Spec
<1>1. AllInit => Init /\ PortProofs!Port!Init /\ UserPorts!Init
  BY SamePorts DEF AllInit
<1>2. [AllNext]_allvars => [Next]_vars
  BY DEF AllNext, allvars
<1>3. [AllNext]_allvars => [PortProofs!Port!Next]_PortProofs!Port!vars
  <2>1. UNCHANGED portvars => UNCHANGED PortProofs!Port!vars
    BY DEF portvars, PortProofs!Port!vars
  <2>2. QED
    BY <2>1, SamePorts DEF AllNext, allvars
<1>4. [AllNext]_allvars => [UserPorts!Next]_UserPorts!vars
  <2>1. UNCHANGED uservars => UNCHANGED UserPorts!vars
    BY DEF uservars, UserPorts!vars
  <2>2. QED
    BY <2>1 DEF AllNext, allvars
<1>5. QED
  BY <1>1, <1>2, <1>3, <1>4, PTL DEF AllSpec, Spec, PortProofs!Port!Spec,
     UserPorts!Spec

(* What ExecSyncProofs assumes of its constants.                           *)
LEMMA PortConstants ==
  /\ None \notin PortTask /\ 0 \in Nat
  /\ Client \cup Server \subseteq PortTask
  /\ None \notin PortProofs!Port!Port \cup Msg
  BY PortAssumption DEF Ports!Port, PortProofs!Port!Port

(* No task sleeps in TWaitPort over a message, unless somebody is about to *)
(* signal it.                                                              *)
THEOREM ServicesNoLostWakeup == AllSpec => []NoLostWakeup
<1>1. PortProofs!Port!NoLostWakeup => NoLostWakeup
  BY DEF NoLostWakeup, Ports!NoLostWakeup, PortProofs!Port!NoLostWakeup,
     Ports!UserPort, PortProofs!Port!UserPort
<1>2. PortProofs!Port!Spec => []PortProofs!Port!NoLostWakeup
  BY PortConstants, PortProofs!PortNoLostWakeup
<1>3. QED
  BY <1>1, <1>2, PartsOfServices, PTL

(* TSendMsg returns the answer its message was given, and no other.        *)
THEOREM ServicesSendReturnsAnswer == AllSpec => SendReturnsAnswer
<1>1. PortProofs!Port!Spec => PortProofs!Port!SendReturnsAnswer
  BY PortConstants, PortProofs!SendReturnsAnswerHolds
<1>2. PortProofs!Port!SendReturnsAnswer => SendReturnsAnswer
  BY SamePorts, PTL DEF SendReturnsAnswer, Ports!SendReturnsAnswer,
     PortProofs!Port!SendReturnsAnswer, Ports!vars, PortProofs!Port!vars
<1>3. QED
  BY <1>1, <1>2, PartsOfServices, PTL

(* Ports do what Messaging promises.                                       *)
THEOREM ServicesImplementsMessaging == AllSpec => ImplementsMessaging
<1>1. PortProofs!Port!Spec => PortProofs!Port!ImplementsMessaging
  BY PortConstants, PortProofs!PortsImplementMessaging
<1>2. /\ PortProofs!Port!Abstract!Init => Ports!Abstract!Init
      /\ [PortProofs!Port!Abstract!Next]_(PortProofs!Port!Abstract!vars) =>
           [Ports!Abstract!Next]_(Ports!Abstract!vars)
  BY SameMessaging
<1>3. PortProofs!Port!ImplementsMessaging => ImplementsMessaging
  BY <1>2, PTL DEF ImplementsMessaging, Ports!ImplementsMessaging, Ports!Abstract!Spec,
     PortProofs!Port!ImplementsMessaging, PortProofs!Port!Abstract!Spec
<1>4. QED
  BY <1>1, <1>3, PartsOfServices, PTL

(* Every signal in use has one user.                                       *)
THEOREM ServicesSignalsAreOwned == AllSpec => []SignalsAreOwned
<1>1. UserIInv => SignalsAreOwned
  BY DEF UserIInv, SignalsAreOwned
<1>2. QED
  BY <1>1, UserPortInvariant, UserPortAssumption, PartsOfServices, PTL

(* A port is there when it is signalled, and signalled for a message.      *)
THEOREM ServicesPortOutlivesSignal == AllSpec => []PortOutlivesSignal
<1>1. UserIInv => PortOutlivesSignal
  BY DEF UserIInv, PortOutlivesSignal
<1>2. QED
  BY <1>1, UserPortInvariant, UserPortAssumption, PartsOfServices, PTL

(* An atom is held by one task or by readers, unless the exec task has     *)
(* read the request of its owner after it was overwritten.                 *)
THEOREM ServicesExclusionInTime == AllSpec => []ExclusionInTime
  BY PartsOfServices, ExclusionInTimeHolds, PTL

(* An atom's count and its queue are exact, whatever the exec task reads.  *)
THEOREM ServicesAtomIsConsistent == AllSpec => []AtomIsConsistent
  BY PartsOfServices, AtomIsConsistentHolds, PTL
=============================================================================
