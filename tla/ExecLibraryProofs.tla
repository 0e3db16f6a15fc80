------------------------- MODULE ExecLibraryProofs -------------------------
(***************************************************************************)
(* Proofs about ExecLibrary: the pointers of a list are those of a         *)
(* sequence of nodes, for any nodes and lists; and what ExecMemoryProofs   *)
(* shows of managers and pools holds of the memory here.                   *)
(***************************************************************************)
EXTENDS ExecLibrary, ExecMemoryProofs

Place == Lists!Place

(* The list's module counts like this one.                                 *)
LEMMA Counts ==
  \A S : (Lists!IsFiniteSet(S) <=> IsFiniteSet(S)) /\ Lists!Cardinality(S) = Cardinality(S)
<1>1. \A S : Lists!IsFiniteSet(S) <=> IsFiniteSet(S)
  BY DEF IsFiniteSet, Lists!IsFiniteSet
<1>2. \A S : Lists!Cardinality(S) = Cardinality(S)
  BY DEF Cardinality, Lists!Cardinality
<1>3. QED
  BY <1>1, <1>2

(* There are finitely many nodes.                                          *)
LEMMA NodesFinite == IsFiniteSet(Node) /\ Cardinality(Node) \in Nat /\ None \notin Place
<1>1. IsFiniteSet(Node) /\ None \notin Place
  BY ListAssumption, Counts DEF Lists!ConstantsOK, Place
<1>2. QED
  BY <1>1, FS_CardinalityType

(* What the recursive function in Chain has to satisfy.                    *)
Walks(next, from, at) ==
  at = [k \in 1..Cardinality(Node) |->
          IF k = 1 THEN next[from] ELSE IF at[k - 1] = None THEN None ELSE next[at[k - 1]]]

(* Only one function does.                                                 *)
LEMMA WalksSame ==
  ASSUME NEW next, NEW from, NEW g, NEW h, Walks(next, from, g), Walks(next, from, h)
  PROVE  g = h
<1>1. PICK N : N = Cardinality(Node)
  OBVIOUS
<1>2. /\ g = [k \in 1..N |-> g[k]] /\ h = [k \in 1..N |-> h[k]]
      /\ \A k \in 1..N : g[k] = IF k = 1 THEN next[from]
                                ELSE IF g[k - 1] = None THEN None ELSE next[g[k - 1]]
      /\ \A k \in 1..N : h[k] = IF k = 1 THEN next[from]
                                ELSE IF h[k - 1] = None THEN None ELSE next[h[k - 1]]
  BY <1>1 DEF Walks
<1> DEFINE S == {k \in 1..N : g[k] # h[k]}
<1>3. SUFFICES ASSUME S # {} PROVE FALSE
  BY <1>2
<1>4. N \in Nat
  BY <1>1, NodesFinite
<1>5. PICK k \in S : \A j \in S : k <= j
  <2>1. S \in SUBSET Nat
    BY <1>4
  <2> HIDE DEF S
  <2>2. QED
    BY <1>3, <2>1, LeastNat
<1>6. k # 1 /\ k \in 1..N
  BY <1>2
<1>7. k - 1 \in 1..N /\ ~ (k <= k - 1)
  BY <1>4, <1>6
<1>8. g[k - 1] = h[k - 1]
  BY <1>5, <1>7
<1>9. QED
  BY <1>2, <1>5, <1>6, <1>8

(* A way from a place, along nodes that are all different, to one that has *)
(* none after it, is what Chain finds.                                     *)
IsWay(next, n, w) ==
  /\ \A i \in 1..(n + 1) : w[i] \in Place
  /\ \A i \in 0..n : next[w[i]] = w[i + 1]
  /\ next[w[n + 1]] = None
  /\ \A i \in 1..n : w[i] \in Node
  /\ \A i, j \in 1..n : w[i] = w[j] => i = j

(* Chain follows the pointers to the end and stops there.                  *)
LEMMA ChainIs ==
  ASSUME NEW next, NEW n \in Nat, NEW w, IsWay(next, n, w)
  PROVE  Lists!Chain(next, w[0]) = [i \in 1..n |-> w[i]]
<1> USE DEF IsWay
<1>1. PICK N : N = Cardinality(Node)
  OBVIOUS
<1>2. N \in Nat /\ None \notin Place /\ IsFiniteSet(Node)
  BY <1>1, NodesFinite
<1>3. n <= N
  <2> DEFINE f == [i \in 1..n |-> w[i]]
  <2>1. f \in Injection(1..n, Node)
    BY DEF Injection, IsInjective
  <2>2. Cardinality(1..n) <= N
    BY <1>1, <1>2, <2>1, FS_Injection
  <2>3. Cardinality(1..n) = n
    <3>1. 1 \in Int /\ n \in Int
      OBVIOUS
    <3>2. Cardinality(1..n) = IF 1 > n THEN 0 ELSE n - 1 + 1
      BY <3>1, FS_Interval
    <3>3. QED
      BY <3>2
  <2>4. QED
    BY <2>2, <2>3
<1> DEFINE g == [k \in 1..N |-> IF k <= n + 1 THEN w[k] ELSE None]
<1>4. Walks(next, w[0], g)
  <2>1. ASSUME NEW k \in 1..N, k = 1 PROVE g[k] = next[w[0]]
    <3>1. 0 \in 0..n /\ 0 + 1 = k
      BY <2>1
    <3>2. QED
      BY <2>1, <3>1
  <2>2. ASSUME NEW k \in 1..N, k # 1
        PROVE  g[k] = IF g[k - 1] = None THEN None ELSE next[g[k - 1]]
    <3>1. k - 1 \in 1..N /\ (k - 1) + 1 = k
      BY <1>2, <2>2
    <3>2. CASE k <= n + 1
      <4>1. k - 1 \in 0..n /\ k - 1 \in 1..(n + 1) /\ k - 1 <= n + 1
        BY <1>2, <2>2, <3>2
      <4>2. g[k] = w[k] /\ g[k - 1] = w[k - 1]
        BY <3>1, <3>2, <4>1
      <4>3. w[k - 1] # None /\ next[w[k - 1]] = w[k]
        BY <1>2, <3>1, <4>1
      <4>4. QED
        BY <4>2, <4>3
    <3>3. CASE k = n + 2
      <4>1. k - 1 = n + 1 /\ k - 1 \in 1..(n + 1) /\ k - 1 <= n + 1 /\ ~ (k <= n + 1)
        BY <1>2, <2>2, <3>3
      <4>2. g[k] = None /\ g[k - 1] = w[n + 1]
        BY <3>1, <4>1
      <4>3. QED
        BY <4>2
    <3>4. CASE k > n + 2
      <4>1. ~ (k - 1 <= n + 1) /\ ~ (k <= n + 1)
        BY <1>2, <2>2, <3>4
      <4>2. QED
        BY <3>1, <4>1
    <3>5. k \in Nat /\ ((k <= n + 1) \/ k = n + 2 \/ k > n + 2)
      BY <1>2
    <3>6. QED
      BY <3>2, <3>3, <3>4, <3>5
  <2>3. g = [k \in 1..N |-> g[k]]
    OBVIOUS
  <2> HIDE DEF g
  <2>4. g = [k \in 1..N |-> IF k = 1 THEN next[w[0]]
                            ELSE IF g[k - 1] = None THEN None ELSE next[g[k - 1]]]
    BY <2>1, <2>2, <2>3
  <2>5. QED
    BY <1>1, <2>4 DEF Walks
<1>5. DOMAIN g = 1..N /\ \A k \in 1..N : g[k] = IF k <= n + 1 THEN w[k] ELSE None
  OBVIOUS
<1> HIDE DEF g
<1> DEFINE nodes == {k \in DOMAIN g : g[k] # None /\ next[g[k]] # None}
<1>6. nodes = 1..n
  <2>1. ASSUME NEW k \in 1..n PROVE k \in nodes
    <3>1. k \in 1..N /\ k <= n + 1 /\ k \in 0..n /\ k \in 1..(n + 1) /\ k + 1 \in 1..(n + 1)
      BY <1>2, <1>3
    <3>2. g[k] = w[k] /\ w[k] # None /\ next[w[k]] = w[k + 1] /\ w[k + 1] # None
      BY <1>2, <1>5, <3>1
    <3>3. QED
      BY <1>5, <3>1, <3>2
  <2>2. ASSUME NEW k \in 1..N, ~ (k <= n) PROVE k \notin nodes
    <3>1. CASE k = n + 1
      <4>1. g[k] = w[n + 1]
        BY <1>5, <3>1
      <4>2. QED
        BY <4>1
    <3>2. CASE k # n + 1
      <4>1. ~ (k <= n + 1)
        BY <2>2, <3>2
      <4>2. QED
        BY <1>5, <4>1
    <3>3. QED
      BY <3>1, <3>2
  <2>3. nodes \subseteq 1..N
    BY <1>5
  <2>4. \A k \in 1..N : k <= n => k \in 1..n
    BY <1>2
  <2>5. QED
    BY <2>1, <2>2, <2>3, <2>4
<1>7. Cardinality(nodes) = n
  <2>1. 1 \in Int /\ n \in Int
    OBVIOUS
  <2>2. Cardinality(1..n) = IF 1 > n THEN 0 ELSE n - 1 + 1
    BY <2>1, FS_Interval
  <2>3. (IF 1 > n THEN 0 ELSE n - 1 + 1) = n
    OBVIOUS
  <2> HIDE DEF nodes
  <2>4. QED
    BY <1>6, <2>2, <2>3
<1> DEFINE at == CHOOSE at : at = [k \in 1..Lists!Cardinality(Node) |->
                   IF k = 1 THEN next[w[0]]
                   ELSE IF at[k - 1] = None THEN None ELSE next[at[k - 1]]]
           C == {k \in DOMAIN at : at[k] # None /\ next[at[k]] # None}
<1>8. at = g
  <2>1. Walks(next, w[0], at)
    BY <1>4, Counts DEF Walks
  <2>2. QED
    BY <1>4, <2>1, WalksSame
<1>9. Lists!Chain(next, w[0]) = [k \in 1..Cardinality(nodes) |-> g[k]]
  <2>1. Lists!Chain(next, w[0]) = [k \in 1..Lists!Cardinality(C) |-> at[k]]
    BY DEF Lists!Chain
  <2> HIDE DEF at
  <2>2. C = nodes
    BY <1>8
  <2> HIDE DEF C, nodes
  <2>3. QED
    BY <1>8, <2>1, <2>2, Counts
<1>10. \A k \in 1..n : g[k] = w[k]
  BY <1>2, <1>3, <1>5
<1>11. QED
  BY <1>7, <1>9, <1>10
-----------------------------------------------------------------------------
(* The nodes of a list by number; its head and tail are before and after.  *)
At(s, l, i) ==
  IF i = 0 THEN Lists!HeadOf(l) ELSE IF i = Len(s[l]) + 1 THEN Lists!TailOf(l) ELSE s[l][i]

(* What succ and pred are functions of.                                    *)
Pointers == [Place -> Place \cup {None}]

(* Lists, as sequences, in which no node is twice, ...                     *)
Apart(s) ==
  /\ s \in [List -> Seq(Node)]
  /\ \A k, l \in List : \A i \in 1..Len(s[k]), j \in 1..Len(s[l]) :
       s[k][i] = s[l][j] => k = l /\ i = j

(* ... and pointers that are those of the sequences.                       *)
Ends(sc, pd) == \A l \in List : sc[Lists!TailOf(l)] = None /\ pd[Lists!HeadOf(l)] = None
Joins(s, sc, pd) ==
  \A l \in List : \A i \in 0..Len(s[l]) :
    sc[At(s, l, i)] = At(s, l, i + 1) /\ pd[At(s, l, i + 1)] = At(s, l, i)
Represents(s, sc, pd) ==
  Apart(s) /\ sc \in Pointers /\ pd \in Pointers /\ Ends(sc, pd) /\ Joins(s, sc, pd)

(* Where a list's places are.                                              *)
LEMMA AtPlace ==
  ASSUME NEW s, Apart(s), NEW l \in List
  PROVE  /\ Len(s[l]) \in Nat /\ DOMAIN s[l] = 1..Len(s[l])
         /\ \A i \in 1..Len(s[l]) : At(s, l, i) = s[l][i] /\ s[l][i] \in Node
         /\ At(s, l, 0) = Lists!HeadOf(l) /\ At(s, l, Len(s[l]) + 1) = Lists!TailOf(l)
         /\ \A i \in 0..(Len(s[l]) + 1) : At(s, l, i) \in Place
<1>1. PICK q : q = s[l]
  OBVIOUS
<1>2. q \in Seq(Node)
  BY <1>1 DEF Apart
<1>3. PICK n : n = Len(q)
  OBVIOUS
<1>4. n \in Nat /\ DOMAIN q = 1..n /\ \A i \in 1..n : q[i] \in Node
  BY <1>2, <1>3
<1>5. At(s, l, 0) = Lists!HeadOf(l) /\ At(s, l, n + 1) = Lists!TailOf(l)
  BY <1>1, <1>3, <1>4 DEF At
<1>6. \A i \in 1..n : At(s, l, i) = q[i]
  BY <1>1, <1>3, <1>4 DEF At
<1>7. \A i \in 0..(n + 1) : i \in 1..n \/ i = 0 \/ i = n + 1
  BY <1>4
<1>8. Lists!HeadOf(l) \in Place /\ Lists!TailOf(l) \in Place /\ Node \subseteq Place
  BY DEF Place, Lists!Place, Lists!HeadOf, Lists!TailOf
<1>9. QED
  BY <1>1, <1>3, <1>4, <1>5, <1>6, <1>7, <1>8

(* Two places are the same only if they are meant to be.                   *)
LEMMA AtApart ==
  ASSUME NEW s, Apart(s), NEW k \in List, NEW l \in List,
         NEW i \in 0..(Len(s[k]) + 1), NEW j \in 0..(Len(s[l]) + 1),
         At(s, k, i) = At(s, l, j)
  PROVE  k = l /\ i = j
<1>1. Node \cap (List \X {"head", "tail"}) = {}
  BY ListAssumption DEF Lists!ConstantsOK
<1>2. \A a \in List : <<a, "head">> \notin Node /\ <<a, "tail">> \notin Node
  BY <1>1
<1>3. \A a, b \in List : /\ Lists!HeadOf(a) # Lists!TailOf(b)
                         /\ Lists!HeadOf(a) \notin Node /\ Lists!TailOf(a) \notin Node
                         /\ Lists!HeadOf(a) = Lists!HeadOf(b) => a = b
                         /\ Lists!TailOf(a) = Lists!TailOf(b) => a = b
  BY <1>2 DEF Lists!HeadOf, Lists!TailOf
<1>4. PICK m, n : m = Len(s[k]) /\ n = Len(s[l])
  OBVIOUS
<1>5. /\ m \in Nat /\ At(s, k, 0) = Lists!HeadOf(k) /\ At(s, k, m + 1) = Lists!TailOf(k)
      /\ \A a \in 1..m : At(s, k, a) = s[k][a] /\ s[k][a] \in Node
  BY <1>4, AtPlace
<1>6. /\ n \in Nat /\ At(s, l, 0) = Lists!HeadOf(l) /\ At(s, l, n + 1) = Lists!TailOf(l)
      /\ \A a \in 1..n : At(s, l, a) = s[l][a] /\ s[l][a] \in Node
  BY <1>4, AtPlace
<1>7. i \in 1..m \/ i = 0 \/ i = m + 1
  BY <1>4, <1>5
<1>8. j \in 1..n \/ j = 0 \/ j = n + 1
  BY <1>4, <1>6
<1>9. CASE i \in 1..m
  <2>1. j \in 1..n
    BY <1>3, <1>5, <1>6, <1>8, <1>9
  <2>2. s[k][i] = s[l][j]
    BY <1>5, <1>6, <1>9, <2>1
  <2>3. QED
    BY <1>4, <1>9, <2>1, <2>2 DEF Apart
<1>10. CASE i = 0
  <2>1. j = 0
    BY <1>3, <1>5, <1>6, <1>8, <1>10
  <2>2. QED
    BY <1>3, <1>5, <1>6, <1>10, <2>1
<1>11. CASE i = m + 1
  <2>1. j = n + 1
    BY <1>3, <1>5, <1>6, <1>8, <1>11
  <2>2. k = l
    BY <1>3, <1>5, <1>6, <1>11, <2>1
  <2>3. QED
    BY <1>4, <1>11, <2>1, <2>2
<1>12. QED
  BY <1>7, <1>9, <1>10, <1>11

(* A node that is in no list is none of its places.                        *)
LEMMA AtOther ==
  ASSUME NEW s, Apart(s), NEW l \in List, NEW i \in 0..(Len(s[l]) + 1), NEW n \in Node,
         \A k \in List : \A j \in 1..Len(s[k]) : s[k][j] # n
  PROVE  At(s, l, i) # n
<1>1. Node \cap (List \X {"head", "tail"}) = {}
  BY ListAssumption DEF Lists!ConstantsOK
<1>2. Lists!HeadOf(l) # n /\ Lists!TailOf(l) # n
  BY <1>1 DEF Lists!HeadOf, Lists!TailOf
<1>3. PICK m : m = Len(s[l])
  OBVIOUS
<1>4. /\ m \in Nat /\ At(s, l, 0) = Lists!HeadOf(l) /\ At(s, l, m + 1) = Lists!TailOf(l)
      /\ \A a \in 1..m : At(s, l, a) = s[l][a]
  BY <1>3, AtPlace
<1>5. i \in 1..m \/ i = 0 \/ i = m + 1
  BY <1>3, <1>4
<1>6. QED
  BY <1>2, <1>3, <1>4, <1>5

(* The sequence that is found from the head, and from the tail.            *)
LEMMA ChainsAre ==
  ASSUME NEW s, NEW sc, NEW pd, Represents(s, sc, pd), NEW l \in List
  PROVE  /\ Lists!Chain(sc, Lists!HeadOf(l)) = s[l]
         /\ Len(Lists!Chain(pd, Lists!TailOf(l))) = Len(s[l])
         /\ \A i \in 1..Len(s[l]) :
              Lists!Chain(pd, Lists!TailOf(l))[i] = s[l][Len(s[l]) + 1 - i]
<1>1. PICK n : n = Len(s[l])
  OBVIOUS
<1>2. Apart(s) /\ Ends(sc, pd) /\ Joins(s, sc, pd)
  BY DEF Represents
<1>3. /\ n \in Nat /\ s[l] \in Seq(Node)
      /\ \A i \in 1..n : At(s, l, i) = s[l][i] /\ s[l][i] \in Node
      /\ At(s, l, 0) = Lists!HeadOf(l) /\ At(s, l, n + 1) = Lists!TailOf(l)
      /\ \A i \in 0..(n + 1) : At(s, l, i) \in Place
  BY <1>1, <1>2, AtPlace DEF Apart
<1>4. \A i, j \in 1..n : At(s, l, i) = At(s, l, j) => i = j
  BY <1>1, <1>2, <1>3 DEF Apart
<1>5. Lists!Chain(sc, Lists!HeadOf(l)) = s[l]
  <2>1. PICK w : w = [i \in 0..(n + 1) |-> At(s, l, i)]
    OBVIOUS
  <2>2. \A i \in 0..(n + 1) : w[i] = At(s, l, i)
    BY <2>1
  <2>3. /\ 0 \in 0..(n + 1) /\ n + 1 \in 0..(n + 1) /\ 1..n \subseteq 0..(n + 1)
        /\ 1..(n + 1) \subseteq 0..(n + 1) /\ \A i \in 0..n : i \in 0..(n + 1) /\ i + 1 \in 0..(n + 1)
    BY <1>3
  <2>4. IsWay(sc, n, w)
    <3>1. \A i \in 1..(n + 1) : w[i] \in Place
      BY <1>3, <2>2, <2>3
    <3>2. \A i \in 0..n : sc[w[i]] = w[i + 1]
      BY <1>1, <1>2, <2>2, <2>3 DEF Joins
    <3>3. sc[w[n + 1]] = None
      BY <1>2, <1>3, <2>2, <2>3 DEF Ends
    <3>4. \A i \in 1..n : w[i] \in Node /\ w[i] = At(s, l, i)
      BY <1>3, <2>2, <2>3
    <3>5. QED
      BY <1>4, <3>1, <3>2, <3>3, <3>4 DEF IsWay
  <2>5. Lists!Chain(sc, w[0]) = [i \in 1..n |-> w[i]]
    BY <1>3, <2>4, ChainIs
  <2>6. w[0] = Lists!HeadOf(l) /\ \A i \in 1..n : w[i] = s[l][i]
    BY <1>3, <2>2, <2>3
  <2>7. s[l] = [i \in 1..n |-> s[l][i]]
    BY <1>1, <1>3
  <2>8. QED
    BY <2>5, <2>6, <2>7
<1>6. Lists!Chain(pd, Lists!TailOf(l)) = [i \in 1..n |-> s[l][n + 1 - i]]
  <2>1. PICK w : w = [i \in 0..(n + 1) |-> At(s, l, n + 1 - i)]
    OBVIOUS
  <2>2. \A i \in 0..(n + 1) : w[i] = At(s, l, n + 1 - i)
    BY <2>1
  <2>3. /\ 0 \in 0..(n + 1) /\ n + 1 \in 0..(n + 1) /\ n + 1 - (n + 1) = 0 /\ n + 1 - 0 = n + 1
        /\ \A i \in 1..n : i \in 0..(n + 1) /\ n + 1 - i \in 1..n
        /\ \A i \in 1..(n + 1) : i \in 0..(n + 1) /\ n + 1 - i \in 0..(n + 1)
        /\ \A i \in 0..n : /\ i \in 0..(n + 1) /\ i + 1 \in 0..(n + 1)
                           /\ n + 1 - (i + 1) \in 0..n /\ n + 1 - (i + 1) + 1 = n + 1 - i
        /\ \A i, j \in 1..n : n + 1 - i = n + 1 - j => i = j
    BY <1>3
  <2>4. IsWay(pd, n, w)
    <3>1. \A i \in 1..(n + 1) : w[i] \in Place
      BY <1>3, <2>2, <2>3
    <3>2. ASSUME NEW i \in 0..n PROVE pd[w[i]] = w[i + 1]
      <4>1. PICK j : j = n + 1 - (i + 1)
        OBVIOUS
      <4>2. w[i] = At(s, l, j + 1) /\ w[i + 1] = At(s, l, j) /\ j \in 0..n
        BY <2>2, <2>3, <4>1
      <4>3. QED
        BY <1>1, <1>2, <4>2 DEF Joins
    <3>3. pd[w[n + 1]] = None
      BY <1>2, <1>3, <2>2, <2>3 DEF Ends
    <3>4. \A i \in 1..n : w[i] \in Node /\ w[i] = At(s, l, n + 1 - i)
      BY <1>3, <2>2, <2>3
    <3>5. \A i, j \in 1..n : w[i] = w[j] => i = j
      BY <1>4, <2>3, <3>4
    <3>6. QED
      BY <3>1, <3>2, <3>3, <3>4, <3>5 DEF IsWay
  <2>5. Lists!Chain(pd, w[0]) = [i \in 1..n |-> w[i]]
    BY <1>3, <2>4, ChainIs
  <2>6. w[0] = Lists!TailOf(l) /\ \A i \in 1..n : w[i] = s[l][n + 1 - i]
    BY <1>3, <2>2, <2>3
  <2>7. QED
    BY <2>5, <2>6
<1>7. Len([i \in 1..n |-> s[l][n + 1 - i]]) = n
  BY <1>3
<1>8. QED
  BY <1>1, <1>5, <1>6, <1>7
-----------------------------------------------------------------------------
(* A node that is in no list is put between two places.                    *)
Inserted(a, n, b, sc, pd, sc2, pd2) ==
  /\ sc2 \in Pointers /\ pd2 \in Pointers
  /\ \A p \in Place : sc2[p] = IF p = a THEN n ELSE IF p = n THEN b ELSE sc[p]
  /\ \A p \in Place : pd2[p] = IF p = b THEN n ELSE IF p = n THEN a ELSE pd[p]

(* Hooking a free node in between two neighbours is InsertAt.              *)
LEMMA InsertRep ==
  ASSUME NEW s, NEW sc, NEW pd, Represents(s, sc, pd), NEW l \in List, NEW n \in Node,
         \A k \in List : \A j \in 1..Len(s[k]) : s[k][j] # n,
         NEW i \in 1..(Len(s[l]) + 1), NEW sc2, NEW pd2,
         Inserted(At(s, l, i - 1), n, At(s, l, i), sc, pd, sc2, pd2)
  PROVE  Represents([s EXCEPT ![l] = InsertAt(s[l], i, n)], sc2, pd2)
<1>1. PICK r, q, t, m : /\ r = s[l] /\ q = InsertAt(s[l], i, n)
                        /\ t = [s EXCEPT ![l] = InsertAt(s[l], i, n)] /\ m = Len(s[l])
  OBVIOUS
<1> DEFINE a == At(s, l, i - 1)
           b == At(s, l, i)
<1> USE DEF Inserted
<1>2. Apart(s) /\ Ends(sc, pd) /\ Joins(s, sc, pd) /\ s \in [List -> Seq(Node)]
  BY DEF Represents, Apart
<1>3. r \in Seq(Node) /\ m \in Nat /\ i \in 1..(m + 1) /\ m = Len(r)
  BY <1>1, <1>2
<1>4. /\ q \in Seq(Node) /\ Len(q) = m + 1
      /\ \A k \in 1..(m + 1) :
           q[k] = IF k < i THEN r[k] ELSE IF k = i THEN n ELSE r[k - 1]
  <2>1. i \in 1..(Len(r) + 1) /\ q = InsertAt(r, i, n) /\ n \in Node
    BY <1>1, <1>3
  <2>2. IsInserted(InsertAt(r, i, n), r, i, n, Node)
    BY <1>3, <2>1, InsertedIs
  <2>3. QED
    BY <1>3, <2>1, <2>2 DEF IsInserted
<1>5. /\ t \in [List -> Seq(Node)] /\ t[l] = q /\ \A k \in List : k # l => t[k] = s[k]
  BY <1>1, <1>2, <1>4
<1>6. Apart(t)
  <2>1. ASSUME NEW k \in List, NEW h \in List, NEW x \in 1..Len(t[k]), NEW y \in 1..Len(t[h]),
               t[k][x] = t[h][y]
        PROVE  k = h /\ x = y
    <3>1. \A g \in List : \A j \in 1..Len(s[g]) : s[g][j] # n
      OBVIOUS
    <3>2. \A j \in 1..m : r[j] # n
      BY <1>1, <3>1
    <3>3. ASSUME NEW j \in 1..(m + 1)
          PROVE  \/ j < i /\ j \in 1..m /\ q[j] = r[j]
                 \/ j = i /\ q[j] = n
                 \/ j > i /\ j - 1 \in 1..m /\ q[j] = r[j - 1]
      <4>1. (j < i /\ j \in 1..m) \/ j = i \/ (j > i /\ j - 1 \in 1..m /\ ~ (j < i) /\ j # i)
        BY <1>3
      <4>2. QED
        BY <1>4, <4>1
    <3>4. \A u, v \in 1..m : r[u] = r[v] => u = v
      <4>1. \A u, v \in 1..Len(s[l]) : s[l][u] = s[l][v] => l = l /\ u = v
        BY <1>2 DEF Apart
      <4>2. QED
        BY <1>1, <4>1
    <3>5. CASE k = l /\ h = l
      <4>1. x \in 1..(m + 1) /\ y \in 1..(m + 1) /\ q[x] = q[y]
        BY <1>4, <1>5, <2>1, <3>5
      <4>2. \/ x < i /\ x \in 1..m /\ q[x] = r[x]
            \/ x = i /\ q[x] = n
            \/ x > i /\ x - 1 \in 1..m /\ q[x] = r[x - 1]
        BY <3>3, <4>1
      <4>3. \/ y < i /\ y \in 1..m /\ q[y] = r[y]
            \/ y = i /\ q[y] = n
            \/ y > i /\ y - 1 \in 1..m /\ q[y] = r[y - 1]
        BY <3>3, <4>1
      <4>4. x = y
        BY <1>3, <3>2, <3>4, <4>1, <4>2, <4>3
      <4>5. QED
        BY <3>5, <4>4
    <3>6. CASE k = l /\ h # l
      <4>1. x \in 1..(m + 1) /\ y \in 1..Len(s[h]) /\ q[x] = s[h][y]
        BY <1>4, <1>5, <2>1, <3>6
      <4>2. \A u \in 1..m : r[u] # s[h][y]
        BY <1>1, <1>2, <3>6, <4>1 DEF Apart
      <4>3. QED
        BY <3>1, <3>3, <4>1, <4>2
    <3>7. CASE k # l /\ h = l
      <4>1. y \in 1..(m + 1) /\ x \in 1..Len(s[k]) /\ q[y] = s[k][x]
        BY <1>4, <1>5, <2>1, <3>7
      <4>2. \A u \in 1..m : r[u] # s[k][x]
        BY <1>1, <1>2, <3>7, <4>1 DEF Apart
      <4>3. QED
        BY <3>1, <3>3, <4>1, <4>2
    <3>8. CASE k # l /\ h # l
      BY <1>2, <1>5, <2>1, <3>8 DEF Apart
    <3>9. QED
      BY <3>5, <3>6, <3>7, <3>8
  <2>2. QED
    BY <1>5, <2>1 DEF Apart
<1>7. ASSUME NEW k \in List, k # l
      PROVE  Len(t[k]) = Len(s[k]) /\ \A j : At(t, k, j) = At(s, k, j)
  BY <1>5, <1>7 DEF At
<1>8. ASSUME NEW j \in 0..(m + 2)
      PROVE  At(t, l, j) = IF j < i THEN At(s, l, j) ELSE IF j = i THEN n ELSE At(s, l, j - 1)
  <2>1. CASE j = 0
    BY <1>3, <2>1 DEF At
  <2>2. CASE j = m + 2
    <3>1. ~ (j < i) /\ j # i /\ j - 1 = m + 1 /\ j # 0 /\ j = Len(t[l]) + 1 /\ m + 1 # 0
      BY <1>3, <1>4, <1>5, <2>2
    <3>2. QED
      BY <1>1, <3>1 DEF At
  <2>3. CASE j \in 1..(m + 1)
    <3>1. At(t, l, j) = q[j]
      <4>1. j # 0 /\ j # Len(t[l]) + 1
        BY <1>3, <1>4, <1>5, <2>3
      <4>2. QED
        BY <1>5, <4>1 DEF At
    <3>2. j < i => j \in 1..m /\ At(s, l, j) = r[j]
      BY <1>1, <1>3, <2>3 DEF At
    <3>3. ~ (j < i) /\ j # i => j - 1 \in 1..m /\ At(s, l, j - 1) = r[j - 1]
      BY <1>1, <1>3, <2>3 DEF At
    <3>4. QED
      BY <1>4, <2>3, <3>1, <3>2, <3>3
  <2>4. QED
    BY <1>3, <2>1, <2>2, <2>3
<1>9. \A k \in List : \A j \in 0..(Len(s[k]) + 1) : At(s, k, j) \in Place /\ At(s, k, j) # n
  BY <1>2, AtPlace, AtOther
<1>10. ASSUME NEW k \in List, NEW j \in 0..(Len(s[k]) + 1)
       PROVE  /\ At(s, k, j) = a <=> k = l /\ j = i - 1
              /\ At(s, k, j) = b <=> k = l /\ j = i
  <2>1. i - 1 \in 0..(Len(s[l]) + 1) /\ i \in 0..(Len(s[l]) + 1)
    BY <1>1, <1>3
  <2>2. QED
    BY <1>2, <2>1, AtApart
<1>11. a \in Place /\ b \in Place /\ n \in Place /\ a # n /\ b # n
  <2>1. i - 1 \in 0..(Len(s[l]) + 1) /\ i \in 0..(Len(s[l]) + 1)
    BY <1>1, <1>3
  <2>2. QED
    BY <1>9, <2>1 DEF Place, Lists!Place
<1>12. sc2[a] = n /\ sc2[n] = b /\ pd2[b] = n /\ pd2[n] = a
  BY <1>11
<1>13. ASSUME NEW k \in List, NEW j \in 0..(Len(s[k]) + 1)
       PROVE  /\ ~ (k = l /\ j = i - 1) => sc2[At(s, k, j)] = sc[At(s, k, j)]
              /\ ~ (k = l /\ j = i) => pd2[At(s, k, j)] = pd[At(s, k, j)]
  BY <1>9, <1>10
<1>14. Ends(sc2, pd2)
  <2>1. ASSUME NEW k \in List PROVE sc2[Lists!TailOf(k)] = None /\ pd2[Lists!HeadOf(k)] = None
    <3>1. /\ Len(s[k]) \in Nat /\ At(s, k, 0) = Lists!HeadOf(k)
          /\ At(s, k, Len(s[k]) + 1) = Lists!TailOf(k)
      BY <1>2, AtPlace
    <3>2. /\ 0 \in 0..(Len(s[k]) + 1) /\ Len(s[k]) + 1 \in 0..(Len(s[k]) + 1)
          /\ ~ (k = l /\ 0 = i) /\ ~ (k = l /\ Len(s[k]) + 1 = i - 1)
      BY <1>1, <1>3, <3>1
    <3>3. QED
      BY <1>2, <1>13, <3>1, <3>2 DEF Ends
  <2>2. QED
    BY <2>1 DEF Ends
<1>15. Joins(t, sc2, pd2)
  <2>1. ASSUME NEW k \in List, k # l, NEW j \in 0..Len(t[k])
        PROVE  sc2[At(t, k, j)] = At(t, k, j + 1) /\ pd2[At(t, k, j + 1)] = At(t, k, j)
    <3>1. /\ j \in 0..Len(s[k]) /\ j \in 0..(Len(s[k]) + 1) /\ j + 1 \in 0..(Len(s[k]) + 1)
          /\ At(t, k, j) = At(s, k, j) /\ At(t, k, j + 1) = At(s, k, j + 1)
      <4>1. Len(s[k]) \in Nat /\ Len(t[k]) = Len(s[k])
        BY <1>2, <1>7, <2>1, AtPlace
      <4>2. j \in 0..Len(s[k]) /\ j \in 0..(Len(s[k]) + 1) /\ j + 1 \in 0..(Len(s[k]) + 1)
        BY <4>1
      <4>3. QED
        BY <1>7, <2>1, <4>2
    <3>2. sc[At(s, k, j)] = At(s, k, j + 1) /\ pd[At(s, k, j + 1)] = At(s, k, j)
      BY <1>2, <3>1 DEF Joins
    <3>3. QED
      BY <1>13, <2>1, <3>1, <3>2
  <2>2. ASSUME NEW j \in 0..(m + 1)
        PROVE  sc2[At(t, l, j)] = At(t, l, j + 1) /\ pd2[At(t, l, j + 1)] = At(t, l, j)
    <3>1. j \in 0..(m + 2) /\ j + 1 \in 0..(m + 2)
      BY <1>3
    <3>2. CASE j < i - 1
      <4>1. j < i /\ j + 1 < i /\ j # i - 1 /\ j + 1 # i /\ j \in 0..m
            /\ j \in 0..(m + 1) /\ j + 1 \in 0..(m + 1)
        BY <1>3, <3>2
      <4>2. At(t, l, j) = At(s, l, j) /\ At(t, l, j + 1) = At(s, l, j + 1)
        BY <1>8, <3>1, <4>1
      <4>3. sc[At(s, l, j)] = At(s, l, j + 1) /\ pd[At(s, l, j + 1)] = At(s, l, j)
        BY <1>1, <1>2, <4>1 DEF Joins
      <4>4. QED
        BY <1>1, <1>13, <4>1, <4>2, <4>3
    <3>3. CASE j = i - 1
      <4>1. j < i /\ j + 1 = i /\ ~ (j + 1 < i)
        BY <1>3, <3>3
      <4>2. At(t, l, j) = a /\ At(t, l, j + 1) = n
        BY <1>8, <3>1, <3>3, <4>1
      <4>3. QED
        BY <1>12, <4>2
    <3>4. CASE j = i
      <4>1. ~ (j < i) /\ ~ (j + 1 < i) /\ j + 1 # i /\ (j + 1) - 1 = j
        BY <1>3, <3>4
      <4>2. At(t, l, j) = n /\ At(t, l, j + 1) = b
        BY <1>8, <3>1, <3>4, <4>1
      <4>3. QED
        BY <1>12, <4>2
    <3>5. CASE j > i
      <4>1. /\ ~ (j < i) /\ j # i /\ ~ (j + 1 < i) /\ j + 1 # i /\ (j + 1) - 1 = j
            /\ j - 1 \in 0..m /\ (j - 1) + 1 = j /\ j - 1 # i - 1
            /\ j - 1 \in 0..(m + 1) /\ j \in 0..(m + 1)
        BY <1>3, <3>5
      <4>2. At(t, l, j) = At(s, l, j - 1) /\ At(t, l, j + 1) = At(s, l, j)
        BY <1>8, <3>1, <4>1
      <4>3. sc[At(s, l, j - 1)] = At(s, l, j) /\ pd[At(s, l, j)] = At(s, l, j - 1)
        BY <1>1, <1>2, <4>1 DEF Joins
      <4>4. QED
        BY <1>1, <1>13, <4>1, <4>2, <4>3
    <3>6. j < i - 1 \/ j = i - 1 \/ j = i \/ j > i
      BY <1>3
    <3>7. QED
      BY <3>2, <3>3, <3>4, <3>5, <3>6
  <2>3. QED
    BY <1>4, <1>5, <2>1, <2>2 DEF Joins
<1>16. QED
  BY <1>1, <1>6, <1>14, <1>15 DEF Represents

(* A node leaves its list: the places before and after it become           *)
(* neighbours.                                                             *)
Removed(a, b, sc, pd, sc2, pd2) ==
  /\ sc2 \in Pointers /\ pd2 \in Pointers
  /\ \A p \in Place : sc2[p] = IF p = a THEN b ELSE sc[p]
  /\ \A p \in Place : pd2[p] = IF p = b THEN a ELSE pd[p]

(* Joining the neighbours of a node is RemoveAt.                           *)
LEMMA RemoveRep ==
  ASSUME NEW s, NEW sc, NEW pd, Represents(s, sc, pd), NEW l \in List,
         NEW i \in 1..Len(s[l]), NEW sc2, NEW pd2,
         Removed(At(s, l, i - 1), At(s, l, i + 1), sc, pd, sc2, pd2)
  PROVE  Represents([s EXCEPT ![l] = RemoveAt(s[l], i)], sc2, pd2)
<1>1. PICK r, q, t, m : /\ r = s[l] /\ q = RemoveAt(s[l], i)
                        /\ t = [s EXCEPT ![l] = RemoveAt(s[l], i)] /\ m = Len(s[l])
  OBVIOUS
<1> DEFINE a == At(s, l, i - 1)
           b == At(s, l, i + 1)
<1> USE DEF Removed
<1>2. Apart(s) /\ Ends(sc, pd) /\ Joins(s, sc, pd) /\ s \in [List -> Seq(Node)]
  BY DEF Represents, Apart
<1>3. r \in Seq(Node) /\ m \in Nat /\ i \in 1..m /\ m = Len(r) /\ i \in DOMAIN r
  BY <1>1, <1>2
<1>4. /\ q \in Seq(Node) /\ Len(q) = m - 1
      /\ \A k \in 1..(m - 1) : q[k] = IF k <= i - 1 THEN r[k] ELSE r[k + 1]
  <2>1. q = RemoveAt(r, i)
    BY <1>1
  <2>2. /\ RemoveAt(r, i) \in Seq(Node) /\ Len(RemoveAt(r, i)) = Len(r) - 1
        /\ \A k \in 1..(Len(r) - 1) :
             RemoveAt(r, i)[k] = IF k <= i - 1 THEN r[k] ELSE r[k + 1]
    BY ONLY <1>3, RemoveElements
  <2>3. QED
    BY <1>3, <2>1, <2>2
<1>5. /\ t \in [List -> Seq(Node)] /\ t[l] = q /\ \A k \in List : k # l => t[k] = s[k]
  BY <1>1, <1>2, <1>4
<1>6. Apart(t)
  <2>1. ASSUME NEW k \in List, NEW h \in List, NEW x \in 1..Len(t[k]), NEW y \in 1..Len(t[h]),
               t[k][x] = t[h][y]
        PROVE  k = h /\ x = y
    <3>1. ASSUME NEW j \in 1..(m - 1)
          PROVE  \/ j < i /\ j \in 1..m /\ q[j] = r[j]
                 \/ j >= i /\ j + 1 \in 1..m /\ q[j] = r[j + 1]
      <4>1. \/ j < i /\ j \in 1..m /\ j <= i - 1
            \/ j >= i /\ j + 1 \in 1..m /\ ~ (j <= i - 1)
        BY <1>3
      <4>2. QED
        BY <1>4, <4>1
    <3>2. \A u, v \in 1..m : r[u] = r[v] => u = v
      <4>1. \A u, v \in 1..Len(s[l]) : s[l][u] = s[l][v] => l = l /\ u = v
        BY <1>2 DEF Apart
      <4>2. QED
        BY <1>1, <4>1
    <3>3. CASE k = l /\ h = l
      <4>1. x \in 1..(m - 1) /\ y \in 1..(m - 1) /\ q[x] = q[y]
        BY <1>4, <1>5, <2>1, <3>3
      <4>2. \/ x < i /\ x \in 1..m /\ q[x] = r[x]
            \/ x >= i /\ x + 1 \in 1..m /\ q[x] = r[x + 1]
        BY <3>1, <4>1
      <4>3. \/ y < i /\ y \in 1..m /\ q[y] = r[y]
            \/ y >= i /\ y + 1 \in 1..m /\ q[y] = r[y + 1]
        BY <3>1, <4>1
      <4>4. x = y
        BY <1>3, <3>2, <4>1, <4>2, <4>3
      <4>5. QED
        BY <3>3, <4>4
    <3>4. CASE k = l /\ h # l
      <4>1. x \in 1..(m - 1) /\ y \in 1..Len(s[h]) /\ q[x] = s[h][y]
        BY <1>4, <1>5, <2>1, <3>4
      <4>2. \A u \in 1..m : r[u] # s[h][y]
        BY <1>1, <1>2, <3>4, <4>1 DEF Apart
      <4>3. QED
        BY <3>1, <4>1, <4>2
    <3>5. CASE k # l /\ h = l
      <4>1. y \in 1..(m - 1) /\ x \in 1..Len(s[k]) /\ q[y] = s[k][x]
        BY <1>4, <1>5, <2>1, <3>5
      <4>2. \A u \in 1..m : r[u] # s[k][x]
        BY <1>1, <1>2, <3>5, <4>1 DEF Apart
      <4>3. QED
        BY <3>1, <4>1, <4>2
    <3>6. CASE k # l /\ h # l
      BY <1>2, <1>5, <2>1, <3>6 DEF Apart
    <3>7. QED
      BY <3>3, <3>4, <3>5, <3>6
  <2>2. QED
    BY <1>5, <2>1 DEF Apart
<1>7. ASSUME NEW k \in List, k # l
      PROVE  Len(t[k]) = Len(s[k]) /\ \A j : At(t, k, j) = At(s, k, j)
  BY <1>5, <1>7 DEF At
<1>8. ASSUME NEW j \in 0..m
      PROVE  At(t, l, j) = IF j < i THEN At(s, l, j) ELSE At(s, l, j + 1)
  <2>1. CASE j = 0
    BY <1>3, <2>1 DEF At
  <2>2. CASE j = m
    <3>1. ~ (j < i) /\ j # 0 /\ j = Len(t[l]) + 1 /\ m + 1 # 0
      BY <1>3, <1>4, <1>5, <2>2
    <3>2. QED
      BY <1>1, <2>2, <3>1 DEF At
  <2>3. CASE j \in 1..(m - 1)
    <3>1. At(t, l, j) = q[j]
      <4>1. j # 0 /\ j # Len(t[l]) + 1
        BY <1>3, <1>4, <1>5, <2>3
      <4>2. QED
        BY <1>5, <4>1 DEF At
    <3>2. j < i => j <= i - 1 /\ At(s, l, j) = r[j]
      BY <1>1, <1>3, <2>3 DEF At
    <3>3. ~ (j < i) => ~ (j <= i - 1) /\ At(s, l, j + 1) = r[j + 1]
      BY <1>1, <1>3, <2>3 DEF At
    <3>4. QED
      BY <1>4, <2>3, <3>1, <3>2, <3>3
  <2>4. QED
    BY <1>3, <2>1, <2>2, <2>3
<1>9. \A k \in List : \A j \in 0..(Len(s[k]) + 1) : At(s, k, j) \in Place
  BY <1>2, AtPlace
<1>10. ASSUME NEW k \in List, NEW j \in 0..(Len(s[k]) + 1)
       PROVE  /\ At(s, k, j) = a <=> k = l /\ j = i - 1
              /\ At(s, k, j) = b <=> k = l /\ j = i + 1
  <2>1. i - 1 \in 0..(Len(s[l]) + 1) /\ i + 1 \in 0..(Len(s[l]) + 1)
    BY <1>1, <1>3
  <2>2. QED
    BY <1>2, <2>1, AtApart
<1>11. a \in Place /\ b \in Place
  <2>1. i - 1 \in 0..(Len(s[l]) + 1) /\ i + 1 \in 0..(Len(s[l]) + 1)
    BY <1>1, <1>3
  <2>2. QED
    BY <1>9, <2>1
<1>12. sc2[a] = b /\ pd2[b] = a
  BY <1>11
<1>13. ASSUME NEW k \in List, NEW j \in 0..(Len(s[k]) + 1)
       PROVE  /\ ~ (k = l /\ j = i - 1) => sc2[At(s, k, j)] = sc[At(s, k, j)]
              /\ ~ (k = l /\ j = i + 1) => pd2[At(s, k, j)] = pd[At(s, k, j)]
  BY <1>9, <1>10
<1>14. Ends(sc2, pd2)
  <2>1. ASSUME NEW k \in List PROVE sc2[Lists!TailOf(k)] = None /\ pd2[Lists!HeadOf(k)] = None
    <3>1. /\ Len(s[k]) \in Nat /\ At(s, k, 0) = Lists!HeadOf(k)
          /\ At(s, k, Len(s[k]) + 1) = Lists!TailOf(k)
      BY <1>2, AtPlace
    <3>2. /\ 0 \in 0..(Len(s[k]) + 1) /\ Len(s[k]) + 1 \in 0..(Len(s[k]) + 1)
          /\ ~ (k = l /\ 0 = i + 1) /\ ~ (k = l /\ Len(s[k]) + 1 = i - 1)
      BY <1>1, <1>3, <3>1
    <3>3. QED
      BY <1>2, <1>13, <3>1, <3>2 DEF Ends
  <2>2. QED
    BY <2>1 DEF Ends
<1>15. Joins(t, sc2, pd2)
  <2>1. ASSUME NEW k \in List, k # l, NEW j \in 0..Len(t[k])
        PROVE  sc2[At(t, k, j)] = At(t, k, j + 1) /\ pd2[At(t, k, j + 1)] = At(t, k, j)
    <3>1. /\ j \in 0..Len(s[k]) /\ j \in 0..(Len(s[k]) + 1) /\ j + 1 \in 0..(Len(s[k]) + 1)
          /\ At(t, k, j) = At(s, k, j) /\ At(t, k, j + 1) = At(s, k, j + 1)
      <4>1. Len(s[k]) \in Nat /\ Len(t[k]) = Len(s[k])
        BY <1>2, <1>7, <2>1, AtPlace
      <4>2. j \in 0..Len(s[k]) /\ j \in 0..(Len(s[k]) + 1) /\ j + 1 \in 0..(Len(s[k]) + 1)
        BY <4>1
      <4>3. QED
        BY <1>7, <2>1, <4>2
    <3>2. sc[At(s, k, j)] = At(s, k, j + 1) /\ pd[At(s, k, j + 1)] = At(s, k, j)
      BY <1>2, <3>1 DEF Joins
    <3>3. QED
      BY <1>13, <2>1, <3>1, <3>2
  <2>2. ASSUME NEW j \in 0..(m - 1)
        PROVE  sc2[At(t, l, j)] = At(t, l, j + 1) /\ pd2[At(t, l, j + 1)] = At(t, l, j)
    <3>1. j \in 0..m /\ j + 1 \in 0..m
      BY <1>3
    <3>2. CASE j < i - 1
      <4>1. j < i /\ j + 1 < i /\ j # i - 1 /\ j + 1 # i + 1 /\ j \in 0..m
            /\ j \in 0..(m + 1) /\ j + 1 \in 0..(m + 1)
        BY <1>3, <3>2
      <4>2. At(t, l, j) = At(s, l, j) /\ At(t, l, j + 1) = At(s, l, j + 1)
        BY <1>8, <3>1, <4>1
      <4>3. sc[At(s, l, j)] = At(s, l, j + 1) /\ pd[At(s, l, j + 1)] = At(s, l, j)
        BY <1>1, <1>2, <4>1 DEF Joins
      <4>4. QED
        BY <1>1, <1>13, <4>1, <4>2, <4>3
    <3>3. CASE j = i - 1
      <4>1. j < i /\ ~ (j + 1 < i) /\ (j + 1) + 1 = i + 1
        BY <1>3, <3>3
      <4>2. At(t, l, j) = a /\ At(t, l, j + 1) = b
        BY <1>8, <3>1, <3>3, <4>1
      <4>3. QED
        BY <1>12, <4>2
    <3>4. CASE j >= i
      <4>1. /\ ~ (j < i) /\ ~ (j + 1 < i) /\ j + 1 \in 0..m /\ (j + 1) + 1 # i + 1
            /\ j + 1 # i - 1 /\ j + 1 \in 0..(m + 1) /\ (j + 1) + 1 \in 0..(m + 1)
        BY <1>3, <3>4
      <4>2. At(t, l, j) = At(s, l, j + 1) /\ At(t, l, j + 1) = At(s, l, (j + 1) + 1)
        BY <1>8, <3>1, <4>1
      <4>3. /\ sc[At(s, l, j + 1)] = At(s, l, (j + 1) + 1)
            /\ pd[At(s, l, (j + 1) + 1)] = At(s, l, j + 1)
        BY <1>1, <1>2, <4>1 DEF Joins
      <4>4. QED
        BY <1>1, <1>13, <4>1, <4>2, <4>3
    <3>5. j < i - 1 \/ j = i - 1 \/ j >= i
      BY <1>3
    <3>6. QED
      BY <3>2, <3>3, <3>4, <3>5
  <2>3. QED
    BY <1>4, <1>5, <2>1, <2>2 DEF Joins
<1>16. QED
  BY <1>1, <1>6, <1>14, <1>15 DEF Represents

(* A node and the one before it change places.                             *)
Swapped(a, x, n, b, sc, pd, sc2, pd2) ==
  /\ sc2 \in Pointers /\ pd2 \in Pointers
  /\ \A p \in Place : sc2[p] = IF p = a THEN n ELSE IF p = x THEN b
                               ELSE IF p = n THEN x ELSE sc[p]
  /\ \A p \in Place : pd2[p] = IF p = n THEN a ELSE IF p = x THEN n
                               ELSE IF p = b THEN x ELSE pd[p]

(* Hooking two neighbours in the other way round swaps them in the         *)
(* sequence.                                                               *)
LEMMA SwapRep ==
  ASSUME NEW s, NEW sc, NEW pd, Represents(s, sc, pd), NEW l \in List,
         NEW i \in 2..Len(s[l]), NEW sc2, NEW pd2,
         Swapped(At(s, l, i - 2), At(s, l, i - 1), At(s, l, i), At(s, l, i + 1),
                 sc, pd, sc2, pd2)
  PROVE  Represents([s EXCEPT ![l] = [s[l] EXCEPT ![i] = s[l][i - 1], ![i - 1] = s[l][i]]],
                    sc2, pd2)
<1>1. PICK r, q, t, m : /\ r = s[l] /\ q = [s[l] EXCEPT ![i] = s[l][i - 1], ![i - 1] = s[l][i]]
                        /\ t = [s EXCEPT ![l] = q] /\ m = Len(s[l])
  OBVIOUS
<1> DEFINE a == At(s, l, i - 2)
           x == At(s, l, i - 1)
           n == At(s, l, i)
           b == At(s, l, i + 1)
<1> USE DEF Swapped
<1>2. Apart(s) /\ Ends(sc, pd) /\ Joins(s, sc, pd) /\ s \in [List -> Seq(Node)]
  BY DEF Represents, Apart
<1>3. /\ r \in Seq(Node) /\ m \in Nat /\ i \in 2..m /\ m = Len(r) /\ DOMAIN r = 1..m
      /\ \A k \in 1..m : r[k] \in Node
  BY <1>1, <1>2
<1>4. /\ q \in Seq(Node) /\ Len(q) = m
      /\ \A k \in 1..m : q[k] = IF k = i THEN r[i - 1] ELSE IF k = i - 1 THEN r[i] ELSE r[k]
  <2>1. DOMAIN q = 1..m
    BY <1>1, <1>3
  <2>2. \A k \in 1..m : q[k] = IF k = i THEN r[i - 1] ELSE IF k = i - 1 THEN r[i] ELSE r[k]
    BY <1>1, <1>3
  <2>3. i - 1 \in 1..m /\ i \in 1..m
    BY <1>3
  <2>4. \A k \in 1..m : q[k] \in Node
    BY <1>3, <2>2, <2>3
  <2>5. q = [k \in 1..m |-> q[k]]
    BY <1>1, <1>3, <2>1
  <2>6. q \in [1..m -> Node]
    BY <2>4, <2>5
  <2>7. QED
    BY <1>3, <2>2, <2>6
<1>5. /\ t \in [List -> Seq(Node)] /\ t[l] = q /\ \A k \in List : k # l => t[k] = s[k]
  BY <1>1, <1>2, <1>4
<1>6. Apart(t)
  <2>1. ASSUME NEW k \in List, NEW h \in List, NEW u \in 1..Len(t[k]), NEW v \in 1..Len(t[h]),
               t[k][u] = t[h][v]
        PROVE  k = h /\ u = v
    <3>1. ASSUME NEW j \in 1..m
          PROVE  \/ j = i /\ i - 1 \in 1..m /\ q[j] = r[i - 1]
                 \/ j = i - 1 /\ i \in 1..m /\ q[j] = r[i]
                 \/ j # i /\ j # i - 1 /\ q[j] = r[j]
      BY <1>3, <1>4
    <3>2. \A y, z \in 1..m : r[y] = r[z] => y = z
      <4>1. \A y, z \in 1..Len(s[l]) : s[l][y] = s[l][z] => l = l /\ y = z
        BY <1>2 DEF Apart
      <4>2. QED
        BY <1>1, <4>1
    <3>3. CASE k = l /\ h = l
      <4>1. u \in 1..m /\ v \in 1..m /\ q[u] = q[v]
        BY <1>4, <1>5, <2>1, <3>3
      <4>2. \/ u = i /\ i - 1 \in 1..m /\ q[u] = r[i - 1]
            \/ u = i - 1 /\ i \in 1..m /\ q[u] = r[i]
            \/ u # i /\ u # i - 1 /\ q[u] = r[u]
        BY <3>1, <4>1
      <4>3. \/ v = i /\ i - 1 \in 1..m /\ q[v] = r[i - 1]
            \/ v = i - 1 /\ i \in 1..m /\ q[v] = r[i]
            \/ v # i /\ v # i - 1 /\ q[v] = r[v]
        BY <3>1, <4>1
      <4>4. u = v
        BY <1>3, <3>2, <4>1, <4>2, <4>3
      <4>5. QED
        BY <3>3, <4>4
    <3>4. CASE k = l /\ h # l
      <4>1. u \in 1..m /\ v \in 1..Len(s[h]) /\ q[u] = s[h][v]
        BY <1>4, <1>5, <2>1, <3>4
      <4>2. \A y \in 1..m : r[y] # s[h][v]
        BY <1>1, <1>2, <3>4, <4>1 DEF Apart
      <4>3. QED
        BY <3>1, <4>1, <4>2
    <3>5. CASE k # l /\ h = l
      <4>1. v \in 1..m /\ u \in 1..Len(s[k]) /\ q[v] = s[k][u]
        BY <1>4, <1>5, <2>1, <3>5
      <4>2. \A y \in 1..m : r[y] # s[k][u]
        BY <1>1, <1>2, <3>5, <4>1 DEF Apart
      <4>3. QED
        BY <3>1, <4>1, <4>2
    <3>6. CASE k # l /\ h # l
      BY <1>2, <1>5, <2>1, <3>6 DEF Apart
    <3>7. QED
      BY <3>3, <3>4, <3>5, <3>6
  <2>2. QED
    BY <1>5, <2>1 DEF Apart
<1>7. ASSUME NEW k \in List, k # l
      PROVE  Len(t[k]) = Len(s[k]) /\ \A j : At(t, k, j) = At(s, k, j)
  BY <1>5, <1>7 DEF At
<1>8. ASSUME NEW j \in 0..(m + 1)
      PROVE  At(t, l, j) = IF j = i THEN x ELSE IF j = i - 1 THEN n ELSE At(s, l, j)
  <2>1. CASE j = 0
    BY <1>3, <2>1 DEF At
  <2>2. CASE j = m + 1
    <3>1. j # i /\ j # i - 1 /\ j # 0
      BY <1>3, <2>2
    <3>2. j = Len(t[l]) + 1
      BY <1>4, <1>5, <2>2
    <3>3. QED
      BY <1>1, <2>2, <3>1, <3>2 DEF At
  <2>3. CASE j \in 1..m
    <3>1. At(t, l, j) = q[j]
      <4>1. j # 0 /\ j # Len(t[l]) + 1
        BY <1>3, <1>4, <1>5, <2>3
      <4>2. QED
        BY <1>5, <4>1 DEF At
    <3>2. At(s, l, j) = r[j] /\ x = r[i - 1] /\ n = r[i]
      BY <1>1, <1>3, <2>3 DEF At
    <3>3. QED
      BY <1>4, <2>3, <3>1, <3>2
  <2>4. QED
    BY <1>3, <2>1, <2>2, <2>3
<1>9. \A k \in List : \A j \in 0..(Len(s[k]) + 1) : At(s, k, j) \in Place
  BY <1>2, AtPlace
<1>10. ASSUME NEW k \in List, NEW j \in 0..(Len(s[k]) + 1)
       PROVE  /\ At(s, k, j) = a <=> k = l /\ j = i - 2
              /\ At(s, k, j) = x <=> k = l /\ j = i - 1
              /\ At(s, k, j) = n <=> k = l /\ j = i
              /\ At(s, k, j) = b <=> k = l /\ j = i + 1
  <2>1. /\ i - 2 \in 0..(m + 1) /\ i - 1 \in 0..(m + 1)
        /\ i \in 0..(m + 1) /\ i + 1 \in 0..(m + 1)
    BY <1>3
  <2>2. QED
    BY <1>1, <1>2, <2>1, AtApart
<1>11. /\ a \in Place /\ x \in Place /\ n \in Place /\ b \in Place
       /\ x # a /\ n # a /\ b # a /\ n # x /\ b # x /\ b # n
  <2>1. /\ i - 2 \in 0..(m + 1) /\ i - 1 \in 0..(m + 1)
        /\ i \in 0..(m + 1) /\ i + 1 \in 0..(m + 1)
        /\ i - 1 # i - 2 /\ i # i - 2 /\ i + 1 # i - 2 /\ i # i - 1 /\ i + 1 # i - 1
        /\ i + 1 # i
    BY <1>3
  <2>2. a \in Place /\ x \in Place /\ n \in Place /\ b \in Place
    BY <1>1, <1>9, <2>1
  <2>3. x # a /\ n # a /\ b # a
    BY <1>1, <1>10, <2>1
  <2>4. n # x /\ b # x /\ b # n
    BY <1>1, <1>10, <2>1
  <2>5. QED
    BY <2>2, <2>3, <2>4
<1>12. /\ sc2[a] = n /\ sc2[n] = x /\ sc2[x] = b
       /\ pd2[n] = a /\ pd2[x] = n /\ pd2[b] = x
  BY <1>11
<1>13. ASSUME NEW k \in List, NEW j \in 0..(Len(s[k]) + 1)
       PROVE  /\ ~ (k = l /\ (j = i - 2 \/ j = i - 1 \/ j = i)) =>
                   sc2[At(s, k, j)] = sc[At(s, k, j)]
              /\ ~ (k = l /\ (j = i - 1 \/ j = i \/ j = i + 1)) =>
                   pd2[At(s, k, j)] = pd[At(s, k, j)]
  BY <1>9, <1>10
<1>14. Ends(sc2, pd2)
  <2>1. ASSUME NEW k \in List PROVE sc2[Lists!TailOf(k)] = None /\ pd2[Lists!HeadOf(k)] = None
    <3>1. /\ Len(s[k]) \in Nat /\ At(s, k, 0) = Lists!HeadOf(k)
          /\ At(s, k, Len(s[k]) + 1) = Lists!TailOf(k)
      BY <1>2, AtPlace
    <3>2. /\ 0 \in 0..(Len(s[k]) + 1) /\ Len(s[k]) + 1 \in 0..(Len(s[k]) + 1)
          /\ ~ (k = l /\ (0 = i - 1 \/ 0 = i \/ 0 = i + 1))
          /\ ~ (k = l /\ (\/ Len(s[k]) + 1 = i - 2 \/ Len(s[k]) + 1 = i - 1
                          \/ Len(s[k]) + 1 = i))
      BY <1>1, <1>3, <3>1
    <3>3. QED
      BY <1>2, <1>13, <3>1, <3>2 DEF Ends
  <2>2. QED
    BY <2>1 DEF Ends
<1>15. Joins(t, sc2, pd2)
  <2>1. ASSUME NEW k \in List, k # l, NEW j \in 0..Len(t[k])
        PROVE  sc2[At(t, k, j)] = At(t, k, j + 1) /\ pd2[At(t, k, j + 1)] = At(t, k, j)
    <3>1. /\ j \in 0..Len(s[k]) /\ j \in 0..(Len(s[k]) + 1) /\ j + 1 \in 0..(Len(s[k]) + 1)
          /\ At(t, k, j) = At(s, k, j) /\ At(t, k, j + 1) = At(s, k, j + 1)
      <4>1. Len(s[k]) \in Nat /\ Len(t[k]) = Len(s[k])
        BY <1>2, <1>7, <2>1, AtPlace
      <4>2. j \in 0..Len(s[k]) /\ j \in 0..(Len(s[k]) + 1) /\ j + 1 \in 0..(Len(s[k]) + 1)
        BY <4>1
      <4>3. QED
        BY <1>7, <2>1, <4>2
    <3>2. sc[At(s, k, j)] = At(s, k, j + 1) /\ pd[At(s, k, j + 1)] = At(s, k, j)
      BY <1>2, <3>1 DEF Joins
    <3>3. QED
      BY <1>13, <2>1, <3>1, <3>2
  <2>2. ASSUME NEW j \in 0..m
        PROVE  sc2[At(t, l, j)] = At(t, l, j + 1) /\ pd2[At(t, l, j + 1)] = At(t, l, j)
    <3>1. j \in 0..(m + 1) /\ j + 1 \in 0..(m + 1)
      BY <1>3
    <3>2. CASE j < i - 2 \/ j > i
      <4>1. /\ j # i - 2 /\ j # i - 1 /\ j # i
            /\ j + 1 # i - 1 /\ j + 1 # i /\ j + 1 # i + 1
        BY <1>3, <3>2
      <4>2. At(t, l, j) = At(s, l, j) /\ At(t, l, j + 1) = At(s, l, j + 1)
        BY <1>8, <3>1, <4>1
      <4>3. sc[At(s, l, j)] = At(s, l, j + 1) /\ pd[At(s, l, j + 1)] = At(s, l, j)
        BY <1>1, <1>2 DEF Joins
      <4>4. QED
        BY <1>1, <1>13, <3>1, <4>1, <4>2, <4>3
    <3>3. CASE j = i - 2
      <4>1. j # i /\ j # i - 1 /\ j + 1 = i - 1 /\ j + 1 # i
        BY <1>3, <3>3
      <4>2. At(t, l, j) = a /\ At(t, l, j + 1) = n
        BY <1>8, <3>1, <3>3, <4>1
      <4>3. QED
        BY <1>12, <4>2
    <3>4. CASE j = i - 1
      <4>1. j # i /\ j + 1 = i
        BY <1>3, <3>4
      <4>2. At(t, l, j) = n /\ At(t, l, j + 1) = x
        BY <1>8, <3>1, <3>4, <4>1
      <4>3. QED
        BY <1>12, <4>2
    <3>5. CASE j = i
      <4>1. j + 1 # i /\ j + 1 # i - 1
        BY <1>3, <3>5
      <4>2. At(t, l, j) = x /\ At(t, l, j + 1) = b
        BY <1>8, <3>1, <3>5, <4>1
      <4>3. QED
        BY <1>12, <4>2
    <3>6. j < i - 2 \/ j > i \/ j = i - 2 \/ j = i - 1 \/ j = i
      BY <1>3
    <3>7. QED
      BY <3>2, <3>3, <3>4, <3>5, <3>6
  <2>3. QED
    BY <1>4, <1>5, <2>1, <2>2 DEF Joins
<1>16. QED
  BY <1>1, <1>6, <1>14, <1>15 DEF Represents

(* A list becomes empty.                                                   *)
Cleared(l, q, sc, pd, sc2, pd2) ==
  /\ sc2 \in Pointers /\ pd2 \in Pointers
  /\ \A p \in Place : sc2[p] = IF p = Lists!HeadOf(l) THEN Lists!TailOf(l) ELSE sc[p]
  /\ \A p \in Place : pd2[p] = IF p = Lists!TailOf(l) \/ \E j \in 1..Len(q) : q[j] = p
                               THEN Lists!HeadOf(l) ELSE pd[p]

(* Joining head and tail of a list makes it empty, whatever its old nodes  *)
(* still point to.                                                         *)
LEMMA ClearRep ==
  ASSUME NEW s, NEW sc, NEW pd, Represents(s, sc, pd), NEW l \in List,
         NEW sc2, NEW pd2, Cleared(l, s[l], sc, pd, sc2, pd2)
  PROVE  Represents([s EXCEPT ![l] = <<>>], sc2, pd2)
<1>1. PICK t : t = [s EXCEPT ![l] = <<>>]
  OBVIOUS
<1> USE DEF Cleared
<1>2. Apart(s) /\ Ends(sc, pd) /\ Joins(s, sc, pd) /\ s \in [List -> Seq(Node)]
  BY DEF Represents, Apart
<1>3. /\ t \in [List -> Seq(Node)] /\ t[l] = <<>> /\ Len(t[l]) = 0
      /\ \A k \in List : k # l => t[k] = s[k]
  BY <1>1, <1>2
<1>4. Apart(t)
  <2>1. 1..Len(t[l]) = {}
    BY <1>3
  <2>2. ASSUME NEW k \in List, NEW h \in List, NEW u \in 1..Len(t[k]), NEW v \in 1..Len(t[h]),
               t[k][u] = t[h][v]
        PROVE  k = h /\ u = v
    <3>1. k # l /\ h # l
      BY <2>1
    <3>2. t[k] = s[k] /\ t[h] = s[h]
      BY <1>3, <3>1
    <3>3. QED
      BY <1>2, <2>2, <3>2 DEF Apart
  <2>3. QED
    BY <1>3, <2>2 DEF Apart
<1>5. ASSUME NEW k \in List, k # l
      PROVE  Len(t[k]) = Len(s[k]) /\ \A j : At(t, k, j) = At(s, k, j)
  BY <1>3, <1>5 DEF At
<1>6. /\ Len(s[l]) \in Nat /\ At(s, l, 0) = Lists!HeadOf(l)
      /\ At(s, l, Len(s[l]) + 1) = Lists!TailOf(l)
      /\ \A j \in 1..Len(s[l]) : At(s, l, j) = s[l][j]
      /\ 0 \in 0..(Len(s[l]) + 1) /\ Len(s[l]) + 1 \in 0..(Len(s[l]) + 1)
      /\ \A j \in 1..Len(s[l]) : j \in 0..(Len(s[l]) + 1)
      /\ \A k \in List : \A j \in 0..(Len(s[k]) + 1) : At(s, k, j) \in Place
  BY <1>2, AtPlace
<1>7. At(t, l, 0) = Lists!HeadOf(l) /\ At(t, l, 1) = Lists!TailOf(l)
  BY <1>3 DEF At
<1>8. ASSUME NEW k \in List, k # l, NEW j \in 0..(Len(s[k]) + 1)
      PROVE  sc2[At(s, k, j)] = sc[At(s, k, j)] /\ pd2[At(s, k, j)] = pd[At(s, k, j)]
  <2>1. \A i \in 0..(Len(s[l]) + 1) : At(s, k, j) # At(s, l, i)
    BY <1>2, <1>8, AtApart
  <2>2. /\ At(s, k, j) # Lists!HeadOf(l) /\ At(s, k, j) # Lists!TailOf(l)
        /\ \A i \in 1..Len(s[l]) : At(s, k, j) # s[l][i]
    BY <1>6, <2>1
  <2>3. QED
    BY <1>6, <2>2
<1>9. Ends(sc2, pd2)
  <2>1. ASSUME NEW k \in List PROVE sc2[Lists!TailOf(k)] = None /\ pd2[Lists!HeadOf(k)] = None
    <3>1. CASE k # l
      <4>1. /\ Len(s[k]) \in Nat /\ At(s, k, 0) = Lists!HeadOf(k)
            /\ At(s, k, Len(s[k]) + 1) = Lists!TailOf(k)
        BY <1>2, AtPlace
      <4>2. 0 \in 0..(Len(s[k]) + 1) /\ Len(s[k]) + 1 \in 0..(Len(s[k]) + 1)
        BY <4>1
      <4>3. QED
        BY <1>2, <1>8, <3>1, <4>1, <4>2 DEF Ends
    <3>2. CASE k = l
      <4>1. Len(s[l]) + 1 # 0 /\ \A j \in 1..Len(s[l]) : j # 0
        BY <1>6
      <4>2. Lists!HeadOf(l) # Lists!TailOf(l)
        BY <1>2, <1>6, <4>1, AtApart
      <4>3. \A j \in 1..Len(s[l]) : s[l][j] # Lists!HeadOf(l)
        <5>1. \A j \in 1..Len(s[l]) : At(s, l, j) # At(s, l, 0)
          BY <1>2, <1>6, <4>1, AtApart
        <5>2. QED
          BY <1>6, <5>1
      <4>4. Lists!HeadOf(l) \in Place /\ Lists!TailOf(l) \in Place
        BY <1>6
      <4>5. QED
        BY <1>2, <3>2, <4>2, <4>3, <4>4 DEF Ends
    <3>3. QED
      BY <3>1, <3>2
  <2>2. QED
    BY <2>1 DEF Ends
<1>10. Joins(t, sc2, pd2)
  <2>1. ASSUME NEW k \in List, k # l, NEW j \in 0..Len(t[k])
        PROVE  sc2[At(t, k, j)] = At(t, k, j + 1) /\ pd2[At(t, k, j + 1)] = At(t, k, j)
    <3>1. /\ j \in 0..Len(s[k]) /\ j \in 0..(Len(s[k]) + 1) /\ j + 1 \in 0..(Len(s[k]) + 1)
          /\ At(t, k, j) = At(s, k, j) /\ At(t, k, j + 1) = At(s, k, j + 1)
      <4>1. Len(s[k]) \in Nat /\ Len(t[k]) = Len(s[k])
        BY <1>2, <1>5, <2>1, AtPlace
      <4>2. j \in 0..Len(s[k]) /\ j \in 0..(Len(s[k]) + 1) /\ j + 1 \in 0..(Len(s[k]) + 1)
        BY <4>1
      <4>3. QED
        BY <1>5, <2>1, <4>2
    <3>2. sc[At(s, k, j)] = At(s, k, j + 1) /\ pd[At(s, k, j + 1)] = At(s, k, j)
      BY <1>2, <3>1 DEF Joins
    <3>3. QED
      BY <1>8, <2>1, <3>1, <3>2
  <2>2. ASSUME NEW j \in 0..Len(t[l])
        PROVE  sc2[At(t, l, j)] = At(t, l, j + 1) /\ pd2[At(t, l, j + 1)] = At(t, l, j)
    <3>1. j = 0 /\ j + 1 = 1
      BY <1>3
    <3>2. Lists!HeadOf(l) \in Place /\ Lists!TailOf(l) \in Place
      BY <1>6
    <3>3. QED
      BY <1>7, <3>1, <3>2
  <2>3. QED
    BY <2>1, <2>2 DEF Joins
<1>11. QED
  BY <1>1, <1>4, <1>9, <1>10 DEF Represents
-----------------------------------------------------------------------------
(* The sequences that pointers are for, and that they are for some.        *)
LinksOf(sc, pd) ==
  [l \in List |->
     LET f == Lists!Chain(sc, Lists!HeadOf(l))
         b == Lists!Chain(pd, Lists!TailOf(l)) IN
     IF Len(f) = Len(b) /\ \A i \in DOMAIN f : f[i] = b[Len(b) + 1 - i]
     THEN f ELSE <<None>>]
Links == LinksOf(succ, pred)
(* The inductive invariant of lists: the pointers are those of the         *)
(* sequences found by following them.                                      *)
ListsIInv == Represents(Links, succ, pred)

(* There are no others.                                                    *)
LEMMA LinksAre ==
  ASSUME NEW s, NEW sc, NEW pd, Represents(s, sc, pd) PROVE LinksOf(sc, pd) = s
<1>1. Apart(s) /\ s \in [List -> Seq(Node)]
  BY DEF Represents, Apart
<1>2. ASSUME NEW l \in List PROVE LinksOf(sc, pd)[l] = s[l]
  <2>1. PICK f, b, n : /\ f = Lists!Chain(sc, Lists!HeadOf(l))
                       /\ b = Lists!Chain(pd, Lists!TailOf(l)) /\ n = Len(s[l])
    OBVIOUS
  <2>2. /\ f = s[l] /\ Len(b) = n /\ n \in Nat /\ DOMAIN f = 1..n
        /\ \A i \in 1..n : b[i] = f[n + 1 - i]
    BY <1>1, <2>1, ChainsAre, AtPlace
  <2>3. ASSUME NEW i \in 1..n PROVE f[i] = b[n + 1 - i]
    <3>1. n + 1 - i \in 1..n /\ n + 1 - (n + 1 - i) = i
      BY <2>2
    <3>2. b[n + 1 - i] = f[n + 1 - (n + 1 - i)]
      BY <2>2, <3>1
    <3>3. QED
      BY <3>1, <3>2
  <2>4. Len(f) = Len(b) /\ \A i \in DOMAIN f : f[i] = b[Len(b) + 1 - i]
    BY <2>1, <2>2, <2>3
  <2>5. QED
    BY <2>1, <2>2, <2>4 DEF LinksOf
<1>3. LinksOf(sc, pd) = [l \in List |-> LinksOf(sc, pd)[l]]
  BY DEF LinksOf
<1>4. s = [l \in List |-> s[l]]
  BY <1>1
<1>5. QED
  BY <1>2, <1>3, <1>4

(* The list's module sees the same.                                        *)
LEMMA LinksSeen == /\ Links = [l \in List |-> Lists!Linked(l)]
                   /\ Links' = [l \in List |-> Lists!Linked(l)']
  BY DEF Links, LinksOf, Lists!Linked, Lists!Forward

(* What a walk along the pointers sees of a list, and where its ends are.  *)
LEMMA ListSeen ==
  ASSUME ListsIInv, NEW l \in List
  PROVE  /\ Links \in [List -> Seq(Node)] /\ Apart(Links)
         /\ Lists!Forward(l) = Links[l] /\ Len(Links[l]) \in Nat
         /\ DOMAIN Links[l] = 1..Len(Links[l])
         /\ Lists!HeadOf(l) = At(Links, l, 0)
         /\ Lists!TailOf(l) = At(Links, l, Len(Links[l]) + 1)
         /\ \A i \in 1..Len(Links[l]) : At(Links, l, i) = Links[l][i] /\ Links[l][i] \in Node
         /\ \A i \in 0..(Len(Links[l]) + 1) : At(Links, l, i) \in Place
         /\ \A i \in 0..Len(Links[l]) : succ[At(Links, l, i)] = At(Links, l, i + 1)
                                        /\ pred[At(Links, l, i + 1)] = At(Links, l, i)
         /\ succ[Lists!TailOf(l)] = None /\ pred[Lists!HeadOf(l)] = None
         /\ succ \in Pointers /\ pred \in Pointers
<1>1. PICK s : s = Links
  OBVIOUS
<1>2. Represents(s, succ, pred) /\ Apart(s)
  BY <1>1 DEF ListsIInv, Represents
<1>3. s \in [List -> Seq(Node)] /\ Ends(succ, pred) /\ Joins(s, succ, pred)
      /\ succ \in Pointers /\ pred \in Pointers
  BY <1>2 DEF Represents, Apart
<1>4. Lists!Chain(succ, Lists!HeadOf(l)) = s[l]
  BY <1>2, ChainsAre
<1>5. /\ Len(s[l]) \in Nat /\ DOMAIN s[l] = 1..Len(s[l])
      /\ \A i \in 1..Len(s[l]) : At(s, l, i) = s[l][i] /\ s[l][i] \in Node
      /\ At(s, l, 0) = Lists!HeadOf(l) /\ At(s, l, Len(s[l]) + 1) = Lists!TailOf(l)
      /\ \A i \in 0..(Len(s[l]) + 1) : At(s, l, i) \in Place
  BY <1>2, AtPlace
<1>6. \A i \in 0..Len(s[l]) : succ[At(s, l, i)] = At(s, l, i + 1)
                              /\ pred[At(s, l, i + 1)] = At(s, l, i)
  BY <1>3 DEF Joins
<1>7. succ[Lists!TailOf(l)] = None /\ pred[Lists!HeadOf(l)] = None
  BY <1>3 DEF Ends
<1>8. QED
  BY <1>1, <1>2, <1>3, <1>4, <1>5, <1>6, <1>7 DEF Lists!Forward

(* What the abstract list becomes.                                         *)
LEMMA AbstractBecomes ==
  ASSUME NEW l, NEW q, NEW result, Links' = [Links EXCEPT ![l] = q], got' = result
  PROVE  Lists!Abstract!Becomes(l, q, result)
  BY LinksSeen DEF Lists!Abstract!Becomes

(* Free nodes are in no list, here and there.                              *)
LEMMA FreeSeen ==
  ASSUME ListsIInv, NEW n \in Node, Lists!IsFree(n)
  PROVE  /\ \A k \in List : \A j \in 1..Len(Links[k]) : Links[k][j] # n
         /\ Lists!Abstract!IsFree(n)
<1>1. \A k \in List : /\ Lists!Forward(k) = Links[k]
                      /\ DOMAIN Links[k] = 1..Len(Links[k])
  BY ListSeen
<1>2. \A k \in List : \A j \in 1..Len(Links[k]) : Links[k][j] # n
  BY <1>1 DEF Lists!IsFree, Lists!Elements
<1>3. \A k \in List : n \notin Lists!Abstract!In(k)
  <2>1. \A k \in List : [l \in List |-> Lists!Linked(l)][k] = Links[k]
    BY LinksSeen
  <2>2. QED
    BY <1>1, <1>2, <2>1 DEF Lists!Abstract!In, Lists!Abstract!Range
<1>4. QED
  BY <1>2, <1>3 DEF Lists!Abstract!IsFree

(* A node is added to a list.                                              *)
LEMMA AddStep ==
  ASSUME ListsIInv, NEW l \in List, NEW n \in Node, Lists!IsFree(n),
         NEW i \in 1..(Len(Links[l]) + 1),
         Inserted(At(Links, l, i - 1), n, At(Links, l, i), succ, pred, succ', pred'),
         got' = <<>>
  PROVE  ListsIInv' /\ Lists!Abstract!Add(l, n, i)
<1>1. PICK s, sc, pd, sc2, pd2 : /\ s = Links /\ sc = succ /\ pd = pred
                                 /\ sc2 = succ' /\ pd2 = pred'
  OBVIOUS
<1>2. Represents(s, sc, pd)
  BY <1>1 DEF ListsIInv
<1>3. \A k \in List : \A j \in 1..Len(s[k]) : s[k][j] # n
  BY <1>1, FreeSeen
<1>4. PICK t : t = [s EXCEPT ![l] = InsertAt(s[l], i, n)]
  OBVIOUS
<1>5. /\ i \in 1..(Len(s[l]) + 1)
      /\ Inserted(At(s, l, i - 1), n, At(s, l, i), sc, pd, sc2, pd2)
  BY <1>1
<1>6. Represents(t, sc2, pd2)
  BY <1>2, <1>3, <1>4, <1>5, InsertRep
<1>7. Links' = t
  BY <1>1, <1>6, LinksAre DEF Links
<1>8. ListsIInv'
  BY <1>1, <1>6, <1>7 DEF ListsIInv
<1>9. Links' = [Links EXCEPT ![l] = InsertAt(Links[l], i, n)]
  BY <1>1, <1>4, <1>7
<1>10. Lists!Abstract!Becomes(l, InsertAt(Links[l], i, n), <<>>)
  BY <1>9, AbstractBecomes
<1>11. [k \in List |-> Lists!Linked(k)][l] = Links[l]
  BY LinksSeen
<1>12. Lists!Abstract!InsertAt(Links[l], i, n) = InsertAt(Links[l], i, n)
  BY DEF InsertAt, Lists!Abstract!InsertAt
<1>13. QED
  BY <1>8, <1>10, <1>11, <1>12, FreeSeen DEF Lists!Abstract!Add

(* A node leaves a list, ...                                               *)
LEMMA RemoveStep ==
  ASSUME ListsIInv, NEW l \in List, NEW i \in 1..Len(Links[l]),
         Removed(At(Links, l, i - 1), At(Links, l, i + 1), succ, pred, succ', pred')
  PROVE  ListsIInv' /\ Links' = [Links EXCEPT ![l] = RemoveAt(Links[l], i)]
<1>1. PICK s, sc, pd, sc2, pd2 : /\ s = Links /\ sc = succ /\ pd = pred
                                 /\ sc2 = succ' /\ pd2 = pred'
  OBVIOUS
<1>2. Represents(s, sc, pd)
  BY <1>1 DEF ListsIInv
<1>3. PICK t : t = [s EXCEPT ![l] = RemoveAt(s[l], i)]
  OBVIOUS
<1>4. i \in 1..Len(s[l]) /\ Removed(At(s, l, i - 1), At(s, l, i + 1), sc, pd, sc2, pd2)
  BY <1>1
<1>5. Represents(t, sc2, pd2)
  BY <1>2, <1>3, <1>4, RemoveRep
<1>6. Links' = t
  BY <1>1, <1>5, LinksAre DEF Links
<1>7. QED
  BY <1>1, <1>3, <1>5, <1>6 DEF ListsIInv

(* ... changes places with the one before it, ...                          *)
LEMMA SwapStep ==
  ASSUME ListsIInv, NEW l \in List, NEW i \in 2..Len(Links[l]),
         Swapped(At(Links, l, i - 2), At(Links, l, i - 1), At(Links, l, i),
                 At(Links, l, i + 1), succ, pred, succ', pred')
  PROVE  /\ ListsIInv'
         /\ Links' = [Links EXCEPT ![l] = [Links[l] EXCEPT ![i] = Links[l][i - 1],
                                                           ![i - 1] = Links[l][i]]]
<1>1. PICK s, sc, pd, sc2, pd2 : /\ s = Links /\ sc = succ /\ pd = pred
                                 /\ sc2 = succ' /\ pd2 = pred'
  OBVIOUS
<1>2. Represents(s, sc, pd)
  BY <1>1 DEF ListsIInv
<1>3. PICK t : t = [s EXCEPT ![l] = [s[l] EXCEPT ![i] = s[l][i - 1], ![i - 1] = s[l][i]]]
  OBVIOUS
<1>4. /\ i \in 2..Len(s[l])
      /\ Swapped(At(s, l, i - 2), At(s, l, i - 1), At(s, l, i), At(s, l, i + 1),
                 sc, pd, sc2, pd2)
  BY <1>1
<1>5. Represents(t, sc2, pd2)
  BY <1>2, <1>3, <1>4, SwapRep
<1>6. Links' = t
  BY <1>1, <1>5, LinksAre DEF Links
<1>7. QED
  BY <1>1, <1>3, <1>5, <1>6 DEF ListsIInv

(* ... or all nodes leave, ...                                             *)
LEMMA ClearStep ==
  ASSUME ListsIInv, NEW l \in List, Cleared(l, Links[l], succ, pred, succ', pred')
  PROVE  ListsIInv' /\ Links' = [Links EXCEPT ![l] = <<>>]
<1>1. PICK s, sc, pd, sc2, pd2 : /\ s = Links /\ sc = succ /\ pd = pred
                                 /\ sc2 = succ' /\ pd2 = pred'
  OBVIOUS
<1>2. Represents(s, sc, pd)
  BY <1>1 DEF ListsIInv
<1>3. PICK t : t = [s EXCEPT ![l] = <<>>]
  OBVIOUS
<1>4. Cleared(l, s[l], sc, pd, sc2, pd2)
  BY <1>1
<1>5. Represents(t, sc2, pd2)
  BY <1>2, <1>3, <1>4, ClearRep
<1>6. Links' = t
  BY <1>1, <1>5, LinksAre DEF Links
<1>7. QED
  BY <1>1, <1>3, <1>5, <1>6 DEF ListsIInv

(* ... or nothing happens.                                                 *)
LEMMA SameStep ==
  ASSUME ListsIInv, UNCHANGED <<succ, pred>> PROVE ListsIInv' /\ Links' = Links
  BY DEF ListsIInv, Links

(* What two assignments make of the pointers, in either order.             *)
LEMMA InsertedBy ==
  ASSUME NEW sc \in Pointers, NEW pd \in Pointers, NEW a \in Place, NEW n \in Place,
         NEW b \in Place, a # n, b # n, NEW sc2, NEW pd2,
         sc2 \in {[sc EXCEPT ![a] = n, ![n] = b], [sc EXCEPT ![n] = b, ![a] = n]},
         pd2 \in {[pd EXCEPT ![n] = a, ![b] = n], [pd EXCEPT ![b] = n, ![n] = a]}
  PROVE  Inserted(a, n, b, sc, pd, sc2, pd2)
<1>1. /\ sc2 \in Pointers
      /\ \A p \in Place : sc2[p] = IF p = a THEN n ELSE IF p = n THEN b ELSE sc[p]
  BY DEF Pointers
<1>2. /\ pd2 \in Pointers
      /\ \A p \in Place : pd2[p] = IF p = b THEN n ELSE IF p = n THEN a ELSE pd[p]
  BY DEF Pointers
<1>3. QED
  BY <1>1, <1>2 DEF Inserted

(* Links of lists are not empty places.                                    *)
LEMMA PlaceIsSome == \A p \in Place : p # None
  BY NodesFinite

(* TAddHead, TAddTail and TInsert add a node somewhere in the list.        *)
LEMMA AddPlace ==
  ASSUME ListsIInv, NEW l \in List, NEW n \in Node, Lists!IsFree(n),
         NEW i \in 1..(Len(Links[l]) + 1), NEW a, NEW b,
         a = At(Links, l, i - 1), b = At(Links, l, i),
         succ' \in {[succ EXCEPT ![a] = n, ![n] = b], [succ EXCEPT ![n] = b, ![a] = n]},
         pred' \in {[pred EXCEPT ![n] = a, ![b] = n], [pred EXCEPT ![b] = n, ![n] = a]},
         got' = <<>>
  PROVE  ListsIInv' /\ Lists!Abstract!Add(l, n, i)
<1>1. /\ Apart(Links) /\ succ \in Pointers /\ pred \in Pointers
      /\ \A j \in 0..(Len(Links[l]) + 1) : At(Links, l, j) \in Place
      /\ Len(Links[l]) \in Nat
  BY ListSeen
<1>2. i - 1 \in 0..(Len(Links[l]) + 1) /\ i \in 0..(Len(Links[l]) + 1)
  BY <1>1
<1>3. \A k \in List : \A j \in 1..Len(Links[k]) : Links[k][j] # n
  BY FreeSeen
<1>4. a # n /\ b # n
  BY <1>1, <1>2, <1>3, AtOther
<1>5. a \in Place /\ b \in Place /\ n \in Place
  BY <1>1, <1>2 DEF Place, Lists!Place
<1>6. PICK sc2, pd2 : sc2 = succ' /\ pd2 = pred'
  OBVIOUS
<1>7. Inserted(a, n, b, succ, pred, sc2, pd2)
  BY <1>1, <1>4, <1>5, <1>6, InsertedBy
<1>8. QED
  BY <1>6, <1>7, AddStep

(* TAddHead inserts at the first place.                                    *)
LEMMA AddHeadStep ==
  ASSUME ListsIInv, NEW l \in List, NEW n \in Node, Lists!IsFree(n), Lists!AddHead(l, n)
  PROVE  ListsIInv' /\ \E i \in 1..(Len(Links[l]) + 1) : Lists!Abstract!Add(l, n, i)
<1>1. /\ Len(Links[l]) \in Nat /\ Lists!HeadOf(l) = At(Links, l, 0)
      /\ \A i \in 0..Len(Links[l]) : succ[At(Links, l, i)] = At(Links, l, i + 1)
  BY ListSeen
<1>2. 0 \in 0..Len(Links[l]) /\ 1 - 1 = 0 /\ 0 + 1 = 1 /\ 1 \in 1..(Len(Links[l]) + 1)
  BY <1>1
<1>3. PICK a, b : a = At(Links, l, 0) /\ b = At(Links, l, 1)
  OBVIOUS
<1>4. /\ succ' = [succ EXCEPT ![a] = n, ![n] = b] /\ pred' = [pred EXCEPT ![n] = a, ![b] = n]
      /\ got' = <<>>
  BY <1>1, <1>2, <1>3 DEF Lists!AddHead
<1>5. ListsIInv' /\ Lists!Abstract!Add(l, n, 1)
  BY <1>2, <1>3, <1>4, AddPlace
<1>6. QED
  BY <1>2, <1>5

(* TAddTail, and TInsert behind the tail, insert at the last place.        *)
LEMMA AddTailStep ==
  ASSUME ListsIInv, NEW l \in List, NEW n \in Node, Lists!IsFree(n),
         Lists!AddTail(l, n) \/ Lists!Insert(l, n, Lists!TailOf(l))
  PROVE  ListsIInv' /\ \E i \in 1..(Len(Links[l]) + 1) : Lists!Abstract!Add(l, n, i)
<1>1. PICK m : m = Len(Links[l])
  OBVIOUS
<1>2. /\ m \in Nat /\ Lists!TailOf(l) = At(Links, l, m + 1)
      /\ \A i \in 0..m : pred[At(Links, l, i + 1)] = At(Links, l, i)
      /\ \A i \in 0..(m + 1) : At(Links, l, i) \in Place
  BY <1>1, ListSeen
<1>3. m \in 0..m /\ (m + 1) - 1 = m /\ m + 1 \in 1..(m + 1) /\ m + 1 \in 0..(m + 1)
  BY <1>2
<1>4. PICK a, b : a = At(Links, l, m) /\ b = At(Links, l, m + 1)
  OBVIOUS
<1>5. pred[b] = a /\ b = Lists!TailOf(l) /\ b # None
  BY <1>2, <1>3, <1>4, PlaceIsSome
<1>6. /\ succ' = [succ EXCEPT ![n] = b, ![a] = n] /\ got' = <<>>
      /\ pred' \in {[pred EXCEPT ![n] = a, ![b] = n], [pred EXCEPT ![b] = n, ![n] = a]}
  BY <1>5 DEF Lists!AddTail, Lists!Insert
<1>7. ListsIInv' /\ Lists!Abstract!Add(l, n, m + 1)
  BY <1>1, <1>3, <1>4, <1>6, AddPlace
<1>8. QED
  BY <1>1, <1>3, <1>7

(* TInsert inserts behind the node it is given.                            *)
LEMMA InsertStep ==
  ASSUME ListsIInv, NEW l \in List, NEW n \in Node, Lists!IsFree(n),
         NEW p \in Lists!Elements(l) \cup {None, Lists!HeadOf(l), Lists!TailOf(l)},
         Lists!Insert(l, n, p)
  PROVE  ListsIInv' /\ \E i \in 1..(Len(Links[l]) + 1) : Lists!Abstract!Add(l, n, i)
<1>1. CASE p = None
  <2>1. Lists!TailOf(l) # None
    BY PlaceIsSome DEF Place, Lists!Place, Lists!TailOf
  <2>2. Lists!AddHead(l, n)
    BY <1>1, <2>1 DEF Lists!Insert
  <2>3. QED
    BY <2>2, AddHeadStep
<1>2. CASE p = Lists!TailOf(l)
  BY <1>2, AddTailStep
<1>3. CASE p # None /\ p # Lists!TailOf(l)
  <2>1. PICK m : m = Len(Links[l])
    OBVIOUS
  <2>2. /\ m \in Nat /\ Lists!Forward(l) = Links[l] /\ Lists!HeadOf(l) = At(Links, l, 0)
        /\ DOMAIN Links[l] = 1..m
        /\ \A i \in 1..m : At(Links, l, i) = Links[l][i]
        /\ \A i \in 0..m : succ[At(Links, l, i)] = At(Links, l, i + 1)
    BY <2>1, ListSeen
  <2>3. PICK i \in 0..m : p = At(Links, l, i)
    <3>1. CASE p \in Lists!Elements(l)
      <4>1. PICK i \in 1..m : Links[l][i] = p
        BY <2>2, <3>1 DEF Lists!Elements
      <4>2. i \in 0..m /\ p = At(Links, l, i)
        BY <2>2, <4>1
      <4>3. QED
        BY <4>2
    <3>2. CASE p = Lists!HeadOf(l)
      <4>1. 0 \in 0..m
        BY <2>2
      <4>2. QED
        BY <2>2, <3>2, <4>1
    <3>3. QED
      BY <1>3, <3>1, <3>2
  <2>4. (i + 1) - 1 = i /\ i + 1 \in 1..(m + 1)
    BY <2>2
  <2>5. PICK b : b = At(Links, l, i + 1)
    OBVIOUS
  <2>6. succ[p] = b
    BY <2>2, <2>3, <2>5
  <2>7. /\ succ' = [succ EXCEPT ![n] = b, ![p] = n] /\ got' = <<>>
        /\ pred' = [pred EXCEPT ![n] = p, ![b] = n]
    BY <1>3, <2>6 DEF Lists!Insert
  <2>8. ListsIInv' /\ Lists!Abstract!Add(l, n, i + 1)
    BY <2>1, <2>3, <2>4, <2>5, <2>7, AddPlace
  <2>9. QED
    BY <2>1, <2>4, <2>8
<1>4. QED
  BY <1>1, <1>2, <1>3

(* The first and the last one, and the list without them.                  *)
LEMMA WithoutFirst ==
  ASSUME NEW T, NEW q \in Seq(T), Len(q) # 0
  PROVE  q # <<>> /\ RemoveAt(q, 1) = Tail(q) /\ Head(q) = q[1]
<1>1. PICK n : n = Len(q)
  OBVIOUS
<1>2. n \in Nat /\ n # 0 /\ q # <<>> /\ DOMAIN q = 1..n /\ 1 \in 1..n /\ 1 \in DOMAIN q
  BY <1>1
<1>3. PICK r, t : r = RemoveAt(q, 1) /\ t = Tail(q)
  OBVIOUS
<1>4. /\ r \in Seq(T) /\ Len(r) = n - 1
      /\ \A k \in 1..(n - 1) : r[k] = IF k <= 1 - 1 THEN q[k] ELSE q[k + 1]
  BY <1>1, <1>2, <1>3, RemoveElements
<1>5. /\ t \in Seq(T) /\ Len(t) = n - 1 /\ Head(q) = q[1]
      /\ \A k \in 1..(n - 1) : t[k] = q[k + 1]
  BY <1>1, <1>2, <1>3, HeadTailProperties
<1>6. \A k \in 1..(n - 1) : r[k] = q[k + 1]
  BY <1>2, <1>4
<1>7. r = t
  BY <1>4, <1>5, <1>6, SeqEqual
<1>8. QED
  BY <1>2, <1>3, <1>5, <1>7

(* To remove the last one of a sequence leaves its front.                  *)
LEMMA WithoutLast ==
  ASSUME NEW T, NEW q \in Seq(T), Len(q) # 0
  PROVE  q # <<>> /\ RemoveAt(q, Len(q)) = Front(q)
<1>1. PICK n : n = Len(q)
  OBVIOUS
<1>2. /\ n \in Nat /\ n # 0 /\ q # <<>> /\ DOMAIN q = 1..n /\ n \in DOMAIN q
      /\ \A k \in 1..n : q[k] \in T
  BY <1>1
<1>3. PICK r, t : r = RemoveAt(q, n) /\ t = SubSeq(q, 1, n - 1)
  OBVIOUS
<1>4. /\ r \in Seq(T) /\ Len(r) = n - 1
      /\ \A k \in 1..(n - 1) : r[k] = IF k <= n - 1 THEN q[k] ELSE q[k + 1]
  BY <1>1, <1>2, <1>3, RemoveElements
<1>5. /\ t \in Seq(T) /\ Len(t) = n - 1 /\ \A k \in 1..(n - 1) : t[k] = q[k]
  <2>1. 1 \in Int /\ n - 1 \in Int /\ \A k \in 1..(n - 1) : q[k] \in T
    BY <1>2
  <2>2. /\ t \in Seq(T) /\ Len(t) = IF 1 <= n - 1 THEN (n - 1) - 1 + 1 ELSE 0
        /\ \A k \in 1..((n - 1) - 1 + 1) : t[k] = q[1 + k - 1]
    BY <1>3, <2>1, SubSeqProperties
  <2>3. QED
    BY <1>2, <2>2
<1>6. \A k \in 1..(n - 1) : r[k] = q[k]
  BY <1>2, <1>4
<1>7. r = t
  BY <1>4, <1>5, <1>6, SeqEqual
<1>8. QED
  BY <1>1, <1>2, <1>3, <1>7 DEF Front

(* What one assignment each makes of the pointers.                         *)
LEMMA RemovedBy ==
  ASSUME NEW sc \in Pointers, NEW pd \in Pointers, NEW a \in Place, NEW b \in Place
  PROVE  Removed(a, b, sc, pd, [sc EXCEPT ![a] = b], [pd EXCEPT ![b] = a])
  BY DEF Removed, Pointers

(* TRemHead, TRemTail and TRemove take a node out of its list.             *)
LEMMA RemovePlace ==
  ASSUME ListsIInv, NEW l \in List, NEW i \in 1..Len(Links[l]), NEW a, NEW b,
         a = At(Links, l, i - 1), b = At(Links, l, i + 1),
         succ' = [succ EXCEPT ![a] = b], pred' = [pred EXCEPT ![b] = a]
  PROVE  ListsIInv' /\ Links' = [Links EXCEPT ![l] = RemoveAt(Links[l], i)]
<1>1. /\ succ \in Pointers /\ pred \in Pointers /\ Len(Links[l]) \in Nat
      /\ \A j \in 0..(Len(Links[l]) + 1) : At(Links, l, j) \in Place
  BY ListSeen
<1>2. i - 1 \in 0..(Len(Links[l]) + 1) /\ i + 1 \in 0..(Len(Links[l]) + 1)
  BY <1>1
<1>3. a \in Place /\ b \in Place
  BY <1>1, <1>2
<1>4. PICK sc2, pd2 : sc2 = succ' /\ pd2 = pred'
  OBVIOUS
<1>5. Removed(a, b, succ, pred, sc2, pd2)
  BY <1>1, <1>3, <1>4, RemovedBy
<1>6. QED
  BY <1>4, <1>5, RemoveStep

(* TRemHead takes the first node, if there is one.                         *)
LEMMA RemHeadStep ==
  ASSUME ListsIInv, NEW l \in List, Lists!RemHead(l)
  PROVE  ListsIInv' /\ Lists!Abstract!RemHead(l)
<1>1. PICK m, q : m = Len(Links[l]) /\ q = Links[l]
  OBVIOUS
<1>2. /\ m \in Nat /\ q \in Seq(Node) /\ m = Len(q) /\ Links \in [List -> Seq(Node)]
      /\ Lists!HeadOf(l) = At(Links, l, 0) /\ Lists!TailOf(l) = At(Links, l, m + 1)
      /\ \A i \in 1..m : At(Links, l, i) = q[i]
      /\ \A i \in 0..(m + 1) : At(Links, l, i) \in Place
      /\ \A i \in 0..m : succ[At(Links, l, i)] = At(Links, l, i + 1)
      /\ succ[Lists!TailOf(l)] = None
  BY <1>1, ListSeen
<1>3. [k \in List |-> Lists!Linked(k)][l] = q
  BY <1>1, LinksSeen
<1>4. PICK temp : temp = At(Links, l, 1)
  OBVIOUS
<1>5. temp = succ[Lists!HeadOf(l)]
  <2>1. 0 \in 0..m /\ 0 + 1 = 1
    BY <1>2
  <2>2. QED
    BY <1>2, <1>4, <2>1
<1>6. CASE m = 0
  <2>1. succ[temp] = None
    BY <1>2, <1>4, <1>6
  <2>2. UNCHANGED <<succ, pred>> /\ got' = <<>>
    BY <1>5, <2>1 DEF Lists!RemHead
  <2>3. ListsIInv' /\ Links' = Links
    BY <2>2, SameStep
  <2>4. q = <<>>
    <3>1. q \in Seq(Node) /\ Len(q) = 0
      BY <1>2, <1>6
    <3>2. QED
      BY ONLY <3>1
  <2>5. Links' = [Links EXCEPT ![l] = <<>>]
    BY <1>1, <1>2, <2>3, <2>4
  <2>6. Lists!Abstract!Becomes(l, <<>>, <<>>)
    BY <2>2, <2>5, AbstractBecomes
  <2>7. QED
    BY <1>3, <2>3, <2>4, <2>6 DEF Lists!Abstract!RemHead
<1>7. CASE m # 0
  <2>1. 1 \in 1..m /\ 1 \in 0..m /\ 1 - 1 = 0 /\ 1 + 1 = 2 /\ 2 \in 0..(m + 1)
    BY <1>2, <1>7
  <2>2. PICK a, b : a = At(Links, l, 0) /\ b = At(Links, l, 2)
    OBVIOUS
  <2>3. succ[temp] = b /\ b # None
    BY <1>2, <1>4, <2>1, <2>2, PlaceIsSome
  <2>4. /\ succ' = [succ EXCEPT ![a] = b] /\ pred' = [pred EXCEPT ![b] = a]
        /\ got' = <<temp>>
    BY <1>2, <1>5, <2>2, <2>3 DEF Lists!RemHead
  <2>5. ListsIInv' /\ Links' = [Links EXCEPT ![l] = RemoveAt(q, 1)]
    BY <1>1, <2>1, <2>2, <2>4, RemovePlace
  <2>6. q # <<>> /\ RemoveAt(q, 1) = Tail(q) /\ Head(q) = q[1]
    BY <1>2, <1>7, WithoutFirst
  <2>7. temp = Head(q)
    BY <1>2, <1>4, <2>1, <2>6
  <2>8. Lists!Abstract!Becomes(l, Tail(q), <<Head(q)>>)
    BY <2>4, <2>5, <2>6, <2>7, AbstractBecomes
  <2>9. QED
    BY <1>3, <2>5, <2>6, <2>8 DEF Lists!Abstract!RemHead
<1>8. QED
  BY <1>6, <1>7

(* TRemTail takes the last node, if there is one.                          *)
LEMMA RemTailStep ==
  ASSUME ListsIInv, NEW l \in List, Lists!RemTail(l)
  PROVE  ListsIInv' /\ Lists!Abstract!RemTail(l)
<1>1. PICK m, q : m = Len(Links[l]) /\ q = Links[l]
  OBVIOUS
<1>2. /\ m \in Nat /\ q \in Seq(Node) /\ m = Len(q) /\ Links \in [List -> Seq(Node)]
      /\ Lists!HeadOf(l) = At(Links, l, 0) /\ Lists!TailOf(l) = At(Links, l, m + 1)
      /\ \A i \in 1..m : At(Links, l, i) = q[i]
      /\ \A i \in 0..(m + 1) : At(Links, l, i) \in Place
      /\ \A i \in 0..m : pred[At(Links, l, i + 1)] = At(Links, l, i)
      /\ pred[Lists!HeadOf(l)] = None
  BY <1>1, ListSeen
<1>3. [k \in List |-> Lists!Linked(k)][l] = q
  BY <1>1, LinksSeen
<1>4. PICK temp : temp = At(Links, l, m)
  OBVIOUS
<1>5. temp = pred[Lists!TailOf(l)]
  <2>1. m \in 0..m
    BY <1>2
  <2>2. QED
    BY <1>2, <1>4, <2>1
<1>6. CASE m = 0
  <2>1. pred[temp] = None
    BY <1>2, <1>4, <1>6
  <2>2. UNCHANGED <<succ, pred>> /\ got' = <<>>
    BY <1>5, <2>1 DEF Lists!RemTail
  <2>3. ListsIInv' /\ Links' = Links
    BY <2>2, SameStep
  <2>4. q = <<>>
    <3>1. q \in Seq(Node) /\ Len(q) = 0
      BY <1>2, <1>6
    <3>2. QED
      BY ONLY <3>1
  <2>5. Links' = [Links EXCEPT ![l] = <<>>]
    BY <1>1, <1>2, <2>3, <2>4
  <2>6. Lists!Abstract!Becomes(l, <<>>, <<>>)
    BY <2>2, <2>5, AbstractBecomes
  <2>7. QED
    BY <1>3, <2>3, <2>4, <2>6 DEF Lists!Abstract!RemTail
<1>7. CASE m # 0
  <2>1. m \in 1..m /\ m - 1 \in 0..m /\ (m - 1) + 1 = m /\ m - 1 \in 0..(m + 1)
    BY <1>2, <1>7
  <2>2. PICK a, b : a = At(Links, l, m - 1) /\ b = At(Links, l, m + 1)
    OBVIOUS
  <2>3. pred[temp] = a /\ a # None
    BY <1>2, <1>4, <2>1, <2>2, PlaceIsSome
  <2>4. /\ succ' = [succ EXCEPT ![a] = b] /\ pred' = [pred EXCEPT ![b] = a]
        /\ got' = <<temp>>
    BY <1>2, <1>5, <2>2, <2>3 DEF Lists!RemTail
  <2>5. ListsIInv' /\ Links' = [Links EXCEPT ![l] = RemoveAt(q, m)]
    BY <1>1, <2>1, <2>2, <2>4, RemovePlace
  <2>6. q # <<>> /\ RemoveAt(q, m) = Front(q)
    BY <1>2, <1>7, WithoutLast
  <2>7. temp = q[m]
    BY <1>2, <1>4, <2>1
  <2>8. Lists!Abstract!Becomes(l, Front(q), <<q[m]>>)
    BY <2>4, <2>5, <2>6, <2>7, AbstractBecomes
  <2>9. Lists!Abstract!Front(q) = Front(q) /\ Lists!Abstract!Last(q) = q[m]
    BY <1>2 DEF Front, Lists!Abstract!Front, Lists!Abstract!Last
  <2>10. QED
    BY <1>3, <2>5, <2>6, <2>8, <2>9 DEF Lists!Abstract!RemTail
<1>8. QED
  BY <1>6, <1>7

(* A node that is not free is somewhere in a list.                         *)
LEMMA InSeen ==
  ASSUME ListsIInv, NEW n \in Node, Lists!InList(n)
  PROVE  \E l \in List : \E i \in 1..Len(Links[l]) : Links[l][i] = n
<1>1. PICK l \in List : n \in Lists!Elements(l)
  BY DEF Lists!InList, Lists!IsFree
<1>2. Lists!Forward(l) = Links[l] /\ DOMAIN Links[l] = 1..Len(Links[l])
  BY ListSeen
<1>3. QED
  BY <1>1, <1>2 DEF Lists!Elements

(* TRemove takes a node from wherever it is.                               *)
LEMMA UnlinkStep ==
  ASSUME ListsIInv, NEW l \in List, NEW i \in 1..Len(Links[l]), NEW n,
         n = Links[l][i], Lists!Unlink(n)
  PROVE  ListsIInv' /\ i \in DOMAIN Links[l] /\ Lists!Abstract!Drop(l, i)
<1>1. PICK m : m = Len(Links[l])
  OBVIOUS
<1>2. /\ m \in Nat /\ DOMAIN Links[l] = 1..m
      /\ \A j \in 1..m : At(Links, l, j) = Links[l][j]
      /\ \A j \in 0..m : succ[At(Links, l, j)] = At(Links, l, j + 1)
                         /\ pred[At(Links, l, j + 1)] = At(Links, l, j)
  BY <1>1, ListSeen
<1>3. PICK a, b : a = At(Links, l, i - 1) /\ b = At(Links, l, i + 1)
  OBVIOUS
<1>4. i \in 1..m /\ i \in 0..m /\ i - 1 \in 0..m /\ (i - 1) + 1 = i
  BY <1>1, <1>2
<1>5. succ[n] = b /\ pred[n] = a
  BY <1>2, <1>3, <1>4
<1>6. succ' = [succ EXCEPT ![a] = b] /\ pred' = [pred EXCEPT ![b] = a] /\ got' = <<>>
  BY <1>5 DEF Lists!Unlink
<1>7. ListsIInv' /\ Links' = [Links EXCEPT ![l] = RemoveAt(Links[l], i)]
  BY <1>3, <1>6, RemovePlace
<1>8. Lists!Abstract!Becomes(l, RemoveAt(Links[l], i), <<>>)
  BY <1>6, <1>7, AbstractBecomes
<1>9. [k \in List |-> Lists!Linked(k)][l] = Links[l]
  BY LinksSeen
<1>10. Lists!Abstract!RemoveAt(Links[l], i) = RemoveAt(Links[l], i)
  BY DEF RemoveAt, Lists!Abstract!RemoveAt
<1>11. QED
  BY <1>2, <1>4, <1>7, <1>8, <1>9, <1>10 DEF Lists!Abstract!Drop

(* What the assignments of TNodeUp make of the pointers.                   *)
LEMMA SwappedBy ==
  ASSUME NEW sc \in Pointers, NEW pd \in Pointers, NEW a \in Place, NEW x \in Place,
         NEW n \in Place, NEW b \in Place, a # x, a # n, x # n, b # n, b # x
  PROVE  Swapped(a, x, n, b, sc, pd, [sc EXCEPT ![a] = n, ![x] = b, ![n] = x],
                 [pd EXCEPT ![n] = a, ![x] = n, ![b] = x])
<1>1. PICK sc2, pd2 : /\ sc2 = [sc EXCEPT ![a] = n, ![x] = b, ![n] = x]
                      /\ pd2 = [pd EXCEPT ![n] = a, ![x] = n, ![b] = x]
  OBVIOUS
<1>2. /\ sc2 \in Pointers
      /\ \A p \in Place : sc2[p] = IF p = a THEN n ELSE IF p = x THEN b
                                   ELSE IF p = n THEN x ELSE sc[p]
  BY <1>1 DEF Pointers
<1>3. /\ pd2 \in Pointers
      /\ \A p \in Place : pd2[p] = IF p = n THEN a ELSE IF p = x THEN n
                                   ELSE IF p = b THEN x ELSE pd[p]
  BY <1>1 DEF Pointers
<1>4. QED
  BY <1>1, <1>2, <1>3 DEF Swapped

(* TNodeUp moves a node one place up, if it is not the first.              *)
LEMMA NodeUpStep ==
  ASSUME ListsIInv, NEW l \in List, NEW i \in 1..Len(Links[l]), NEW n,
         n = Links[l][i], Lists!NodeUp(n)
  PROVE  ListsIInv' /\ i \in DOMAIN Links[l] /\ Lists!Abstract!Up(l, i)
<1>1. PICK m, q : m = Len(Links[l]) /\ q = Links[l]
  OBVIOUS
<1>2. /\ m \in Nat /\ DOMAIN q = 1..m /\ Links \in [List -> Seq(Node)] /\ Apart(Links)
      /\ Lists!HeadOf(l) = At(Links, l, 0)
      /\ \A j \in 1..m : At(Links, l, j) = q[j]
      /\ \A j \in 0..m : succ[At(Links, l, j)] = At(Links, l, j + 1)
                         /\ pred[At(Links, l, j + 1)] = At(Links, l, j)
      /\ \A j \in 0..(m + 1) : At(Links, l, j) \in Place
      /\ pred[Lists!HeadOf(l)] = None /\ succ \in Pointers /\ pred \in Pointers
  BY <1>1, ListSeen
<1>3. PICK temp : temp = At(Links, l, i - 1)
  OBVIOUS
<1>4. i \in 1..m /\ i \in 0..m /\ i - 1 \in 0..m /\ (i - 1) + 1 = i
  BY <1>1, <1>2
<1>5. pred[n] = temp /\ n = At(Links, l, i)
  BY <1>1, <1>2, <1>3, <1>4
<1>6. [k \in List |-> Lists!Linked(k)][l] = q
  BY <1>1, LinksSeen
<1>7. CASE i = 1
  <2>1. pred[temp] = None
    BY <1>2, <1>3, <1>7
  <2>2. UNCHANGED <<succ, pred>> /\ got' = <<>>
    BY <1>5, <2>1 DEF Lists!NodeUp
  <2>3. ListsIInv' /\ Links' = Links
    BY <2>2, SameStep
  <2>4. Links' = [Links EXCEPT ![l] = q]
    BY <1>1, <1>2, <2>3
  <2>5. Lists!Abstract!Becomes(l, q, <<>>)
    BY <2>2, <2>4, AbstractBecomes
  <2>6. QED
    BY <1>1, <1>2, <1>4, <1>6, <1>7, <2>3, <2>5 DEF Lists!Abstract!Up
<1>8. CASE i # 1
  <2>1. PICK a, b : a = At(Links, l, i - 2) /\ b = At(Links, l, i + 1)
    OBVIOUS
  <2>2. /\ i \in 2..m /\ i - 2 \in 0..m /\ (i - 2) + 1 = i - 1
        /\ i - 2 \in 0..(m + 1) /\ i - 1 \in 0..(m + 1) /\ i \in 0..(m + 1)
        /\ i + 1 \in 0..(m + 1) /\ i - 2 # i - 1 /\ i - 2 # i /\ i - 1 # i
        /\ i + 1 # i /\ i + 1 # i - 1
    BY <1>2, <1>4, <1>8
  <2>3. a \in Place /\ b \in Place /\ temp \in Place /\ n \in Place
    BY <1>2, <1>3, <1>5, <2>1, <2>2
  <2>4. a # temp /\ a # n /\ temp # n /\ b # n /\ b # temp
    <3>1. ASSUME NEW j \in 0..(m + 1), NEW k \in 0..(m + 1), j # k
          PROVE  At(Links, l, j) # At(Links, l, k)
      BY <1>1, <1>2, <3>1, AtApart
    <3>2. QED
      BY <1>3, <1>5, <2>1, <2>2, <3>1
  <2>5. pred[temp] = a /\ a # None /\ succ[n] = b
    BY <1>2, <1>3, <1>4, <1>5, <2>1, <2>2, <2>3, PlaceIsSome
  <2>6. /\ succ' = [succ EXCEPT ![a] = n, ![temp] = b, ![n] = temp]
        /\ pred' = [pred EXCEPT ![n] = a, ![temp] = n, ![b] = temp]
        /\ got' = <<>>
    BY <1>5, <2>5 DEF Lists!NodeUp
  <2>7. Swapped(a, temp, n, b, succ, pred, succ', pred')
    <3>1. PICK sc2, pd2 : /\ sc2 = [succ EXCEPT ![a] = n, ![temp] = b, ![n] = temp]
                          /\ pd2 = [pred EXCEPT ![n] = a, ![temp] = n, ![b] = temp]
      OBVIOUS
    <3>2. Swapped(a, temp, n, b, succ, pred, sc2, pd2)
      BY <1>2, <2>3, <2>4, <3>1, SwappedBy
    <3>3. QED
      BY <2>6, <3>1, <3>2
  <2>8. PICK t : t = [q EXCEPT ![i] = q[i - 1], ![i - 1] = q[i]]
    OBVIOUS
  <2>9. ListsIInv' /\ Links' = [Links EXCEPT ![l] = t]
    <3>1. /\ i \in 2..Len(Links[l])
          /\ Swapped(At(Links, l, i - 2), At(Links, l, i - 1), At(Links, l, i),
                     At(Links, l, i + 1), succ, pred, succ', pred')
      BY <1>1, <1>3, <1>5, <2>1, <2>2, <2>7
    <3>2. QED
      BY <1>1, <2>8, <3>1, SwapStep
  <2>10. Lists!Abstract!Becomes(l, t, <<>>)
    BY <2>6, <2>9, AbstractBecomes
  <2>11. QED
    BY <1>1, <1>2, <1>4, <1>6, <1>8, <2>8, <2>9, <2>10 DEF Lists!Abstract!Up
<1>9. QED
  BY <1>7, <1>8

(* TDestroyList takes every node off, in order.                            *)
LEMMA DestroyStep ==
  ASSUME ListsIInv, NEW l \in List, Lists!DestroyList(l)
  PROVE  ListsIInv' /\ Lists!Abstract!Clear(l)
<1>1. PICK q : q = Links[l]
  OBVIOUS
<1>2. /\ Lists!Forward(l) = q /\ DOMAIN q = 1..Len(q) /\ \A i \in 1..Len(q) : q[i] \in Node
      /\ succ \in Pointers /\ pred \in Pointers
      /\ Lists!HeadOf(l) \in Place /\ Lists!TailOf(l) \in Place
  BY <1>1, ListSeen DEF Place, Lists!Place, Lists!HeadOf, Lists!TailOf
<1>3. /\ succ' = [succ EXCEPT ![Lists!HeadOf(l)] = Lists!TailOf(l)]
      /\ pred' = [p \in Place |-> IF p \in Lists!Elements(l) \cup {Lists!TailOf(l)}
                                  THEN Lists!HeadOf(l) ELSE pred[p]]
      /\ got' = q
  BY <1>2 DEF Lists!DestroyList, Place
<1>4. \A p : p \in Lists!Elements(l) <=> \E i \in 1..Len(q) : q[i] = p
  BY <1>2 DEF Lists!Elements
<1>5. PICK sc2, pd2 : sc2 = succ' /\ pd2 = pred'
  OBVIOUS
<1>6. /\ sc2 \in Pointers
      /\ \A p \in Place : sc2[p] = IF p = Lists!HeadOf(l) THEN Lists!TailOf(l) ELSE succ[p]
  BY <1>2, <1>3, <1>5 DEF Pointers
<1>7. /\ pd2 \in Pointers
      /\ \A p \in Place : pd2[p] = IF p = Lists!TailOf(l) \/ \E j \in 1..Len(q) : q[j] = p
                                   THEN Lists!HeadOf(l) ELSE pred[p]
  BY <1>2, <1>3, <1>4, <1>5 DEF Pointers
<1>8. Cleared(l, q, succ, pred, sc2, pd2)
  BY <1>6, <1>7 DEF Cleared
<1>9. ListsIInv' /\ Links' = [Links EXCEPT ![l] = <<>>]
  BY <1>1, <1>5, <1>8, ClearStep
<1>10. Lists!Abstract!Becomes(l, <<>>, q)
  BY <1>3, <1>9, AbstractBecomes
<1>11. [k \in List |-> Lists!Linked(k)][l] = q
  BY <1>1, LinksSeen
<1>12. QED
  BY <1>9, <1>10, <1>11 DEF Lists!Abstract!Clear

(* TFindHandle finds the first that matches.                               *)
FirstOf(q, named) ==
  LET same == {i \in DOMAIN q : q[i] \in named} IN
  IF same = {} THEN <<>> ELSE <<q[CHOOSE i \in same : \A j \in same : i <= j]>>

(* TFindHandle changes no list and returns the first match.                *)
LEMMA FindStep ==
  ASSUME ListsIInv, NEW l \in List, NEW named, Lists!FindHandle(l, named)
  PROVE  /\ ListsIInv' /\ Links' = [Links EXCEPT ![l] = Links[l]]
         /\ got' = FirstOf(Links[l], named)
<1>1. Lists!Forward(l) = Links[l] /\ Links \in [List -> Seq(Node)]
  BY ListSeen
<1>2. UNCHANGED <<succ, pred>>
  BY DEF Lists!FindHandle
<1>3. ListsIInv' /\ Links' = Links
  BY <1>2, SameStep
<1>4. Links' = [Links EXCEPT ![l] = Links[l]]
  BY <1>1, <1>3
<1>5. got' = FirstOf(Lists!Forward(l), named)
  BY DEF Lists!FindHandle, FirstOf
<1>6. QED
  BY <1>1, <1>3, <1>4, <1>5

(* Without a name, that is the first handle that has none.                 *)
LEMMA FindUnnamedStep ==
  ASSUME ListsIInv, NEW l \in List, Lists!FindHandle(l, Unnamed)
  PROVE  ListsIInv' /\ Lists!Abstract!FindUnnamed(l)
<1>1. PICK q, g : q = Links[l] /\ g = got'
  OBVIOUS
<1>2. ListsIInv' /\ Links' = [Links EXCEPT ![l] = q] /\ g = FirstOf(q, Unnamed)
  BY <1>1, FindStep
<1>3. Lists!Abstract!Becomes(l, q, g)
  BY <1>1, <1>2, AbstractBecomes
<1>4. [k \in List |-> Lists!Linked(k)][l] = q
  BY <1>1, LinksSeen
<1> DEFINE same == {i \in DOMAIN q : q[i] \in Unnamed}
<1>5. Lists!Abstract!Min(same) = CHOOSE i \in same : \A j \in same : i <= j
  <2> HIDE DEF same
  <2>1. QED
    BY DEF Lists!Abstract!Min
<1>6. g = IF same = {} THEN <<>> ELSE <<q[CHOOSE i \in same : \A j \in same : i <= j]>>
  BY <1>2 DEF FirstOf
<1>7. g = IF same = {} THEN <<>> ELSE <<q[Lists!Abstract!Min(same)]>>
  <2> HIDE DEF same
  <2>1. QED
    BY <1>5, <1>6
<1>8. PICK S : S = [k \in List |-> Lists!Linked(k)]
  OBVIOUS
<1>9. Lists!Abstract!FindUnnamed(l) <=>
        LET found == {i \in DOMAIN S[l] : S[l][i] \in Unnamed} IN
        Lists!Abstract!Becomes(l, S[l], IF found = {} THEN <<>>
                                        ELSE <<S[l][Lists!Abstract!Min(found)]>>)
  BY <1>8 DEF Lists!Abstract!FindUnnamed
<1>10. QED
  BY <1>2, <1>3, <1>4, <1>7, <1>8, <1>9

(* With a name, it is the only one that has it.                            *)
LEMMA FindNamedStep ==
  ASSUME ListsIInv, NEW l \in List, NEW n \in Node, Lists!FindHandle(l, {n})
  PROVE  ListsIInv' /\ Lists!Abstract!Find(l, n)
<1>1. PICK q, g : q = Links[l] /\ g = got'
  OBVIOUS
<1> DEFINE same == {i \in DOMAIN q : q[i] \in {n}}
<1>2. /\ ListsIInv' /\ Links' = [Links EXCEPT ![l] = q]
      /\ g = IF same = {} THEN <<>> ELSE <<q[CHOOSE i \in same : \A j \in same : i <= j]>>
  <2>1. ListsIInv' /\ Links' = [Links EXCEPT ![l] = q] /\ g = FirstOf(q, {n})
    BY <1>1, FindStep
  <2>2. QED
    BY <2>1 DEF FirstOf
<1>3. DOMAIN q \subseteq Nat
  <2>1. DOMAIN q = 1..Len(q) /\ Len(q) \in Nat
    BY <1>1, ListSeen
  <2>2. QED
    BY <2>1
<1>4. [k \in List |-> Lists!Linked(k)][l] = q
  BY <1>1, LinksSeen
<1>5. n \in Lists!Abstract!In(l) <=> same # {}
  BY <1>4 DEF Lists!Abstract!In, Lists!Abstract!Range
<1>6. g = IF n \in Lists!Abstract!In(l) THEN <<n>> ELSE <<>>
  <2>1. CASE same = {}
    BY <1>2, <1>5, <2>1
  <2>2. CASE same # {}
    <3>1. same \in SUBSET Nat
      BY <1>3
    <3>2. \E i \in same : \A j \in same : i <= j
      <4> HIDE DEF same
      <4>1. QED
        BY <2>2, <3>1, LeastNat
    <3>3. PICK i : i = CHOOSE k \in same : \A j \in same : k <= j
      OBVIOUS
    <3>4. i \in same
      <4> HIDE DEF same
      <4>1. QED
        BY <3>2, <3>3
    <3>5. q[i] = n
      BY <3>4
    <3>6. QED
      BY <1>2, <1>5, <2>2, <3>3, <3>5
  <2>3. QED
    BY <2>1, <2>2
<1>7. Lists!Abstract!Becomes(l, q, IF n \in Lists!Abstract!In(l) THEN <<n>> ELSE <<>>)
  BY <1>1, <1>2, <1>6, AbstractBecomes
<1>8. QED
  BY <1>2, <1>4, <1>7 DEF Lists!Abstract!Find
-----------------------------------------------------------------------------
(* The lists are empty at first.                                           *)
LEMMA ListsInit == Lists!Init => ListsIInv /\ Lists!Abstract!Init
<1> SUFFICES ASSUME Lists!Init PROVE ListsIInv /\ Lists!Abstract!Init
  OBVIOUS
<1>1. PICK s : s = [l \in List |-> <<>>]
  OBVIOUS
<1>2. \A l \in List : s[l] = <<>> /\ Len(s[l]) = 0
  BY <1>1
<1>3. Apart(s)
  <2>1. s \in [List -> Seq(Node)]
    BY <1>1
  <2>2. \A l \in List : 1..Len(s[l]) = {}
    BY <1>2
  <2>3. QED
    BY <2>1, <2>2 DEF Apart
<1>4. /\ \A l \in List : Lists!HeadOf(l) \in Place /\ Lists!TailOf(l) \in Place
      /\ \A k, l \in List : Lists!HeadOf(k) # Lists!TailOf(l)
      /\ \A l \in List : Lists!HeadOf(l)[1] = l /\ Lists!TailOf(l)[1] = l
  BY DEF Place, Lists!Place, Lists!HeadOf, Lists!TailOf
<1>5. /\ succ = [p \in Place |-> IF \E l \in List : p = Lists!HeadOf(l)
                                 THEN Lists!TailOf(p[1]) ELSE None]
      /\ pred = [p \in Place |-> IF \E l \in List : p = Lists!TailOf(l)
                                 THEN Lists!HeadOf(p[1]) ELSE None]
      /\ got = <<>>
  BY DEF Lists!Init, Place
<1>6. /\ \A l \in List : succ[Lists!HeadOf(l)] = Lists!TailOf(l)
      /\ \A l \in List : succ[Lists!TailOf(l)] = None
  BY <1>4, <1>5
<1>7. /\ \A l \in List : pred[Lists!TailOf(l)] = Lists!HeadOf(l)
      /\ \A l \in List : pred[Lists!HeadOf(l)] = None
  BY <1>4, <1>5
<1>8. Joins(s, succ, pred)
  <2>1. ASSUME NEW l \in List, NEW i \in 0..Len(s[l])
        PROVE  succ[At(s, l, i)] = At(s, l, i + 1) /\ pred[At(s, l, i + 1)] = At(s, l, i)
    <3>1. i = 0 /\ i + 1 = 1
      BY <1>2
    <3>2. At(s, l, 0) = Lists!HeadOf(l) /\ At(s, l, 1) = Lists!TailOf(l)
      BY <1>2 DEF At
    <3>3. QED
      BY <1>6, <1>7, <3>1, <3>2
  <2>2. QED
    BY <2>1 DEF Joins
<1>9. succ \in Pointers /\ pred \in Pointers
  <2>1. ASSUME NEW p \in Place, NEW l \in List, p = Lists!HeadOf(l)
        PROVE  Lists!TailOf(p[1]) \in Place
    BY <1>4, <2>1
  <2>2. ASSUME NEW p \in Place, NEW l \in List, p = Lists!TailOf(l)
        PROVE  Lists!HeadOf(p[1]) \in Place
    BY <1>4, <2>2
  <2>3. QED
    BY <1>5, <2>1, <2>2 DEF Pointers
<1>10. Represents(s, succ, pred)
  BY <1>3, <1>6, <1>7, <1>8, <1>9 DEF Represents, Ends
<1>11. Links = s
  BY <1>10, LinksAre DEF Links
<1>12. QED
  BY <1>1, <1>5, <1>10, <1>11, LinksSeen DEF ListsIInv, Lists!Abstract!Init

(* Every call keeps them lists and does what it would to the sequences.    *)
LEMMA ListsNext ==
  ASSUME ListsIInv, Lists!Next PROVE ListsIInv' /\ Lists!Abstract!Next
<1>1. ASSUME NEW l \in List, Lists!RemHead(l) PROVE ListsIInv' /\ Lists!Abstract!Next
  BY <1>1, RemHeadStep DEF Lists!Abstract!Next
<1>2. ASSUME NEW l \in List, Lists!RemTail(l) PROVE ListsIInv' /\ Lists!Abstract!Next
  BY <1>2, RemTailStep DEF Lists!Abstract!Next
<1>3. ASSUME NEW l \in List, Lists!DestroyList(l) PROVE ListsIInv' /\ Lists!Abstract!Next
  BY <1>3, DestroyStep DEF Lists!Abstract!Next
<1>4. ASSUME NEW l \in List, Lists!FindHandle(l, Unnamed)
      PROVE  ListsIInv' /\ Lists!Abstract!Next
  BY <1>4, FindUnnamedStep DEF Lists!Abstract!Next
<1>5. ASSUME NEW l \in List, NEW n \in Node \ Unnamed, Lists!FindHandle(l, {n})
      PROVE  ListsIInv' /\ Lists!Abstract!Next
  BY <1>5, FindNamedStep DEF Lists!Abstract!Next
<1>6. ASSUME NEW l \in List, NEW n \in Node, Lists!IsFree(n),
             \/ Lists!AddHead(l, n) \/ Lists!AddTail(l, n)
             \/ \E p \in Lists!Elements(l) \cup {None, Lists!HeadOf(l), Lists!TailOf(l)} :
                  Lists!Insert(l, n, p)
      PROVE  ListsIInv' /\ Lists!Abstract!Next
  <2>1. ListsIInv' /\ \E i \in 1..(Len(Links[l]) + 1) : Lists!Abstract!Add(l, n, i)
    BY <1>6, AddHeadStep, AddTailStep, InsertStep
  <2>2. [k \in List |-> Lists!Linked(k)][l] = Links[l]
    BY LinksSeen
  <2>3. QED
    BY <2>1, <2>2 DEF Lists!Abstract!Next
<1>7. ASSUME NEW n \in Node, Lists!InList(n), Lists!Unlink(n) \/ Lists!NodeUp(n)
      PROVE  ListsIInv' /\ Lists!Abstract!Next
  <2>1. PICK l \in List : \E i \in 1..Len(Links[l]) : Links[l][i] = n
    BY <1>7, InSeen
  <2>2. PICK i \in 1..Len(Links[l]) : Links[l][i] = n
    BY <2>1
  <2>3. /\ ListsIInv' /\ i \in DOMAIN Links[l]
        /\ Lists!Abstract!Drop(l, i) \/ Lists!Abstract!Up(l, i)
    BY <1>7, <2>2, UnlinkStep, NodeUpStep
  <2>4. [k \in List |-> Lists!Linked(k)][l] = Links[l]
    BY LinksSeen
  <2>5. QED
    BY <2>3, <2>4 DEF Lists!Abstract!Next
<1>8. QED
  BY <1>1, <1>2, <1>3, <1>4, <1>5, <1>6, <1>7 DEF Lists!Next

(* The pointers of every list, forward and backward, are those of a        *)
(* sequence of nodes; no node is in two of them.                           *)
THEOREM ListsInvariant == LibSpec => []ListsIInv
<1>1. LibInit => ListsIInv
  BY ListsInit DEF LibInit
<1>2. ListsIInv /\ [LibNext]_libvars => ListsIInv'
  <2> SUFFICES ASSUME ListsIInv, [LibNext]_libvars PROVE ListsIInv'
    OBVIOUS
  <2>1. Lists!Next \/ UNCHANGED <<succ, pred>>
    BY DEF LibNext, libvars, listvars
  <2>2. QED
    BY <2>1, ListsNext, SameStep
<1>3. QED
  BY <1>1, <1>2, PTL DEF LibSpec

(* Every operation of teklib's doubly linked lists, with any nodes and     *)
(* lists and in any order, does to them and returns what NodeList says     *)
(* of sequences.                                                           *)
THEOREM ListsAreNodeLists == LibSpec => ImplementsNodeList
<1>1. LibInit => Lists!Abstract!Init
  BY ListsInit DEF LibInit
<1>2. ListsIInv /\ [LibNext]_libvars => [Lists!Abstract!Next]_(Lists!Abstract!vars)
  <2> SUFFICES ASSUME ListsIInv, [LibNext]_libvars
               PROVE  [Lists!Abstract!Next]_(Lists!Abstract!vars)
    OBVIOUS
  <2>1. Lists!Next \/ UNCHANGED <<succ, pred, got>>
    BY DEF LibNext, libvars, listvars
  <2>2. CASE Lists!Next
    BY <2>2, ListsNext
  <2>3. CASE UNCHANGED <<succ, pred, got>>
    <3>1. Links' = Links
      BY <2>3, SameStep
    <3>2. UNCHANGED Lists!Abstract!vars
      BY <2>3, <3>1, LinksSeen DEF Lists!Abstract!vars
    <3>3. QED
      BY <3>2
  <2>4. QED
    BY <2>1, <2>2, <2>3
<1>3. QED
  BY <1>1, <1>2, ListsInvariant, PTL
     DEF LibSpec, ImplementsNodeList, Lists!ImplementsNodeList, Lists!Abstract!Spec
-----------------------------------------------------------------------------
(* A step of the library is one of ExecMemory, or leaves the memory alone: *)
(* what ExecMemoryProofs shows of its managers and pools holds here.       *)
THEOREM MemoryIsPart == LibSpec => Spec
<1>1. LibInit => Init
  BY DEF LibInit
<1>2. [LibNext]_libvars => [Next]_vars
  BY DEF LibNext, libvars
<1>3. QED
  BY <1>1, <1>2, PTL DEF LibSpec, Spec

(* Every piece of the host's memory has one owner, whatever fails in       *)
(* TAlloc, TRealloc or TCreateMemManager, and is returned as a whole.      *)
THEOREM LibraryMemoryIsOwned == LibSpec => []HostMemoryIsOwned
  BY MemoryIsPart, MemoryIsOwned

(* TAllocPool, TReallocPool and TFreePool lose no byte of a puddle, give   *)
(* none away twice, and overlook no puddle that has room.                  *)
THEOREM LibraryPuddlesAreSound == LibSpec => []PuddlesAreSound
  BY MemoryIsPart, PoolMemoryIsSound

(* A new puddle has room for the block that exec_AllocPool wants it for.   *)
THEOREM LibraryPoolServes == LibSpec => []PoolServes
  BY MemoryIsPart, PoolAlwaysServes

(* Blocks of a pool do not overlap, and keep their contents while others   *)
(* are allocated, resized, moved and freed.                                *)
THEOREM LibraryPoolsAreHeaps == LibSpec => ImplementsHeap
  BY MemoryIsPart, PoolsAreHeaps
=============================================================================
